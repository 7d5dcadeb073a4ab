---------------------------- MODULE IntrusiveList ----------------------------
(***************************************************************************)
(* The double linked lists of sherry.c, pointer by pointer.  The nodes are *)
(* members of the structs they link, so the list functions allocate        *)
(* nothing and trust their callers: a node to insert is in no list, a node *)
(* to erase is in the list.  For the nodes of actors Sched shows that the  *)
(* callers keep to it (OneQueuePerNode); a message node is enqueued once,  *)
(* when it is new.                                                         *)
(***************************************************************************)
EXTENDS Integers, Sequences, FiniteSets

CONSTANTS List, Node, Null

ASSUME ListAssumption == IsFiniteSet(Node) /\ Null \notin Node /\ Null \notin List

VARIABLES
  head, tail,  \* struct list
  prev, next,  \* struct list_node
  where,       \* the list the callers have put a node into, or Null
  ret          \* what the last call returned

vars == <<head, tail, prev, next, where, ret>>

Ptr == Node \cup {Null}

-----------------------------------------------------------------------------
\* Both list heads and all nodes start out cleared (list_init, new_actor).
Init ==
  /\ head = [l \in List |-> Null]
  /\ tail = [l \in List |-> Null]
  /\ prev = [n \in Node |-> Null]
  /\ next = [n \in Node |-> Null]
  /\ where = [n \in Node |-> Null]
  /\ ret = Null

\* p->field = v, under the test if(p)
Store(field, p, v) == IF p = Null THEN field ELSE [field EXCEPT ![p] = v]

\* Mutant: the node behind the new one is not told of it.
list_insertOneWay(self, item, it) ==
  LET before == IF it = Null THEN tail[self] ELSE prev[it]
  IN  /\ prev' = [prev EXCEPT ![item] = before]
      /\ next' = Store([next EXCEPT ![item] = it], before, item)
      /\ head' = IF head[self] \in {Null, it} THEN [head EXCEPT ![self] = item] ELSE head
      /\ tail' = IF it = Null THEN [tail EXCEPT ![self] = item] ELSE tail
      /\ where' = [where EXCEPT ![item] = self]
      /\ UNCHANGED ret

list_insert(self, item, it) ==
  LET before == IF it = Null THEN tail[self] ELSE prev[it]
  IN  /\ prev' = Store([prev EXCEPT ![item] = before], it, item)
      /\ next' = Store([next EXCEPT ![item] = it], before, item)
      /\ head' = IF head[self] \in {Null, it} THEN [head EXCEPT ![self] = item] ELSE head
      /\ tail' = IF it = Null THEN [tail EXCEPT ![self] = item] ELSE tail
      /\ where' = [where EXCEPT ![item] = self]
      /\ UNCHANGED ret

\* Mutant: the last node leaves and the tail still points to it.
unlinkKeepTail(self, item) ==
  /\ next' = Store([next EXCEPT ![item] = Null], prev[item], next[item])
  /\ prev' = Store([prev EXCEPT ![item] = Null], next[item], prev[item])
  /\ head' = IF prev[item] = Null THEN [head EXCEPT ![self] = next[item]] ELSE head
  /\ where' = [where EXCEPT ![item] = Null]
  /\ UNCHANGED tail

\* The body of list_erase.
unlink(self, item) ==
  /\ next' = Store([next EXCEPT ![item] = Null], prev[item], next[item])
  /\ prev' = Store([prev EXCEPT ![item] = Null], next[item], prev[item])
  /\ head' = IF prev[item] = Null THEN [head EXCEPT ![self] = next[item]] ELSE head
  /\ tail' = IF next[item] = Null THEN [tail EXCEPT ![self] = prev[item]] ELSE tail
  /\ where' = [where EXCEPT ![item] = Null]

list_erase(self, item) == unlink(self, item) /\ ret' = next[item]

list_enqueue(q, node) == list_insert(q, node, Null)

list_dequeue(q) ==
  \/ /\ head[q] = Null
     /\ ret' = Null
     /\ UNCHANGED <<head, tail, prev, next, where>>
  \/ /\ head[q] # Null
     /\ unlink(q, head[q])
     /\ ret' = head[q]

-----------------------------------------------------------------------------
Free(n) == where[n] = Null
In(n, l) == where[n] = l

Next ==
  \E l \in List :
    \/ \E n \in Node, it \in Node : Free(n) /\ In(it, l) /\ list_insert(l, n, it)
    \/ \E n \in Node : Free(n) /\ list_enqueue(l, n)
    \/ \E n \in Node : In(n, l) /\ list_erase(l, n)
    \/ list_dequeue(l)

Spec == Init /\ [][Next]_vars

-----------------------------------------------------------------------------
(* Properties *)

TypeOK ==
  /\ head \in [List -> Ptr] /\ tail \in [List -> Ptr]
  /\ prev \in [Node -> Ptr] /\ next \in [Node -> Ptr]
  /\ where \in [Node -> List \cup {Null}]
  /\ ret \in Ptr

\* The links of neighbours agree, the ends of a list and its two pointers agree,
\* no link leaves the list, and the links of a free node are clear: the tests
\* for NULL in list_insert and list_erase always take the right branch.
LinksAgree ==
  /\ \A l \in List : \A n \in Node : In(n, l) =>
       /\ prev[n] = Null <=> head[l] = n
       /\ next[n] = Null <=> tail[l] = n
       /\ prev[n] # Null => In(prev[n], l) /\ next[prev[n]] = n
       /\ next[n] # Null => In(next[n], l) /\ prev[next[n]] = n
  /\ \A l \in List :
       /\ head[l] # Null => In(head[l], l)
       /\ tail[l] # Null => In(tail[l], l)
       /\ head[l] = Null <=> tail[l] = Null
  /\ \A n \in Node : Free(n) => prev[n] = Null /\ next[n] = Null

\* The nodes met from the node h on along nx; a cycle would show as a node met twice.
Walk(h, nx) ==
  LET nth[i \in 1..(Cardinality(Node) + 1)] ==
        IF i = 1 THEN h ELSE IF nth[i - 1] = Null THEN Null ELSE nx[nth[i - 1]]
  IN  [i \in {j \in DOMAIN nth : nth[j] # Null} |-> nth[i]]

FL == INSTANCE FifoLists WITH q <- [l \in List |-> Walk(head[l], next)]

\* The pointers implement sequences, and the returned nodes are the right ones.
ImplementsFifoLists == FL!FLSpec
=============================================================================
