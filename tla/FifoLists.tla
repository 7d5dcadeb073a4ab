------------------------------ MODULE FifoLists ------------------------------
(***************************************************************************)
(* What the list functions of sherry.c promise to their callers: each list *)
(* is a sequence of nodes, a node is in one list at most.                  *)
(***************************************************************************)
EXTENDS SequencesExt

CONSTANTS List, Node, Null

VARIABLES
  q,    \* the nodes of each list, in order
  ret   \* what the last call returned

flvars == <<q, ret>>

In(n, l) == n \in Range(q[l])
Free(n) == \A l \in List : ~In(n, l)

FLInit == q = [l \in List |-> <<>>] /\ ret = Null

\* Before the node it, or at the end.
Insert(l, n, it) ==
  /\ Free(n)
  /\ \/ it = Null /\ q' = [q EXCEPT ![l] = Append(@, n)]
     \/ \E i \in DOMAIN q[l] : q[l][i] = it /\ q' = [q EXCEPT ![l] = InsertAt(@, i, n)]
  /\ UNCHANGED ret

\* The node after n is returned.
Erase(l, n) ==
  \E i \in DOMAIN q[l] :
    /\ q[l][i] = n
    /\ q' = [q EXCEPT ![l] = RemoveAt(@, i)]
    /\ ret' = IF i < Len(q[l]) THEN q[l][i + 1] ELSE Null

Pop(l) ==
  \/ q[l] = <<>> /\ ret' = Null /\ UNCHANGED q
  \/ q[l] # <<>> /\ ret' = Head(q[l]) /\ q' = [q EXCEPT ![l] = Tail(@)]

FLNext ==
  \E l \in List :
    \/ \E n \in Node, it \in Node \cup {Null} : Insert(l, n, it)
    \/ \E n \in Node : Erase(l, n)
    \/ Pop(l)

FLSpec == FLInit /\ [][FLNext]_flvars
=============================================================================
