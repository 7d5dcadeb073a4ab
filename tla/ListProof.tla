------------------------------ MODULE ListProof ------------------------------
(***************************************************************************)
(* The links of the intrusive lists agree after every call, however many   *)
(* nodes and lists there are.  LinksAgree alone is not inductive: a cycle  *)
(* apart from head and tail would satisfy it, and then an insertion before *)
(* a node of the cycle would go wrong.  The invariant is that the pointers *)
(* of each list represent some sequence of distinct nodes.                 *)
(***************************************************************************)
EXTENDS IntrusiveList, FiniteSetTheorems, SequenceTheorems, WellFoundedInduction, TLAPS

\* The nodes of l are those of s, each once, linked in the order of s.
Represents(l, s) ==
  /\ \A i \in 1..Len(s) :
       /\ In(s[i], l)
       /\ prev[s[i]] = IF i = 1 THEN Null ELSE s[i - 1]
       /\ next[s[i]] = IF i = Len(s) THEN Null ELSE s[i + 1]
  /\ \A i, j \in 1..Len(s) : s[i] = s[j] => i = j
  /\ \A n \in Node : In(n, l) => \E i \in 1..Len(s) : s[i] = n
  /\ head[l] = IF Len(s) = 0 THEN Null ELSE s[1]
  /\ tail[l] = IF Len(s) = 0 THEN Null ELSE s[Len(s)]

Ordered == \A l \in List : \E s \in Seq(Node) : Represents(l, s)
FreeClear == \A n \in Node : Free(n) => prev[n] = Null /\ next[n] = Null

LInv == TypeOK /\ Ordered /\ FreeClear

\* A sequence with n at position j, and without what is there.
Inserted(s, j, n) ==
  [i \in 1..(Len(s) + 1) |-> IF i < j THEN s[i] ELSE IF i = j THEN n ELSE s[i - 1]]
Removed(s, j) == [i \in 1..(Len(s) - 1) |-> IF i < j THEN s[i] ELSE s[i + 1]]

\* A call has made t the sequence of l and left the other lists alone.
Leaves(l, t) ==
  /\ t \in Seq(Node) /\ Represents(l, t)'
  /\ \A k \in List \ {l} : \A u \in Seq(Node) : Represents(k, u) => Represents(k, u)'

-----------------------------------------------------------------------------
LEMMA OrderedLinks == LInv => LinksAgree
<1> SUFFICES ASSUME LInv  PROVE LinksAgree
  OBVIOUS
<1> USE ListAssumption DEF LInv, Ptr
<1>1. ASSUME NEW l \in List
      PROVE  /\ \A n \in Node : In(n, l) =>
                  /\ prev[n] = Null <=> head[l] = n
                  /\ next[n] = Null <=> tail[l] = n
                  /\ prev[n] # Null => In(prev[n], l) /\ next[prev[n]] = n
                  /\ next[n] # Null => In(next[n], l) /\ prev[next[n]] = n
             /\ head[l] # Null => In(head[l], l)
             /\ tail[l] # Null => In(tail[l], l)
             /\ head[l] = Null <=> tail[l] = Null
  <2>1. PICK s \in Seq(Node) : Represents(l, s)
    BY DEF Ordered
  <2>2. ASSUME NEW n \in Node, In(n, l)
        PROVE  /\ prev[n] = Null <=> head[l] = n
               /\ next[n] = Null <=> tail[l] = n
               /\ prev[n] # Null => In(prev[n], l) /\ next[prev[n]] = n
               /\ next[n] # Null => In(next[n], l) /\ prev[next[n]] = n
    <3>1. PICK i \in 1..Len(s) : s[i] = n
      BY <2>1, <2>2 DEF Represents
    <3>2. Len(s) \in Nat /\ \A j \in 1..Len(s) : s[j] \in Node
      BY <2>1
    <3>3. /\ prev[n] = Null <=> i = 1
          /\ next[n] = Null <=> i = Len(s)
      BY <2>1, <3>1, <3>2 DEF Represents
    <3>4. prev[n] = Null <=> head[l] = n
      BY <2>1, <3>1, <3>2, <3>3 DEF Represents
    <3>5. next[n] = Null <=> tail[l] = n
      BY <2>1, <3>1, <3>2, <3>3 DEF Represents
    <3>6. prev[n] # Null => In(prev[n], l) /\ next[prev[n]] = n
      <4> SUFFICES ASSUME prev[n] # Null  PROVE In(prev[n], l) /\ next[prev[n]] = n
        OBVIOUS
      <4>1. i - 1 \in 1..Len(s) /\ (i - 1) + 1 = i /\ i - 1 # Len(s) /\ prev[n] = s[i - 1]
        BY <2>1, <3>1, <3>2, <3>3 DEF Represents
      <4> QED BY <2>1, <3>1, <4>1 DEF Represents
    <3>7. next[n] # Null => In(next[n], l) /\ prev[next[n]] = n
      <4> SUFFICES ASSUME next[n] # Null  PROVE In(next[n], l) /\ prev[next[n]] = n
        OBVIOUS
      <4>1. i + 1 \in 1..Len(s) /\ (i + 1) - 1 = i /\ i + 1 # 1 /\ next[n] = s[i + 1]
        BY <2>1, <3>1, <3>2, <3>3 DEF Represents
      <4> QED BY <2>1, <3>1, <4>1 DEF Represents
    <3> QED BY <3>4, <3>5, <3>6, <3>7
  <2>3. /\ head[l] # Null => In(head[l], l)
        /\ tail[l] # Null => In(tail[l], l)
        /\ head[l] = Null <=> tail[l] = Null
    BY <2>1 DEF Represents
  <2> QED BY <2>2, <2>3
<1> QED BY <1>1 DEF LinksAgree, FreeClear

LEMMA LinksInit == Init => LInv
<1> SUFFICES ASSUME Init  PROVE LInv
  OBVIOUS
<1> USE ListAssumption
<1>1. ASSUME NEW l \in List  PROVE Represents(l, <<>>)
  BY DEF Init, Represents, In
<1>2. <<>> \in Seq(Node)
  OBVIOUS
<1>3. TypeOK /\ FreeClear
  BY DEF Init, TypeOK, FreeClear, Ptr
<1> QED BY <1>1, <1>2, <1>3 DEF LInv, Ordered

\* A list keeps its order when neither its pointers nor its nodes change.
LEMMA OtherList ==
  ASSUME NEW k \in List, NEW s \in Seq(Node), Represents(k, s),
         head'[k] = head[k], tail'[k] = tail[k],
         \A m \in Node : In(m, k)' <=> In(m, k),
         \A m \in Node : In(m, k) => prev'[m] = prev[m] /\ next'[m] = next[m]
  PROVE  Represents(k, s)'
<1>1. \A i \in 1..Len(s) : s[i] \in Node
  OBVIOUS
<1> QED BY <1>1 DEF Represents

LEMMA LinksFrame ==
  ASSUME LInv, UNCHANGED <<head, tail, prev, next, where>>, ret' \in Ptr
  PROVE  LInv'
<1>1. \A l \in List : \A s \in Seq(Node) : Represents(l, s) => Represents(l, s)'
  <2> SUFFICES ASSUME NEW l \in List, NEW s \in Seq(Node), Represents(l, s)
              PROVE  Represents(l, s)'
    OBVIOUS
  <2> QED BY OtherList DEF In
<1>2. Ordered'
  BY <1>1 DEF LInv, Ordered
<1>3. TypeOK' /\ FreeClear'
  BY DEF LInv, TypeOK, FreeClear, Free, In, Ptr
<1> QED BY <1>2, <1>3 DEF LInv

\* The new node goes to position j of the sequence.
LEMMA LinksInsert ==
  ASSUME LInv, NEW l \in List, NEW n \in Node, Free(n),
         NEW it \in Ptr, it # Null => In(it, l),
         list_insert(l, n, it)
  PROVE  /\ LInv'
         /\ \E s \in Seq(Node) : \E j \in 1..(Len(s) + 1) :
              /\ Represents(l, s) /\ it = IF j = Len(s) + 1 THEN Null ELSE s[j]
              /\ Leaves(l, Inserted(s, j, n))
<1> USE ListAssumption DEF LInv, Ptr
<1>1. PICK s \in Seq(Node) : Represents(l, s)
  BY DEF Ordered
<1>2. Len(s) \in Nat /\ (\A i \in 1..Len(s) : s[i] \in Node)
  BY <1>1
<1>3. PICK j \in 1..(Len(s) + 1) : it = IF j = Len(s) + 1 THEN Null ELSE s[j]
  <2>1. CASE it = Null
    <3>1. Len(s) + 1 \in 1..(Len(s) + 1)
      BY <1>2
    <3> QED BY <2>1, <3>1
  <2>2. CASE it # Null
    <3>1. PICK i \in 1..Len(s) : s[i] = it
      BY <1>1, <2>2 DEF Represents
    <3>2. i \in 1..(Len(s) + 1) /\ i # Len(s) + 1
      BY <1>2, <3>1
    <3> QED BY <3>1, <3>2
  <2> QED BY <2>1, <2>2
<1> DEFINE before == IF j = 1 THEN Null ELSE s[j - 1]
           t == Inserted(s, j, n)
<1>4. before = IF it = Null THEN tail[l] ELSE prev[it]
  BY <1>1, <1>2, <1>3 DEF Represents
<1>5. before \in Ptr /\ before # n /\ it # n /\ (before # Null => In(before, l))
  <2>1. j # 1 => j - 1 \in 1..Len(s)
    BY <1>2, <1>3
  <2>2. before # Null => before \in Node /\ In(before, l)
    BY <1>1, <1>2, <2>1 DEF Represents
  <2> QED BY <2>2 DEF In, Free
<1>6. head[l] \in {Null, it} <=> before = Null
  <2>1. CASE Len(s) = 0
    BY <1>1, <1>2, <1>3, <2>1 DEF Represents
  <2>2. CASE Len(s) # 0 /\ j = 1
    BY <1>1, <1>2, <1>3, <2>2 DEF Represents
  <2>3. CASE Len(s) # 0 /\ j # 1
    <3>1. before # Null /\ head[l] = s[1] /\ head[l] # Null
      BY <1>1, <1>2, <1>3, <2>3 DEF Represents
    <3>2. it # s[1]
      BY <1>1, <1>2, <1>3, <2>3 DEF Represents
    <3> QED BY <3>1, <3>2
  <2> QED BY <2>1, <2>2, <2>3
<1>7. /\ prev' = Store([prev EXCEPT ![n] = before], it, n)
      /\ next' = Store([next EXCEPT ![n] = it], before, n)
      /\ head' = IF before = Null THEN [head EXCEPT ![l] = n] ELSE head
      /\ tail' = IF it = Null THEN [tail EXCEPT ![l] = n] ELSE tail
      /\ where' = [where EXCEPT ![n] = l]
      /\ ret' = ret
  BY <1>4, <1>6 DEF list_insert
<1> HIDE DEF before
<1>8. TypeOK'
  BY <1>5, <1>7 DEF TypeOK, Store
<1>9. /\ \A m \in Node : prev'[m] = IF m = n THEN before ELSE IF m = it THEN n ELSE prev[m]
      /\ \A m \in Node : next'[m] = IF m = n THEN it ELSE IF m = before THEN n ELSE next[m]
      /\ \A m \in Node : where'[m] = IF m = n THEN l ELSE where[m]
  <2>1. \A m \in Node : prev'[m] = IF m = n THEN before ELSE IF m = it THEN n ELSE prev[m]
    BY <1>5, <1>7 DEF TypeOK, Store
  <2>2. \A m \in Node : next'[m] = IF m = n THEN it ELSE IF m = before THEN n ELSE next[m]
    BY <1>5, <1>7 DEF TypeOK, Store
  <2>3. \A m \in Node : where'[m] = IF m = n THEN l ELSE where[m]
    BY <1>7 DEF TypeOK
  <2> QED BY <2>1, <2>2, <2>3
<1>10. /\ \A k \in List : head'[k] = IF k = l /\ before = Null THEN n ELSE head[k]
       /\ \A k \in List : tail'[k] = IF k = l /\ it = Null THEN n ELSE tail[k]
  BY <1>5, <1>7 DEF TypeOK
<1>11. FreeClear'
  BY <1>5, <1>9 DEF FreeClear, Free, In
<1>12. /\ t \in Seq(Node) /\ Len(t) = Len(s) + 1
       /\ \A i \in 1..Len(t) : t[i] = IF i < j THEN s[i] ELSE IF i = j THEN n ELSE s[i - 1]
  BY <1>2, <1>3 DEF Inserted
<1> HIDE DEF t
<1>13. Represents(l, t)'
  <2>1. \A i \in 1..Len(s) : s[i] # n
    BY <1>1 DEF Represents, In, Free
  <2>2. ASSUME NEW i \in 1..Len(t)
        PROVE  /\ In(t[i], l)'
               /\ prev'[t[i]] = IF i = 1 THEN Null ELSE t[i - 1]
               /\ next'[t[i]] = IF i = Len(t) THEN Null ELSE t[i + 1]
    <3>1. CASE i = j
      BY <1>2, <1>3, <1>9, <1>12, <3>1 DEF In, before
    <3>2. CASE i < j
      <4>1. i \in 1..Len(s) /\ t[i] = s[i] /\ s[i] \in Node /\ s[i] # n
        BY <1>2, <1>3, <1>12, <2>1, <3>2
      <4>2. s[i] # it
        BY <1>1, <1>2, <1>3, <3>2, <4>1 DEF Represents
      <4>3. s[i] = before <=> i = j - 1
        BY <1>1, <1>2, <1>3, <3>2, <4>1 DEF Represents, before
      <4>4. In(t[i], l)' /\ prev'[t[i]] = prev[s[i]]
        BY <1>1, <1>9, <4>1, <4>2 DEF Represents, In
      <4>5. prev'[t[i]] = IF i = 1 THEN Null ELSE t[i - 1]
        BY <1>1, <1>2, <1>3, <1>12, <3>2, <4>1, <4>4 DEF Represents
      <4>6. next'[t[i]] = IF i = Len(t) THEN Null ELSE t[i + 1]
        BY <1>1, <1>2, <1>3, <1>9, <1>12, <3>2, <4>1, <4>3 DEF Represents
      <4> QED BY <4>4, <4>5, <4>6
    <3>3. CASE i > j
      <4>1. i - 1 \in 1..Len(s) /\ t[i] = s[i - 1] /\ s[i - 1] \in Node /\ s[i - 1] # n
        BY <1>2, <1>3, <1>12, <2>1, <3>3
      <4>2. s[i - 1] = it <=> i - 1 = j
        BY <1>1, <1>2, <1>3, <3>3, <4>1 DEF Represents
      <4>3. s[i - 1] # before
        BY <1>1, <1>2, <1>3, <3>3, <4>1 DEF Represents, before
      <4>4. In(t[i], l)' /\ next'[t[i]] = next[s[i - 1]]
        BY <1>1, <1>9, <4>1, <4>3 DEF Represents, In
      <4> DEFINE i1 == i - 1
      <4>5. /\ i1 \in 1..Len(s) /\ i1 + 1 = i /\ i # 1
            /\ i1 = Len(s) <=> i = Len(t)
            /\ i # Len(t) => t[i + 1] = s[i]
            /\ i1 # j => t[i1] = s[i1 - 1] /\ i1 # 1
            /\ t[j] = n
        <5>1. i1 \in 1..Len(s) /\ i1 + 1 = i /\ i # 1 /\ (i1 = Len(s) <=> i = Len(t))
          BY <1>2, <1>3, <1>12, <3>3
        <5>2. i # Len(t) => t[i + 1] = s[i]
          <6> SUFFICES ASSUME i # Len(t)  PROVE t[i + 1] = s[i]
            OBVIOUS
          <6>0. Len(t) \in Nat
            BY <1>2, <1>12
          <6>1. i + 1 \in 1..Len(t) /\ ~(i + 1 < j) /\ i + 1 # j
            BY <6>0, <3>3
          <6>2. PICK k \in 1..Len(t) : k = i + 1
            BY <6>1
          <6>3. t[k] = s[k - 1]
            BY <1>12, <6>1, <6>2
          <6>4. k - 1 = i
            BY <1>2, <1>12, <6>2
          <6> QED BY <6>2, <6>3, <6>4
        <5>3. i1 # j => t[i1] = s[i1 - 1] /\ i1 # 1
          <6>1. i1 # j => i1 \in 1..Len(t) /\ ~(i1 < j) /\ i1 # 1
            BY <1>2, <1>3, <1>12, <3>3
          <6> QED BY <1>12, <6>1
        <5>4. t[j] = n
          BY <1>2, <1>3, <1>12
        <5> QED BY <5>1, <5>2, <5>3, <5>4
      <4> HIDE DEF i1
      <4>6. prev[s[i1]] = (IF i1 = 1 THEN Null ELSE s[i1 - 1])
            /\ next[s[i1]] = (IF i1 = Len(s) THEN Null ELSE s[i1 + 1])
        BY <1>1, <4>5 DEF Represents
      <4>7. prev'[t[i]] = t[i1]
        BY <1>9, <4>1, <4>2, <4>5, <4>6 DEF i1
      <4>8. next'[t[i]] = IF i = Len(t) THEN Null ELSE t[i + 1]
        BY <4>4, <4>5, <4>6 DEF i1
      <4> QED BY <4>4, <4>5, <4>7, <4>8 DEF i1
    <3> QED BY <1>2, <1>3, <1>12, <3>1, <3>2, <3>3
  <2>3. ASSUME NEW i \in 1..Len(t), NEW k \in 1..Len(t), t[i] = t[k]
        PROVE  i = k
    <3> DEFINE old(x) == IF x < j THEN x ELSE x - 1
    <3>1. \A x \in 1..Len(t) : x # j => old(x) \in 1..Len(s) /\ t[x] = s[old(x)]
      BY <1>2, <1>3, <1>12
    <3>2. t[j] = n
      BY <1>3, <1>12
    <3>3. i = j <=> k = j
      BY <2>1, <2>3, <3>1, <3>2
    <3> HIDE DEF old
    <3>4. i # j => old(i) = old(k)
      <4>1. \A x, y \in 1..Len(s) : s[x] = s[y] => x = y
        BY <1>1 DEF Represents
      <4> QED BY <2>3, <3>1, <3>3, <4>1
    <3> USE DEF old
    <3> QED BY <1>2, <1>3, <3>3, <3>4
  <2>4. ASSUME NEW m \in Node, In(m, l)'
        PROVE  \E i \in 1..Len(t) : t[i] = m
    <3>1. CASE m = n
      BY <1>3, <1>12, <3>1
    <3>2. CASE m # n
      <4>1. PICK i \in 1..Len(s) : s[i] = m
        BY <1>1, <1>9, <2>4, <3>2 DEF Represents, In
      <4>2. CASE i < j
        <5>1. i \in 1..Len(t)
          BY <1>2, <1>12, <4>1
        <5>2. t[i] = s[i]
          BY <1>12, <4>2, <5>1
        <5> QED BY <4>1, <5>1, <5>2
      <4>3. CASE i >= j
        <5>1. i + 1 \in 1..Len(t) /\ t[i + 1] = s[i]
          BY <1>2, <1>3, <1>12, <4>1, <4>3
        <5> QED BY <4>1, <5>1
      <4> QED BY <1>3, <4>1, <4>2, <4>3
    <3> QED BY <3>1, <3>2
  <2>5. head'[l] = IF Len(t) = 0 THEN Null ELSE t[1]
    BY <1>1, <1>2, <1>3, <1>10, <1>12 DEF Represents, before
  <2>6. tail'[l] = IF Len(t) = 0 THEN Null ELSE t[Len(t)]
    BY <1>1, <1>2, <1>3, <1>10, <1>12 DEF Represents
  <2> QED BY <2>2, <2>3, <2>4, <2>5, <2>6 DEF Represents
<1>14. ASSUME NEW k \in List, k # l, NEW u \in Seq(Node), Represents(k, u)
       PROVE  Represents(k, u)'
  <2>1. \A m \in Node : In(m, k)' <=> In(m, k)
    BY <1>9, <1>14 DEF In, Free
  <2>2. \A m \in Node : In(m, k) => prev'[m] = prev[m] /\ next'[m] = next[m]
    BY <1>5, <1>9, <1>14 DEF In, Free
  <2> QED BY <1>10, <1>14, <2>1, <2>2, OtherList
<1>15. Ordered'
  BY <1>12, <1>13, <1>14 DEF Ordered
<1>16. Leaves(l, t)
  BY <1>12, <1>13, <1>14 DEF Leaves
<1> QED BY <1>1, <1>3, <1>8, <1>11, <1>15, <1>16 DEF t

\* The node at position j of the sequence leaves: the common part of list_erase
\* and list_dequeue.
LEMMA LinksErase ==
  ASSUME LInv, NEW l \in List, NEW n \in Node, In(n, l), unlink(l, n), ret' \in Ptr
  PROVE  /\ LInv'
         /\ \E s \in Seq(Node) : \E j \in 1..Len(s) :
              Represents(l, s) /\ s[j] = n /\ Leaves(l, Removed(s, j))
<1> USE ListAssumption DEF LInv, Ptr
<1>1. PICK s \in Seq(Node) : Represents(l, s)
  BY DEF Ordered
<1>2. Len(s) \in Nat /\ (\A i \in 1..Len(s) : s[i] \in Node)
  BY <1>1
<1>3. PICK j \in 1..Len(s) : s[j] = n
  BY <1>1 DEF Represents
<1> DEFINE before == IF j = 1 THEN Null ELSE s[j - 1]
           after == IF j = Len(s) THEN Null ELSE s[j + 1]
           t == Removed(s, j)
<1>4. before = prev[n] /\ after = next[n]
  BY <1>1, <1>3 DEF Represents
<1>5. /\ before \in Ptr /\ before # n /\ (before # Null => In(before, l))
      /\ after \in Ptr /\ after # n /\ (after # Null => In(after, l))
      /\ before = Null <=> j = 1
      /\ after = Null <=> j = Len(s)
  <2>1. j # 1 => j - 1 \in 1..Len(s) /\ j - 1 # j
    BY <1>2, <1>3
  <2>2. j # Len(s) => j + 1 \in 1..Len(s) /\ j + 1 # j
    BY <1>2, <1>3
  <2> QED BY <1>1, <1>2, <1>3, <2>1, <2>2 DEF Represents
<1>6. /\ next' = Store([next EXCEPT ![n] = Null], before, after)
      /\ prev' = Store([prev EXCEPT ![n] = Null], after, before)
      /\ head' = IF before = Null THEN [head EXCEPT ![l] = after] ELSE head
      /\ tail' = IF after = Null THEN [tail EXCEPT ![l] = before] ELSE tail
      /\ where' = [where EXCEPT ![n] = Null]
  BY <1>4 DEF unlink
<1> HIDE DEF before, after
<1>7. TypeOK'
  BY <1>5, <1>6 DEF TypeOK, Store
<1>8. /\ \A m \in Node : prev'[m] = IF m = n THEN Null ELSE IF m = after THEN before ELSE prev[m]
      /\ \A m \in Node : next'[m] = IF m = n THEN Null ELSE IF m = before THEN after ELSE next[m]
      /\ \A m \in Node : where'[m] = IF m = n THEN Null ELSE where[m]
  <2>1. \A m \in Node : prev'[m] = IF m = n THEN Null ELSE IF m = after THEN before ELSE prev[m]
    BY <1>5, <1>6 DEF TypeOK, Store
  <2>2. \A m \in Node : next'[m] = IF m = n THEN Null ELSE IF m = before THEN after ELSE next[m]
    BY <1>5, <1>6 DEF TypeOK, Store
  <2>3. \A m \in Node : where'[m] = IF m = n THEN Null ELSE where[m]
    BY <1>6 DEF TypeOK
  <2> QED BY <2>1, <2>2, <2>3
<1>9. /\ \A k \in List : head'[k] = IF k = l /\ before = Null THEN after ELSE head[k]
      /\ \A k \in List : tail'[k] = IF k = l /\ after = Null THEN before ELSE tail[k]
  BY <1>5, <1>6 DEF TypeOK
<1>10. FreeClear'
  BY <1>5, <1>8 DEF FreeClear, Free, In
<1>11. /\ t \in Seq(Node) /\ Len(t) = Len(s) - 1
       /\ \A i \in 1..Len(t) : t[i] = IF i < j THEN s[i] ELSE s[i + 1]
  BY <1>2, <1>3 DEF Removed
<1> HIDE DEF t
<1>12. Represents(l, t)'
  <2>1. ASSUME NEW i \in 1..Len(t)
        PROVE  /\ In(t[i], l)'
               /\ prev'[t[i]] = IF i = 1 THEN Null ELSE t[i - 1]
               /\ next'[t[i]] = IF i = Len(t) THEN Null ELSE t[i + 1]
    <3>1. CASE i < j
      <4>1. i \in 1..Len(s) /\ t[i] = s[i] /\ s[i] \in Node
        BY <1>2, <1>3, <1>11, <3>1
      <4>2. s[i] # n /\ s[i] # after
        BY <1>1, <1>2, <1>3, <3>1, <4>1 DEF Represents, after
      <4>3. s[i] = before <=> i = j - 1
        BY <1>1, <1>2, <1>3, <3>1, <4>1 DEF Represents, before
      <4>4. In(t[i], l)' /\ prev'[t[i]] = prev[s[i]]
        BY <1>1, <1>8, <4>1, <4>2 DEF Represents, In
      <4>5. prev'[t[i]] = IF i = 1 THEN Null ELSE t[i - 1]
        BY <1>1, <1>2, <1>3, <1>11, <3>1, <4>1, <4>4 DEF Represents
      <4>6. next[s[i]] = s[i + 1]
        BY <1>1, <1>2, <1>3, <3>1, <4>1 DEF Represents
      <4>7. next'[t[i]] = IF i = j - 1 THEN after ELSE s[i + 1]
        BY <1>8, <4>1, <4>2, <4>3, <4>6
      <4>8. CASE i = j - 1
        <5>1. after = IF i = Len(t) THEN Null ELSE t[i + 1]
          <6>1. j = i + 1 /\ (i = Len(t) <=> j = Len(s))
            BY <1>2, <1>3, <1>11, <4>8
          <6>2. i # Len(t) => t[i + 1] = s[(i + 1) + 1]
            BY <1>2, <1>3, <1>11, <4>8
          <6> QED BY <6>1, <6>2 DEF after
        <5> QED BY <4>4, <4>5, <4>7, <4>8, <5>1
      <4>9. CASE i # j - 1
        <5>1. i # Len(t) /\ t[i + 1] = s[i + 1]
          <6>1. i + 1 < j /\ i + 1 \in 1..Len(t) /\ i # Len(t)
            BY <1>2, <1>3, <1>11, <3>1, <4>9
          <6>2. PICK k \in 1..Len(t) : k = i + 1
            BY <6>1
          <6>3. t[k] = s[k]
            BY <1>11, <6>1, <6>2
          <6> QED BY <6>1, <6>2, <6>3
        <5> QED BY <4>4, <4>5, <4>7, <4>9, <5>1
      <4> QED BY <4>4, <4>5, <4>8, <4>9
    <3>2. CASE i >= j
      <4>1. i + 1 \in 1..Len(s) /\ t[i] = s[i + 1] /\ s[i + 1] \in Node
        BY <1>2, <1>3, <1>11, <3>2
      <4> DEFINE i1 == i + 1
      <4>2. /\ i1 \in 1..Len(s) /\ i1 - 1 = i /\ i1 # 1 /\ i1 # j
            /\ i1 = Len(s) <=> i = Len(t)
            /\ i # Len(t) => t[i + 1] = s[i1 + 1]
            /\ i # j => t[i - 1] = s[i] /\ i # 1
            /\ i = j /\ i # 1 => t[i - 1] = s[j - 1]
        <5>1. i1 \in 1..Len(s) /\ i1 - 1 = i /\ i1 # 1 /\ i1 # j /\ (i1 = Len(s) <=> i = Len(t))
          BY <1>2, <1>3, <1>11, <3>2
        <5>2. i # Len(t) => t[i + 1] = s[i1 + 1]
          <6>1. i # Len(t) => i + 1 \in 1..Len(t) /\ ~(i + 1 < j)
            BY <1>2, <1>3, <1>11, <3>2
          <6> QED BY <1>11, <6>1
        <5>3. i # j => t[i - 1] = s[i] /\ i # 1
          <6>1. i # j => i - 1 \in 1..Len(t) /\ ~(i - 1 < j) /\ (i - 1) + 1 = i /\ i # 1
            BY <1>2, <1>3, <1>11, <3>2
          <6> QED BY <1>11, <6>1
        <5>4. i = j /\ i # 1 => t[i - 1] = s[j - 1]
          <6>1. i = j /\ i # 1 => i - 1 \in 1..Len(t) /\ i - 1 < j
            BY <1>2, <1>3, <1>11, <3>2
          <6> QED BY <1>11, <6>1
        <5> QED BY <5>1, <5>2, <5>3, <5>4
      <4> HIDE DEF i1
      <4>3. /\ prev[s[i1]] = s[i]
            /\ next[s[i1]] = IF i1 = Len(s) THEN Null ELSE s[i1 + 1]
        BY <1>1, <4>2 DEF Represents
      <4>4. s[i1] # n /\ s[i1] # before
        BY <1>1, <1>2, <1>3, <3>2, <4>1, <4>2 DEF Represents, before, i1
      <4>5. s[i1] = after <=> i = j
        <5>1. CASE j = Len(s)
          BY <1>2, <1>5, <3>2, <4>1, <4>2, <5>1 DEF i1
        <5>2. CASE j # Len(s)
          <6>1. after = s[j + 1] /\ j + 1 \in 1..Len(s)
            BY <1>2, <1>3, <5>2 DEF after
          <6>2. s[i1] = s[j + 1] <=> i1 = j + 1
            BY <1>1, <4>2, <6>1 DEF Represents
          <6>3. i1 = j + 1 <=> i = j
            BY <1>3 DEF i1
          <6> QED BY <6>1, <6>2, <6>3
        <5> QED BY <5>1, <5>2
      <4>6. /\ In(s[i1], l)' /\ next'[s[i1]] = next[s[i1]]
            /\ prev'[s[i1]] = IF i = j THEN before ELSE s[i]
        <5>1. s[i1] \in Node /\ In(s[i1], l)
          BY <1>1, <1>2, <4>2 DEF Represents
        <5> QED BY <1>8, <4>3, <4>4, <4>5, <5>1 DEF In
      <4>7. prev'[s[i1]] = IF i = 1 THEN Null ELSE t[i - 1]
        BY <4>2, <4>6 DEF before
      <4>8. next'[s[i1]] = IF i = Len(t) THEN Null ELSE t[i + 1]
        BY <4>2, <4>3, <4>6
      <4> QED BY <4>1, <4>6, <4>7, <4>8 DEF i1
    <3> QED BY <1>2, <1>3, <1>11, <3>1, <3>2
  <2>2. ASSUME NEW i \in 1..Len(t), NEW k \in 1..Len(t), t[i] = t[k]
        PROVE  i = k
    <3> DEFINE old(x) == IF x < j THEN x ELSE x + 1
    <3>1. \A x \in 1..Len(t) : old(x) \in 1..Len(s) /\ t[x] = s[old(x)]
      BY <1>2, <1>3, <1>11
    <3> HIDE DEF old
    <3>2. old(i) = old(k)
      <4>1. \A x, y \in 1..Len(s) : s[x] = s[y] => x = y
        BY <1>1 DEF Represents
      <4> QED BY <2>2, <3>1, <4>1
    <3> USE DEF old
    <3> QED BY <1>2, <1>3, <3>2
  <2>3. ASSUME NEW m \in Node, In(m, l)'
        PROVE  \E i \in 1..Len(t) : t[i] = m
    <3>1. PICK i \in 1..Len(s) : s[i] = m /\ i # j
      BY <1>1, <1>3, <1>8, <2>3 DEF Represents, In
    <3>2. CASE i < j
      BY <1>2, <1>3, <1>11, <3>1, <3>2
    <3>3. CASE i > j
      <4>1. i - 1 \in 1..Len(t) /\ t[i - 1] = s[i]
        BY <1>2, <1>3, <1>11, <3>1, <3>3
      <4> QED BY <3>1, <4>1
    <3> QED BY <1>3, <3>1, <3>2, <3>3
  <2>4. head'[l] = IF Len(t) = 0 THEN Null ELSE t[1]
    BY <1>1, <1>2, <1>3, <1>5, <1>9, <1>11 DEF Represents, after
  <2>5. tail'[l] = IF Len(t) = 0 THEN Null ELSE t[Len(t)]
    BY <1>1, <1>2, <1>3, <1>5, <1>9, <1>11 DEF Represents, before
  <2> QED BY <2>1, <2>2, <2>3, <2>4, <2>5 DEF Represents
<1>13. ASSUME NEW k \in List, k # l, NEW u \in Seq(Node), Represents(k, u)
       PROVE  Represents(k, u)'
  <2>1. \A m \in Node : In(m, k)' <=> In(m, k)
    BY <1>8, <1>13 DEF In
  <2>2. \A m \in Node : In(m, k) => prev'[m] = prev[m] /\ next'[m] = next[m]
    BY <1>5, <1>8, <1>13 DEF In
  <2> QED BY <1>9, <1>13, <2>1, <2>2, OtherList
<1>14. Ordered'
  BY <1>11, <1>12, <1>13 DEF Ordered
<1>15. Leaves(l, t)
  BY <1>11, <1>12, <1>13 DEF Leaves
<1> QED BY <1>1, <1>3, <1>7, <1>10, <1>14, <1>15 DEF t

LEMMA LinksStep == LInv /\ [Next]_vars => LInv'
<1> SUFFICES ASSUME LInv, [Next]_vars  PROVE LInv'
  OBVIOUS
<1>1. ASSUME NEW l \in List, NEW n \in Node, NEW it \in Node,
             Free(n), In(it, l), list_insert(l, n, it)
      PROVE  LInv'
  BY <1>1, LinksInsert, ListAssumption DEF Ptr
<1>2. ASSUME NEW l \in List, NEW n \in Node, Free(n), list_enqueue(l, n)
      PROVE  LInv'
  BY <1>2, LinksInsert DEF list_enqueue, Ptr
<1>3. ASSUME NEW l \in List, NEW n \in Node, In(n, l), list_erase(l, n)
      PROVE  LInv'
  <2>1. ret' \in Ptr
    BY <1>3 DEF list_erase, LInv, TypeOK
  <2> QED BY <1>3, <2>1, LinksErase DEF list_erase
<1>4. ASSUME NEW l \in List, list_dequeue(l)
      PROVE  LInv'
  <2>1. CASE head[l] = Null
    <3>1. ret' = Null /\ UNCHANGED <<head, tail, prev, next, where>>
      BY <1>4, <2>1 DEF list_dequeue
    <3> QED BY <3>1, LinksFrame DEF LInv, TypeOK, Ptr
  <2>2. CASE head[l] # Null
    <3>1. head[l] \in Node /\ In(head[l], l)
      BY <1>4, <2>2, OrderedLinks DEF LInv, TypeOK, LinksAgree, Ptr
    <3> QED BY <1>4, <2>2, <3>1, LinksErase DEF list_dequeue, Ptr
  <2> QED BY <2>1, <2>2
<1>5. CASE UNCHANGED vars
  BY <1>5, LinksFrame DEF vars, LInv, TypeOK
<1> QED BY <1>1, <1>2, <1>3, <1>4, <1>5 DEF Next

\* The pointers of every list represent a sequence of distinct nodes: no cycle,
\* no node lost between head and tail, whatever is inserted, erased and dequeued.
THEOREM ListsOrdered == Spec => [](TypeOK /\ Ordered)
<1>1. LInv => TypeOK /\ Ordered
  BY DEF LInv
<1> QED BY <1>1, LinksInit, LinksStep, PTL DEF Spec

\* What list_insert and list_erase rely on when they test prev, next, head and
\* tail for NULL.
THEOREM LinksSound == Spec => []LinksAgree
  BY OrderedLinks, LinksInit, LinksStep, PTL DEF Spec

-----------------------------------------------------------------------------
(* The pointers implement sequences *)

LEMMA Least ==
  ASSUME NEW S \in SUBSET Nat, S # {}
  PROVE  \E n \in S : \A m \in S : n <= m
<1> DEFINE R == {ss \in Nat \X Nat : ss[1] < ss[2]}
<1>1. IsWellFoundedOn(R, Nat)
  BY NatLessThanWellFounded DEF OpToRel
<1>2. R = {ss \in Nat \X Nat : ss[1] < ss[2]}
  OBVIOUS
<1> HIDE DEF R
<1>3. PICK n \in S : \A m \in S : ~(<<m, n>> \in R)
  BY <1>1, WFMin
<1>4. ASSUME NEW m \in S  PROVE n <= m
  <2>1. m \in Nat /\ n \in Nat /\ <<m, n>> \in Nat \X Nat /\ <<m, n>>[1] = m /\ <<m, n>>[2] = n
    OBVIOUS
  <2>2. ~(m < n)
    BY <1>2, <1>3, <2>1
  <2> QED BY <2>1, <2>2
<1> QED BY <1>4

\* The walk as a function, and past the end Null.
Nth(h, nx) ==
  LET nth[i \in 1..(Cardinality(Node) + 1)] ==
        IF i = 1 THEN h ELSE IF nth[i - 1] = Null THEN Null ELSE nx[nth[i - 1]]
  IN  nth

IsWalk(h, nx, g) ==
  g = [i \in 1..(Cardinality(Node) + 1) |->
         IF i = 1 THEN h ELSE IF g[i - 1] = Null THEN Null ELSE nx[g[i - 1]]]

LEMMA NthIs ==
  ASSUME NEW h, NEW nx, NEW g, IsWalk(h, nx, g)
  PROVE  Nth(h, nx) = g
<1> DEFINE f == Nth(h, nx)
           N == Cardinality(Node) + 1
<1>0. g = [i \in 1..N |-> IF i = 1 THEN h ELSE IF g[i - 1] = Null THEN Null ELSE nx[g[i - 1]]]
  BY DEF IsWalk
<1>1. f = [i \in 1..N |-> IF i = 1 THEN h ELSE IF f[i - 1] = Null THEN Null ELSE nx[f[i - 1]]]
  BY <1>0 DEF Nth
<1>2. N \in Nat
  BY ListAssumption, FS_CardinalityType
<1> HIDE DEF f, N
<1>a. /\ DOMAIN f = 1..N /\ f = [i \in 1..N |-> f[i]]
      /\ \A i \in 1..N : i # 1 => f[i] = IF f[i - 1] = Null THEN Null ELSE nx[f[i - 1]]
      /\ 1 \in 1..N => f[1] = h
  BY <1>1
<1>b. /\ DOMAIN g = 1..N /\ g = [i \in 1..N |-> g[i]]
      /\ \A i \in 1..N : i # 1 => g[i] = IF g[i - 1] = Null THEN Null ELSE nx[g[i - 1]]
      /\ 1 \in 1..N => g[1] = h
  BY <1>0
<1> DEFINE Bad == {i \in 1..N : f[i] # g[i]}
<1>4. Bad = {}
  <2> SUFFICES ASSUME Bad # {}  PROVE FALSE
    OBVIOUS
  <2>1. Bad \in SUBSET Nat
    BY <1>2
  <2>2. \A i \in Bad : i \in 1..N /\ f[i] # g[i]
    OBVIOUS
  <2>3. \A i \in 1..N : i \notin Bad => f[i] = g[i]
    OBVIOUS
  <2> HIDE DEF Bad
  <2>4. PICK i \in Bad : \A m \in Bad : i <= m
    BY <2>1, Least
  <2>5. i # 1
    BY <1>a, <1>b, <2>2
  <2>6. i - 1 \in 1..N /\ ~(i <= i - 1)
    <3>1. i \in 1..N
      BY <2>2
    <3> QED BY ONLY <1>2, <2>5, <3>1
  <2>7. f[i - 1] = g[i - 1]
    BY <2>3, <2>4, <2>6
  <2>8. f[i] = g[i]
    <3>1. i \in 1..N
      BY <2>2
    <3>2. f[i] = IF f[i - 1] = Null THEN Null ELSE nx[f[i - 1]]
      BY ONLY <1>a, <2>5, <3>1
    <3>3. g[i] = IF g[i - 1] = Null THEN Null ELSE nx[g[i - 1]]
      BY ONLY <1>b, <2>5, <3>1
    <3> QED BY ONLY <2>7, <3>2, <3>3
  <2> QED BY <2>2, <2>8
<1>5. \A i \in 1..N : f[i] = g[i]
  BY <1>4
<1>6. f = g
  <2> HIDE DEF Bad
  <2> QED BY <1>a, <1>b, <1>5
<1> QED BY <1>6 DEF f

\* A chain of distinct nodes that ends with Null is met node by node.
LEMMA WalkIs ==
  ASSUME NEW h, NEW nx, NEW s \in Seq(Node),
         h = IF Len(s) = 0 THEN Null ELSE s[1],
         \A i \in 1..Len(s) : nx[s[i]] = IF i = Len(s) THEN Null ELSE s[i + 1],
         \A i, j \in 1..Len(s) : s[i] = s[j] => i = j
  PROVE  Walk(h, nx) = s
<1> DEFINE N == Cardinality(Node) + 1
           k == Len(s)
           g == [i \in 1..N |-> IF i <= k THEN s[i] ELSE Null]
<1>1. /\ k \in Nat /\ s \in [1..k -> Node] /\ DOMAIN s = 1..k
      /\ h = IF k = 0 THEN Null ELSE s[1]
      /\ \A i \in 1..k : nx[s[i]] = IF i = k THEN Null ELSE s[i + 1]
      /\ \A i, j \in 1..k : s[i] = s[j] => i = j
  BY LenProperties
<1> HIDE DEF k
<1>a. k \in Nat
  BY <1>1
<1>2. N \in Nat /\ k < N
  <2>1. Cardinality(Node) \in Nat
    BY ListAssumption, FS_CardinalityType
  <2>2. s \in Injection(1..k, Node)
    BY ONLY <1>1 DEF Injection, IsInjective
  <2>3. IsFiniteSet(1..k) /\ Cardinality(1..k) = k
    <3>1. 1 \in Int /\ k \in Int /\ (1 > k => k = 0) /\ k - 1 + 1 = k
      BY ONLY <1>a
    <3>2. IsFiniteSet(1..k) /\ Cardinality(1..k) = IF 1 > k THEN 0 ELSE k - 1 + 1
      BY ONLY <3>1, FS_Interval
    <3> QED BY ONLY <3>1, <3>2
  <2>4. Cardinality(1..k) <= Cardinality(Node)
    BY <2>2, <2>3, ListAssumption, FS_Injection
  <2> QED BY ONLY <1>a, <2>1, <2>3, <2>4
<1> HIDE DEF N
<1>3. \A i \in 1..k : s[i] # Null
  BY ONLY <1>1, ListAssumption
<1>b. DOMAIN g = 1..N /\ \A i \in 1..N : g[i] = IF i <= k THEN s[i] ELSE Null
  OBVIOUS
<1>4. \A i \in 1..N : g[i] = IF i = 1 THEN h ELSE IF g[i - 1] = Null THEN Null ELSE nx[g[i - 1]]
  <2> SUFFICES ASSUME NEW i \in 1..N
               PROVE  g[i] = IF i = 1 THEN h ELSE IF g[i - 1] = Null THEN Null ELSE nx[g[i - 1]]
    OBVIOUS
  <2> HIDE DEF g
  <2>0. i \in 1..N
    OBVIOUS
  <2>1. CASE i = 1
    <3>1. (1 <= k <=> k # 0)
      BY ONLY <1>a
    <3> QED BY ONLY <1>1, <1>b, <2>0, <2>1, <3>1
  <2>2. CASE i # 1
    <3>1. i - 1 \in 1..N
      BY ONLY <1>2, <2>0, <2>2
    <3>2. g[i - 1] = IF i - 1 <= k THEN s[i - 1] ELSE Null
      BY ONLY <1>b, <3>1
    <3>3. i - 1 <= k => i - 1 \in 1..k /\ (i - 1) + 1 = i /\ (i - 1 = k <=> ~(i <= k))
      BY ONLY <1>a, <1>2, <2>0, <3>1
    <3>4. ~(i - 1 <= k) => ~(i <= k)
      BY ONLY <1>a, <1>2, <2>0
    <3>5. i - 1 <= k => s[i - 1] # Null /\ nx[s[i - 1]] = IF ~(i <= k) THEN Null ELSE s[i]
      BY ONLY <1>1, <1>3, <3>3
    <3>6. g[i] = IF i <= k THEN s[i] ELSE Null
      BY ONLY <1>b, <2>0
    <3> QED BY ONLY <2>2, <3>2, <3>4, <3>5, <3>6
  <2> QED BY <2>1, <2>2
<1>5. Nth(h, nx) = g
  <2>1. g = [i \in 1..N |-> IF i = 1 THEN h ELSE IF g[i - 1] = Null THEN Null ELSE nx[g[i - 1]]]
    <3>1. g = [i \in 1..N |-> g[i]]
      OBVIOUS
    <3> HIDE DEF g
    <3> QED BY ONLY <1>4, <3>1
  <2> HIDE DEF g
  <2>2. IsWalk(h, nx, g)
    BY ONLY <2>1 DEF IsWalk, N
  <2> QED BY ONLY <2>2, NthIs
<1>6. Walk(h, nx) = [i \in {j \in DOMAIN Nth(h, nx) : Nth(h, nx)[j] # Null} |-> Nth(h, nx)[i]]
  BY DEF Walk, Nth
<1> HIDE DEF g
<1>7. {j \in DOMAIN g : g[j] # Null} = 1..k
  <2>1. \A j \in 1..N : j <= k => j \in 1..k
    BY ONLY <1>a, <1>2
  <2>2. \A j \in 1..k : j \in 1..N /\ j <= k
    BY ONLY <1>a, <1>2
  <2> QED BY ONLY <1>b, <1>3, <2>1, <2>2
<1>8. \A i \in 1..k : g[i] = s[i]
  <2>1. \A i \in 1..k : i \in 1..N /\ i <= k
    BY ONLY <1>a, <1>2
  <2> QED BY ONLY <1>b, <2>1
<1>9. [i \in {j \in DOMAIN g : g[j] # Null} |-> g[i]] = [i \in 1..k |-> s[i]]
  BY ONLY <1>7, <1>8
<1>10. s = [i \in 1..k |-> s[i]]
  BY ONLY <1>1
<1> QED BY ONLY <1>5, <1>6, <1>9, <1>10

LEMMA InsertedIs ==
  ASSUME NEW s \in Seq(Node), NEW j \in 1..(Len(s) + 1), NEW n \in Node
  PROVE  /\ Inserted(s, j, n) = FL!InsertAt(s, j, n)
         /\ j = Len(s) + 1 => Inserted(s, j, n) = Append(s, n)
<1> DEFINE k == Len(s)
           a == SubSeq(s, 1, j - 1)
           b == SubSeq(s, j, k)
           t == Inserted(s, j, n)
<1>1. k \in Nat /\ j \in Nat /\ 1 <= j /\ j <= k + 1
  BY LenProperties
<1>2. \A i \in 1..k : s[i] \in Node
  BY LenProperties
<1>3. a \in Seq(Node) /\ Len(a) = j - 1 /\ \A i \in 1..(j - 1) : a[i] = s[i]
  <2>1. \A i \in 1..(j - 1) : s[i] \in Node
    BY <1>1, <1>2
  <2>2. /\ a \in Seq(Node) /\ Len(a) = IF 1 <= j - 1 THEN (j - 1) - 1 + 1 ELSE 0
        /\ \A i \in 1..((j - 1) - 1 + 1) : a[i] = s[1 + i - 1]
    <3>1. 1 \in Int /\ j - 1 \in Int
      BY <1>1
    <3> QED BY <2>1, <3>1, SubSeqProperties
  <2>3. (j - 1) - 1 + 1 = j - 1 /\ \A i \in Nat : 1 + i - 1 = i
    BY <1>1
  <2> HIDE DEF a
  <2> QED BY <1>1, <2>2, <2>3
<1>4. b \in Seq(Node) /\ Len(b) = k - j + 1 /\ \A i \in 1..(k - j + 1) : b[i] = s[j + i - 1]
  <2>1. \A i \in j..k : s[i] \in Node
    BY <1>1, <1>2
  <2>2. /\ b \in Seq(Node) /\ Len(b) = IF j <= k THEN k - j + 1 ELSE 0
        /\ \A i \in 1..(k - j + 1) : b[i] = s[j + i - 1]
    <3>1. j \in Int /\ k \in Int
      BY <1>1
    <3> QED BY <2>1, <3>1, SubSeqProperties
  <2> HIDE DEF b
  <2> QED BY <1>1, <2>2
<1>5. FL!InsertAt(s, j, n) = (a \o <<n>>) \o b
  BY DEF FL!InsertAt
<1> HIDE DEF a, b, k
<1>6. <<n>> \in Seq(Node) /\ Len(<<n>>) = 1 /\ <<n>>[1] = n
  OBVIOUS
<1> DEFINE c == a \o <<n>>
<1>7. c \in Seq(Node) /\ Len(c) = j /\ \A i \in 1..j : c[i] = IF i < j THEN s[i] ELSE n
  <2>1. /\ c \in Seq(Node) /\ Len(c) = (j - 1) + 1
        /\ \A i \in 1..((j - 1) + 1) : c[i] = IF i <= j - 1 THEN a[i] ELSE <<n>>[i - (j - 1)]
    BY <1>3, <1>6, ConcatProperties
  <2> HIDE DEF c
  <2>2. (j - 1) + 1 = j /\ \A i \in 1..j : IF i < j THEN i <= j - 1 /\ i \in 1..(j - 1)
                                              ELSE ~(i <= j - 1) /\ i - (j - 1) = 1
    BY ONLY <1>1
  <2> QED BY <1>3, <1>6, <2>1, <2>2
<1> HIDE DEF c
<1>8. /\ c \o b \in Seq(Node) /\ Len(c \o b) = k + 1
      /\ \A i \in 1..(k + 1) : (c \o b)[i] = IF i <= j THEN c[i] ELSE b[i - j]
  <2>1. /\ c \o b \in Seq(Node) /\ Len(c \o b) = j + (k - j + 1)
        /\ \A i \in 1..(j + (k - j + 1)) : (c \o b)[i] = IF i <= j THEN c[i] ELSE b[i - j]
    BY <1>4, <1>7, ConcatProperties
  <2>2. j + (k - j + 1) = k + 1
    BY ONLY <1>1
  <2> QED BY <2>1, <2>2
<1>9. t \in Seq(Node) /\ Len(t) = k + 1
      /\ \A i \in 1..(k + 1) : t[i] = IF i < j THEN s[i] ELSE IF i = j THEN n ELSE s[i - 1]
  BY <1>1, <1>2 DEF Inserted, k
<1> HIDE DEF t
<1>10. ASSUME NEW i \in 1..(k + 1)  PROVE t[i] = (c \o b)[i]
  <2>1. i \in Nat /\ i <= k + 1
    BY <1>1
  <2>2. CASE i <= j
    <3>1. i \in 1..j /\ (~(i < j) => i = j)
      BY <1>1, <2>1, <2>2
    <3> QED BY <1>7, <1>8, <1>9, <2>2, <3>1
  <2>3. CASE ~(i <= j)
    <3>1. i - j \in 1..(k - j + 1) /\ j + (i - j) - 1 = i - 1 /\ ~(i < j) /\ i # j
      BY <1>1, <2>1, <2>3
    <3>2. b[i - j] = s[i - 1]
      BY ONLY <1>4, <3>1
    <3> QED BY <1>8, <1>9, <2>3, <3>1, <3>2
  <2> QED BY <2>2, <2>3
<1>11. t = c \o b
  <2> DEFINE d == c \o b
  <2>1. d \in Seq(Node) /\ Len(d) = k + 1 /\ \A i \in 1..(k + 1) : t[i] = d[i]
    BY <1>8, <1>10
  <2> HIDE DEF d
  <2>2. t = d
    BY <1>9, <2>1, SeqEqual
  <2> QED BY <2>2 DEF d
<1>12. ASSUME j = k + 1  PROVE t = Append(s, n)
  <2> DEFINE d == Append(s, n)
  <2>1. /\ d \in Seq(Node) /\ Len(d) = k + 1
        /\ (\A i \in 1..k : d[i] = s[i]) /\ d[k + 1] = n
    BY AppendProperties DEF k
  <2> HIDE DEF d
  <2>2. \A i \in 1..(k + 1) : IF i < j THEN i \in 1..k ELSE i = j /\ i = k + 1
    BY <1>1, <1>12
  <2>3. \A i \in 1..(k + 1) : t[i] = d[i]
    BY <1>9, <2>1, <2>2
  <2>4. t = d
    BY <1>9, <2>1, <2>3, SeqEqual
  <2> QED BY <2>4 DEF d
<1> QED BY <1>5, <1>11, <1>12 DEF t, c, k

LEMMA RemovedIs ==
  ASSUME NEW s \in Seq(Node), NEW j \in 1..Len(s)
  PROVE  /\ Removed(s, j) = FL!RemoveAt(s, j)
         /\ j = 1 => Removed(s, j) = Tail(s)
<1> DEFINE k == Len(s)
           a == SubSeq(s, 1, j - 1)
           b == SubSeq(s, j + 1, k)
           t == Removed(s, j)
<1>1. k \in Nat /\ j \in Nat /\ 1 <= j /\ j <= k
  BY LenProperties
<1>2. \A i \in 1..k : s[i] \in Node
  BY LenProperties
<1>3. a \in Seq(Node) /\ Len(a) = j - 1 /\ \A i \in 1..(j - 1) : a[i] = s[i]
  <2>1. \A i \in 1..(j - 1) : s[i] \in Node
    BY <1>1, <1>2
  <2>2. /\ a \in Seq(Node) /\ Len(a) = IF 1 <= j - 1 THEN (j - 1) - 1 + 1 ELSE 0
        /\ \A i \in 1..((j - 1) - 1 + 1) : a[i] = s[1 + i - 1]
    <3>1. 1 \in Int /\ j - 1 \in Int
      BY <1>1
    <3> QED BY <2>1, <3>1, SubSeqProperties
  <2>3. (j - 1) - 1 + 1 = j - 1 /\ \A i \in Nat : 1 + i - 1 = i
    BY <1>1
  <2> HIDE DEF a
  <2> QED BY <1>1, <2>2, <2>3
<1>4. b \in Seq(Node) /\ Len(b) = k - j /\ \A i \in 1..(k - j) : b[i] = s[j + i]
  <2>1. \A i \in (j + 1)..k : s[i] \in Node
    BY <1>1, <1>2
  <2>2. /\ b \in Seq(Node) /\ Len(b) = IF j + 1 <= k THEN k - (j + 1) + 1 ELSE 0
        /\ \A i \in 1..(k - (j + 1) + 1) : b[i] = s[(j + 1) + i - 1]
    <3>1. j + 1 \in Int /\ k \in Int
      BY <1>1
    <3> QED BY <2>1, <3>1, SubSeqProperties
  <2>3. /\ k - (j + 1) + 1 = k - j
        /\ \A i \in 1..(k - j) : (j + 1) + i - 1 = j + i
        /\ j + 1 <= k \/ k - j = 0
    BY <1>1
  <2> HIDE DEF b, k
  <2>4. \A i \in 1..(k - j) : b[i] = s[j + i]
    BY ONLY <2>2, <2>3
  <2>5. b \in Seq(Node) /\ Len(b) = k - j
    BY <1>1, <2>2
  <2> QED BY <2>4, <2>5
<1>5. FL!RemoveAt(s, j) = a \o b
  BY DEF FL!RemoveAt
<1> HIDE DEF a, b, k
<1>6. /\ a \o b \in Seq(Node) /\ Len(a \o b) = k - 1
      /\ \A i \in 1..(k - 1) : (a \o b)[i] = IF i <= j - 1 THEN a[i] ELSE b[i - (j - 1)]
  <2>1. /\ a \o b \in Seq(Node) /\ Len(a \o b) = (j - 1) + (k - j)
        /\ \A i \in 1..((j - 1) + (k - j)) : (a \o b)[i] = IF i <= j - 1 THEN a[i] ELSE b[i - (j - 1)]
    <3>1. a \in Seq(Node) /\ b \in Seq(Node) /\ Len(a) = j - 1 /\ Len(b) = k - j
      BY <1>3, <1>4
    <3>2. /\ a \o b \in Seq(Node) /\ Len(a \o b) = Len(a) + Len(b)
          /\ \A i \in 1..(Len(a) + Len(b)) : (a \o b)[i] = IF i <= Len(a) THEN a[i] ELSE b[i - Len(a)]
      BY <3>1, ConcatProperties
    <3> QED BY <3>1, <3>2
  <2>2. (j - 1) + (k - j) = k - 1
    BY ONLY <1>1
  <2> QED BY <2>1, <2>2
<1>7. t \in Seq(Node) /\ Len(t) = k - 1
      /\ \A i \in 1..(k - 1) : t[i] = IF i < j THEN s[i] ELSE s[i + 1]
  BY <1>1, <1>2 DEF Removed, k
<1> HIDE DEF t
<1>8. ASSUME NEW i \in 1..(k - 1)  PROVE t[i] = (a \o b)[i]
  <2>1. i \in Nat /\ i <= k - 1
    BY <1>1
  <2>2. CASE i < j
    <3>1. i \in 1..(j - 1) /\ i <= j - 1
      BY <1>1, <2>1, <2>2
    <3> QED BY <1>3, <1>6, <1>7, <2>2, <3>1
  <2>3. CASE ~(i < j)
    <3>1. i - (j - 1) \in 1..(k - j) /\ j + (i - (j - 1)) = i + 1 /\ ~(i <= j - 1)
      BY <1>1, <2>1, <2>3
    <3>2. b[i - (j - 1)] = s[i + 1]
      BY ONLY <1>4, <3>1
    <3> QED BY <1>6, <1>7, <2>3, <3>1, <3>2
  <2> QED BY <2>2, <2>3
<1>9. t = a \o b
  <2> DEFINE d == a \o b
  <2>1. d \in Seq(Node) /\ Len(d) = k - 1 /\ \A i \in 1..(k - 1) : t[i] = d[i]
    BY <1>6, <1>8
  <2> HIDE DEF d
  <2>2. t = d
    BY <1>7, <2>1, SeqEqual
  <2> QED BY <2>2 DEF d
<1>10. ASSUME j = 1  PROVE t = Tail(s)
  <2> DEFINE d == Tail(s)
  <2>1. s # <<>>
    BY <1>1 DEF k
  <2>2. d \in Seq(Node) /\ Len(d) = k - 1 /\ \A i \in 1..(k - 1) : d[i] = s[i + 1]
    BY <2>1, HeadTailProperties DEF k
  <2> HIDE DEF d
  <2>3. \A i \in 1..(k - 1) : ~(i < j)
    BY <1>10
  <2>4. t = d
    BY <1>7, <2>2, <2>3, SeqEqual
  <2> QED BY <2>4 DEF d
<1> QED BY <1>5, <1>9, <1>10 DEF t

\* The sequences the pointers stand for.
Q == [k \in List |-> Walk(head[k], next)]

LEMMA Represented ==
  ASSUME NEW l \in List, NEW s \in Seq(Node), Represents(l, s)
  PROVE  Walk(head[l], next) = s
<1>1. /\ head[l] = IF Len(s) = 0 THEN Null ELSE s[1]
      /\ \A i \in 1..Len(s) : next[s[i]] = IF i = Len(s) THEN Null ELSE s[i + 1]
      /\ \A i, j \in 1..Len(s) : s[i] = s[j] => i = j
  BY DEF Represents
<1>2. PICK h, nx : h = head[l] /\ nx = next
  OBVIOUS
<1>3. h = IF Len(s) = 0 THEN Null ELSE s[1]
  BY <1>1, <1>2
<1>4. \A i \in 1..Len(s) : nx[s[i]] = IF i = Len(s) THEN Null ELSE s[i + 1]
  BY <1>1, <1>2
<1>5. Walk(h, nx) = s
  BY <1>1, <1>3, <1>4, WalkIs
<1> QED BY <1>2, <1>5

LEMMA RepresentedNext ==
  ASSUME NEW l \in List, NEW s \in Seq(Node), Represents(l, s)'
  PROVE  Walk(head[l], next)' = s
<1>1. /\ head'[l] = IF Len(s) = 0 THEN Null ELSE s[1]
      /\ \A i \in 1..Len(s) : next'[s[i]] = IF i = Len(s) THEN Null ELSE s[i + 1]
      /\ \A i, j \in 1..Len(s) : s[i] = s[j] => i = j
  BY DEF Represents
<1> DEFINE h == head'[l]  nx == next'
<1>2. /\ h = IF Len(s) = 0 THEN Null ELSE s[1]
      /\ \A i \in 1..Len(s) : nx[s[i]] = IF i = Len(s) THEN Null ELSE s[i + 1]
  BY <1>1
<1> HIDE DEF h, nx
<1>3. Walk(h, nx) = s
  BY <1>1, <1>2, WalkIs
<1> QED BY <1>3 DEF h, nx

\* A call that leaves t in the place of the sequence of l.
LEMMA QStep ==
  ASSUME LInv, NEW l \in List, NEW s \in Seq(Node), Represents(l, s), NEW t, Leaves(l, t)
  PROVE  Q[l] = s /\ Q' = [Q EXCEPT ![l] = t]
<1>1. Q[l] = s /\ Q'[l] = t
  BY Represented, RepresentedNext DEF Q, Leaves
<1>2. ASSUME NEW k \in List, k # l  PROVE Q'[k] = Q[k]
  <2>1. PICK u \in Seq(Node) : Represents(k, u)
    BY DEF LInv, Ordered
  <2>2. Represents(k, u)'
    BY <1>2, <2>1 DEF Leaves
  <2> QED BY <2>1, <2>2, Represented, RepresentedNext DEF Q
<1>3. DOMAIN Q = List /\ DOMAIN Q' = List /\ Q' = [k \in List |-> Q'[k]]
  BY DEF Q
<1> QED BY <1>1, <1>2, <1>3

\* A node that is in no list is in none of the sequences.
LEMMA FreeNodes ==
  ASSUME LInv, NEW n \in Node, Free(n)
  PROVE  FL!Free(n)
<1> SUFFICES ASSUME NEW l \in List, n \in FL!Range(Q[l])  PROVE FALSE
  BY DEF FL!Free, FL!In, Q
<1>1. PICK s \in Seq(Node) : Represents(l, s)
  BY DEF LInv, Ordered
<1>2. Q[l] = s
  BY <1>1, Represented DEF Q
<1>3. PICK i \in DOMAIN s : n = s[i]
  BY <1>2 DEF FL!Range
<1>4. i \in 1..Len(s)
  BY <1>3, LenProperties
<1>5. In(n, l)
  BY <1>1, <1>3, <1>4 DEF Represents
<1> QED BY <1>5, ListAssumption DEF In, Free

LEMMA RefinesInsert ==
  ASSUME LInv, NEW l \in List, NEW n \in Node, Free(n),
         NEW it \in Ptr, it # Null => In(it, l), list_insert(l, n, it)
  PROVE  FL!Insert(l, n, it)
<1>0. PICK s \in Seq(Node) : \E j \in 1..(Len(s) + 1) :
        /\ Represents(l, s) /\ it = IF j = Len(s) + 1 THEN Null ELSE s[j]
        /\ Leaves(l, Inserted(s, j, n))
  BY LinksInsert
<1>1. PICK j \in 1..(Len(s) + 1) :
        /\ Represents(l, s) /\ it = IF j = Len(s) + 1 THEN Null ELSE s[j]
        /\ Leaves(l, Inserted(s, j, n))
  BY <1>0
<1>2. Q[l] = s /\ Q' = [Q EXCEPT ![l] = Inserted(s, j, n)]
  BY <1>1, QStep
<1>3. ret' = ret
  BY DEF list_insert
<1>4. FL!Free(n)
  BY FreeNodes
<1>5. Len(s) \in Nat /\ DOMAIN s = 1..Len(s) /\ \A i \in 1..Len(s) : s[i] \in Node
  BY LenProperties
<1>6. CASE j = Len(s) + 1
  <2>1. Q' = [Q EXCEPT ![l] = Append(Q[l], n)] /\ it = Null
    BY <1>1, <1>2, <1>6, InsertedIs
  <2> QED BY <1>3, <1>4, <2>1 DEF FL!Insert, Q
<1>7. CASE j # Len(s) + 1
  <2>1. j \in DOMAIN s /\ it = s[j]
    BY <1>1, <1>5, <1>7
  <2>2. Inserted(s, j, n) = FL!InsertAt(s, j, n)
    BY InsertedIs
  <2>3. j \in DOMAIN Q[l] /\ Q[l][j] = it /\ Q' = [Q EXCEPT ![l] = FL!InsertAt(Q[l], j, n)]
    BY <1>2, <2>1, <2>2
  <2> QED BY <1>3, <1>4, <2>3 DEF FL!Insert, Q
<1> QED BY <1>6, <1>7

LEMMA RefinesErase ==
  ASSUME LInv, NEW l \in List, NEW n \in Node, In(n, l), list_erase(l, n)
  PROVE  FL!Erase(l, n)
<1>1. ret' = next[n] /\ ret' \in Ptr /\ unlink(l, n)
  BY DEF list_erase, LInv, TypeOK
<1>0. PICK s \in Seq(Node) : \E j \in 1..Len(s) :
        Represents(l, s) /\ s[j] = n /\ Leaves(l, Removed(s, j))
  BY <1>1, LinksErase
<1>2. PICK j \in 1..Len(s) : Represents(l, s) /\ s[j] = n /\ Leaves(l, Removed(s, j))
  BY <1>0
<1>3. Q[l] = s /\ Q' = [Q EXCEPT ![l] = Removed(s, j)]
  BY <1>2, QStep
<1>4. Len(s) \in Nat /\ DOMAIN s = 1..Len(s)
  BY LenProperties
<1>5. ret' = IF j < Len(s) THEN s[j + 1] ELSE Null
  <2>1. next[s[j]] = IF j = Len(s) THEN Null ELSE s[j + 1]
    BY <1>2 DEF Represents
  <2>2. j < Len(s) <=> j # Len(s)
    <3> DEFINE k == Len(s)
    <3>1. k \in Nat /\ j \in 1..k
      BY <1>4
    <3> HIDE DEF k
    <3>2. j < k <=> j # k
      BY ONLY <3>1
    <3> QED BY <3>2 DEF k
  <2> QED BY <1>1, <1>2, <2>1, <2>2
<1>6. /\ j \in DOMAIN Q[l] /\ Q[l][j] = n /\ Q' = [Q EXCEPT ![l] = FL!RemoveAt(Q[l], j)]
      /\ ret' = IF j < Len(Q[l]) THEN Q[l][j + 1] ELSE Null
  BY <1>2, <1>3, <1>4, <1>5, RemovedIs
<1> QED BY <1>6 DEF FL!Erase, Q

LEMMA RefinesPop ==
  ASSUME LInv, NEW l \in List, list_dequeue(l)
  PROVE  FL!Pop(l)
<1>1. PICK s \in Seq(Node) : Represents(l, s)
  BY DEF LInv, Ordered
<1>2. Q[l] = s /\ Len(s) \in Nat /\ \A i \in 1..Len(s) : s[i] \in Node
  BY <1>1, Represented, LenProperties DEF Q
<1>3. head[l] = Null <=> s = <<>>
  <2>1. s = <<>> <=> Len(s) = 0
    BY <1>2
  <2>2. Len(s) # 0 => s[1] \in Node
    BY <1>2
  <2> QED BY <1>1, <2>1, <2>2, ListAssumption DEF Represents
<1>4. CASE head[l] = Null
  <2>1. ret' = Null /\ UNCHANGED <<head, next>>
    BY <1>4 DEF list_dequeue
  <2>2. Q[l] = <<>> /\ Q' = Q
    BY <1>2, <1>3, <1>4, <2>1 DEF Q
  <2> QED BY <2>1, <2>2 DEF FL!Pop, Q
<1>5. CASE head[l] # Null
  <2> DEFINE n == head[l]
  <2>1. n \in Node /\ In(n, l) /\ unlink(l, n) /\ ret' = n /\ ret' \in Ptr
    BY <1>5, OrderedLinks DEF list_dequeue, LInv, TypeOK, LinksAgree, Ptr
  <2>0. PICK u \in Seq(Node) : \E j \in 1..Len(u) :
          Represents(l, u) /\ u[j] = n /\ Leaves(l, Removed(u, j))
    BY <2>1, LinksErase
  <2>2. PICK j \in 1..Len(u) : Represents(l, u) /\ u[j] = n /\ Leaves(l, Removed(u, j))
    BY <2>0
  <2>3. Q[l] = u /\ Q' = [Q EXCEPT ![l] = Removed(u, j)]
    BY <2>2, QStep
  <2>4. Len(u) \in Nat /\ 1 \in 1..Len(u) /\ u[1] = n
    BY <2>2, LenProperties DEF Represents
  <2>5. j = 1
    BY <2>2, <2>4 DEF Represents
  <2>6. Removed(u, j) = Tail(u) /\ Head(u) = n /\ u # <<>>
    BY <2>4, <2>5, RemovedIs
  <2>7. Q[l] # <<>> /\ ret' = Head(Q[l]) /\ Q' = [Q EXCEPT ![l] = Tail(Q[l])]
    BY <2>1, <2>3, <2>6
  <2> QED BY <2>7 DEF FL!Pop, Q
<1> QED BY <1>4, <1>5

LEMMA RefinesInit == Init => FL!FLInit
<1> SUFFICES ASSUME Init  PROVE FL!FLInit
  OBVIOUS
<1>1. <<>> \in Seq(Node)
  OBVIOUS
<1>2. ASSUME NEW l \in List  PROVE Represents(l, <<>>)
  BY ListAssumption DEF Init, Represents, In
<1>3. \A l \in List : Walk(head[l], next) = <<>>
  BY <1>1, <1>2, Represented
<1> QED BY <1>3 DEF FL!FLInit, Init

LEMMA RefinesStep == LInv /\ [Next]_vars => [FL!FLNext]_FL!flvars
<1> SUFFICES ASSUME LInv, [Next]_vars  PROVE [FL!FLNext]_FL!flvars
  OBVIOUS
<1>1. ASSUME NEW l \in List, NEW n \in Node, NEW it \in Node,
             Free(n), In(it, l), list_insert(l, n, it)
      PROVE  FL!Insert(l, n, it)
  BY <1>1, RefinesInsert DEF Ptr
<1>2. ASSUME NEW l \in List, NEW n \in Node, Free(n), list_enqueue(l, n)
      PROVE  FL!Insert(l, n, Null)
  BY <1>2, RefinesInsert DEF list_enqueue, Ptr
<1>3. ASSUME NEW l \in List, NEW n \in Node, In(n, l), list_erase(l, n)
      PROVE  FL!Erase(l, n)
  BY <1>3, RefinesErase
<1>4. ASSUME NEW l \in List, list_dequeue(l)  PROVE FL!Pop(l)
  BY <1>4, RefinesPop
<1>5. CASE UNCHANGED vars
  BY <1>5 DEF vars, FL!flvars
<1>6. CASE Next
  BY <1>1, <1>2, <1>3, <1>4, <1>6 DEF Next, FL!FLNext
<1> QED BY <1>5, <1>6

\* Four functions on bare pointers give their callers a set of queues: each list is a
\* sequence of nodes no other list has, an insertion changes it at one place,
\* erasing and dequeuing take out the node they were asked for and return the
\* right one, and no call disturbs another list.
THEOREM ListsAreFifo == Spec => ImplementsFifoLists
<1>1. Spec => []LInv
  BY LinksInit, LinksStep, PTL DEF Spec
<1> QED BY <1>1, RefinesInit, RefinesStep, PTL DEF Spec, ImplementsFifoLists, FL!FLSpec
=============================================================================
