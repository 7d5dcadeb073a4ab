------------------------------ MODULE SdsProof ------------------------------
(***************************************************************************)
(* An sds string is what its header says, for all header widths, texts and *)
(* lengths: the invariant is the one that TLC checks, and each call is     *)
(* shown to preserve it and to do to the content what it should.           *)
(***************************************************************************)
EXTENDS SdsBuffer, SequenceTheorems, FiniteSetTheorems, WellFoundedInduction, TLAPS

SdsString == [type : Types, len : Nat, alloc : Nat, room : Nat, mem : Seq(Byte), over : Nat]

Good(x) == x \in SdsString /\ Sound(x)

-----------------------------------------------------------------------------
(* Recursive functions *)

LEMMA Least ==
  ASSUME NEW S, S \subseteq Nat, S # {}
  PROVE  Min(S) \in S /\ \A i \in S : Min(S) <= i
<1>1. PICK m \in S : \A i \in S : ~(<<i, m>> \in OpToRel(<, Nat))
  BY NatLessThanWellFounded, WFMin
<1>2. \A i \in S : m <= i
  <2> SUFFICES ASSUME NEW i \in S, i < m PROVE FALSE
    OBVIOUS
  <2>1. <<i, m>> \in Nat \X Nat /\ <<i, m>>[1] = i /\ <<i, m>>[2] = m
    OBVIOUS
  <2>2. <<i, m>> \in OpToRel(<, Nat)
    BY <2>1 DEF OpToRel
  <2> QED BY <1>1, <2>2
<1>3. Min(S) = CHOOSE x \in S : \A i \in S : x <= i
  BY DEF Min
<1> QED BY <1>2, <1>3

\* F gives the value of a recursive function on D from the argument and the
\* function itself.  It uses values of arguments with a lower measure m only.
Recursive(D, T, m, F) ==
  /\ m \in [D -> Nat]
  /\ \A x \in D, g \in [D -> T] : F[<<x, g>>] \in T
  /\ \A x \in D, g, h \in [D -> T] :
       (\A y \in D : m[y] < m[x] => g[y] = h[y]) => F[<<x, g>>] = F[<<x, h>>]

Solution(D, T, F) == \E f \in [D -> T] : \A x \in D : f[x] = F[<<x, f>>]

\* So there is such a function.  A function that follows the definition up to a
\* measure can be extended by one, and two of them agree.
LEMMA Recursion ==
  ASSUME NEW D, NEW T, NEW t0 \in T, NEW m, NEW F, Recursive(D, T, m, F)
  PROVE  Solution(D, T, F)
<1> USE DEF Recursive
<1> DEFINE Part(n, h) == h \in [D -> T] /\ \A x \in D : m[x] < n => h[x] = F[<<x, h>>]
<1>0. \A x \in D : m[x] \in Nat
  OBVIOUS
<1>1. ASSUME NEW n \in Nat, NEW g, NEW h, Part(n, g), Part(n, h)
      PROVE  \A x \in D : m[x] < n => g[x] = h[x]
  <2> DEFINE Bad == {k \in Nat : \E x \in D : m[x] = k /\ k < n /\ g[x] # h[x]}
  <2> SUFFICES ASSUME NEW z \in D, m[z] < n, g[z] # h[z] PROVE FALSE
    OBVIOUS
  <2>1. m[z] \in Bad
    BY <1>0
  <2>2. Bad \subseteq Nat /\ Bad # {}
    BY <2>1
  <2>3. PICK k \in Bad : \A i \in Bad : k <= i
    <3> HIDE DEF Bad
    <3> QED BY <2>2, Least
  <2>4. PICK x \in D : m[x] = k /\ k < n /\ g[x] # h[x]
    BY <2>3
  <2>5. ASSUME NEW y \in D, m[y] < m[x] PROVE g[y] = h[y]
    <3> SUFFICES ASSUME g[y] # h[y] PROVE FALSE
      OBVIOUS
    <3>1. m[y] < n
      BY <1>0, <2>4, <2>5
    <3>2. m[y] \in Bad
      BY <1>0, <3>1
    <3> HIDE DEF Bad
    <3> QED BY <1>0, <2>3, <2>4, <2>5, <3>2
  <2>6. g \in [D -> T] /\ h \in [D -> T] /\ g[x] = F[<<x, g>>] /\ h[x] = F[<<x, h>>]
    BY <1>1, <2>4
  <2>7. F[<<x, g>>] = F[<<x, h>>]
    BY <2>5, <2>6
  <2> QED BY <2>4, <2>6, <2>7
<1>2. ASSUME NEW n \in Nat PROVE \E h : Part(n, h)
  <2> DEFINE Bad == {k \in Nat : ~\E h : Part(k, h)}
  <2> SUFFICES ASSUME n \in Bad PROVE FALSE
    OBVIOUS
  <2>1. PICK k \in Bad : \A i \in Bad : k <= i
    <3>1. Bad \subseteq Nat /\ Bad # {}
      OBVIOUS
    <3> HIDE DEF Bad
    <3> QED BY <3>1, Least
  <2>2. k \in Nat /\ ~\E h : Part(k, h)
    OBVIOUS
  <2>3. k # 0
    <3>1. Part(0, [x \in D |-> t0])
      BY <1>0
    <3> HIDE DEF Part, Bad
    <3> QED BY <2>2, <3>1
  <2>4. k - 1 \in Nat /\ k - 1 \notin Bad
    <3>1. k - 1 \in Nat /\ k - 1 < k
      BY <2>2, <2>3
    <3> HIDE DEF Bad
    <3> QED BY <2>1, <2>2, <3>1
  <2>5. PICK g : Part(k - 1, g)
    BY <2>4
  <2> DEFINE h == [x \in D |-> IF m[x] < k - 1 THEN g[x] ELSE F[<<x, g>>]]
  <2>6. g \in [D -> T]
    BY <2>5
  <2>7. h \in [D -> T]
    BY <2>6
  <2>8. \A x \in D : m[x] < k - 1 => g[x] = h[x]
    OBVIOUS
  <2>9. \A x \in D : m[x] < k => h[x] = F[<<x, g>>]
    BY <2>5
  <2>10. ASSUME NEW x \in D, m[x] < k PROVE h[x] = F[<<x, h>>]
    <3>1. \A y \in D : m[y] < m[x] => g[y] = h[y]
      <4> HIDE DEF h
      <4> QED BY <1>0, <2>2, <2>8, <2>10
    <3> HIDE DEF h
    <3>2. F[<<x, g>>] = F[<<x, h>>]
      BY <2>6, <2>7, <3>1
    <3> QED BY <2>9, <2>10, <3>2
  <2>11. Part(k, h)
    <3> HIDE DEF h
    <3> QED BY <2>7, <2>10
  <2> HIDE DEF Part, Bad, h
  <2> QED BY <2>2, <2>11
<1> DEFINE H(n) == CHOOSE h : Part(n, h)
           f == [x \in D |-> H(m[x] + 1)[x]]
<1>3. ASSUME NEW x \in D
      PROVE  Part(m[x] + 1, H(m[x] + 1))
  <2> HIDE DEF Part
  <2>1. m[x] + 1 \in Nat
    BY <1>0
  <2> QED BY <1>2, <2>1
<1>4. \A x \in D : H(m[x] + 1) \in [D -> T] /\ H(m[x] + 1)[x] = F[<<x, H(m[x] + 1)>>]
  <2> SUFFICES ASSUME NEW x \in D
               PROVE  H(m[x] + 1) \in [D -> T] /\ H(m[x] + 1)[x] = F[<<x, H(m[x] + 1)>>]
    OBVIOUS
  <2>1. m[x] < m[x] + 1
    BY <1>0
  <2> HIDE DEF H
  <2> QED BY <1>3, <2>1
<1>5. f \in [D -> T] /\ \A x \in D : f[x] = H(m[x] + 1)[x]
  <2> HIDE DEF H
  <2> QED BY <1>4
<1>6. ASSUME NEW x \in D PROVE f[x] = F[<<x, f>>]
  <2>1. PICK hx : hx = H(m[x] + 1)
    OBVIOUS
  <2>2. Part(m[x] + 1, hx) /\ hx \in [D -> T] /\ hx[x] = F[<<x, hx>>] /\ f[x] = hx[x]
    <3> HIDE DEF Part, H, f
    <3> QED BY <1>3, <1>4, <1>5, <2>1
  <2>3. ASSUME NEW y \in D, m[y] < m[x] PROVE hx[y] = f[y]
    <3>1. PICK hy : hy = H(m[y] + 1)
      OBVIOUS
    <3>2. Part(m[y] + 1, hy) /\ f[y] = hy[y]
      <4> HIDE DEF Part, H, f
      <4> QED BY <1>3, <1>5, <3>1
    <3>3. m[y] + 1 \in Nat /\ m[y] < m[y] + 1 /\ m[y] + 1 <= m[x] + 1
      BY <1>0, <2>3
    <3>4. Part(m[y] + 1, hx)
      <4> HIDE DEF f, H
      <4>1. \A v \in D : m[v] < m[y] + 1 => m[v] < m[x] + 1
        BY <1>0, <3>3
      <4> QED BY <2>2, <4>1
    <3> HIDE DEF Part, H, f
    <3> QED BY <1>1, <3>2, <3>3, <3>4
  <2> HIDE DEF Part, H, f
  <2>4. F[<<x, hx>>] = F[<<x, f>>]
    BY <1>5, <2>2, <2>3
  <2> QED BY <2>2, <2>4
<1> HIDE DEF f, H, Part
<1> QED BY <1>5, <1>6 DEF Solution

\* DigitsReversed follows its definition.
LEMMA DigitsAre ==
  ASSUME NEW v \in Nat
  PROVE  /\ DigitsReversed[v] \in Seq(Byte)
         /\ DigitsReversed[v] =
              <<48 + (v % 10)>> \o (IF v \div 10 = 0 THEN <<>> ELSE DigitsReversed[v \div 10])
<1> DEFINE T == Seq(Byte)
           Body(x, g) == <<48 + (x % 10)>> \o (IF x \div 10 = 0 THEN <<>> ELSE g[x \div 10])
           F == [xg \in Nat \X [Nat -> T] |-> Body(xg[1], xg[2])]
           m == [x \in Nat |-> x]
<1>1. \A x \in Nat : /\ x % 10 \in 0..9 /\ x \div 10 \in Nat
                     /\ x \div 10 # 0 => x \div 10 < x
  OBVIOUS
<1>2. ASSUME NEW x \in Nat, NEW g \in [Nat -> T] PROVE F[<<x, g>>] = Body(x, g)
  <2>1. <<x, g>> \in Nat \X [Nat -> T] /\ <<x, g>>[1] = x /\ <<x, g>>[2] = g
    OBVIOUS
  <2> HIDE DEF Body
  <2> QED BY <2>1
<1>3. ASSUME NEW x \in Nat, NEW g \in [Nat -> T] PROVE Body(x, g) \in T
  <2>1. <<48 + (x % 10)>> \in T
    <3>1. 48 + (x % 10) \in Byte
      BY <1>1 DEF Byte
    <3> QED BY <3>1
  <2>2. (IF x \div 10 = 0 THEN <<>> ELSE g[x \div 10]) \in T
    BY <1>1, <1>3
  <2> QED BY <2>1, <2>2, ConcatProperties
<1>4. ASSUME NEW x \in Nat, NEW g \in [Nat -> T], NEW h \in [Nat -> T],
             \A y \in Nat : m[y] < m[x] => g[y] = h[y]
      PROVE  Body(x, g) = Body(x, h)
  BY <1>1, <1>4
<1>5. m \in [Nat -> Nat] /\ <<>> \in T
  OBVIOUS
<1>6. \E f \in [Nat -> T] : \A x \in Nat : f[x] = F[<<x, f>>]
  <2>1. ASSUME NEW x \in Nat, NEW g \in [Nat -> T] PROVE F[<<x, g>>] \in T
    <3> HIDE DEF F, Body
    <3> QED BY <1>2, <1>3
  <2>2. ASSUME NEW x \in Nat, NEW g \in [Nat -> T], NEW h \in [Nat -> T],
               \A y \in Nat : m[y] < m[x] => g[y] = h[y]
        PROVE  F[<<x, g>>] = F[<<x, h>>]
    <3>1. Body(x, g) = Body(x, h)
      BY <1>4, <2>2
    <3> HIDE DEF F, Body, m
    <3> QED BY <1>2, <3>1
  <2> HIDE DEF F, m, T
  <2>3. Recursive(Nat, T, m, F)
    BY <1>5, <2>1, <2>2 DEF Recursive
  <2>4. <<>> \in T
    BY <1>5
  <2>5. Solution(Nat, T, F)
    BY <2>3, <2>4, Recursion
  <2> QED BY <2>5 DEF Solution
<1>7. PICK f \in [Nat -> T] : \A x \in Nat : f[x] = Body(x, f)
  <2> HIDE DEF F, Body
  <2> QED BY <1>2, <1>6
<1>8. f = [x \in Nat |-> Body(x, f)]
  <2> HIDE DEF Body
  <2> QED BY <1>7
<1>9. DigitsReversed = CHOOSE h : h = [x \in Nat |-> Body(x, h)]
  BY DEF DigitsReversed
<1>10. DigitsReversed = [x \in Nat |-> Body(x, DigitsReversed)]
  <2> HIDE DEF Body
  <2> QED BY <1>8, <1>9
<1>11. DigitsReversed[v] = Body(v, DigitsReversed)
  BY <1>10
<1>12. DigitsReversed \in [Nat -> T]
  <2> DEFINE Bad == {x \in Nat : DigitsReversed[x] \notin T}
  <2>1. Bad = {}
    <3> SUFFICES ASSUME Bad # {} PROVE FALSE
      OBVIOUS
    <3>1. PICK k \in Bad : \A i \in Bad : k <= i
      <4>1. Bad \subseteq Nat
        OBVIOUS
      <4> HIDE DEF Bad
      <4> QED BY <4>1, Least
    <3>2. k \in Nat /\ DigitsReversed[k] \notin T
      OBVIOUS
    <3>3. k \div 10 # 0 => DigitsReversed[k \div 10] \in T
      BY <1>1, <3>1, <3>2
    <3>4. (IF k \div 10 = 0 THEN <<>> ELSE DigitsReversed[k \div 10]) \in T
      BY <3>3
    <3>5. <<48 + (k % 10)>> \in T
      BY <1>1, <3>2 DEF Byte
    <3>6. Body(k, DigitsReversed) \in T
      BY <3>4, <3>5, ConcatProperties
    <3>7. DigitsReversed[k] = Body(k, DigitsReversed)
      <4> HIDE DEF Body, Bad
      <4> QED BY <1>10, <3>2
    <3> QED BY <3>2, <3>6, <3>7
  <2> HIDE DEF T
  <2> QED BY <1>10, <2>1
<1> HIDE DEF T
<1> QED BY <1>11, <1>12 DEF T

\* So do the powers of ten.
LEMMA Pow10Is ==
  ASSUME NEW v \in Nat
  PROVE  Pow10[v] \in Nat /\ Pow10[v] = IF v = 0 THEN 1 ELSE 10 * Pow10[v - 1]
<1> DEFINE Body(x, g) == IF x = 0 THEN 1 ELSE 10 * g[x - 1]
           F == [xg \in Nat \X [Nat -> Nat] |-> Body(xg[1], xg[2])]
           m == [x \in Nat |-> x]
<1>1. \A x \in Nat : x # 0 => x - 1 \in Nat /\ x - 1 < x
  OBVIOUS
<1>2. ASSUME NEW x \in Nat, NEW g \in [Nat -> Nat] PROVE F[<<x, g>>] = Body(x, g)
  <2>1. <<x, g>> \in Nat \X [Nat -> Nat] /\ <<x, g>>[1] = x /\ <<x, g>>[2] = g
    OBVIOUS
  <2> HIDE DEF Body
  <2> QED BY <2>1
<1>3. ASSUME NEW x \in Nat, NEW g \in [Nat -> Nat] PROVE Body(x, g) \in Nat
  <2>1. CASE x = 0
    BY <2>1
  <2>2. CASE x # 0
    <3>1. PICK y \in Nat : y = g[x - 1]
      BY <1>1, <2>2
    <3> QED BY <2>2, <3>1
  <2> QED BY <2>1, <2>2
<1>4. ASSUME NEW x \in Nat, NEW g \in [Nat -> Nat], NEW h \in [Nat -> Nat],
             \A y \in Nat : m[y] < m[x] => g[y] = h[y]
      PROVE  Body(x, g) = Body(x, h)
  BY <1>1, <1>4
<1>5. m \in [Nat -> Nat]
  OBVIOUS
<1>6. PICK f \in [Nat -> Nat] : \A x \in Nat : f[x] = Body(x, f)
  <2>1. ASSUME NEW x \in Nat, NEW g \in [Nat -> Nat] PROVE F[<<x, g>>] \in Nat
    <3> HIDE DEF F, Body
    <3> QED BY <1>2, <1>3
  <2>2. ASSUME NEW x \in Nat, NEW g \in [Nat -> Nat], NEW h \in [Nat -> Nat],
               \A y \in Nat : m[y] < m[x] => g[y] = h[y]
        PROVE  F[<<x, g>>] = F[<<x, h>>]
    <3>1. Body(x, g) = Body(x, h)
      BY <1>4, <2>2
    <3> HIDE DEF F, Body, m
    <3> QED BY <1>2, <3>1
  <2> HIDE DEF F, m, Body
  <2>3. Recursive(Nat, Nat, m, F)
    BY <1>5, <2>1, <2>2 DEF Recursive
  <2>4. 0 \in Nat
    OBVIOUS
  <2>5. Solution(Nat, Nat, F)
    BY <2>3, <2>4, Recursion
  <2>6. PICK f \in [Nat -> Nat] : \A x \in Nat : f[x] = F[<<x, f>>]
    BY <2>5 DEF Solution
  <2> QED BY <1>2, <2>6
<1>7. f = [x \in Nat |-> Body(x, f)]
  <2> HIDE DEF Body
  <2> QED BY <1>6
<1>8. Pow10 = CHOOSE h : h = [x \in Nat |-> Body(x, h)]
  BY DEF Pow10
<1>9. Pow10 = [x \in Nat |-> Body(x, Pow10)]
  <2> HIDE DEF Body
  <2> QED BY <1>7, <1>8
<1>10. ASSUME NEW x \in Nat PROVE Pow10[x] = IF x = 0 THEN 1 ELSE 10 * Pow10[x - 1]
  BY <1>9
<1> DEFINE Bad == {x \in Nat : Pow10[x] \notin Nat}
<1>11. Bad = {}
  <2> SUFFICES ASSUME Bad # {} PROVE FALSE
    OBVIOUS
  <2>1. PICK k \in Bad : \A i \in Bad : k <= i
    <3>1. Bad \subseteq Nat
      OBVIOUS
    <3> HIDE DEF Bad
    <3> QED BY <3>1, Least
  <2>2. k \in Nat /\ Pow10[k] \notin Nat
    OBVIOUS
  <2>3. k = 0 => Pow10[k] = 1
    BY <1>10, <2>2
  <2>4. k # 0 => Pow10[k] = 10 * Pow10[k - 1] /\ Pow10[k - 1] \in Nat
    BY <1>1, <1>10, <2>1, <2>2
  <2>5. ASSUME NEW y \in Nat PROVE 10 * y \in Nat
    OBVIOUS
  <2> QED BY <2>2, <2>3, <2>4, <2>5
<1>12. Pow10[v] \in Nat
  BY <1>11
<1> QED BY <1>10, <1>12

\* A number below a power of ten has at most that many digits.
LEMMA DigitsFit ==
  ASSUME NEW k \in Nat \ {0}, NEW v \in Nat, v < Pow10[k]
  PROVE  Len(DigitsReversed[v]) \in Nat /\ Len(DigitsReversed[v]) <= k
<1> DEFINE Fit(j) == \A x \in Nat : x < Pow10[j] => Len(DigitsReversed[x]) <= j
           Bad == {j \in Nat \ {0} : ~Fit(j)}
<1>1. ASSUME NEW j \in Nat \ {0}, NEW x \in Nat, x < Pow10[j], j = 1 \/ Fit(j - 1)
      PROVE  Len(DigitsReversed[x]) <= j
  <2>1. PICK y : y = x \div 10
    OBVIOUS
  <2>2. y \in Nat /\ 10 * y <= x
    BY <2>1
  <2>3. PICK w : w = IF y = 0 THEN <<>> ELSE DigitsReversed[y]
    OBVIOUS
  <2>4. w \in Seq(Byte) /\ Len(w) <= j - 1
    <3>1. CASE y = 0
      BY <2>3, <3>1
    <3>2. CASE y # 0
      <4>1. w = DigitsReversed[y] /\ w \in Seq(Byte)
        BY <2>2, <2>3, <3>2, DigitsAre
      <4>2. j - 1 \in Nat /\ j # 0
        OBVIOUS
      <4>3. PICK p \in Nat : p = Pow10[j - 1]
        BY <4>2, Pow10Is
      <4>4. Pow10[j] = 10 * p
        BY <4>2, <4>3, Pow10Is
      <4>5. y < p
        BY <1>1, <2>2, <4>4
      <4>6. j = 1 => p = 1
        BY <4>3, Pow10Is
      <4>7. j # 1
        BY <2>2, <3>2, <4>5, <4>6
      <4>8. Len(DigitsReversed[y]) <= j - 1
        BY <1>1, <2>2, <4>3, <4>5, <4>7
      <4> QED BY <4>1, <4>8
    <3> QED BY <3>1, <3>2
  <2>5. PICK c \in Byte : c = 48 + (x % 10)
    BY DEF Byte
  <2>6. DigitsReversed[x] = <<c>> \o w
    BY <2>1, <2>3, <2>5, DigitsAre
  <2>7. <<c>> \in Seq(Byte) /\ Len(<<c>>) = 1
    OBVIOUS
  <2>8. Len(<<c>> \o w) = 1 + Len(w)
    BY <2>4, <2>7, ConcatProperties
  <2>9. Len(w) \in Nat
    BY <2>4, LenProperties
  <2> QED BY <2>4, <2>6, <2>8, <2>9
<1>2. Bad = {}
  <2> SUFFICES ASSUME Bad # {} PROVE FALSE
    OBVIOUS
  <2>1. PICK j \in Bad : \A i \in Bad : j <= i
    <3>1. Bad \subseteq Nat
      OBVIOUS
    <3> HIDE DEF Bad
    <3> QED BY <3>1, Least
  <2>2. j \in Nat \ {0} /\ ~Fit(j)
    OBVIOUS
  <2>3. j = 1 \/ Fit(j - 1)
    <3> SUFFICES ASSUME j # 1 PROVE Fit(j - 1)
      OBVIOUS
    <3>1. j - 1 \in Nat \ {0} /\ ~(j <= j - 1)
      BY <2>2
    <3>2. j - 1 \notin Bad
      <4> HIDE DEF Bad
      <4> QED BY <2>1, <3>1
    <3> HIDE DEF Fit
    <3> QED BY <3>1, <3>2
  <2>4. Fit(j)
    BY <1>1, <2>2, <2>3
  <2> QED BY <2>2, <2>4
<1>3. Fit(k)
  <2> HIDE DEF Fit
  <2> QED BY <1>2
<1>4. DigitsReversed[v] \in Seq(Byte)
  BY DigitsAre
<1> QED BY <1>3, <1>4, LenProperties

LEMMA BytesAssociate ==
  ASSUME NEW p \in Seq(Byte), NEW q \in Seq(Byte), NEW r \in Seq(Byte)
  PROVE  (p \o q) \o r = p \o (q \o r)
BY ConcatAssociative

\* Neighbouring parts of a text are one part.
LEMMA PartsJoin ==
  ASSUME NEW q \in Seq(Byte), NEW a \in Nat, NEW b \in Nat, NEW c \in Nat,
         a <= b, b <= c, c <= Len(q)
  PROVE  SubSeq(q, a + 1, b) \o SubSeq(q, b + 1, c) = SubSeq(q, a + 1, c)
<1>1. PICK k : k = a + 1
  OBVIOUS
<1>2. k \in 1..(Len(q) + 1) /\ b \in (k - 1)..Len(q) /\ c \in b..Len(q)
  BY <1>1, LenProperties
<1>3. SubSeq(q, k, b) \o SubSeq(q, b + 1, c) = SubSeq(q, k, c)
  BY <1>2, ConcatAdjacentSubSeq
<1> QED BY <1>1, <1>3

LEMMA Reversed ==
  ASSUME NEW w \in Seq(Byte)
  PROVE  /\ Reverse(w) \in Seq(Byte) /\ Len(Reverse(w)) = Len(w)
         /\ \A i \in 1..Len(w) : Reverse(w)[i] = w[Len(w) - i + 1]
<1>1. Len(w) \in Nat /\ \A i \in 1..Len(w) : w[i] \in Byte
  BY LenProperties, ElementOfSeq
<1>2. \A i \in 1..Len(w) : (Len(w) - i) + 1 \in 1..Len(w)
  BY <1>1
<1>3. Reverse(w) = [i \in 1..Len(w) |-> w[(Len(w) - i) + 1]]
  BY DEF Reverse
<1>4. Reverse(w) \in [1..Len(w) -> Byte]
  BY <1>1, <1>2, <1>3
<1>5. Reverse(w) \in Seq(Byte)
  BY <1>1, <1>4, SeqDef
<1>6. DOMAIN Reverse(w) = 1..Len(w)
  BY <1>3
<1>7. Len(Reverse(w)) = Len(w)
  BY <1>1, <1>5, <1>6, LenProperties
<1> QED BY <1>1, <1>3, <1>5, <1>7

LEMMA ReverseJoined ==
  ASSUME NEW w \in Seq(Byte), NEW c \in Byte
  PROVE  /\ Reverse(<<c>> \o w) = Reverse(w) \o <<c>>
         /\ Reverse(w \o <<c>>) = <<c>> \o Reverse(w)
<1>1. <<c>> \in Seq(Byte) /\ Len(<<c>>) = 1 /\ <<c>>[1] = c
  OBVIOUS
<1>2. PICK r : r = Reverse(w)
  OBVIOUS
<1>3. PICK n : n = Len(w)
  OBVIOUS
<1>4. n \in Nat /\ r \in Seq(Byte) /\ Len(r) = n /\ \A i \in 1..n : r[i] = w[n - i + 1]
  BY <1>2, <1>3, Reversed, LenProperties
<1>5. ASSUME NEW v \in Seq(Byte), Len(v) = n
      PROVE  /\ <<c>> \o v \in Seq(Byte) /\ Len(<<c>> \o v) = n + 1
             /\ \A i \in 1..(n + 1) : (<<c>> \o v)[i] = IF i = 1 THEN c ELSE v[i - 1]
             /\ v \o <<c>> \in Seq(Byte) /\ Len(v \o <<c>>) = n + 1
             /\ \A i \in 1..(n + 1) : (v \o <<c>>)[i] = IF i = n + 1 THEN c ELSE v[i]
  <2>1. PICK x : x = <<c>> \o v
    OBVIOUS
  <2>2. /\ x \in Seq(Byte) /\ Len(x) = 1 + n
        /\ \A i \in 1..Len(x) : x[i] = IF i <= 1 THEN <<c>>[i] ELSE v[i - 1]
    BY <1>1, <1>5, <2>1, ConcatProperties
  <2>3. PICK y : y = v \o <<c>>
    OBVIOUS
  <2>4. /\ y \in Seq(Byte) /\ Len(y) = n + 1
        /\ \A i \in 1..Len(y) : y[i] = IF i <= n THEN v[i] ELSE <<c>>[i - n]
    BY <1>1, <1>5, <2>3, ConcatProperties
  <2>5. Len(x) = n + 1 /\ \A i \in 1..(n + 1) : x[i] = IF i = 1 THEN c ELSE v[i - 1]
    BY <1>1, <1>4, <2>2
  <2>6. \A i \in 1..(n + 1) : y[i] = IF i = n + 1 THEN c ELSE v[i]
    BY <1>1, <1>4, <2>4
  <2> QED BY <2>1, <2>2, <2>3, <2>4, <2>5, <2>6
<1>6. ASSUME NEW x \in Seq(Byte), NEW y \in Seq(Byte), Len(x) = n + 1, Len(y) = n + 1,
             \A i \in 1..(n + 1) : x[(n + 1) - i + 1] = y[i]
      PROVE  Reverse(x) = y
  <2>1. PICK z : z = Reverse(x)
    OBVIOUS
  <2>2. z \in Seq(Byte) /\ Len(z) = Len(x) /\ \A i \in 1..Len(x) : z[i] = x[Len(x) - i + 1]
    BY <2>1, Reversed
  <2>3. z \in Seq(Byte) /\ Len(z) = n + 1
    BY <1>6, <2>2
  <2>4. \A i \in 1..(n + 1) : z[i] = y[i]
    BY <1>6, <2>2
  <2>5. z = y
    BY <1>6, <2>3, <2>4, SeqEqual
  <2> QED BY <2>1, <2>5
<1>7. ASSUME NEW i \in 1..(n + 1) PROVE (<<c>> \o w)[(n + 1) - i + 1] = (r \o <<c>>)[i]
  <2>1. (n + 1) - i + 1 \in 1..(n + 1) /\ ((n + 1) - i + 1) - 1 = n - i + 1
    BY <1>4
  <2>2. (n + 1) - i + 1 = 1 <=> i = n + 1
    BY <1>4
  <2>3. i # n + 1 => i \in 1..n
    BY <1>4
  <2>4. PICK j : j = (n + 1) - i + 1
    OBVIOUS
  <2>5. (<<c>> \o w)[j] = IF j = 1 THEN c ELSE w[j - 1]
    BY <1>3, <1>5, <2>1, <2>4
  <2>6. (r \o <<c>>)[i] = IF i = n + 1 THEN c ELSE r[i]
    BY <1>4, <1>5
  <2>7. i # n + 1 => r[i] = w[j - 1]
    BY <1>4, <2>1, <2>3, <2>4
  <2> QED BY <2>2, <2>4, <2>5, <2>6, <2>7
<1>8. ASSUME NEW i \in 1..(n + 1) PROVE (w \o <<c>>)[(n + 1) - i + 1] = (<<c>> \o r)[i]
  <2>1. (n + 1) - i + 1 \in 1..(n + 1) /\ (n + 1) - i + 1 = n - (i - 1) + 1
    BY <1>4
  <2>2. (n + 1) - i + 1 = n + 1 <=> i = 1
    BY <1>4
  <2>3. i # 1 => i - 1 \in 1..n
    BY <1>4
  <2>4. PICK j : j = (n + 1) - i + 1
    OBVIOUS
  <2>5. (w \o <<c>>)[j] = IF j = n + 1 THEN c ELSE w[j]
    BY <1>3, <1>5, <2>1, <2>4
  <2>6. (<<c>> \o r)[i] = IF i = 1 THEN c ELSE r[i - 1]
    BY <1>4, <1>5
  <2>7. i # 1 => r[i - 1] = w[j]
    BY <1>4, <2>1, <2>3, <2>4
  <2> QED BY <2>2, <2>4, <2>5, <2>6, <2>7
<1> QED BY <1>2, <1>3, <1>4, <1>5, <1>6, <1>7, <1>8

LEMMA NumberText ==
  ASSUME NEW v \in Int
  PROVE  sdsll2str(v) \in Seq(Byte)
<1>1. \A n \in Nat : DigitsReversed[n] \in Seq(Byte)
  BY DigitsAre
<1>2. CASE v < 0
  <2>1. -v \in Nat /\ <<45>> \in Seq(Byte)
    BY <1>2 DEF Byte
  <2> DEFINE t == DigitsReversed[-v] \o <<45>>
  <2>2. t \in Seq(Byte)
    BY <1>1, <2>1, ConcatProperties
  <2>3. sdsll2str(v) = Reverse(t)
    BY <1>2 DEF sdsll2str
  <2> HIDE DEF t
  <2> QED BY <2>2, <2>3, Reversed
<1>3. CASE ~(v < 0)
  <2>1. v \in Nat
    BY <1>3
  <2> DEFINE t == DigitsReversed[v]
  <2>2. sdsll2str(v) = Reverse(t)
    BY <1>3 DEF sdsll2str
  <2>3. t \in Seq(Byte)
    BY <1>1, <2>1
  <2> HIDE DEF t
  <2> QED BY <2>2, <2>3, Reversed
<1> QED BY <1>2, <1>3

\* A number of the program and its NUL fit the buffer they are printed to: the
\* digits, the sign and the NUL of the smallest long long are 21 bytes.
THEOREM NumbersFit ==
  \A v \in Number : Len(sdsll2str(v)) + 1 <= SDS_LLSTR_SIZE
<1> SUFFICES ASSUME NEW v \in Number  PROVE Len(sdsll2str(v)) + 1 <= SDS_LLSTR_SIZE
  OBVIOUS
<1>1. PICK n \in Nat : n = SDS_LLSTR_SIZE /\ n >= 2
  BY SdsAssumption, NumbersInRange
<1>2. v \in Int /\ -Pow10[n - 2] < v /\ v < Pow10[n - 1]
  BY <1>1, SdsAssumption, NumbersInRange
<1>3. n - 1 \in Nat \ {0} /\ n - 2 \in Nat
  BY <1>1
<1>4. CASE v < 0
  <2>1. PICK k \in Nat : k = -v
    BY <1>2, <1>4
  <2>2. PICK j \in Nat : j = n - 2
    BY <1>3
  <2>3. Pow10[j] \in Nat /\ k < Pow10[j] /\ k # 0
    BY <1>2, <1>4, <2>1, <2>2, Pow10Is
  <2>4. j # 0
    BY <2>3, Pow10Is
  <2>5. PICK w : w = DigitsReversed[k]
    OBVIOUS
  <2>6. w \in Seq(Byte) /\ Len(w) \in Nat /\ Len(w) <= j
    BY <2>3, <2>4, <2>5, DigitsFit, DigitsAre
  <2>7. PICK t : t = w \o <<45>>
    OBVIOUS
  <2>8. t \in Seq(Byte) /\ Len(t) = Len(w) + 1
    <3>1. <<45>> \in Seq(Byte) /\ Len(<<45>>) = 1
      BY DEF Byte
    <3> QED BY <2>6, <2>7, <3>1, ConcatProperties
  <2>9. sdsll2str(v) = Reverse(t)
    BY <1>4, <2>1, <2>5, <2>7 DEF sdsll2str
  <2>10. Len(sdsll2str(v)) = Len(w) + 1
    BY <2>8, <2>9, Reversed
  <2> QED BY <1>1, <2>2, <2>6, <2>10
<1>5. CASE ~(v < 0)
  <2>1. PICK k \in Nat : k = v
    BY <1>2, <1>5
  <2>2. PICK j \in Nat \ {0} : j = n - 1
    BY <1>3
  <2>3. PICK w : w = DigitsReversed[k]
    OBVIOUS
  <2>4. w \in Seq(Byte) /\ Len(w) \in Nat /\ Len(w) <= j
    BY <1>2, <2>1, <2>2, <2>3, DigitsFit, DigitsAre
  <2>5. sdsll2str(v) = Reverse(w)
    BY <1>5, <2>1, <2>3 DEF sdsll2str
  <2>6. Len(sdsll2str(v)) = Len(w)
    BY <2>4, <2>5, Reversed
  <2> QED BY <1>1, <2>2, <2>4, <2>6
<1> QED BY <1>4, <1>5

-----------------------------------------------------------------------------
(* The header and the memory *)

\* What sdsReqType returns can hold the length.
LEMMA ReqType ==
  ASSUME NEW n \in Nat
  PROVE  /\ sdsReqType(n) \in Types
         /\ sdsReqType(n) = 64 \/ n < Limit[sdsReqType(n)]
<1> DEFINE P(t) == /\ t = 64 \/ n < Limit[t]
                   /\ \A u \in Types : u = 64 \/ n < Limit[u] => t <= u
<1>1. \E t \in Types : P(t)
  <2>1. CASE n < Limit[5]
    BY <2>1, P(5) DEF Types
  <2>2. CASE ~(n < Limit[5]) /\ n < Limit[8]
    BY <2>2, P(8) DEF Types
  <2>3. CASE ~(n < Limit[5]) /\ ~(n < Limit[8]) /\ n < Limit[16]
    BY <2>3, P(16) DEF Types
  <2>4. CASE ~(n < Limit[5]) /\ ~(n < Limit[8]) /\ ~(n < Limit[16]) /\ n < Limit[32]
    BY <2>4, P(32) DEF Types
  <2>5. CASE ~(n < Limit[5]) /\ ~(n < Limit[8]) /\ ~(n < Limit[16]) /\ ~(n < Limit[32])
    BY <2>5, P(64) DEF Types
  <2> QED BY <2>1, <2>2, <2>3, <2>4, <2>5
<1>2. sdsReqType(n) \in Types /\ P(sdsReqType(n))
  BY <1>1 DEF sdsReqType
<1> QED BY <1>2

\* A field that is wide enough keeps all of what is stored.
LEMMA FieldFits ==
  ASSUME NEW t \in Types, NEW n \in Nat, t = 64 \/ n < Limit[t]
  PROVE  Field(t, n) = n
<1>1. t = 64 \/ Limit[t] \in Nat \ {0}
  BY SdsAssumption DEF Types
<1> QED BY <1>1 DEF Field

LEMMA Prefix ==
  ASSUME NEW q \in Seq(Byte), NEW k \in 0..Len(q)
  PROVE  /\ SubSeq(q, 1, k) \in Seq(Byte) /\ Len(SubSeq(q, 1, k)) = k
         /\ \A i \in 1..k : SubSeq(q, 1, k)[i] = q[i]
<1>1. Len(q) \in Nat /\ \A i \in 1..k : q[i] \in Byte
  BY LenProperties, ElementOfSeq
<1>2. /\ SubSeq(q, 1, k) \in Seq(Byte)
      /\ Len(SubSeq(q, 1, k)) = IF 1 <= k THEN k - 1 + 1 ELSE 0
      /\ \A i \in 1..(k - 1 + 1) : SubSeq(q, 1, k)[i] = q[1 + i - 1]
  BY <1>1, SubSeqProperties
<1> QED BY <1>2

LEMMA SamePrefix ==
  ASSUME NEW p \in Seq(Byte), NEW q \in Seq(Byte), NEW k \in 0..Len(p), k <= Len(q),
         \A i \in 1..k : p[i] = q[i]
  PROVE  SubSeq(p, 1, k) = SubSeq(q, 1, k)
<1>1. k \in 0..Len(q)
  BY LenProperties
<1>2. /\ SubSeq(p, 1, k) \in Seq(Byte) /\ Len(SubSeq(p, 1, k)) = k
      /\ \A i \in 1..k : SubSeq(p, 1, k)[i] = p[i]
  BY Prefix
<1>3. /\ SubSeq(q, 1, k) \in Seq(Byte) /\ Len(SubSeq(q, 1, k)) = k
      /\ \A i \in 1..k : SubSeq(q, 1, k)[i] = q[i]
  BY <1>1, Prefix
<1> QED BY <1>2, <1>3, SeqEqual

\* Writing alone.
LEMMA Wrote ==
  ASSUME NEW x \in SdsString, NEW offset \in 0..Len(x.mem), NEW b \in Seq(Byte), offset + Len(b) <= x.room
  PROVE  LET z == Write(x, offset, b)
         IN  /\ z \in SdsString /\ z.mem = SubSeq(x.mem, 1, offset) \o b
             /\ Len(z.mem) = offset + Len(b)
             /\ z.type = x.type /\ z.len = x.len /\ z.alloc = x.alloc /\ z.room = x.room /\ z.over = x.over
<1> DEFINE mem == SubSeq(x.mem, 1, offset) \o b
           z == Write(x, offset, b)
<1>1. x.mem \in Seq(Byte) /\ Len(x.mem) \in Nat /\ Len(b) \in Nat
  BY LenProperties DEF SdsString
<1>2. mem \in Seq(Byte) /\ Len(mem) = offset + Len(b)
  BY <1>1, Prefix, ConcatProperties
<1>3. z = [[x EXCEPT !.mem = mem] EXCEPT !.over = x.over]
  <2>1. x.over + 0 = x.over
    BY DEF SdsString
  <2>2. z = [[x EXCEPT !.mem = mem] EXCEPT !.over = x.over + 0]
    BY <1>1 DEF Write, SdsString
  <2> QED BY <2>1, <2>2
<1>4. z = [type |-> x.type, len |-> x.len, alloc |-> x.alloc, room |-> x.room, mem |-> mem, over |-> x.over]
  BY <1>3 DEF SdsString
<1> QED BY <1>2, <1>4 DEF SdsString

\* What the header of a sound string can hold.
Fits(x, n) == IF x.type = 5 THEN n < Limit[5] /\ n + 1 <= x.room ELSE n <= x.alloc

LEMMA FitsField ==
  ASSUME NEW x, Good(x), NEW n \in Nat, Fits(x, n)
  PROVE  /\ Field(x.type, n) = n /\ n + 1 <= x.room
<1>1. x.type \in Types /\ (x.type # 64 => sdsalloc(x) < Limit[x.type]) /\ sdsalloc(x) + 1 <= x.room
  BY DEF Good, Sound, SdsString
<1>2. x.type = 64 \/ n < Limit[x.type]
  <2>1. CASE x.type = 5
    BY <2>1 DEF Fits
  <2>2. CASE x.type # 5
    <3>1. x.type # 64 => Limit[x.type] \in Nat /\ x.alloc < Limit[x.type]
      BY <1>1, <2>2, SdsAssumption DEF sdsalloc, Types
    <3> QED BY <2>2, <3>1 DEF Good, SdsString, Fits
  <2> QED BY <2>1, <2>2
<1>3. n + 1 <= x.room
  BY <1>1 DEF Fits, Good, SdsString, sdsalloc
<1> QED BY <1>1, <1>2, <1>3, FieldFits

LEMMA SetLen ==
  ASSUME NEW x, Good(x), NEW n \in Nat, Fits(x, n), NEW z \in SdsString, n <= Len(z.mem),
         z.type = x.type, z.alloc = x.alloc, z.room = x.room, z.over = 0
  PROVE  LET y == sdssetlen(z, n)
         IN  /\ Good(y) /\ y.len = n /\ y.mem = z.mem
             /\ y.type = x.type /\ y.room = x.room /\ y.alloc = x.alloc
<1> DEFINE y == sdssetlen(z, n)
<1>1. Field(z.type, n) = n /\ n + 1 <= x.room
  BY FitsField
<1>2. /\ y \in SdsString /\ y.mem = z.mem /\ y.over = 0 /\ y.len = n
      /\ y.type = x.type /\ y.room = x.room /\ y.alloc = x.alloc
  BY <1>1 DEF sdssetlen, SdsString
<1>3. /\ x.type # 64 => sdsalloc(x) < Limit[x.type]
      /\ sdsalloc(x) + 1 <= x.room
  BY DEF Good, Sound
<1>4. Sound(y)
  BY <1>1, <1>2, <1>3 DEF Sound, sdsalloc, Fits, SdsString
<1> QED BY <1>2, <1>4 DEF Good

IsJoin(u, p, r) ==
  /\ Len(u) = Len(p) + Len(r)
  /\ \A i \in 1..Len(p) : u[i] = p[i]
  /\ \A i \in 1..Len(r) : u[Len(p) + i] = r[i]

LEMMA JoinedSeq ==
  ASSUME NEW S, NEW p \in Seq(S), NEW r \in Seq(S)
  PROVE  p \o r \in Seq(S) /\ IsJoin(p \o r, p, r)
<1>1. Len(p) \in Nat /\ Len(r) \in Nat
  BY LenProperties
<1>2. /\ p \o r \in Seq(S) /\ Len(p \o r) = Len(p) + Len(r)
      /\ \A i \in 1..(Len(p) + Len(r)) : (p \o r)[i] = IF i <= Len(p) THEN p[i] ELSE r[i - Len(p)]
  BY ConcatProperties
<1>3. \A i \in 1..Len(p) : (p \o r)[i] = p[i]
  BY <1>1, <1>2
<1>4. ASSUME NEW i \in 1..Len(r)
      PROVE  (p \o r)[Len(p) + i] = r[i]
  <2>1. Len(p) + i \in 1..(Len(p) + Len(r)) /\ ~(Len(p) + i <= Len(p)) /\ (Len(p) + i) - Len(p) = i
    BY <1>1
  <2> DEFINE j == Len(p) + i
  <2>2. (p \o r)[j] = IF j <= Len(p) THEN p[j] ELSE r[j - Len(p)]
    BY <1>2, <2>1
  <2> QED BY <2>1, <2>2
<1> QED BY <1>2, <1>3, <1>4 DEF IsJoin

LEMMA Joined ==
  ASSUME NEW p \in Seq(Byte), NEW r \in Seq(Byte)
  PROVE  /\ p \o r \in Seq(Byte) /\ Len(p \o r) = Len(p) + Len(r)
         /\ \A i \in 1..Len(p) : (p \o r)[i] = p[i]
         /\ \A i \in 1..Len(r) : (p \o r)[Len(p) + i] = r[i]
BY JoinedSeq DEF IsJoin

\* Text with a NUL behind it, in a sequence.
LEMMA Closed ==
  ASSUME NEW p \in Seq(Byte), NEW b \in Seq(Byte)
  PROVE  LET q == p \o (b \o <<NUL>>)
         IN  /\ q \in Seq(Byte) /\ Len(q) = Len(p) + Len(b) + 1
             /\ q[Len(p) + Len(b) + 1] = NUL
             /\ SubSeq(q, 1, Len(p) + Len(b)) = p \o b
<1> DEFINE nul == <<NUL>>
           r == b \o nul
           q == p \o r
           k == Len(p) + Len(b)
<1>1. Len(p) \in Nat /\ Len(b) \in Nat /\ nul \in Seq(Byte) /\ Len(nul) = 1 /\ nul[1] = NUL
  BY LenProperties DEF Byte, NUL
<1> HIDE DEF nul
<1>2. /\ r \in Seq(Byte) /\ Len(r) = Len(b) + 1
      /\ \A i \in 1..Len(b) : r[i] = b[i]
      /\ \A i \in 1..Len(nul) : r[Len(b) + i] = nul[i]
  <2>1. /\ r \in Seq(Byte) /\ Len(r) = Len(b) + Len(nul)
        /\ \A i \in 1..Len(b) : r[i] = b[i]
        /\ \A i \in 1..Len(nul) : r[Len(b) + i] = nul[i]
    BY <1>1, Joined
  <2> HIDE DEF r
  <2> QED BY <1>1, <2>1
<1>3. r[Len(b) + 1] = NUL
  <2> HIDE DEF r
  <2> QED BY <1>1, <1>2
<1> HIDE DEF r
<1>4. /\ q \in Seq(Byte) /\ Len(q) = Len(p) + Len(r)
      /\ \A i \in 1..Len(p) : q[i] = p[i]
      /\ \A i \in 1..Len(r) : q[Len(p) + i] = r[i]
  BY <1>2, Joined
<1> HIDE DEF q
<1>5. Len(q) = k + 1 /\ q[k + 1] = NUL
  <2>1. Len(p) + (Len(b) + 1) = k + 1 /\ Len(b) + 1 \in 1..Len(r)
    BY <1>1, <1>2
  <2>2. q[Len(p) + (Len(b) + 1)] = r[Len(b) + 1]
    BY <1>4, <2>1
  <2> QED BY <1>2, <1>3, <1>4, <2>1, <2>2
<1>6. SubSeq(q, 1, k) = p \o b
  <2>1. k \in 0..Len(q)
    BY <1>1, <1>5
  <2>2. /\ SubSeq(q, 1, k) \in Seq(Byte) /\ Len(SubSeq(q, 1, k)) = k
        /\ \A i \in 1..k : SubSeq(q, 1, k)[i] = q[i]
    BY <1>4, <2>1, Prefix
  <2>3. /\ p \o b \in Seq(Byte) /\ Len(p \o b) = k
        /\ \A i \in 1..Len(p) : (p \o b)[i] = p[i]
        /\ \A i \in 1..Len(b) : (p \o b)[Len(p) + i] = b[i]
    BY Joined
  <2>4. ASSUME NEW i \in 1..k
        PROVE  q[i] = (p \o b)[i]
    <3>1. CASE i <= Len(p)
      BY <1>1, <1>4, <2>3, <3>1
    <3>2. CASE ~(i <= Len(p))
      <4>1. PICK j \in 1..Len(b) : i = Len(p) + j
        <5>1. i - Len(p) \in 1..Len(b) /\ i = Len(p) + (i - Len(p))
          BY <1>1, <3>2
        <5> QED BY <5>1
      <4>2. j \in 1..Len(r)
        BY <1>1, <1>2
      <4>3. q[Len(p) + j] = r[j] /\ r[j] = b[j] /\ (p \o b)[Len(p) + j] = b[j]
        BY <1>2, <1>4, <2>3, <4>2
      <4> QED BY <4>1, <4>3
    <3> QED BY <3>1, <3>2
  <2> HIDE DEF k
  <2> QED BY <2>2, <2>3, <2>4, SeqEqual
<1> QED BY <1>1, <1>4, <1>5, <1>6 DEF nul, r, q

\* Writing a text and its NUL, and storing the length.
LEMMA Put ==
  ASSUME NEW x, Good(x), NEW offset \in 0..Len(x.mem), NEW b \in Seq(Byte),
         Fits(x, offset + Len(b))
  PROVE  LET y == sdssetlen(Write(x, offset, b \o <<NUL>>), offset + Len(b))
         IN  /\ Good(y) /\ Terminated(y) /\ y.len = offset + Len(b)
             /\ Content(y) = SubSeq(x.mem, 1, offset) \o b
             /\ y.type = x.type /\ y.room = x.room /\ y.alloc = x.alloc
<1> DEFINE c == b \o <<NUL>>
           n == offset + Len(b)
           p == SubSeq(x.mem, 1, offset)
           z == Write(x, offset, c)
           y == sdssetlen(z, n)
<1>1. x \in SdsString /\ x.mem \in Seq(Byte) /\ Len(x.mem) \in Nat /\ Len(b) \in Nat /\ n \in Nat /\ x.over = 0
  BY LenProperties DEF Good, Sound, SdsString
<1>2. p \in Seq(Byte) /\ Len(p) = offset
  BY <1>1, Prefix
<1>3. c \in Seq(Byte) /\ Len(c) = Len(b) + 1
  <2>1. <<NUL>> \in Seq(Byte) /\ Len(<<NUL>>) = 1
    BY DEF Byte, NUL
  <2> QED BY <2>1, ConcatProperties
<1>4. n + 1 <= x.room
  BY <1>1, FitsField
<1>5. /\ z \in SdsString /\ z.mem = p \o (b \o <<NUL>>)
      /\ z.type = x.type /\ z.len = x.len /\ z.alloc = x.alloc /\ z.room = x.room /\ z.over = 0
  <2>1. offset + Len(c) <= x.room
    BY <1>1, <1>3, <1>4
  <2> HIDE DEF c
  <2>2. /\ z \in SdsString /\ z.mem = p \o c
        /\ z.type = x.type /\ z.len = x.len /\ z.alloc = x.alloc /\ z.room = x.room /\ z.over = x.over
    BY <1>1, <1>3, <2>1, Wrote
  <2> QED BY <1>1, <2>2 DEF c
<1>6. Len(z.mem) = n + 1 /\ z.mem[n + 1] = NUL /\ SubSeq(z.mem, 1, n) = p \o b
  <2>1. z.mem = p \o (b \o <<NUL>>)
    BY <1>5
  <2> HIDE DEF z, p
  <2>2. Len(p) + Len(b) = n
    BY <1>2
  <2>3. PICK k : k = p \o (b \o <<NUL>>)
    OBVIOUS
  <2>4. /\ Len(k) = Len(p) + Len(b) + 1 /\ k[Len(p) + Len(b) + 1] = NUL
        /\ SubSeq(k, 1, Len(p) + Len(b)) = p \o b
    BY <1>2, <2>3, Closed
  <2> HIDE DEF n
  <2> QED BY <2>1, <2>2, <2>3, <2>4
<1>7. /\ Good(y) /\ y.len = n /\ y.mem = z.mem
      /\ y.type = x.type /\ y.room = x.room /\ y.alloc = x.alloc
  <2>1. n <= Len(z.mem)
    BY <1>1, <1>6
  <2>2. Fits(x, n)
    OBVIOUS
  <2> HIDE DEF z, n
  <2> QED BY <1>1, <1>5, <2>1, <2>2, SetLen
<1>8. Terminated(y) /\ Content(y) = p \o b
  <2> HIDE DEF y, z, n, p
  <2> QED BY <1>1, <1>6, <1>7 DEF Terminated, Content
<1> QED BY <1>7, <1>8

\* Giving a string another header and another space, which both can hold it.
LEMMA Rehouse ==
  ASSUME NEW x, Good(x), NEW t \in Types, NEW size \in Nat, x.len <= size,
         t = 64 \/ size < Limit[t], t = 5 => size = x.len,
         NEW y, y = IF t = x.type THEN [x EXCEPT !.room = size + 1] ELSE Moved(x, t, size)
  PROVE  LET z == sdssetalloc(y, size)
         IN  /\ Good(z) /\ z.len = x.len /\ z.type = t /\ z.room = size + 1 /\ sdsalloc(z) = size
             /\ Content(z) = Content(x)
             /\ Terminated(x) => Terminated(z)
<1> DEFINE z == sdssetalloc(y, size)
           copied == IF x.len < Len(x.mem) THEN x.len + 1 ELSE x.len
           m == SubSeq(x.mem, 1, copied)
<1>1. /\ x \in SdsString /\ x.over = 0 /\ x.len \in Nat /\ x.mem \in Seq(Byte) /\ Len(x.mem) \in Nat
      /\ x.len <= Len(x.mem) /\ x.type \in Types
  BY LenProperties DEF Good, Sound, SdsString
<1>2. copied \in Nat /\ x.len <= copied /\ copied <= Len(x.mem)
  BY <1>1
<1>3. /\ m \in Seq(Byte) /\ Len(m) = copied
      /\ \A i \in 1..copied : m[i] = x.mem[i]
  BY <1>1, <1>2, Prefix
<1>4. Field(t, size) = size
  BY FieldFits
<1>5. t = 64 \/ x.len < Limit[t]
  <2> SUFFICES ASSUME t # 64  PROVE x.len < Limit[t]
    OBVIOUS
  <2>1. Limit[t] \in Nat
    BY SdsAssumption DEF Types
  <2>2. x.len <= size /\ size < Limit[t] /\ x.len \in Nat
    BY <1>1
  <2> QED BY <2>1, <2>2
<1>6. Field(t, x.len) = x.len
  BY <1>1, <1>5, FieldFits
<1>7. /\ y \in SdsString /\ y.type = t /\ y.len = x.len /\ y.room = size + 1 /\ y.over = 0
      /\ y.mem = IF t = x.type THEN x.mem ELSE m
  <2>1. CASE t = x.type
    BY <1>1, <2>1 DEF SdsString
  <2>2. CASE t # x.type
    <3> DEFINE w1 == [x EXCEPT !.type = t]
               w2 == [w1 EXCEPT !.room = size + 1]
               w3 == [w2 EXCEPT !.mem = m]
    <3>1. y = sdssetlen(w3, x.len)
      BY <2>2, <1>1 DEF Moved, SdsString
    <3> HIDE DEF m
    <3>2. /\ w1 \in SdsString /\ w1.type = t /\ w1.len = x.len /\ w1.over = 0
      BY <1>1 DEF SdsString
    <3> HIDE DEF w1
    <3>3. /\ w2 \in SdsString /\ w2.type = t /\ w2.len = x.len /\ w2.over = 0 /\ w2.room = size + 1
      BY <3>2 DEF SdsString
    <3> HIDE DEF w2
    <3>4. /\ w3 \in SdsString /\ w3.type = t /\ w3.len = x.len /\ w3.over = 0 /\ w3.room = size + 1
          /\ w3.mem = m
      BY <3>3, <1>3 DEF SdsString
    <3> HIDE DEF w3
    <3> QED BY <2>2, <1>1, <1>6, <3>1, <3>4 DEF sdssetlen, SdsString
  <2> QED BY <2>1, <2>2
<1>8. Len(y.mem) \in Nat /\ x.len <= Len(y.mem) /\ \A i \in 1..x.len : y.mem[i] = x.mem[i]
  <2> HIDE DEF m, copied
  <2>1. CASE t = x.type
    BY <1>1, <1>7, <2>1
  <2>2. CASE t # x.type
    BY <1>1, <1>2, <1>3, <1>7, <2>2
  <2> QED BY <2>1, <2>2
<1>9. /\ z \in SdsString /\ z.len = x.len /\ z.type = t /\ z.room = size + 1 /\ z.over = 0
      /\ z.mem = y.mem /\ sdsalloc(z) = size
  BY <1>1, <1>4, <1>7 DEF sdssetalloc, sdsalloc, SdsString
<1>10. Sound(z)
  BY <1>8, <1>9, <1>1 DEF Sound
<1>11. Content(z) = Content(x)
  <2>1. y.mem \in Seq(Byte) /\ x.len \in 0..Len(y.mem)
    BY <1>1, <1>7, <1>8 DEF SdsString
  <2>2. SubSeq(y.mem, 1, x.len) = SubSeq(x.mem, 1, x.len)
    BY <1>1, <1>8, <2>1, SamePrefix
  <2> QED BY <1>9, <2>2 DEF Content
<1>12. Terminated(x) => Terminated(z)
  <2> SUFFICES ASSUME Terminated(x) PROVE Terminated(z)
    OBVIOUS
  <2>1. copied = x.len + 1 /\ x.len + 1 \in 1..copied
    BY <1>1 DEF Terminated
  <2>2. x.len < Len(y.mem) /\ y.mem[x.len + 1] = x.mem[x.len + 1]
    <3> HIDE DEF m, copied
    <3>1. CASE t = x.type
      BY <1>7, <3>1 DEF Terminated
    <3>2. CASE t # x.type
      BY <1>1, <1>3, <1>7, <2>1, <3>2
    <3> QED BY <3>1, <3>2
  <2> QED BY <1>9, <2>2 DEF Terminated
<1> QED BY <1>9, <1>10, <1>11, <1>12 DEF Good

\* sdsMakeRoomFor: the string is the same, with the room that was asked for.
LEMMA MoreRoom ==
  ASSUME NEW x, Good(x), NEW n \in Nat
  PROVE  LET y == sdsMakeRoomFor(x, n)
         IN  /\ Good(y) /\ y.len = x.len /\ Content(y) = Content(x)
             /\ Terminated(x) => Terminated(y)
             /\ sdsavail(y) >= n /\ y.room >= x.len + n + 1
             /\ y.type # 5 => y.alloc >= x.len + n
             /\ n > 0 => y.type # 5
<1> DEFINE reqlen == x.len + n
           newlen == IF reqlen < SDS_MAX_PREALLOC THEN 2 * reqlen ELSE reqlen + SDS_MAX_PREALLOC
           type == IF sdsReqType(newlen) = 5 THEN 8 ELSE sdsReqType(newlen)
           bigger == IF type = x.type THEN [x EXCEPT !.room = newlen + 1] ELSE Moved(x, type, newlen)
<1>1. /\ x.len \in Nat /\ x.alloc \in Nat /\ x.room \in Nat /\ x.len <= sdsalloc(x)
      /\ sdsalloc(x) + 1 <= x.room
  BY DEF Good, Sound, SdsString
<1>2. CASE sdsavail(x) >= n
  BY <1>1, <1>2 DEF sdsMakeRoomFor, sdsavail, sdsalloc
<1>3. CASE ~(sdsavail(x) >= n)
  <2>1. newlen \in Nat /\ x.len + n <= newlen
    <3>1. SDS_MAX_PREALLOC \in Nat
      BY SdsAssumption
    <3> QED BY <1>1, <3>1
  <2> HIDE DEF newlen
  <2>2. type \in Types /\ type # 5 /\ (type = 64 \/ newlen < Limit[type])
    BY <2>1, ReqType, SdsAssumption DEF Types
  <2> HIDE DEF type
  <2>3. x.len <= newlen
    BY <1>1, <2>1
  <2> DEFINE z == sdssetalloc(bigger, newlen)
  <2>4. /\ Good(z) /\ z.len = x.len /\ z.type = type /\ z.room = newlen + 1 /\ sdsalloc(z) = newlen
        /\ Content(z) = Content(x)
        /\ Terminated(x) => Terminated(z)
    BY <2>1, <2>2, <2>3, Rehouse
  <2>5. sdsMakeRoomFor(x, n) = z
    BY <1>3 DEF sdsMakeRoomFor, newlen, type
  <2> QED BY <1>1, <2>1, <2>2, <2>4, <2>5 DEF sdsavail, sdsalloc
<1> QED BY <1>2, <1>3

-----------------------------------------------------------------------------
(* The calls that append and overwrite *)

\* A string ends up sound, closed, and with this content.
Holds(y, t) == Good(y) /\ Terminated(y) /\ y.len = Len(t) /\ Content(y) = t

LEMMA ContentIs ==
  ASSUME NEW x, Good(x)
  PROVE  /\ Content(x) \in Seq(Byte) /\ Len(Content(x)) = x.len
         /\ \A i \in 1..x.len : Content(x)[i] = x.mem[i]
<1>1. x.mem \in Seq(Byte) /\ x.len \in 0..Len(x.mem)
  BY LenProperties DEF Good, Sound, SdsString
<1> QED BY <1>1, Prefix DEF Content

\* A text written behind the content of a string that has room for it.
LEMMA Extend ==
  ASSUME NEW x, Good(x), NEW t \in Seq(Byte), Fits(x, x.len + Len(t))
  PROVE  Holds(sdssetlen(Write(x, x.len, t \o <<NUL>>), x.len + Len(t)), Content(x) \o t)
<1>1. x.len \in 0..Len(x.mem)
  BY LenProperties DEF Good, Sound, SdsString
<1>2. Len(Content(x) \o t) = x.len + Len(t)
  BY ContentIs, ConcatProperties
<1> DEFINE y == sdssetlen(Write(x, x.len, t \o <<NUL>>), x.len + Len(t))
<1>3. Good(y) /\ Terminated(y) /\ y.len = x.len + Len(t) /\ Content(y) = SubSeq(x.mem, 1, x.len) \o t
  BY <1>1, Put
<1> HIDE DEF y
<1>4. Holds(y, Content(x) \o t)
  BY <1>2, <1>3 DEF Holds, Content
<1> QED BY <1>4 DEF y

\* A text written over the whole of a string that has room for it.
LEMMA Replace ==
  ASSUME NEW x, Good(x), NEW t \in Seq(Byte), Fits(x, Len(t))
  PROVE  Holds(sdssetlen(Write(x, 0, t \o <<NUL>>), Len(t)), t)
<1>1. 0 \in 0..Len(x.mem) /\ Len(t) \in Nat /\ 0 + Len(t) = Len(t)
  BY LenProperties DEF Good, SdsString
<1>2. SubSeq(x.mem, 1, 0) \in Seq(Byte) /\ Len(SubSeq(x.mem, 1, 0)) = 0
  BY <1>1, Prefix DEF Good, SdsString
<1>3. SubSeq(x.mem, 1, 0) \o t = t
  <2>1. SubSeq(x.mem, 1, 0) = <<>>
    BY <1>2, EmptySeq, SeqEqual
  <2> QED BY <2>1, ConcatEmptySeq
<1> DEFINE y == sdssetlen(Write(x, 0, t \o <<NUL>>), 0 + Len(t))
<1>4. Good(y) /\ Terminated(y) /\ y.len = 0 + Len(t) /\ Content(y) = SubSeq(x.mem, 1, 0) \o t
  BY <1>1, Put
<1>5. y = sdssetlen(Write(x, 0, t \o <<NUL>>), Len(t))
  BY <1>1
<1> HIDE DEF y
<1>6. Holds(y, t)
  BY <1>1, <1>3, <1>4 DEF Holds
<1> QED BY <1>5, <1>6

LEMMA RoomFits ==
  ASSUME NEW x, Good(x), NEW n \in Nat
  PROVE  Fits(sdsMakeRoomFor(x, n), x.len + n)
<1> DEFINE y == sdsMakeRoomFor(x, n)
<1>1. /\ Good(y) /\ y.len = x.len /\ y.room >= x.len + n + 1
      /\ y.type # 5 => y.alloc >= x.len + n
      /\ n > 0 => y.type # 5
  BY MoreRoom
<1> HIDE DEF y
<1>2. /\ y.type = 5 => y.len < Limit[5]
      /\ x.len \in Nat /\ y.alloc \in Nat /\ y.room \in Nat
  BY <1>1 DEF Good, Sound, SdsString, sdsalloc
<1>3. Fits(y, x.len + n)
  BY <1>1, <1>2 DEF Fits
<1> QED BY <1>3 DEF y

LEMMA CatHolds ==
  ASSUME NEW x, Good(x), NEW t \in Seq(Byte)
  PROVE  Holds(sdscatlen(x, t), Content(x) \o t)
<1> DEFINE y == sdsMakeRoomFor(x, Len(t))
<1>1. Len(t) \in Nat
  BY LenProperties
<1>2. Good(y) /\ y.len = x.len /\ Content(y) = Content(x)
  BY <1>1, MoreRoom
<1>3. Fits(y, x.len + Len(t))
  BY <1>1, RoomFits
<1>4. sdscatlen(x, t) = sdssetlen(Write(y, y.len, t \o <<NUL>>), y.len + Len(t))
  BY <1>2 DEF sdscatlen
<1> HIDE DEF y
<1> QED BY <1>2, <1>3, <1>4, Extend

LEMMA CpyHolds ==
  ASSUME NEW x, Good(x), NEW t \in Seq(Byte)
  PROVE  Holds(sdscpylen(x, t), t)
<1>1. Len(t) \in Nat
  BY LenProperties
<1>2. /\ x.len \in Nat /\ x.alloc \in Nat /\ x.room \in Nat
      /\ x.len <= sdsalloc(x) /\ sdsalloc(x) + 1 <= x.room
      /\ x.type = 5 => x.len < Limit[5] /\ Limit[5] \in Nat
  BY SdsAssumption DEF Good, Sound, SdsString, sdsalloc
<1>3. CASE sdsalloc(x) < Len(t)
  <2> DEFINE n == Len(t) - x.len
             y == sdsMakeRoomFor(x, n)
  <2>1. n \in Nat /\ x.len + n = Len(t)
    BY <1>1, <1>2, <1>3 DEF sdsalloc
  <2>2. sdscpylen(x, t) = sdssetlen(Write(y, 0, t \o <<NUL>>), Len(t))
    BY <1>3 DEF sdscpylen
  <2> HIDE DEF n
  <2>3. Good(y) /\ Fits(y, x.len + n)
    BY <2>1, MoreRoom, RoomFits
  <2> HIDE DEF y
  <2> QED BY <2>1, <2>2, <2>3, Replace
<1>4. CASE ~(sdsalloc(x) < Len(t))
  <2>1. sdscpylen(x, t) = sdssetlen(Write(x, 0, t \o <<NUL>>), Len(t))
    BY <1>4 DEF sdscpylen
  <2>2. Fits(x, Len(t))
    BY <1>1, <1>2, <1>4 DEF Fits, sdsalloc
  <2> QED BY <2>1, <2>2, Replace
<1> QED BY <1>3, <1>4

LEMMA GrowHolds ==
  ASSUME NEW x, Good(x), Terminated(x), NEW n \in Nat
  PROVE  Holds(sdsgrowzero(x, n), Content(x) \o [i \in 1..(n - x.len) |-> NUL])
<1>1. x.len \in Nat
  BY DEF Good, SdsString
<1>2. CASE n <= x.len
  <2> DEFINE none == [i \in 1..(n - x.len) |-> NUL]
  <2>1. none = <<>>
    <3>1. none \in Seq(Byte) /\ Len(none) = 0
      <4>1. 1..(n - x.len) = 1..0
        BY <1>1, <1>2
      <4>2. none = [i \in 1..0 |-> NUL]
        BY <4>1
      <4>3. ASSUME NEW k \in Nat
            PROVE  LET z == [i \in 1..k |-> NUL] IN z \in Seq(Byte) /\ Len(z) = k
        BY DEF Byte, NUL
      <4> QED BY <4>2, <4>3
    <3> QED BY <3>1, EmptySeq, SeqEqual
  <2>2. Content(x) \o none = Content(x)
    BY <2>1, ContentIs, ConcatEmptySeq
  <2>3. sdsgrowzero(x, n) = x
    BY <1>2 DEF sdsgrowzero
  <2> HIDE DEF none
  <2>4. Holds(x, Content(x) \o none)
    BY <2>2, ContentIs DEF Holds
  <2> QED BY <2>3, <2>4 DEF none
<1>3. CASE ~(n <= x.len)
  <2> DEFINE k == n - x.len
             zeros == [i \in 1..k |-> NUL]
             more == [i \in 1..(k + 1) |-> NUL]
             y == sdsMakeRoomFor(x, k)
  <2>1. k \in Nat /\ x.len + k = n
    BY <1>1, <1>3
  <2> HIDE DEF k
  <2>2. zeros \in Seq(Byte) /\ Len(zeros) = k /\ \A i \in 1..k : zeros[i] = NUL
    BY <2>1 DEF Byte, NUL
  <2>3. more \in Seq(Byte) /\ Len(more) = k + 1 /\ \A i \in 1..(k + 1) : more[i] = NUL
    BY <2>1 DEF Byte, NUL
  <2> HIDE DEF zeros, more
  <2>4. more = zeros \o <<NUL>>
    <3> DEFINE nul == <<NUL>>
    <3>1. nul \in Seq(Byte) /\ Len(nul) = 1 /\ nul[1] = NUL
      BY DEF Byte, NUL
    <3> HIDE DEF nul
    <3>2. /\ zeros \o nul \in Seq(Byte) /\ Len(zeros \o nul) = Len(zeros) + Len(nul)
          /\ \A i \in 1..Len(zeros) : (zeros \o nul)[i] = zeros[i]
          /\ \A i \in 1..Len(nul) : (zeros \o nul)[Len(zeros) + i] = nul[i]
      BY <2>2, <3>1, Joined
    <3>3. ASSUME NEW i \in 1..(k + 1)
          PROVE  (zeros \o nul)[i] = NUL
      <4>1. CASE i <= k
        BY <2>1, <2>2, <3>2, <4>1
      <4>2. CASE ~(i <= k)
        <5>1. i = k + 1
          BY <2>1, <4>2
        <5> QED BY <2>2, <3>1, <3>2, <5>1
      <4> QED BY <4>1, <4>2
    <3>4. Len(zeros \o nul) = k + 1
      BY <2>2, <3>1, <3>2
    <3>5. more = zeros \o nul
      BY <2>3, <3>2, <3>3, <3>4, SeqEqual
    <3> QED BY <3>5 DEF nul
  <2>5. Good(y) /\ y.len = x.len /\ Content(y) = Content(x) /\ Fits(y, x.len + k)
    BY <2>1, MoreRoom, RoomFits
  <2>6. sdsgrowzero(x, n) = sdssetlen(Write(y, x.len, more), n)
    BY <1>3 DEF sdsgrowzero, more, k
  <2>7. sdsgrowzero(x, n) = sdssetlen(Write(y, y.len, zeros \o <<NUL>>), y.len + Len(zeros))
    BY <2>1, <2>2, <2>4, <2>5, <2>6
  <2> HIDE DEF y
  <2>8. Fits(y, y.len + Len(zeros))
    BY <2>2, <2>5
  <2>9. Holds(sdsgrowzero(x, n), Content(x) \o zeros)
    BY <2>2, <2>5, <2>7, <2>8, Extend
  <2> QED BY <2>9 DEF zeros, k
<1> QED BY <1>2, <1>3

LEMMA CutHolds ==
  ASSUME NEW x, Good(x), NEW t \in Seq(Byte), Len(t) <= x.len
  PROVE  Holds(Cut(x, t), t)
<1>1. Len(t) \in Nat
  BY LenProperties
<1>2. /\ x.len \in Nat /\ x.alloc \in Nat /\ x.room \in Nat
      /\ x.len <= sdsalloc(x) /\ sdsalloc(x) + 1 <= x.room
      /\ x.type = 5 => x.len < Limit[5] /\ Limit[5] \in Nat
  BY SdsAssumption DEF Good, Sound, SdsString, sdsalloc
<1>3. Fits(x, Len(t))
  BY <1>1, <1>2 DEF Fits, sdsalloc
<1> QED BY <1>3, Replace DEF Cut

LEMMA NewHolds ==
  ASSUME NEW t \in Seq(Byte)
  PROVE  Holds(sdsnewlen(t), t)
<1> DEFINE type == IF t = <<>> /\ sdsReqType(0) = 5 THEN 8 ELSE sdsReqType(Len(t))
           fresh == [type |-> type, len |-> 0, alloc |-> 0, room |-> Len(t) + 1, mem |-> <<>>, over |-> 0]
           sized == [type |-> type, len |-> Len(t), alloc |-> (IF type = 5 THEN 0 ELSE Len(t)),
                     room |-> Len(t) + 1, mem |-> <<>>, over |-> 0]
           c == t \o <<NUL>>
           y == Write(sized, 0, c)
<1>1. Len(t) \in Nat /\ (t = <<>> => Len(t) = 0)
  BY LenProperties, EmptySeq
<1>2. type \in Types /\ (type = 64 \/ Len(t) < Limit[type])
  <2>1. CASE t = <<>> /\ sdsReqType(0) = 5
    BY <1>1, <2>1, SdsAssumption DEF Types
  <2>2. CASE ~(t = <<>> /\ sdsReqType(0) = 5)
    BY <1>1, <2>2, ReqType
  <2> QED BY <2>1, <2>2
<1> HIDE DEF type
<1>3. Field(type, Len(t)) = Len(t)
  BY <1>1, <1>2, FieldFits
<1>4. sdssetalloc(sdssetlen(fresh, Len(t)), Len(t)) = sized
  <2>1. sdssetlen(fresh, Len(t)) = [fresh EXCEPT !.len = Len(t)]
    BY <1>3 DEF sdssetlen
  <2>2. [fresh EXCEPT !.len = Len(t)] =
          [type |-> type, len |-> Len(t), alloc |-> 0, room |-> Len(t) + 1, mem |-> <<>>, over |-> 0]
    OBVIOUS
  <2> QED BY <1>3, <2>1, <2>2 DEF sdssetalloc
<1>5. sdsnewlen(t) = y
  BY <1>4 DEF sdsnewlen, type
<1>6. sized \in SdsString /\ Len(sized.mem) = 0 /\ sized.mem = <<>>
  BY <1>1, <1>2, EmptySeq DEF SdsString
<1>7. c \in Seq(Byte) /\ Len(c) = Len(t) + 1
  <2>1. <<NUL>> \in Seq(Byte) /\ Len(<<NUL>>) = 1
    BY DEF Byte, NUL
  <2> QED BY <2>1, ConcatProperties
<1>8. /\ y \in SdsString /\ y.mem = SubSeq(<<>>, 1, 0) \o c /\ Len(y.mem) = Len(t) + 1
      /\ y.type = type /\ y.len = Len(t) /\ y.alloc = (IF type = 5 THEN 0 ELSE Len(t))
      /\ y.room = Len(t) + 1 /\ y.over = 0
  <2>1. 0 \in 0..Len(sized.mem) /\ 0 + Len(c) <= sized.room
    BY <1>1, <1>6, <1>7
  <2> DEFINE w == sized
  <2>2. /\ w.type = type /\ w.len = Len(t) /\ w.alloc = (IF type = 5 THEN 0 ELSE Len(t))
        /\ w.room = Len(t) + 1 /\ w.over = 0 /\ w.mem = <<>>
    OBVIOUS
  <2>3. w \in SdsString /\ 0 \in 0..Len(w.mem) /\ 0 + Len(c) <= w.room
    BY <1>6, <2>1
  <2> HIDE DEF c
  <2>4. LET v == Write(w, 0, c)
        IN  /\ v \in SdsString /\ v.mem = SubSeq(w.mem, 1, 0) \o c /\ Len(v.mem) = 0 + Len(c)
            /\ v.type = w.type /\ v.len = w.len /\ v.alloc = w.alloc /\ v.room = w.room /\ v.over = w.over
    <3> HIDE DEF w
    <3> QED BY <1>7, <2>3, Wrote
  <2> QED BY <1>1, <1>7, <2>2, <2>4
<1>9. y.mem = <<>> \o (t \o <<NUL>>)
  <2>1. <<>> \in Seq(Byte) /\ Len(<<>>) = 0
    BY EmptySeq
  <2>2. SubSeq(<<>>, 1, 0) = <<>>
    <3>1. SubSeq(<<>>, 1, 0) \in Seq(Byte) /\ Len(SubSeq(<<>>, 1, 0)) = 0
      BY <2>1, Prefix
    <3> QED BY <2>1, <3>1, SeqEqual
  <2> QED BY <1>8, <2>2
<1> HIDE DEF y
<1>10. SubSeq(y.mem, 1, Len(t)) = t /\ y.mem[Len(t) + 1] = NUL
  <2>1. <<>> \in Seq(Byte) /\ Len(<<>>) = 0 /\ <<>> \o t = t
    BY EmptySeq, ConcatEmptySeq
  <2>2. /\ y.mem[Len(<<>>) + Len(t) + 1] = NUL
        /\ SubSeq(y.mem, 1, Len(<<>>) + Len(t)) = <<>> \o t
    BY <1>9, <2>1, Closed
  <2>3. Len(<<>>) + Len(t) = Len(t)
    BY <1>1, <2>1
  <2> QED BY <2>1, <2>2, <2>3
<1>11. Sound(y) /\ Terminated(y)
  BY <1>1, <1>2, <1>8, <1>10 DEF Sound, Terminated, sdsalloc
<1>12. Holds(y, t)
  BY <1>8, <1>10, <1>11 DEF Holds, Good, Content
<1> QED BY <1>5, <1>12

LEMMA FreeHolds ==
  ASSUME NEW x, Good(x)
  PROVE  LET y == sdsRemoveFreeSpace(x)
         IN  /\ Good(y) /\ Content(y) = Content(x) /\ sdsavail(y) = 0
             /\ Terminated(x) => Terminated(y)
<1> DEFINE type == sdsReqType(x.len)
           keep == type = x.type \/ type > 8
           t == IF keep THEN x.type ELSE type
           smaller == IF keep THEN [x EXCEPT !.room = x.len + 1] ELSE Moved(x, type, x.len)
           z == sdssetalloc(smaller, x.len)
<1>1. /\ x.len \in Nat /\ x.alloc \in Nat /\ x.len <= sdsalloc(x) /\ x.type \in Types
      /\ x.type # 64 => sdsalloc(x) < Limit[x.type]
  BY DEF Good, Sound, SdsString
<1>2. CASE sdsavail(x) = 0
  BY <1>2 DEF sdsRemoveFreeSpace
<1>3. CASE ~(sdsavail(x) = 0)
  <2>1. type \in Types /\ (type = 64 \/ x.len < Limit[type])
    BY <1>1, ReqType
  <2> HIDE DEF type
  <2>2. t \in Types /\ (t = 64 \/ x.len < Limit[t])
    <3>1. x.type # 64 => Limit[x.type] \in Nat
      BY <1>1, SdsAssumption DEF Types
    <3> QED BY <1>1, <2>1, <3>1 DEF sdsalloc
  <2>3. smaller = IF t = x.type THEN [x EXCEPT !.room = x.len + 1] ELSE Moved(x, t, x.len)
    <3>1. CASE keep
      BY <3>1
    <3>2. CASE ~keep
      BY <3>2
    <3> QED BY <3>1, <3>2
  <2> HIDE DEF keep, t, smaller
  <2>4. /\ Good(z) /\ z.len = x.len /\ z.type = t /\ sdsalloc(z) = x.len
        /\ Content(z) = Content(x)
        /\ Terminated(x) => Terminated(z)
    BY <1>1, <2>2, <2>3, Rehouse
  <2>5. sdsavail(z) = 0
    <3> HIDE DEF z
    <3> QED BY <1>1, <2>4 DEF sdsavail, sdsalloc
  <2>6. sdsRemoveFreeSpace(x) = z
    BY <1>3 DEF sdsRemoveFreeSpace, type, keep, smaller
  <2> QED BY <2>4, <2>5, <2>6
<1> QED BY <1>2, <1>3

-----------------------------------------------------------------------------
(* The calls that write piece by piece *)

LEMMA WriteGood ==
  ASSUME NEW x, Good(x), NEW offset \in 0..Len(x.mem), NEW b \in Seq(Byte),
         offset + Len(b) <= x.room, x.len <= offset + Len(b)
  PROVE  LET y == Write(x, offset, b)
         IN  /\ Good(y) /\ y.mem = SubSeq(x.mem, 1, offset) \o b /\ Len(y.mem) = offset + Len(b)
             /\ y.type = x.type /\ y.len = x.len /\ y.alloc = x.alloc /\ y.room = x.room
<1> DEFINE y == Write(x, offset, b)
<1>1. x \in SdsString /\ Sound(x)
  BY DEF Good
<1>2. /\ y \in SdsString /\ y.mem = SubSeq(x.mem, 1, offset) \o b /\ Len(y.mem) = offset + Len(b)
      /\ y.type = x.type /\ y.len = x.len /\ y.alloc = x.alloc /\ y.room = x.room /\ y.over = x.over
  BY <1>1, Wrote
<1> HIDE DEF y
<1>3. Good(y)
  BY <1>1, <1>2 DEF Good, Sound, sdsalloc
<1> QED BY <1>2, <1>3 DEF y

LEMMA FitsLess ==
  ASSUME NEW x, Good(x), NEW n \in Nat, n <= x.len
  PROVE  Fits(x, n)
<1>1. /\ x.len \in Nat /\ x.alloc \in Nat /\ x.room \in Nat
      /\ x.len <= sdsalloc(x) /\ sdsalloc(x) + 1 <= x.room
      /\ x.type = 5 => x.len < Limit[5] /\ Limit[5] \in Nat
  BY SdsAssumption DEF Good, Sound, SdsString, sdsalloc
<1> QED BY <1>1 DEF Fits, sdsalloc

\* s[sdslen(s)] = '\0'
LEMMA TerminateGood ==
  ASSUME NEW x, Good(x)
  PROVE  LET y == Write(x, x.len, <<NUL>>) IN Good(y) /\ Terminated(y)
<1> DEFINE nul == <<NUL>>
           y == Write(x, x.len, nul)
<1>1. nul \in Seq(Byte) /\ Len(nul) = 1 /\ nul[1] = NUL
  BY DEF Byte, NUL
<1> HIDE DEF nul
<1>2. x.len \in 0..Len(x.mem) /\ x.len \in Nat /\ x.len <= sdsalloc(x) /\ sdsalloc(x) + 1 <= x.room
      /\ sdsalloc(x) \in Nat /\ x.room \in Nat /\ x.mem \in Seq(Byte)
  BY LenProperties DEF Good, Sound, SdsString, sdsalloc
<1>3. x.len + Len(nul) <= x.room /\ x.len <= x.len + Len(nul)
  BY <1>1, <1>2
<1>4. /\ Good(y) /\ y.mem = SubSeq(x.mem, 1, x.len) \o nul /\ Len(y.mem) = x.len + Len(nul)
      /\ y.len = x.len
  BY <1>1, <1>2, <1>3, WriteGood
<1> HIDE DEF y
<1>5. y.mem[x.len + 1] = NUL
  <2> DEFINE q == SubSeq(x.mem, 1, x.len)
  <2>1. q \in Seq(Byte) /\ Len(q) = x.len
    BY <1>2, Prefix
  <2> HIDE DEF q
  <2>2. \A i \in 1..Len(nul) : (q \o nul)[Len(q) + i] = nul[i]
    BY <1>1, <2>1, Joined
  <2>3. y.mem = q \o nul
    BY <1>4 DEF q
  <2>4. 1 \in 1..Len(nul)
    BY <1>1
  <2>5. (q \o nul)[Len(q) + 1] = nul[1]
    BY <2>2, <2>4
  <2> QED BY <1>1, <2>1, <2>3, <2>5
<1>6. Good(y) /\ Terminated(y)
  <2>1. Len(y.mem) = y.len + 1 /\ y.len = x.len /\ y.len \in Nat /\ Good(y)
    BY <1>1, <1>2, <1>4
  <2> QED BY <1>5, <2>1 DEF Terminated
<1> QED BY <1>6 DEF y, nul

LEMMA IncrGood ==
  ASSUME NEW x, Good(x), NEW incr \in Int, x.len + incr \in Nat, x.len + incr <= Len(x.mem),
         Fits(x, x.len + incr)
  PROVE  /\ Good(sdsIncrLen(x, incr)) /\ Terminated(sdsIncrLen(x, incr))
         /\ sdsIncrLen(x, incr).len = x.len + incr
<1> DEFINE n == x.len + incr
           y == sdssetlen(x, n)
<1>1. x \in SdsString /\ x.over = 0
  BY DEF Good, Sound
<1>2. n \in Nat /\ n <= Len(x.mem) /\ Fits(x, n)
  OBVIOUS
<1>3. sdsIncrLen(x, incr) = Write(y, y.len, <<NUL>>)
  BY DEF sdsIncrLen, sdsinclen, sdssetlen
<1> HIDE DEF n
<1>4. Good(y) /\ y.len = n
  BY <1>1, <1>2, SetLen
<1> HIDE DEF y
<1>5. Write(y, y.len, <<NUL>>).len = y.len
  BY <1>4 DEF Write, Good, SdsString
<1> QED BY <1>3, <1>4, <1>5, TerminateGood DEF n

PieceBytes(piece) ==
  CASE piece.kind = "byte" -> <<piece.value>>
    [] piece.kind = "text" -> piece.value
    [] piece.kind = "number" -> sdsll2str(piece.value)

\* A piece of sdscatfmt makes the room it needs for itself, and comes behind what
\* the string had.
LEMMA FmtGood ==
  ASSUME NEW x, Good(x), NEW piece \in Piece
  PROVE  /\ Good(FmtPiece(x, piece))
         /\ PieceBytes(piece) \in Seq(Byte)
         /\ FmtPiece(x, piece).len = x.len + Len(PieceBytes(piece))
         /\ FmtPiece(x, piece).mem = Content(x) \o PieceBytes(piece)
<1> DEFINE y == IF sdsavail(x) = 0 THEN sdsMakeRoomFor(x, 1) ELSE x
           bytes == CASE piece.kind = "byte" -> <<piece.value>>
                      [] piece.kind = "text" -> piece.value
                      [] piece.kind = "number" -> sdsll2str(piece.value)
           k == Len(bytes)
           z == IF piece.kind # "byte" /\ sdsavail(y) < k THEN sdsMakeRoomFor(y, k) ELSE y
           w == Write(z, x.len, bytes)
           fits == piece.kind = "number" => k + 1 <= SDS_LLSTR_SIZE
           v == [w EXCEPT !.over = @ + (IF fits THEN 0 ELSE 1)]
<1>1. \A u : Good(u) => /\ u \in SdsString /\ u.len \in Nat /\ u.alloc \in Nat /\ u.room \in Nat /\ u.over = 0
                         /\ u.len <= sdsalloc(u) /\ sdsalloc(u) + 1 <= u.room /\ sdsavail(u) \in Nat
                         /\ u.len \in 0..Len(u.mem)
  BY LenProperties DEF Good, Sound, SdsString, sdsalloc, sdsavail
<1>2. bytes \in Seq(Byte) /\ fits /\ (piece.kind = "byte" => k = 1)
  <2>1. CASE piece.kind = "byte"
    <3>1. piece.value \in Byte
      BY <2>1 DEF Piece
    <3>2. bytes = <<piece.value>>
      BY <2>1
    <3> QED BY <2>1, <3>1, <3>2
  <2>2. CASE piece.kind = "text"
    BY <2>2 DEF Piece
  <2>3. CASE piece.kind = "number"
    <3>1. piece.value \in Number
      BY <2>3 DEF Piece
    <3>2. bytes = sdsll2str(piece.value)
      BY <2>3
    <3>3. bytes \in Seq(Byte)
      BY <3>1, <3>2, NumberText, SdsAssumption
    <3> QED BY <2>3, <3>1, <3>2, <3>3, NumbersFit
  <2> QED BY <2>1, <2>2, <2>3 DEF Piece
<1>3. k \in Nat /\ bytes = PieceBytes(piece)
  BY <1>2, LenProperties DEF PieceBytes
<1> HIDE DEF bytes, k
<1>4. Good(y) /\ y.len = x.len /\ Content(y) = Content(x) /\ sdsavail(y) >= 1
  <2>1. CASE sdsavail(x) = 0
    BY <2>1, MoreRoom
  <2>2. CASE sdsavail(x) # 0
    BY <1>1, <2>2
  <2> QED BY <2>1, <2>2
<1> HIDE DEF y
<1>5. Good(z) /\ z.len = x.len /\ Content(z) = Content(x) /\ sdsavail(z) >= k /\ sdsavail(z) >= 1
  <2>1. CASE piece.kind # "byte" /\ sdsavail(y) < k
    <3>1. z = sdsMakeRoomFor(y, k)
      BY <2>1
    <3>2. k >= 1
      BY <1>3, <1>4, <2>1, <1>1
    <3>3. Good(z) /\ z.len = y.len /\ Content(z) = Content(y) /\ sdsavail(z) >= k
      BY <1>3, <1>4, <3>1, MoreRoom
    <3> HIDE DEF z
    <3> QED BY <1>1, <1>3, <1>4, <3>2, <3>3
  <2>2. CASE ~(piece.kind # "byte" /\ sdsavail(y) < k)
    <3>1. z = y
      BY <2>2
    <3>2. sdsavail(y) >= k
      BY <1>1, <1>2, <1>3, <1>4, <2>2
    <3> HIDE DEF z
    <3> QED BY <1>4, <3>1, <3>2
  <2> QED BY <2>1, <2>2
<1> HIDE DEF z
<1>6. Fits(z, x.len + k) /\ x.len + k <= z.room /\ z.type # 5 /\ x.len \in 0..Len(z.mem) /\ x.len + k \in Nat
  BY <1>1, <1>3, <1>5 DEF Fits, sdsavail, sdsalloc
<1>7. /\ Good(w) /\ Len(w.mem) = x.len + k /\ w.mem = Content(x) \o bytes
      /\ w.type = z.type /\ w.len = z.len /\ w.alloc = z.alloc /\ w.room = z.room
  <2>1. x.len + Len(bytes) <= z.room /\ z.len <= x.len + Len(bytes)
    BY <1>1, <1>3, <1>5, <1>6 DEF k
  <2>2. Content(x) = SubSeq(z.mem, 1, x.len)
    BY <1>5 DEF Content
  <2> QED BY <1>2, <1>5, <1>6, <2>1, <2>2, WriteGood DEF k
<1> HIDE DEF w
<1>8. /\ v \in SdsString /\ v.mem = w.mem /\ v.over = 0
      /\ v.type = z.type /\ v.len = z.len /\ v.alloc = z.alloc /\ v.room = z.room
  <2>1. w \in SdsString /\ w.over = 0
    BY <1>1, <1>7
  <2>2. w.over + (IF fits THEN 0 ELSE 1) = 0
    BY <1>2, <2>1
  <2>3. v = [w EXCEPT !.over = 0]
    BY <2>1, <2>2 DEF SdsString
  <2> HIDE DEF v
  <2> QED BY <1>7, <2>1, <2>3 DEF SdsString
<1> HIDE DEF v
<1>9. FmtPiece(x, piece) = sdssetlen(v, x.len + k)
  <2>1. FmtPiece(x, piece) = sdsinclen(v, k)
    BY DEF FmtPiece, v, w, z, y, k, bytes
  <2>2. sdsinclen(v, k) = sdssetlen(v, x.len + k)
    BY <1>5, <1>8 DEF sdsinclen, sdssetlen
  <2> QED BY <2>1, <2>2
<1>10. x.len + k <= Len(v.mem)
  BY <1>6, <1>7, <1>8
<1> DEFINE n == x.len + k
<1>11. n \in Nat /\ Fits(z, n) /\ n <= Len(v.mem)
  BY <1>6, <1>10
<1> HIDE DEF n
<1>12. LET u == sdssetlen(v, n) IN Good(u) /\ u.len = n /\ u.mem = v.mem
  BY <1>5, <1>8, <1>11, SetLen
<1> QED BY <1>2, <1>3, <1>7, <1>8, <1>9, <1>12 DEF n, k

-----------------------------------------------------------------------------
(* The calls that work in place *)

LEMMA Greatest ==
  ASSUME NEW k \in Nat, NEW S, S \subseteq 0..k, S # {}
  PROVE  Max(S) \in S /\ \A i \in S : Max(S) >= i
<1> DEFINE D == {d \in 0..k : k - d \in S}
<1>1. D \subseteq Nat /\ D # {}
  <2>1. PICK i \in S : TRUE
    OBVIOUS
  <2>2. i \in 0..k /\ k - i \in 0..k /\ k - (k - i) = i
    OBVIOUS
  <2>3. k - i \in D
    BY <2>2
  <2>4. D \subseteq Nat
    OBVIOUS
  <2> HIDE DEF D
  <2> QED BY <2>3, <2>4
<1>2. Min(D) \in D /\ \A d \in D : Min(D) <= d
  BY <1>1, Least
<1> DEFINE d == Min(D)
<1>3. d \in 0..k /\ k - d \in S
  BY <1>2
<1>4. \A i \in S : k - d >= i
  <2> SUFFICES ASSUME NEW i \in S PROVE k - d >= i
    OBVIOUS
  <2>1. i \in 0..k /\ k - i \in 0..k /\ k - (k - i) = i
    OBVIOUS
  <2>2. k - i \in D
    BY <2>1
  <2>3. d <= k - i
    BY <1>2, <2>2
  <2> HIDE DEF d
  <2> QED BY <1>3, <2>1, <2>3
<1> HIDE DEF d
<1>5. Max(S) = CHOOSE x \in S : \A i \in S : x >= i
  BY DEF Max
<1> QED BY <1>3, <1>4, <1>5

LEMMA MaxPair ==
  ASSUME NEW a \in Int
  PROVE  Max({a, 0}) = IF a >= 0 THEN a ELSE 0
BY DEF Max

\* The bytes between two places of a text.
LEMMA Between ==
  ASSUME NEW c \in Seq(Byte), NEW m \in Nat \ {0}, NEW n \in Nat, n <= Len(c)
  PROVE  SubSeq(c, m, n) \in Seq(Byte) /\ Len(SubSeq(c, m, n)) <= Len(c)
<1>1. Len(c) \in Nat
  BY LenProperties
<1>2. \A i \in m..n : c[i] \in Byte
  BY <1>1, ElementOfSeq
<1>3. /\ SubSeq(c, m, n) \in Seq(Byte)
      /\ Len(SubSeq(c, m, n)) = IF m <= n THEN n - m + 1 ELSE 0
  BY <1>2, SubSeqProperties
<1> QED BY <1>1, <1>3

LEMMA TrimmedText ==
  ASSUME NEW c \in Seq(Byte), NEW cset
  PROVE  Trimmed(c, cset) \in Seq(Byte) /\ Len(Trimmed(c, cset)) <= Len(c)
<1> DEFINE kept == {i \in DOMAIN c : c[i] \notin cset \cup {NUL}}
<1>1. Len(c) \in Nat /\ DOMAIN c = 1..Len(c)
  BY LenProperties
<1>2. Trimmed(c, cset) = IF kept = {} THEN <<>> ELSE SubSeq(c, Min(kept), Max(kept))
  BY DEF Trimmed
<1>3. kept \subseteq 1..Len(c)
  BY <1>1
<1> HIDE DEF kept
<1>4. CASE kept = {}
  BY <1>1, <1>2, <1>4, EmptySeq
<1>5. CASE kept # {}
  <2>1. kept \subseteq Nat /\ kept \subseteq 0..Len(c)
    BY <1>1, <1>3
  <2>2. Min(kept) \in kept /\ Max(kept) \in kept
    BY <1>1, <1>5, <2>1, Least, Greatest
  <2> DEFINE a == Min(kept)
             z == Max(kept)
  <2>3. a \in 1..Len(c) /\ z \in 1..Len(c)
    BY <1>3, <2>2
  <2>4. Trimmed(c, cset) = SubSeq(c, a, z)
    BY <1>2, <1>5
  <2> HIDE DEF a, z
  <2>5. a \in Nat \ {0} /\ z \in Nat /\ z <= Len(c)
    BY <1>1, <2>3
  <2> QED BY <2>4, <2>5, Between
<1> QED BY <1>4, <1>5

LEMMA RangedText ==
  ASSUME NEW c \in Seq(Byte), NEW start \in Int, NEW end \in Int
  PROVE  Ranged(c, start, end) \in Seq(Byte) /\ Len(Ranged(c, start, end)) <= Len(c)
<1> DEFINE first == IF start < 0 THEN Max({Len(c) + start, 0}) ELSE start
           last == IF end < 0 THEN Max({Len(c) + end, 0}) ELSE end
           stop == IF last >= Len(c) THEN Len(c) ELSE last + 1
<1>1. Len(c) \in Nat
  BY LenProperties
<1>2. first \in Nat /\ last \in Nat
  <2>1. Len(c) + start \in Int /\ Len(c) + end \in Int
    BY <1>1
  <2>2. /\ Max({Len(c) + start, 0}) = IF Len(c) + start >= 0 THEN Len(c) + start ELSE 0
        /\ Max({Len(c) + end, 0}) = IF Len(c) + end >= 0 THEN Len(c) + end ELSE 0
    BY <2>1, MaxPair
  <2>3. first \in Nat
    BY <2>1, <2>2
  <2>4. last \in Nat
    BY <2>1, <2>2
  <2> QED BY <2>3, <2>4
<1>3. Ranged(c, start, end) = IF first > last \/ first >= Len(c) THEN <<>> ELSE SubSeq(c, first + 1, stop)
  BY DEF Ranged
<1> HIDE DEF first, last
<1>4. stop \in Nat /\ stop <= Len(c) /\ first + 1 \in Nat \ {0}
  BY <1>1, <1>2
<1> HIDE DEF stop
<1>5. SubSeq(c, first + 1, stop) \in Seq(Byte) /\ Len(SubSeq(c, first + 1, stop)) <= Len(c)
  BY <1>4, Between
<1>6. <<>> \in Seq(Byte) /\ Len(<<>>) <= Len(c)
  BY <1>1, EmptySeq
<1> QED BY <1>3, <1>5, <1>6

LEMMA UpdateGood ==
  ASSUME NEW x, Good(x), Terminated(x)
  PROVE  Good(sdsupdatelen(x)) /\ Terminated(sdsupdatelen(x))
<1> DEFINE nuls == {i \in DOMAIN x.mem : x.mem[i] = NUL}
           m == Min(nuls)
           q == SubSeq(x.mem, 1, m)
           w == [x EXCEPT !.mem = q]
           y == sdssetlen(w, m - 1)
<1>1. /\ x \in SdsString /\ x.mem \in Seq(Byte) /\ Len(x.mem) \in Nat /\ DOMAIN x.mem = 1..Len(x.mem)
      /\ x.len \in Nat /\ x.len < Len(x.mem) /\ x.mem[x.len + 1] = NUL /\ x.over = 0
  BY LenProperties DEF Good, Sound, Terminated, SdsString
<1>2. nuls \subseteq 1..Len(x.mem) /\ nuls \subseteq Nat /\ x.len + 1 \in nuls
  BY <1>1
<1>3. m \in nuls /\ \A i \in nuls : m <= i
  BY <1>2, Least
<1>4. x.mem[m] = NUL
  BY <1>3
<1> HIDE DEF nuls, m
<1>5. m \in Nat \ {0} /\ m <= x.len + 1
  <2>1. m \in 1..Len(x.mem) /\ m <= x.len + 1
    BY <1>2, <1>3
  <2> QED BY <1>1, <2>1
<1>6. m \in 0..Len(x.mem) /\ m - 1 \in Nat /\ m - 1 <= x.len /\ m - 1 + 1 = m
  BY <1>1, <1>5
<1>7. q \in Seq(Byte) /\ Len(q) = m /\ q[m] = NUL
  <2>1. q \in Seq(Byte) /\ Len(q) = m /\ \A i \in 1..m : q[i] = x.mem[i]
    BY <1>1, <1>6, Prefix
  <2>2. m \in 1..m
    BY <1>5
  <2> HIDE DEF q
  <2> QED BY <1>4, <2>1, <2>2
<1> HIDE DEF q
<1>8. /\ w \in SdsString /\ w.mem = q /\ w.over = 0
      /\ w.type = x.type /\ w.alloc = x.alloc /\ w.room = x.room
  BY <1>1, <1>7 DEF SdsString
<1>9. sdsupdatelen(x) = y
  BY <1>6 DEF sdsupdatelen, m, nuls, q
<1> HIDE DEF w
<1>10. Fits(x, m - 1)
  BY <1>6, FitsLess
<1>11. m - 1 <= Len(w.mem)
  BY <1>5, <1>7, <1>8
<1> DEFINE n == m - 1
<1>12. n \in Nat /\ Fits(x, n) /\ n <= Len(w.mem) /\ y = sdssetlen(w, n)
  BY <1>6, <1>10, <1>11
<1> HIDE DEF n, y
<1>13. Good(y) /\ y.len = n /\ y.mem = q
  BY <1>8, <1>12, SetLen
<1>14. Terminated(y)
  <2>1. n + 1 = m /\ n < m
    BY <1>5 DEF n
  <2> QED BY <1>7, <1>13, <2>1 DEF Terminated
<1> QED BY <1>9, <1>13, <1>14

LEMMA MapGood ==
  ASSUME NEW x, Good(x), Terminated(x), NEW f \in Seq(Byte), NEW t \in Seq(Byte), Len(f) = Len(t)
  PROVE  Good(sdsmapchars(x, f, t)) /\ Terminated(sdsmapchars(x, f, t))
<1> DEFINE c == Content(x)
           new == Mapped(c, f, t)
           rest == SubSeq(x.mem, x.len + 1, Len(x.mem))
           q == new \o rest
           y == [x EXCEPT !.mem = q]
<1>1. /\ x \in SdsString /\ Sound(x) /\ x.mem \in Seq(Byte) /\ Len(x.mem) \in Nat
      /\ x.len \in Nat /\ x.len < Len(x.mem) /\ x.mem[x.len + 1] = NUL /\ x.over = 0
  BY LenProperties DEF Good, Sound, Terminated, SdsString
<1>2. c \in Seq(Byte) /\ Len(c) = x.len /\ DOMAIN c = 1..x.len
  BY ContentIs, LenProperties
<1> HIDE DEF c
<1>3. new \in Seq(Byte) /\ Len(new) = x.len
  <2> DEFINE image(j) == IF \E i \in DOMAIN f : f[i] = c[j]
                         THEN t[Min({i \in DOMAIN f : f[i] = c[j]})] ELSE c[j]
  <2>1. new = [j \in 1..x.len |-> image(j)]
    BY <1>2 DEF Mapped
  <2>2. ASSUME NEW j \in 1..x.len
        PROVE  image(j) \in Byte
    <3>1. CASE \E i \in DOMAIN f : f[i] = c[j]
      <4> DEFINE found == {i \in DOMAIN f : f[i] = c[j]}
      <4>1. DOMAIN f = 1..Len(f) /\ Len(f) \in Nat
        BY LenProperties
      <4>2. found \subseteq Nat /\ found # {} /\ found \subseteq 1..Len(t)
        BY <3>1, <4>1
      <4>3. image(j) = t[Min(found)]
        BY <3>1
      <4> HIDE DEF found
      <4>4. Min(found) \in 1..Len(t)
        BY <4>2, Least
      <4> QED BY <4>3, <4>4, ElementOfSeq
    <3>2. CASE ~\E i \in DOMAIN f : f[i] = c[j]
      BY <1>2, <3>2, ElementOfSeq
    <3> QED BY <3>1, <3>2
  <2> HIDE DEF image
  <2>3. new \in [1..x.len -> Byte]
    BY <2>1, <2>2
  <2> HIDE DEF new
  <2>4. ASSUME NEW k \in Nat, NEW g \in [1..k -> Byte]
        PROVE  g \in Seq(Byte) /\ Len(g) = k
    <3>1. g \in Seq(Byte)
      OBVIOUS
    <3>2. DOMAIN g = 1..k /\ DOMAIN g = 1..Len(g) /\ Len(g) \in Nat
      BY <3>1, LenProperties
    <3> QED BY <3>2
  <2> QED BY <1>1, <2>3, <2>4
<1> HIDE DEF new
<1>4. rest \in Seq(Byte) /\ Len(rest) = Len(x.mem) - x.len /\ rest[1] = NUL
  <2> DEFINE a == x.len + 1
             z == Len(x.mem)
  <2>1. a \in Int /\ z \in Int /\ a <= z /\ z - a + 1 = Len(x.mem) - x.len /\ 1 \in 1..(z - a + 1) /\ a + 1 - 1 = a
    BY <1>1
  <2>2. \A i \in a..z : x.mem[i] \in Byte
    BY <1>1, ElementOfSeq
  <2>3. x.mem[a] = NUL
    BY <1>1
  <2> HIDE DEF a, z
  <2>4. /\ SubSeq(x.mem, a, z) \in Seq(Byte)
        /\ Len(SubSeq(x.mem, a, z)) = IF a <= z THEN z - a + 1 ELSE 0
        /\ \A i \in 1..(z - a + 1) : SubSeq(x.mem, a, z)[i] = x.mem[a + i - 1]
    BY <2>1, <2>2, SubSeqProperties
  <2>5. SubSeq(x.mem, a, z)[1] = x.mem[a + 1 - 1]
    BY <2>1, <2>4
  <2> QED BY <2>1, <2>3, <2>4, <2>5 DEF a, z
<1> HIDE DEF rest
<1>5. /\ q \in Seq(Byte) /\ Len(q) = Len(x.mem) /\ q[x.len + 1] = NUL
  <2>1. /\ q \in Seq(Byte) /\ Len(q) = Len(new) + Len(rest)
        /\ \A i \in 1..Len(rest) : q[Len(new) + i] = rest[i]
    BY <1>3, <1>4, Joined
  <2> HIDE DEF q
  <2>2. 1 \in 1..Len(rest) /\ Len(new) + Len(rest) = Len(x.mem)
    BY <1>1, <1>3, <1>4
  <2>3. q[Len(new) + 1] = rest[1]
    BY <2>1, <2>2
  <2> QED BY <1>3, <1>4, <2>1, <2>2, <2>3
<1> HIDE DEF q
<1>6. sdsmapchars(x, f, t) = y
  BY DEF sdsmapchars, q, new, rest, c
<1>7. /\ y \in SdsString /\ y.mem = q /\ y.len = x.len /\ y.over = 0
      /\ y.type = x.type /\ y.alloc = x.alloc /\ y.room = x.room
  BY <1>1, <1>5 DEF SdsString
<1> HIDE DEF y
<1>8. Good(y) /\ Terminated(y)
  BY <1>1, <1>5, <1>7 DEF Good, Sound, Terminated, sdsalloc
<1> QED BY <1>6, <1>8

-----------------------------------------------------------------------------
(* Texts put together *)

\* The texts of a sequence, put together up to each of them.
Flat(w) ==
  LET flatten[i \in 1..Len(w)] == IF i = 1 THEN w[i] ELSE flatten[i - 1] \o w[i] IN flatten

LEMMA FlatIs ==
  ASSUME NEW w \in Seq(Seq(Byte))
  PROVE  /\ Flat(w) \in [1..Len(w) -> Seq(Byte)]
         /\ \A i \in 1..Len(w) : Flat(w)[i] = IF i = 1 THEN w[i] ELSE Flat(w)[i - 1] \o w[i]
         /\ FlattenSeq(w) = IF Len(w) = 0 THEN <<>> ELSE Flat(w)[Len(w)]
<1> DEFINE D == 1..Len(w)
           T == Seq(Byte)
           Body(i, g) == IF i = 1 THEN w[i] ELSE g[i - 1] \o w[i]
           F == [ig \in D \X [D -> T] |-> Body(ig[1], ig[2])]
           m == [i \in D |-> i]
<1>1. /\ Len(w) \in Nat
      /\ \A i \in D : i \in Nat /\ w[i] \in T /\ (i # 1 => i - 1 \in D /\ i - 1 < i)
  <2>1. Len(w) \in Nat /\ \A i \in 1..Len(w) : w[i] \in Seq(Byte)
    BY LenProperties, ElementOfSeq
  <2> QED BY <2>1
<1> HIDE DEF T
<1>2. ASSUME NEW i \in D, NEW g \in [D -> T] PROVE F[<<i, g>>] = Body(i, g)
  <2>1. <<i, g>> \in D \X [D -> T] /\ <<i, g>>[1] = i /\ <<i, g>>[2] = g
    OBVIOUS
  <2> HIDE DEF Body, D
  <2> QED BY <2>1
<1>3. ASSUME NEW i \in D, NEW g \in [D -> T] PROVE Body(i, g) \in T
  <2>1. CASE i = 1
    BY <1>1, <2>1
  <2>2. CASE i # 1
    <3>1. g[i - 1] \in T /\ w[i] \in T
      BY <1>1, <2>2
    <3>2. g[i - 1] \o w[i] \in T
      BY <3>1, ConcatProperties DEF T
    <3> QED BY <2>2, <3>2
  <2> QED BY <2>1, <2>2
<1>4. ASSUME NEW i \in D, NEW g \in [D -> T], NEW h \in [D -> T],
             \A j \in D : m[j] < m[i] => g[j] = h[j]
      PROVE  Body(i, g) = Body(i, h)
  BY <1>1, <1>4
<1>5. m \in [D -> Nat]
  BY <1>1
<1>6. PICK f \in [D -> T] : \A i \in D : f[i] = Body(i, f)
  <2>1. ASSUME NEW i \in D, NEW g \in [D -> T] PROVE F[<<i, g>>] \in T
    <3> HIDE DEF F, Body, D
    <3> QED BY <1>2, <1>3
  <2>2. ASSUME NEW i \in D, NEW g \in [D -> T], NEW h \in [D -> T],
               \A j \in D : m[j] < m[i] => g[j] = h[j]
        PROVE  F[<<i, g>>] = F[<<i, h>>]
    <3>1. Body(i, g) = Body(i, h)
      BY <1>4, <2>2
    <3> HIDE DEF F, Body, m, D
    <3> QED BY <1>2, <3>1
  <2> HIDE DEF F, m, D, Body
  <2>3. Recursive(D, T, m, F)
    BY <1>5, <2>1, <2>2 DEF Recursive
  <2>4. <<>> \in T
    BY DEF T
  <2>5. Solution(D, T, F)
    BY <2>3, <2>4, Recursion
  <2> QED BY <1>2, <2>5 DEF Solution
<1>7. f = [i \in D |-> Body(i, f)]
  <2> HIDE DEF Body, D
  <2> QED BY <1>6
<1>8. PICK v : v = Flat(w)
  OBVIOUS
<1>9. v = CHOOSE h : h = [i \in D |-> Body(i, h)]
  BY <1>8 DEF Flat
<1>10. v = [i \in D |-> Body(i, v)]
  <2> HIDE DEF Body, D
  <2> QED BY <1>7, <1>9
<1>11. \A i \in D : v[i] = Body(i, v)
  <2> HIDE DEF Body, D
  <2> QED BY <1>10
<1>12. v \in [D -> T]
  <2> DEFINE Bad == {i \in D : v[i] \notin T}
  <2>1. Bad = {}
    <3> SUFFICES ASSUME Bad # {} PROVE FALSE
      OBVIOUS
    <3>1. PICK k \in Bad : \A i \in Bad : k <= i
      <4>1. Bad \subseteq Nat
        BY <1>1
      <4> HIDE DEF Bad
      <4> QED BY <4>1, Least
    <3>2. k \in D /\ v[k] \notin T
      OBVIOUS
    <3>3. v[k] = Body(k, v)
      <4> HIDE DEF Body, Bad, D
      <4> QED BY <1>11, <3>2
    <3>4. CASE k = 1
      BY <1>1, <3>2, <3>3, <3>4
    <3>5. CASE k # 1
      <4>1. v[k - 1] \in T /\ w[k] \in T
        BY <1>1, <3>1, <3>2, <3>5
      <4>2. v[k - 1] \o w[k] \in T
        BY <4>1, ConcatProperties DEF T
      <4> QED BY <3>2, <3>3, <3>5, <4>2
    <3> QED BY <3>4, <3>5
  <2> HIDE DEF Body, D
  <2> QED BY <1>10, <2>1
<1>13. FlattenSeq(w) = IF Len(w) = 0 THEN <<>> ELSE v[Len(w)]
  <2>1. CASE Len(w) = 0
    <3>1. w = <<>>
      BY <2>1, EmptySeq
    <3> QED BY <2>1, <3>1 DEF FlattenSeq
  <2>2. CASE Len(w) # 0
    BY <1>8, <2>2 DEF FlattenSeq, Flat
  <2> QED BY <2>1, <2>2
<1> QED BY <1>1, <1>8, <1>11, <1>12, <1>13 DEF T

\* Each of the texts stands in the whole behind the ones before it.
LEMMA PieceAt ==
  ASSUME NEW w \in Seq(Seq(Byte)), NEW j \in 1..Len(w)
  PROVE  LET before == IF j = 1 THEN 0 ELSE Len(Flat(w)[j - 1])
         IN  /\ Flat(w)[j] \in Seq(Byte) /\ w[j] \in Seq(Byte) /\ before \in Nat
             /\ Len(Flat(w)[j]) = before + Len(w[j])
             /\ Len(Flat(w)[j]) <= Len(FlattenSeq(w))
             /\ \A k \in 1..Len(w[j]) : FlattenSeq(w)[before + k] = w[j][k]
<1> DEFINE n == Len(w)
           before == IF j = 1 THEN 0 ELSE Len(Flat(w)[j - 1])
<1>1. PICK f : f = Flat(w)
  OBVIOUS
<1>2. n \in Nat /\ n # 0 /\ \A i \in 1..n : w[i] \in Seq(Byte)
  BY LenProperties, ElementOfSeq
<1>3. /\ f \in [1..n -> Seq(Byte)]
      /\ \A i \in 1..n : f[i] = IF i = 1 THEN w[i] ELSE f[i - 1] \o w[i]
      /\ FlattenSeq(w) = f[n]
  BY <1>1, <1>2, FlatIs
<1> HIDE DEF n
<1>4. j \in 1..n
  BY DEF n
<1>5. /\ f[j] \in Seq(Byte) /\ w[j] \in Seq(Byte) /\ before \in Nat /\ Len(w[j]) \in Nat
      /\ Len(f[j]) = before + Len(w[j])
      /\ \A k \in 1..Len(w[j]) : f[j][before + k] = w[j][k]
  <2>1. CASE j = 1
    <3>1. f[j] = w[j] /\ w[j] \in Seq(Byte) /\ before = 0
      BY <1>2, <1>3, <1>4, <2>1
    <3> HIDE DEF before
    <3> QED BY <3>1, LenProperties
  <2>2. CASE j # 1
    <3>1. PICK p : p = f[j - 1]
      OBVIOUS
    <3>0. j - 1 \in 1..n
      BY <1>2, <1>4, <2>2
    <3>2. p \in Seq(Byte) /\ w[j] \in Seq(Byte) /\ f[j] = p \o w[j]
      BY <1>2, <1>3, <1>4, <2>2, <3>0, <3>1
    <3>3. before = Len(p)
      BY <1>1, <2>2, <3>1
    <3> HIDE DEF before
    <3> QED BY <3>2, <3>3, Joined, LenProperties
  <2> QED BY <2>1, <2>2
<1> HIDE DEF before
\* The whole up to a later text begins in the same way.
<1> DEFINE Same(i) == Len(f[j]) <= Len(f[i]) /\ \A k \in 1..Len(f[j]) : f[i][k] = f[j][k]
           Bad == {i \in j..n : ~Same(i)}
<1>6. Bad = {}
  <2> SUFFICES ASSUME Bad # {} PROVE FALSE
    OBVIOUS
  <2>1. PICK i \in Bad : \A h \in Bad : i <= h
    <3>1. Bad \subseteq Nat
      BY <1>4
    <3> HIDE DEF Bad
    <3> QED BY <3>1, Least
  <2>2. i \in j..n /\ ~Same(i)
    OBVIOUS
  <2>3. i # j
    BY <1>5, <2>2, LenProperties
  <2>4. i - 1 \in j..n /\ i \in 1..n /\ i - 1 \in 1..n /\ i # 1 /\ i - 1 < i
    BY <1>2, <1>4, <2>2, <2>3
  <2>5. i - 1 \notin Bad
    <3> HIDE DEF Bad
    <3> QED BY <1>4, <2>1, <2>4
  <2>6. Same(i - 1)
    BY <2>4, <2>5
  <2>7. PICK p : p = f[i - 1]
    OBVIOUS
  <2>8. p \in Seq(Byte) /\ w[i] \in Seq(Byte) /\ f[i] = p \o w[i]
    BY <1>2, <1>3, <2>4, <2>7
  <2>9. /\ Len(p) \in Nat /\ Len(w[i]) \in Nat /\ Len(f[i]) = Len(p) + Len(w[i])
        /\ \A k \in 1..Len(p) : f[i][k] = p[k]
    BY <2>8, Joined, LenProperties
  <2>10. Len(f[j]) <= Len(p) /\ \A k \in 1..Len(f[j]) : p[k] = f[j][k]
    BY <2>6, <2>7
  <2>11. Len(f[j]) \in Nat
    BY <1>5, LenProperties
  <2>12. Same(i)
    <3> HIDE DEF Bad
    <3> QED BY <2>9, <2>10, <2>11
  <2> QED BY <2>2, <2>12
<1>7. Same(n)
  <2>1. n \in j..n
    BY <1>2, <1>4
  <2> HIDE DEF Same
  <2> QED BY <1>6, <2>1
<1>8. ASSUME NEW k \in 1..Len(w[j]) PROVE f[n][before + k] = w[j][k]
  <2>1. before + k \in 1..Len(f[j])
    BY <1>5
  <2> QED BY <1>5, <1>7, <2>1
<1> QED BY <1>1, <1>3, <1>5, <1>7, <1>8 DEF before

\* What comes first may be put in front of the rest at the end.
LEMMA FlattenFirst ==
  ASSUME NEW x \in Seq(Byte), NEW w \in Seq(Seq(Byte)), Len(w) # 0
  PROVE  FlattenSeq(<<x>> \o w) = x \o FlattenSeq(w)
<1>1. PICK n : n = Len(w)
  OBVIOUS
<1>2. n \in Nat /\ n # 0 /\ \A i \in 1..n : w[i] \in Seq(Byte)
  BY <1>1, LenProperties, ElementOfSeq
<1>3. PICK one \in Seq(Seq(Byte)) : one = <<x>> /\ Len(one) = 1 /\ one[1] = x
  <2>1. <<x>> \in Seq(Seq(Byte)) /\ Len(<<x>>) = 1 /\ <<x>>[1] = x
    OBVIOUS
  <2> QED BY <2>1
<1>4. PICK u : u = one \o w
  OBVIOUS
<1>5. u \in Seq(Seq(Byte)) /\ Len(u) = n + 1 /\ u[1] = x /\ \A i \in 1..n : u[i + 1] = w[i]
  <2>1. u \in Seq(Seq(Byte)) /\ IsJoin(u, one, w)
    BY <1>4, JoinedSeq
  <2>2. Len(u) = 1 + n /\ u[1] = one[1] /\ \A i \in 1..n : u[1 + i] = w[i]
    BY <1>1, <1>3, <2>1 DEF IsJoin
  <2>3. \A i \in 1..n : 1 + i = i + 1
    OBVIOUS
  <2> QED BY <1>2, <1>3, <2>1, <2>2, <2>3
<1>6. PICK f : f = Flat(w)
  OBVIOUS
<1>7. PICK g : g = Flat(u)
  OBVIOUS
<1>8. /\ f \in [1..n -> Seq(Byte)] /\ f[1] = w[1]
      /\ \A i \in 1..n : i # 1 => f[i] = f[i - 1] \o w[i]
      /\ FlattenSeq(w) = f[n]
  <2>1. /\ f \in [1..n -> Seq(Byte)]
        /\ \A i \in 1..n : f[i] = IF i = 1 THEN w[i] ELSE f[i - 1] \o w[i]
        /\ FlattenSeq(w) = f[n]
    BY <1>1, <1>2, <1>6, FlatIs
  <2>2. 1 \in 1..n
    BY <1>2
  <2> QED BY <2>1, <2>2
<1>9. /\ g[1] = u[1]
      /\ \A i \in 1..(n + 1) : i # 1 => g[i] = g[i - 1] \o u[i]
      /\ FlattenSeq(u) = g[n + 1]
  <2>1. Len(u) = n + 1 /\ n + 1 # 0 /\ 1 \in 1..(n + 1)
    BY <1>2, <1>5
  <2>2. /\ \A i \in 1..Len(u) : g[i] = IF i = 1 THEN u[i] ELSE g[i - 1] \o u[i]
        /\ FlattenSeq(u) = IF Len(u) = 0 THEN <<>> ELSE g[Len(u)]
    BY <1>5, <1>7, FlatIs
  <2> QED BY <2>1, <2>2
<1> DEFINE Same(i) == g[i + 1] = x \o f[i]
<1>10. Same(1)
  <2>1. 2 \in 1..(n + 1) /\ 2 # 1 /\ 2 - 1 = 1 /\ 1 + 1 = 2 /\ 1 \in 1..n
    BY <1>2
  <2>2. g[2] = g[1] \o u[2]
    BY <1>9, <2>1
  <2>3. u[2] = w[1]
    BY <1>5, <2>1
  <2> QED BY <1>5, <1>8, <1>9, <2>1, <2>2, <2>3
<1>11. ASSUME NEW i \in 1..n, i # 1, Same(i - 1) PROVE Same(i)
  <2>1. i - 1 \in 1..n /\ i + 1 \in 1..(n + 1) /\ i + 1 # 1 /\ (i + 1) - 1 = i /\ (i - 1) + 1 = i
    BY <1>2, <1>11
  <2>2. g[i + 1] = g[i] \o w[i]
    BY <1>5, <1>9, <2>1
  <2>3. g[i] = x \o f[i - 1]
    BY <1>11, <2>1
  <2>4. f[i] = f[i - 1] \o w[i]
    BY <1>8, <1>11
  <2>5. (x \o f[i - 1]) \o w[i] = x \o (f[i - 1] \o w[i])
    <3>1. f[i - 1] \in Seq(Byte) /\ w[i] \in Seq(Byte)
      BY <1>2, <1>8, <2>1
    <3>2. PICK p \in Seq(Byte), q \in Seq(Byte) : p = f[i - 1] /\ q = w[i]
      BY <3>1
    <3>3. (x \o p) \o q = x \o (p \o q)
      BY BytesAssociate
    <3> QED BY <3>2, <3>3
  <2> QED BY <2>2, <2>3, <2>4, <2>5
<1> HIDE DEF Same
<1>12. Same(n)
  <2> DEFINE Bad == {i \in 1..n : ~Same(i)}
  <2>1. ASSUME Bad # {} PROVE FALSE
    <3>1. PICK k \in Bad : \A i \in Bad : k <= i
      <4>1. PICK B : B = Bad
        OBVIOUS
      <4>2. B \subseteq Nat /\ B # {}
        BY <1>2, <2>1, <4>1
      <4>3. \E k \in B : \A i \in B : k <= i
        BY ONLY <4>2, Least
      <4> QED BY <4>1, <4>3
    <3>2. k \in 1..n /\ ~Same(k) /\ k # 1
      BY <1>10
    <3>3. k - 1 \in 1..n /\ k - 1 < k
      BY <1>2, <3>2
    <3>4. Same(k - 1)
      BY <3>1, <3>2, <3>3
    <3> QED BY <1>11, <3>2, <3>4
  <2>2. n \in 1..n
    BY <1>2
  <2> QED BY <2>1, <2>2
<1>13. g[n + 1] = x \o f[n]
  BY <1>12 DEF Same
<1> QED BY <1>3, <1>4, <1>8, <1>9, <1>13

-----------------------------------------------------------------------------
(* What sdscatrepr appends *)

LEMMA ReprByteText ==
  ASSUME NEW c \in Byte
  PROVE  ReprByte(c) \in Seq(Byte)
<1>1. DOMAIN Escape = {7, 8, 9, 10, 13} /\ \A b \in DOMAIN Escape : Escape[b] \in Byte
  <2>1. DOMAIN Escape = {7, 8, 9, 10, 13}
    BY DEF Escape
  <2>2. \A b \in {7, 8, 9, 10, 13} :
          Escape[b] = CASE b = 7 -> 97 [] b = 8 -> 98 [] b = 9 -> 116 [] b = 10 -> 110 [] b = 13 -> 114
    BY DEF Escape
  <2>3. \A b \in {7, 8, 9, 10, 13} : Escape[b] \in {97, 98, 116, 110, 114}
    BY <2>2
  <2>4. {97, 98, 116, 110, 114} \subseteq Byte
    BY DEF Byte
  <2> QED BY ONLY <2>1, <2>3, <2>4
<1>2. Backslash \in Byte /\ DQuote \in Byte /\ LetterX \in Byte
  BY DEF Byte, Backslash, DQuote, LetterX
<1>3. HexDigit(c \div 16) \in Byte /\ HexDigit(c % 16) \in Byte
  <2>1. c \div 16 \in 0..15 /\ c % 16 \in 0..15
    BY DEF Byte
  <2> QED BY <2>1 DEF HexDigit, Byte
<1>4. \/ ReprByte(c) = <<Backslash, c>>
      \/ c \in DOMAIN Escape /\ ReprByte(c) = <<Backslash, Escape[c]>>
      \/ ReprByte(c) = <<c>>
      \/ ReprByte(c) = <<Backslash, LetterX, HexDigit(c \div 16), HexDigit(c % 16)>>
  BY DEF ReprByte
<1>5. CASE ReprByte(c) = <<Backslash, c>>
  BY <1>2, <1>5
<1>6. CASE c \in DOMAIN Escape /\ ReprByte(c) = <<Backslash, Escape[c]>>
  BY <1>1, <1>2, <1>6
<1>7. CASE ReprByte(c) = <<c>>
  BY <1>7
<1>8. CASE ReprByte(c) = <<Backslash, LetterX, HexDigit(c \div 16), HexDigit(c % 16)>>
  <2> DEFINE a == HexDigit(c \div 16)
             b == HexDigit(c % 16)
  <2>1. a \in Byte /\ b \in Byte /\ ReprByte(c) = <<Backslash, LetterX, a, b>>
    BY <1>3, <1>8
  <2> HIDE DEF a, b
  <2> QED BY <1>2, <2>1
<1> QED BY <1>4, <1>5, <1>6, <1>7, <1>8

\* What sdscatrepr appends: an opening quote, the bytes, a closing quote.
LEMMA Quoted ==
  ASSUME NEW c \in Seq(Byte)
  PROVE  LET w == ReprPieces(c)
         IN  /\ w \in Seq(Seq(Byte)) /\ Len(w) = Len(c) + 2
             /\ w[1] = <<DQuote>> /\ w[Len(c) + 2] = <<DQuote>>
             /\ \A i \in 1..Len(c) : w[i + 1] = ReprByte(c[i])
<1> DEFINE n == Len(c)
           body == [i \in DOMAIN c |-> ReprByte(c[i])]
           q == <<DQuote>>
           one == <<q>>
           T == Seq(Byte)
<1>1. n \in Nat /\ DOMAIN c = 1..n /\ \A i \in 1..n : c[i] \in Byte
  BY LenProperties, ElementOfSeq
<1>2. q \in T
  BY DEF DQuote, Byte
<1>3. \A i \in 1..n : ReprByte(c[i]) \in T
  BY <1>1, ReprByteText
<1> HIDE DEF T
<1>4. body \in [1..n -> T]
  BY <1>1, <1>3
<1>5. body \in Seq(T)
  BY <1>1, <1>4, SeqDef
<1>6. Len(body) = n
  BY <1>1, <1>4, <1>5, LenProperties
<1>7. \A i \in 1..n : body[i] = ReprByte(c[i])
  BY <1>1
<1> HIDE DEF body, q, n
<1>8. one \in Seq(T) /\ Len(one) = 1 /\ one[1] = q
  BY <1>2
<1> HIDE DEF one
<1>9. PICK u : u = one \o body
  OBVIOUS
<1>10. /\ u \in Seq(T) /\ Len(u) = 1 + n
       /\ \A i \in 1..1 : u[i] = one[i]
       /\ \A i \in 1..n : u[1 + i] = body[i]
  <2>1. u \in Seq(T) /\ IsJoin(u, one, body)
    BY <1>5, <1>8, <1>9, JoinedSeq
  <2> QED BY <1>6, <1>8, <2>1 DEF IsJoin
<1>11. PICK w : w = u \o one
  OBVIOUS
<1>12. /\ w \in Seq(T) /\ Len(w) = (1 + n) + 1
       /\ \A i \in 1..(1 + n) : w[i] = u[i]
       /\ \A i \in 1..1 : w[(1 + n) + i] = one[i]
  <2>1. w \in Seq(T) /\ IsJoin(w, u, one)
    BY <1>8, <1>10, <1>11, JoinedSeq
  <2> QED BY <1>8, <1>10, <2>1 DEF IsJoin
<1>13. w = ReprPieces(c)
  BY <1>9, <1>11 DEF ReprPieces, one, q, body
<1>14. Len(w) = n + 2 /\ w[1] = q
  BY <1>1, <1>8, <1>10, <1>12
<1>15. w[n + 2] = q
  <2>1. w[(1 + n) + 1] = q /\ (1 + n) + 1 = n + 2
    BY <1>1, <1>8, <1>12
  <2> QED BY <2>1
<1>16. ASSUME NEW i \in 1..n PROVE w[i + 1] = ReprByte(c[i])
  <2>1. 1 + i \in 1..(1 + n) /\ 1 + i = i + 1
    BY <1>1
  <2>2. w[1 + i] = u[1 + i] /\ u[1 + i] = body[i]
    BY <1>10, <1>12, <2>1
  <2> QED BY <1>7, <2>1, <2>2
<1> QED BY <1>12, <1>13, <1>14, <1>15, <1>16 DEF n, q, T

-----------------------------------------------------------------------------
(* The program *)

LEMMA ReprText ==
  ASSUME NEW p \in Seq(Byte)
  PROVE  ReprPieces(p) \in Seq(Seq(Byte)) \ {<<>>}
<1>1. PICK w : w = ReprPieces(p)
  OBVIOUS
<1>2. w \in Seq(Seq(Byte)) /\ Len(w) = Len(p) + 2 /\ Len(p) \in Nat
  BY <1>1, Quoted, LenProperties
<1>3. w # <<>>
  BY <1>2, EmptySeq
<1> QED BY <1>1, <1>2, <1>3

\* Whichever buffer sdscatvprintf prints to, the text comes out of it whole.
LEMMA PrintfIsCat ==
  ASSUME NEW x, NEW t \in Seq(Byte), NEW n \in Nat
  PROVE  sdscatvprintf(x, t, n) = sdscatlen(x, t)
<1> DEFINE first == IF 2 * n > StaticBuf THEN 2 * n ELSE StaticBuf
           buflen == IF Len(t) >= first THEN Len(t) + 1 ELSE first
           S == {Len(t), buflen - 1}
<1>1. Len(t) \in Nat /\ StaticBuf \in Nat \ {0}
  BY SdsAssumption, LenProperties
<1>2. buflen - 1 \in Nat /\ Len(t) <= buflen - 1
  BY <1>1
<1> HIDE DEF buflen
<1>3. Min(S) = Len(t)
  <2>1. S \subseteq Nat /\ S # {} /\ Len(t) \in S
    BY <1>1, <1>2
  <2>2. Min(S) \in S /\ Min(S) <= Len(t)
    BY <2>1, Least
  <2> DEFINE m == Min(S)
  <2> HIDE DEF m
  <2>3. m = Len(t) \/ m = buflen - 1
    BY <2>2 DEF m
  <2> QED BY <1>1, <1>2, <2>2, <2>3 DEF m
<1>4. SubSeq(t, 1, Len(t)) = t
  <2>1. Len(t) \in 0..Len(t)
    BY <1>1
  <2>2. /\ SubSeq(t, 1, Len(t)) \in Seq(Byte) /\ Len(SubSeq(t, 1, Len(t))) = Len(t)
        /\ \A i \in 1..Len(t) : SubSeq(t, 1, Len(t))[i] = t[i]
    BY <2>1, Prefix
  <2> QED BY <2>2, SeqEqual
<1>5. vsnprintf(t, buflen) = t \o <<NUL>>
  BY <1>3, <1>4 DEF vsnprintf
<1>6. <<NUL>> \in Seq(Byte)
  BY DEF NUL, Byte
<1>7. SubSeq(t \o <<NUL>>, 1, Len(t)) = t
  <2>1. /\ t \o <<NUL>> \in Seq(Byte) /\ Len(t \o <<NUL>>) = Len(t) + Len(<<NUL>>)
        /\ \A i \in 1..Len(t) : (t \o <<NUL>>)[i] = t[i]
    BY <1>6, Joined
  <2>2. Len(<<NUL>>) = 1
    OBVIOUS
  <2> DEFINE q == t \o <<NUL>>
  <2> HIDE DEF q
  <2>3. q \in Seq(Byte) /\ Len(t) \in 0..Len(q) /\ \A i \in 1..Len(t) : q[i] = t[i]
    BY <1>1, <2>1, <2>2 DEF q
  <2>4. /\ SubSeq(q, 1, Len(t)) \in Seq(Byte) /\ Len(SubSeq(q, 1, Len(t))) = Len(t)
        /\ \A i \in 1..Len(t) : SubSeq(q, 1, Len(t))[i] = q[i]
    BY <2>3, Prefix
  <2>5. SubSeq(q, 1, Len(t)) = t
    BY <2>3, <2>4, SeqEqual
  <2> QED BY <2>5 DEF q
<1>8. sdscatvprintf(x, t, n) = sdscatlen(x, SubSeq(vsnprintf(t, buflen), 1, Len(t)))
  BY DEF sdscatvprintf, buflen, first
<1> QED BY <1>5, <1>7, <1>8

LEMMA Letters ==
  /\ UpperCase \in Seq(Byte) /\ LowerCase \in Seq(Byte)
  /\ Len(UpperCase) = Len(LowerCase)
<1>1. UpperCase \in [1..26 -> Byte] /\ LowerCase \in [1..26 -> Byte]
  BY DEF UpperCase, LowerCase, Byte
<1>2. \A f \in [1..26 -> Byte] : f \in Seq(Byte) /\ Len(f) = 26
  <2> SUFFICES ASSUME NEW f \in [1..26 -> Byte] PROVE f \in Seq(Byte) /\ Len(f) = 26
    OBVIOUS
  <2>1. f \in Seq(Byte)
    BY SeqDef
  <2> QED BY <2>1, LenProperties
<1> QED BY <1>1, <1>2

LEMMA FormatNat ==
  ASSUME NEW f \in Seq(Piece)
  PROVE  FormatLen(f) \in Nat
<1> DEFINE D == {i \in DOMAIN f : f[i].kind # "byte"}
<1>1. Len(f) \in Nat /\ DOMAIN f = 1..Len(f)
  BY LenProperties
<1>2. IsFiniteSet(D)
  <2>1. IsFiniteSet(1..Len(f))
    BY <1>1, FS_Interval
  <2> QED BY <1>1, <2>1, FS_Subset
<1>3. Cardinality(D) \in Nat
  BY <1>2, FS_CardinalityType
<1> QED BY <1>1, <1>3 DEF FormatLen

SdsInv == SdsTypeOK /\ HeaderSound

LEMMA InvIs == SdsInv <=> /\ Good(s)
                          /\ todo.op # "fmt" => Terminated(s)
                          /\ todo \in {NoCall} \cup [op : {"fmt"}, rest : Seq(Piece)]
                                       \cup [op : {"repr"}, rest : Seq(Seq(Byte)) \ {<<>>}]
BY DEF SdsInv, SdsTypeOK, HeaderSound, Good, SdsString

LEMMA InitInv == Init => SdsInv
<1> SUFFICES ASSUME Init PROVE SdsInv
  OBVIOUS
<1>1. Holds(s, <<>>)
  BY NewHolds, EmptySeq DEF Init
<1> QED BY <1>1, InvIs DEF Init, Holds

LEMMA CallInv ==
  ASSUME SdsInv, NEW x, Call(x), Good(x), Terminated(x)
  PROVE  SdsInv'
<1>1. s' = x /\ todo' = todo
  BY DEF Call
<1>2. Good(s') /\ Terminated(s')
  BY <1>1
<1>3. SdsInv' <=> /\ Good(s')
                  /\ todo'.op # "fmt" => Terminated(s')
                  /\ todo' \in {NoCall} \cup [op : {"fmt"}, rest : Seq(Piece)]
                                \cup [op : {"repr"}, rest : Seq(Seq(Byte)) \ {<<>>}]
  BY DEF SdsInv, SdsTypeOK, HeaderSound, Good, SdsString
<1> QED BY <1>1, <1>2, <1>3, InvIs

LEMMA NextInv == SdsInv /\ [Next]_vars => SdsInv'
<1> SUFFICES ASSUME SdsInv, [Next]_vars PROVE SdsInv'
  OBVIOUS
<1>g. /\ Good(s)
      /\ todo.op # "fmt" => Terminated(s)
      /\ todo \in {NoCall} \cup [op : {"fmt"}, rest : Seq(Piece)]
                   \cup [op : {"repr"}, rest : Seq(Seq(Byte)) \ {<<>>}]
  BY InvIs
<1>k. todo = NoCall => Terminated(s)
  BY <1>g DEF NoCall
<1>n. /\ s \in SdsString /\ s.len \in Nat /\ s.alloc \in Nat /\ s.room \in Nat
      /\ s.len <= sdsalloc(s) /\ sdsalloc(s) + 1 <= s.room /\ s.len \in 0..Len(s.mem)
  BY <1>g, LenProperties DEF Good, Sound, SdsString
<1>a. MaxLen \in Nat /\ \A t \in Text : t \in Seq(Byte) /\ Len(t) \in Nat
  <2>1. MaxLen \in Nat /\ Text \subseteq Seq(Byte)
    BY SdsAssumption
  <2> QED BY <2>1, LenProperties
<1>i. SdsInv' <=> /\ Good(s')
                  /\ todo'.op # "fmt" => Terminated(s')
                  /\ todo' \in {NoCall} \cup [op : {"fmt"}, rest : Seq(Piece)]
                                \cup [op : {"repr"}, rest : Seq(Seq(Byte)) \ {<<>>}]
  BY DEF SdsInv, SdsTypeOK, HeaderSound, Good, SdsString
<1>1. CASE New
  <2>1. PICK t \in Text : Call(sdsnewlen(t))
    BY <1>1 DEF New
  <2> QED BY <1>a, <2>1, NewHolds, CallInv DEF Holds
<1>2. CASE Dup
  <2>1. Holds(sdsnewlen(Content(s)), Content(s))
    BY <1>g, ContentIs, NewHolds
  <2> QED BY <1>2, <2>1, CallInv DEF Dup, Holds
<1>3. CASE MakeRoom
  <2>1. PICK n \in 0..MaxLen : Call(sdsMakeRoomFor(s, n))
    BY <1>3 DEF MakeRoom
  <2>2. n \in Nat /\ Terminated(s)
    BY <1>a, <1>k, <2>1 DEF Call
  <2> DEFINE y == sdsMakeRoomFor(s, n)
  <2>3. Good(y) /\ Terminated(y)
    BY <1>g, <2>2, MoreRoom
  <2> HIDE DEF y
  <2> QED BY <2>1, <2>3, CallInv DEF y
<1>4. CASE RemoveFreeSpace
  <2>1. Terminated(s)
    BY <1>k, <1>4 DEF RemoveFreeSpace, Call
  <2> QED BY <1>g, <1>4, <2>1, FreeHolds, CallInv DEF RemoveFreeSpace
<1>5. CASE Cat
  <2>1. PICK t \in Text : Call(sdscatlen(s, t))
    BY <1>5 DEF Cat
  <2> QED BY <1>a, <1>g, <2>1, CatHolds, CallInv DEF Holds
<1>6. CASE Cpy
  <2>1. PICK t \in Text : Call(sdscpylen(s, t))
    BY <1>6 DEF Cpy
  <2> QED BY <1>a, <1>g, <2>1, CpyHolds, CallInv DEF Holds
<1>7. CASE GrowZero
  <2>1. PICK n \in 0..MaxLen : Call(sdsgrowzero(s, n))
    BY <1>7 DEF GrowZero
  <2>2. n \in Nat /\ Terminated(s)
    BY <1>a, <1>k, <2>1 DEF Call
  <2>3. Holds(sdsgrowzero(s, n), Content(s) \o [i \in 1..(n - s.len) |-> NUL])
    BY <1>g, <2>2, GrowHolds
  <2>4. Good(sdsgrowzero(s, n)) /\ Terminated(sdsgrowzero(s, n))
    BY <2>3 DEF Holds
  <2> QED BY <2>1, <2>4, CallInv
<1>8. CASE Filled
  <2>1. PICK t \in Text : /\ Len(t) <= sdsavail(s)
                          /\ IncrLenAsserts(s, Len(t))
                          /\ Call(sdsIncrLen(Write(s, s.len, t), Len(t)))
    BY <1>8 DEF Filled
  <2> DEFINE k == Len(t)
             w == Write(s, s.len, t)
  <2>2. t \in Seq(Byte) /\ k \in Nat
    BY <1>a
  <2>3. s.type # 5 /\ s.len + k <= s.alloc /\ s.len + k <= s.room
    BY <1>n, <2>1, <2>2 DEF sdsavail, sdsalloc, IncrLenAsserts
  <2>4. /\ Good(w) /\ Len(w.mem) = s.len + k
        /\ w.type = s.type /\ w.len = s.len /\ w.alloc = s.alloc /\ w.room = s.room
    <3>1. s.len <= s.len + Len(t)
      BY <1>n, <2>2
    <3> QED BY <1>g, <1>n, <2>2, <2>3, <3>1, WriteGood
  <2> HIDE DEF w, k
  <2>5. w.len + k \in Nat /\ w.len + k <= Len(w.mem) /\ Fits(w, w.len + k) /\ k \in Int
    BY <1>n, <2>2, <2>3, <2>4 DEF Fits
  <2>6. Good(sdsIncrLen(w, k)) /\ Terminated(sdsIncrLen(w, k))
    BY <2>4, <2>5, IncrGood
  <2> QED BY <2>1, <2>6, CallInv DEF w, k
<1>9. CASE Shorten
  <2>1. PICK n \in 1..MaxLen : IncrLenAsserts(s, -n) /\ Call(sdsIncrLen(s, -n))
    BY <1>9 DEF Shorten
  <2> DEFINE k == -n
  <2>2. k \in Int /\ k < 0 /\ -k = n
    BY <1>a
  <2>3. s.len >= -k
    BY <2>1, <2>2 DEF IncrLenAsserts
  <2> HIDE DEF k
  <2>4. s.len + k \in Nat /\ s.len + k <= s.len /\ s.len + k <= Len(s.mem)
    <3>1. Len(s.mem) \in Nat /\ s.len <= Len(s.mem)
      BY <1>n, LenProperties DEF SdsString
    <3> QED BY <1>n, <2>2, <2>3, <3>1
  <2>5. Fits(s, s.len + k)
    BY <1>g, <2>4, FitsLess
  <2>6. Good(sdsIncrLen(s, k)) /\ Terminated(sdsIncrLen(s, k))
    BY <1>g, <2>2, <2>4, <2>5, IncrGood
  <2> QED BY <2>1, <2>6, CallInv DEF k
<1>10. CASE Clear
  <2>1. <<>> \in Seq(Byte) /\ Len(<<>>) <= s.len
    BY <1>n, EmptySeq
  <2>2. Holds(Cut(s, <<>>), <<>>)
    BY <1>g, <2>1, CutHolds
  <2> QED BY <1>10, <2>2, CallInv DEF Clear, sdsclear, Holds
<1>11. CASE Trim
  <2>1. PICK t \in Text : Call(sdstrim(s, Range(t)))
    BY <1>11 DEF Trim
  <2> DEFINE r == Trimmed(Content(s), Range(t))
  <2>2. r \in Seq(Byte) /\ Len(r) <= s.len
    BY <1>g, ContentIs, TrimmedText
  <2>3. Holds(Cut(s, r), r)
    BY <1>g, <2>2, CutHolds
  <2> HIDE DEF r
  <2> QED BY <2>1, <2>3, CallInv DEF sdstrim, r, Holds
<1>12. CASE Crop
  <2>1. PICK start \in (-MaxLen)..MaxLen, end \in (-MaxLen)..MaxLen : Call(sdsrange(s, start, end))
    BY <1>12 DEF Crop
  <2> DEFINE r == Ranged(Content(s), start, end)
  <2>2. r \in Seq(Byte) /\ Len(r) <= s.len
    <3>1. start \in Int /\ end \in Int
      BY <1>a
    <3> QED BY <1>g, <3>1, ContentIs, RangedText
  <2>3. Holds(Cut(s, r), r)
    BY <1>g, <2>2, CutHolds
  <2> HIDE DEF r
  <2>4. Good(sdsrange(s, start, end)) /\ Terminated(sdsrange(s, start, end))
    BY <1>g, <1>k, <2>1, <2>3 DEF sdsrange, r, Holds, Call
  <2> QED BY <2>1, <2>4, CallInv
<1>13. CASE UpdateLen
  <2>1. Terminated(s)
    BY <1>k, <1>13 DEF UpdateLen, Call
  <2> QED BY <1>g, <1>13, <2>1, UpdateGood, CallInv DEF UpdateLen
<1>14. CASE MapChars
  <2>1. PICK f \in Text, t \in Text : Len(f) = Len(t) /\ Call(sdsmapchars(s, f, t))
    BY <1>14 DEF MapChars
  <2>2. Terminated(s)
    BY <1>k, <2>1 DEF Call
  <2> QED BY <1>a, <1>g, <2>1, <2>2, MapGood, CallInv
<1>15. CASE sdscatfmt
  <2>1. PICK format \in Format : /\ s' = sdsMakeRoomFor(s, s.len + 2 * FormatLen(format))
                                 /\ todo' = [op |-> "fmt", rest |-> format]
    BY <1>15 DEF sdscatfmt
  <2>2. format \in Seq(Piece)
    BY SdsAssumption
  <2> DEFINE n == s.len + 2 * FormatLen(format)
  <2>3. n \in Nat
    BY <1>n, <2>2, FormatNat
  <2> HIDE DEF n
  <2>4. Good(sdsMakeRoomFor(s, n))
    BY <1>g, <2>3, MoreRoom
  <2> QED BY <1>i, <2>1, <2>2, <2>4 DEF n
<1>16. CASE sdscatfmtLoop
  <2>1. /\ todo.op = "fmt" /\ todo.rest # <<>>
        /\ s' = FmtPiece(s, Head(todo.rest)) /\ todo' = [todo EXCEPT !.rest = Tail(todo.rest)]
    BY <1>16 DEF sdscatfmtLoop
  <2>2. todo \in [op : {"fmt"}, rest : Seq(Piece)]
    BY <1>g, <2>1 DEF NoCall
  <2>3. Head(todo.rest) \in Piece /\ Tail(todo.rest) \in Seq(Piece)
    BY <2>1, <2>2, HeadTailProperties
  <2>4. Good(s')
    BY <1>g, <2>1, <2>3, FmtGood
  <2>5. todo' \in [op : {"fmt"}, rest : Seq(Piece)] /\ todo'.op = "fmt"
    BY <2>1, <2>2, <2>3
  <2> QED BY <1>i, <2>4, <2>5
<1>17. CASE sdscatfmtEnd
  <2>1. s' = Write(s, s.len, <<NUL>>) /\ todo' = NoCall
    BY <1>17 DEF sdscatfmtEnd
  <2>2. Good(s') /\ Terminated(s')
    BY <1>g, <2>1, TerminateGood
  <2> QED BY <1>i, <2>1, <2>2
<1>18. CASE sdscatrepr
  <2>1. PICK t \in Text : todo = NoCall /\ todo' = [op |-> "repr", rest |-> ReprPieces(t)] /\ s' = s
    BY <1>18 DEF sdscatrepr
  <2>2. ReprPieces(t) \in Seq(Seq(Byte)) \ {<<>>}
    BY <1>a, ReprText
  <2> QED BY <1>g, <1>i, <1>k, <2>1, <2>2
<1>19. CASE sdscatreprLoop
  <2>1. /\ todo.op = "repr" /\ s' = sdscatlen(s, Head(todo.rest))
        /\ todo' = IF Len(todo.rest) = 1 THEN NoCall ELSE [todo EXCEPT !.rest = Tail(todo.rest)]
    BY <1>19 DEF sdscatreprLoop
  <2>2. todo \in [op : {"repr"}, rest : Seq(Seq(Byte)) \ {<<>>}]
    BY <1>g, <2>1 DEF NoCall
  <2> DEFINE r == todo.rest
  <2>3. r \in Seq(Seq(Byte)) /\ r # <<>> /\ Len(r) \in Nat \ {0}
    BY <2>2, EmptySeq
  <2>4. Head(r) \in Seq(Byte) /\ Tail(r) \in Seq(Seq(Byte)) /\ Len(Tail(r)) = Len(r) - 1
    BY <2>3, HeadTailProperties
  <2>5. Len(r) # 1 => Tail(r) # <<>>
    <3>1. Len(r) # 1 => Len(Tail(r)) # 0
      <4> HIDE DEF r
      <4> QED BY <2>3, <2>4
    <3>2. Len(<<>>) = 0
      BY EmptySeq
    <3> QED BY <3>1, <3>2
  <2>6. Good(s') /\ Terminated(s')
    BY <1>g, <2>1, <2>4, CatHolds DEF Holds
  <2>7. todo' \in {NoCall} \cup [op : {"repr"}, rest : Seq(Seq(Byte)) \ {<<>>}]
    BY <2>1, <2>2, <2>4, <2>5
  <2> QED BY <1>i, <2>6, <2>7
<1>20. CASE Printf
  <2>1. PICK t \in Text, n \in 0..MaxLen : Call(sdscatvprintf(s, t, n))
    BY <1>20 DEF Printf
  <2>2. sdscatvprintf(s, t, n) = sdscatlen(s, t)
    BY <1>a, PrintfIsCat
  <2>3. Call(sdscatlen(s, t))
    BY <2>1, <2>2
  <2> QED BY <1>a, <1>g, <2>3, CatHolds, CallInv DEF Holds
<1>21. CASE FromLongLong
  <2>1. PICK v \in Number : Call(sdsnewlen(sdsll2str(v)))
    BY <1>21 DEF FromLongLong
  <2> DEFINE t == sdsll2str(v)
  <2>2. t \in Seq(Byte)
    BY NumberText, SdsAssumption
  <2> HIDE DEF t
  <2>3. Call(sdsnewlen(t))
    BY <2>1 DEF t
  <2> QED BY <2>2, <2>3, NewHolds, CallInv DEF Holds
<1>22. CASE ToLower
  <2>1. Call(sdsmapchars(s, UpperCase, LowerCase)) /\ Terminated(s)
    BY <1>k, <1>22 DEF ToLower, Call
  <2> QED BY <1>g, <2>1, Letters, MapGood, CallInv
<1>23. CASE ToUpper
  <2>1. Call(sdsmapchars(s, LowerCase, UpperCase)) /\ Terminated(s)
    BY <1>k, <1>23 DEF ToUpper, Call
  <2> QED BY <1>g, <2>1, Letters, MapGood, CallInv
<1>24. CASE UNCHANGED vars
  BY <1>g, <1>i, <1>24 DEF vars
<1> QED
  BY <1>1, <1>2, <1>3, <1>4, <1>5, <1>6, <1>7, <1>8, <1>9, <1>10, <1>11, <1>12, <1>13, <1>14,
     <1>15, <1>16, <1>17, <1>18, <1>19, <1>20, <1>21, <1>22, <1>23, <1>24 DEF Next

\* The fields of the header keep their types, and what sdscatfmt or sdscatrepr has
\* still to append is pieces of theirs, the last of them never missed.
THEOREM SdsTyped == Spec => []SdsTypeOK
<1>1. SdsInv => SdsTypeOK
  BY DEF SdsInv
<1> QED BY InitInv, NextInv, <1>1, PTL DEF Spec

\* A header is true of the string: the length is within the space, the space is
\* allocated, no write has left it, and the string is closed whenever the program
\* has it in hands.
THEOREM SdsSound == Spec => []HeaderSound
<1>1. SdsInv => HeaderSound
  BY DEF SdsInv
<1> QED BY InitInv, NextInv, <1>1, PTL DEF Spec

\* Room asked for is there to be filled, and getting it costs no byte.
THEOREM RoomIsMade == Spec => []RoomMade
<1>1. SdsInv => RoomMade
  <2> SUFFICES ASSUME SdsInv, NEW n \in 0..MaxLen
               PROVE  LET x == sdsMakeRoomFor(s, n) IN sdsavail(x) >= n /\ Content(x) = Content(s)
    BY DEF RoomMade
  <2>1. n \in Nat /\ Good(s)
    BY InvIs, SdsAssumption
  <2> QED BY <2>1, MoreRoom
<1> QED BY InitInv, NextInv, <1>1, PTL DEF Spec

\* Appending, overwriting, growing, compacting and copying do to the content
\* what they should, in every string a program can have.
THEOREM ContentIsKept == Spec => []ContentKept
<1>1. SdsInv => ContentKept
  <2> SUFFICES ASSUME SdsInv, todo.op # "fmt"
               PROVE /\ \A t \in Text :
                          /\ Content(sdscatlen(s, t)) = Content(s) \o t
                          /\ Content(sdscpylen(s, t)) = t /\ Sound(sdscpylen(s, t))
                     /\ \A n \in 0..MaxLen :
                          Content(sdsgrowzero(s, n)) = Content(s) \o [i \in 1..(n - s.len) |-> NUL]
                     /\ Content(sdsRemoveFreeSpace(s)) = Content(s) /\ sdsavail(sdsRemoveFreeSpace(s)) = 0
                     /\ Content(sdsnewlen(Content(s))) = Content(s)
    BY DEF ContentKept
  <2>1. Good(s) /\ Terminated(s)
    BY InvIs
  <2>2. Text \subseteq Seq(Byte) /\ 0..MaxLen \subseteq Nat
    BY SdsAssumption
  <2>3. ASSUME NEW t \in Text
        PROVE /\ Content(sdscatlen(s, t)) = Content(s) \o t
              /\ Content(sdscpylen(s, t)) = t /\ Sound(sdscpylen(s, t))
    <3>1. Holds(sdscatlen(s, t), Content(s) \o t) /\ Holds(sdscpylen(s, t), t)
      BY <2>1, <2>2, CatHolds, CpyHolds
    <3> QED BY <3>1 DEF Holds, Good
  <2>4. ASSUME NEW n \in 0..MaxLen
        PROVE Content(sdsgrowzero(s, n)) = Content(s) \o [i \in 1..(n - s.len) |-> NUL]
    <3>1. Holds(sdsgrowzero(s, n), Content(s) \o [i \in 1..(n - s.len) |-> NUL])
      BY <2>1, <2>2, GrowHolds
    <3> QED BY <3>1 DEF Holds
  <2>5. Content(sdsRemoveFreeSpace(s)) = Content(s) /\ sdsavail(sdsRemoveFreeSpace(s)) = 0
    BY <2>1, FreeHolds
  <2>6. Content(sdsnewlen(Content(s))) = Content(s)
    BY <2>1, ContentIs, NewHolds DEF Holds
  <2> QED BY <2>3, <2>4, <2>5, <2>6
<1> QED BY InitInv, NextInv, <1>1, PTL DEF Spec

\* sdsrange keeps the bytes between its two indices, and nothing else, for all
\* indices, from the front and from the back, inside the string and outside.
THEOREM RangeIsBetween == Spec => []RangeKeepsBetween
<1>1. SdsInv => RangeKeepsBetween
  <2> DEFINE index(i) == IF i < 0 THEN Max({s.len + i, 0}) ELSE i
             between(a, b) == {i \in 1..s.len : index(a) < i /\ i <= index(b) + 1}
  <2> SUFFICES ASSUME SdsInv, NEW a \in (-MaxLen - 1)..(MaxLen + 1), NEW b \in (-MaxLen - 1)..(MaxLen + 1)
               PROVE  /\ Len(Content(sdsrange(s, a, b))) = Cardinality(between(a, b))
                      /\ \A i \in between(a, b) :
                           Content(sdsrange(s, a, b))[i - Min(between(a, b)) + 1] = s.mem[i]
    BY DEF RangeKeepsBetween
  <2> DEFINE c == Content(s)
             first == index(a)
             last == index(b)
             stop == IF last >= s.len THEN s.len ELSE last + 1
             kept == between(a, b)
             r == Content(sdsrange(s, a, b))
  <2>1. Good(s) /\ a \in Int /\ b \in Int
    BY InvIs, SdsAssumption
  <2>2. c \in Seq(Byte) /\ Len(c) = s.len /\ s.len \in Nat /\ \A i \in 1..s.len : c[i] = s.mem[i]
    BY <2>1, ContentIs DEF Good, SdsString
  <2>3. first \in Nat /\ last \in Nat
    <3>1. s.len + a \in Int /\ s.len + b \in Int
      BY <2>1, <2>2
    <3>2. /\ Max({s.len + a, 0}) = IF s.len + a >= 0 THEN s.len + a ELSE 0
          /\ Max({s.len + b, 0}) = IF s.len + b >= 0 THEN s.len + b ELSE 0
      BY <3>1, MaxPair
    <3>3. first \in Nat
      BY <2>1, <3>1, <3>2
    <3>4. last \in Nat
      BY <2>1, <3>1, <3>2
    <3> QED BY <3>3, <3>4
  <2>4. r = IF s.len = 0 THEN c ELSE Ranged(c, a, b)
    <3>1. Len(Ranged(c, a, b)) <= s.len /\ Ranged(c, a, b) \in Seq(Byte)
      BY <2>1, <2>2, RangedText
    <3>2. Holds(Cut(s, Ranged(c, a, b)), Ranged(c, a, b))
      BY <2>1, <3>1, CutHolds
    <3> QED BY <3>2 DEF Holds, sdsrange
  <2>5. Ranged(c, a, b) = IF first > last \/ first >= s.len THEN <<>> ELSE SubSeq(c, first + 1, stop)
    BY <2>2 DEF Ranged
  <2>6. kept = {i \in 1..s.len : first < i /\ i <= last + 1}
    OBVIOUS
  <2> HIDE DEF r, c, first, last, kept
  <2>7. kept = (first + 1)..stop /\ stop \in Nat /\ stop <= s.len
    BY <2>2, <2>3, <2>6
  <2> HIDE DEF stop
  <2>8. CASE s.len = 0 \/ first > last \/ first >= s.len
    <3>1. Len(r) = 0
      BY <2>2, <2>4, <2>5, <2>8, EmptySeq
    <3>2. kept = {}
      BY <2>2, <2>3, <2>6, <2>8
    <3>3. Len(r) = Cardinality(kept) /\ \A i \in kept : r[i - Min(kept) + 1] = s.mem[i]
      BY <3>1, <3>2, FS_EmptySet
    <3> QED BY <3>3 DEF r, kept
  <2>9. CASE ~(s.len = 0 \/ first > last \/ first >= s.len)
    <3>1. r = SubSeq(c, first + 1, stop)
      BY <2>4, <2>5, <2>9
    <3>2. first + 1 <= stop
      BY <2>2, <2>3, <2>9 DEF stop
    <3>3. \A i \in (first + 1)..stop : c[i] \in Byte
      <4>1. \A i \in (first + 1)..stop : i \in 1..s.len
        BY <2>2, <2>3, <2>7
      <4> QED BY <2>2, <4>1, ElementOfSeq
    <3>4. /\ Len(r) = stop - (first + 1) + 1
          /\ \A i \in 1..(stop - (first + 1) + 1) : r[i] = c[(first + 1) + i - 1]
      <4>1. first + 1 \in Int /\ stop \in Int
        BY <2>3, <2>7
      <4> QED BY <3>1, <3>2, <3>3, <4>1, SubSeqProperties
    <3>5. Cardinality(kept) = stop - (first + 1) + 1
      BY <2>3, <2>7, <3>2, FS_Interval
    <3>6. Min(kept) = first + 1
      <4>1. kept \subseteq Nat /\ first + 1 \in kept
        BY <2>3, <2>7, <3>2
      <4>2. Min(kept) \in kept /\ Min(kept) <= first + 1
        BY <4>1, Least
      <4> QED BY <2>3, <2>7, <4>2
    <3>7. ASSUME NEW i \in kept  PROVE r[i - Min(kept) + 1] = s.mem[i]
      <4>1. PICK j : j = i - (first + 1) + 1
        OBVIOUS
      <4>2. j \in 1..(stop - (first + 1) + 1) /\ (first + 1) + j - 1 = i /\ i \in 1..s.len
        BY <2>2, <2>3, <2>7, <4>1
      <4>3. r[j] = c[i]
        BY <3>4, <4>2
      <4> QED BY <2>2, <3>6, <4>1, <4>2, <4>3
    <3>8. Len(r) = Cardinality(kept) /\ \A i \in kept : r[i - Min(kept) + 1] = s.mem[i]
      BY <3>4, <3>5, <3>7
    <3> QED BY <3>8 DEF r, kept
  <2> QED BY <2>8, <2>9
<1> QED BY InitInv, NextInv, <1>1, PTL DEF Spec

\* printf-like output is appended whole, however it compares with the buffers.
THEOREM PrintfIsWhole == Spec => []PrintfWhole
<1>1. SdsInv => PrintfWhole
  <2> SUFFICES ASSUME SdsInv, todo.op # "fmt", NEW t \in Text, NEW n \in 0..MaxLen
               PROVE  Content(sdscatvprintf(s, t, n)) = Content(s) \o t
    BY DEF PrintfWhole
  <2>1. Good(s) /\ t \in Seq(Byte) /\ n \in Nat
    BY InvIs, SdsAssumption
  <2>2. Holds(sdscatlen(s, t), Content(s) \o t)
    BY <2>1, CatHolds
  <2> QED BY <2>1, <2>2, PrintfIsCat DEF Holds
<1> QED BY InitInv, NextInv, <1>1, PTL DEF Spec

\* No increment that the assertion of sdsIncrLen accepts, one past the space or the
\* start included, takes the length or the NUL out of the space, for any string a
\* program can have (upwards: one that is not of type 5).
THEOREM IncrementIsGuarded == Spec => []IncrLenGuarded
<1>1. SdsInv => IncrLenGuarded
  <2> SUFFICES ASSUME SdsInv, NEW incr \in (-s.len - 1)..(sdsavail(s) + 1), IncrLenAsserts(s, incr),
                      s.type = 5 => incr < 0
               PROVE  LET x == sdsIncrLen(Write(s, s.len, [i \in 1..incr |-> Space]), incr)
                      IN  x.len = s.len + incr /\ Sound(x) /\ Terminated(x)
    BY DEF IncrLenGuarded
  <2> DEFINE t == [i \in 1..incr |-> Space]
             w == Write(s, s.len, t)
             k == IF incr < 0 THEN 0 ELSE incr
  <2>1. /\ Good(s) /\ s.len \in Nat /\ s.alloc \in Nat /\ s.room \in Nat /\ s.len \in 0..Len(s.mem)
        /\ s.len <= sdsalloc(s) /\ sdsalloc(s) + 1 <= s.room
    BY InvIs, LenProperties DEF Good, Sound, SdsString
  <2>2. incr \in Int
    BY <2>1 DEF sdsavail
  <2>3. t \in Seq(Byte) /\ Len(t) = k /\ k \in Nat
    <3>1. CASE incr < 0
      <4>1. 1..incr = {} /\ t = <<>>
        BY <2>2, <3>1
      <4> HIDE DEF t
      <4> QED BY <3>1, <4>1, EmptySeq
    <3>2. CASE incr >= 0
      BY <2>2, <3>2 DEF Byte, Space
    <3>3. incr < 0 \/ incr >= 0
      BY <2>2
    <3> HIDE DEF t, k
    <3> QED BY <3>1, <3>2, <3>3
  <2> HIDE DEF t
  <2>4. s.len + incr \in Nat /\ s.len + incr <= s.len + k /\ s.len + k <= sdsalloc(s)
    BY <2>1, <2>2 DEF IncrLenAsserts, sdsavail, sdsalloc
  <2> HIDE DEF k
  <2>5. Good(w) /\ Len(w.mem) = s.len + k /\ w.type = s.type /\ w.len = s.len /\ w.alloc = s.alloc
        /\ w.room = s.room
    <3>1. s.len + Len(t) <= s.room /\ s.len <= s.len + Len(t)
      <4>1. sdsalloc(s) \in Nat
        BY <2>1 DEF sdsalloc
      <4>2. Len(t) = k /\ s.len \in Nat /\ s.room \in Nat /\ k \in Nat
            /\ s.len + k <= sdsalloc(s) /\ sdsalloc(s) + 1 <= s.room
        BY <2>1, <2>3, <2>4
      <4>3. \A i, j, m, n \in Nat : i + j <= m /\ m + 1 <= n => i + j <= n /\ i <= i + j
        OBVIOUS
      <4> QED BY <4>1, <4>2, <4>3
    <3> QED BY <2>1, <2>3, <3>1, WriteGood
  <2> HIDE DEF w
  <2>6. Fits(w, w.len + incr)
    <3>1. CASE s.type = 5
      <4>1. w.len + incr \in Nat /\ w.len + incr <= w.len
        BY <2>1, <2>2, <2>4, <2>5, <3>1
      <4> QED BY <2>5, <4>1, FitsLess
    <3>2. CASE s.type # 5
      BY <2>1, <2>2, <2>3, <2>4, <2>5, <3>2 DEF Fits, sdsalloc
    <3> QED BY <3>1, <3>2
  <2>7. w.len + incr \in Nat /\ w.len + incr <= Len(w.mem)
    BY <2>4, <2>5
  <2>8. LET x == sdsIncrLen(w, incr) IN x.len = w.len + incr /\ Good(x) /\ Terminated(x)
    BY <2>2, <2>5, <2>6, <2>7, IncrGood
  <2> QED BY <2>5, <2>8 DEF Good, w, t
<1> QED BY InitInv, NextInv, <1>1, PTL DEF Spec

LEMMA OneTurn ==
  ASSUME NEW W \in Nat \ {0}, NEW a \in Nat, a < 2 * W
  PROVE  a % W = IF a < W THEN a ELSE a - W
OBVIOUS

\* When the length asked for is a size_t, the one assertion of sdsMakeRoomFor stops
\* every growth whose space or size to allocate wraps round.
THEOREM GrowthIsChecked == Spec => []GrowthNeverWraps
<1>1. SdsInv => GrowthNeverWraps
  <2> SUFFICES ASSUME SdsInv, NEW addlen \in 0..(SizeMod - 1 - s.len), GrownSizes(s.len, addlen).asserts
               PROVE  LET grown == GrownSizes(s.len, addlen)
                      IN  /\ grown.newlen >= s.len + addlen
                          /\ grown.size = sdsHdrSize(grown.type) + grown.newlen + 1
    BY DEF GrowthNeverWraps
  <2> DEFINE W == SizeMod
             P == SDS_MAX_PREALLOC
             r == s.len + addlen
             n0 == IF r < P THEN 2 * r ELSE r + P
             newlen == n0 % W
             type == IF sdsReqType(newlen) = 5 THEN 8 ELSE sdsReqType(newlen)
             h == sdsHdrSize(type)
             size == (h + newlen + 1) % W
  <2>1. s.len \in Nat /\ P \in Nat /\ W \in Nat /\ P + 18 <= W
    BY InvIs, SdsAssumption DEF Good, SdsString
  <2>2. r \in Nat /\ r < W /\ r % W = r
    <3>1. r \in Nat /\ r < W /\ r < 2 * W /\ W \in Nat \ {0}
      BY <2>1
    <3> HIDE DEF r
    <3> QED BY <3>1, OneTurn
  <2>3. n0 \in Nat /\ n0 < 2 * W /\ newlen = (IF n0 < W THEN n0 ELSE n0 - W)
    <3>1. n0 \in Nat /\ n0 < 2 * W /\ W \in Nat \ {0}
      BY <2>1, <2>2
    <3> HIDE DEF n0
    <3> QED BY <3>1, OneTurn
  <2>4. newlen \in Nat /\ newlen < W
    BY <2>1, <2>3
  <2>5. GrownSizes(s.len, addlen) = [newlen |-> newlen, type |-> type, size |-> size, asserts |-> size > r]
    BY <2>2 DEF GrownSizes
  <2> HIDE DEF newlen, n0, r
  <2>6. h \in 1..17
    <3>1. type \in Types
      BY <2>4, ReqType DEF Types
    <3> HIDE DEF type
    <3> QED BY <3>1 DEF Types, sdsHdrSize
  <2> HIDE DEF h, type
  <2> DEFINE k == h + newlen + 1
  <2>7. size = IF k < W THEN k ELSE k - W
    <3>1. k \in Nat /\ k < 2 * W /\ W \in Nat \ {0}
      BY <2>1, <2>4, <2>6
    <3>2. size = k % W
      OBVIOUS
    <3> HIDE DEF k, size
    <3>3. k % W = IF k < W THEN k ELSE k - W
      BY <3>1, OneTurn
    <3> QED BY <3>2, <3>3
  <2>8. size > r
    <3> DEFINE b == size > r
               grown == [newlen |-> newlen, type |-> type, size |-> size, asserts |-> b]
    <3>1. GrownSizes(s.len, addlen).asserts = grown.asserts
      BY <2>5, Zenon
    <3> HIDE DEF b
    <3>2. grown.asserts = b
      BY Zenon
    <3>3. b
      BY <3>1, <3>2, Zenon
    <3> QED BY <3>3 DEF b
  <2> HIDE DEF size
  <2>9. newlen >= r /\ size = h + newlen + 1
    BY <2>1, <2>2, <2>3, <2>4, <2>6, <2>7, <2>8 DEF n0, k
  <2> QED BY <2>5, <2>9 DEF h, r
<1> QED BY InitInv, NextInv, <1>1, PTL DEF Spec
-----------------------------------------------------------------------------
(* Numbers *)

\* The value of each prefix of a decimal number.
Value(w) ==
  LET value[i \in 0..Len(w)] == IF i = 0 THEN 0 ELSE 10 * value[i - 1] + w[i] - 48 IN value

LEMMA ValueIs ==
  ASSUME NEW w \in Seq(Byte)
  PROVE  /\ Value(w) \in [0..Len(w) -> Int]
         /\ Value(w)[0] = 0
         /\ \A i \in 1..Len(w) : Value(w)[i] = 10 * Value(w)[i - 1] + w[i] - 48
<1> DEFINE D == 0..Len(w)
           Body(i, g) == IF i = 0 THEN 0 ELSE 10 * g[i - 1] + w[i] - 48
           F == [ig \in D \X [D -> Int] |-> Body(ig[1], ig[2])]
           m == [i \in D |-> i]
<1>1. /\ Len(w) \in Nat
      /\ \A i \in D : i \in Nat /\ (i # 0 => i - 1 \in D /\ i - 1 < i /\ w[i] \in Int)
  <2>1. Len(w) \in Nat /\ \A i \in 1..Len(w) : w[i] \in Byte
    BY LenProperties, ElementOfSeq
  <2>2. Byte \subseteq Int
    BY DEF Byte
  <2>3. \A i \in 1..Len(w) : w[i] \in Int
    BY <2>1, <2>2
  <2> QED BY <2>1, <2>3
<1>2. ASSUME NEW i \in D, NEW g \in [D -> Int] PROVE F[<<i, g>>] = Body(i, g)
  <2>1. <<i, g>> \in D \X [D -> Int] /\ <<i, g>>[1] = i /\ <<i, g>>[2] = g
    OBVIOUS
  <2> HIDE DEF Body, D
  <2> QED BY <2>1
<1>3. ASSUME NEW i \in D, NEW g \in [D -> Int] PROVE Body(i, g) \in Int
  <2> HIDE DEF D
  <2>1. CASE i = 0
    BY <2>1
  <2>2. CASE i # 0
    <3>1. i - 1 \in D /\ w[i] \in Int
      BY <1>1, <2>2
    <3>2. g[i - 1] \in Int
      BY <3>1
    <3> QED BY <2>2, <3>1, <3>2
  <2> QED BY <2>1, <2>2
<1>4. ASSUME NEW i \in D, NEW g \in [D -> Int], NEW h \in [D -> Int],
             \A j \in D : m[j] < m[i] => g[j] = h[j]
      PROVE  Body(i, g) = Body(i, h)
  BY <1>1, <1>4
<1>5. m \in [D -> Nat]
  BY <1>1
<1>6. PICK f \in [D -> Int] : \A i \in D : f[i] = Body(i, f)
  <2>1. ASSUME NEW i \in D, NEW g \in [D -> Int] PROVE F[<<i, g>>] \in Int
    <3> HIDE DEF F, Body, D
    <3> QED BY <1>2, <1>3
  <2>2. ASSUME NEW i \in D, NEW g \in [D -> Int], NEW h \in [D -> Int],
               \A j \in D : m[j] < m[i] => g[j] = h[j]
        PROVE  F[<<i, g>>] = F[<<i, h>>]
    <3>1. Body(i, g) = Body(i, h)
      BY <1>4, <2>2
    <3> HIDE DEF F, Body, m, D
    <3> QED BY <1>2, <3>1
  <2> HIDE DEF F, m, D, Body
  <2>3. Recursive(D, Int, m, F)
    BY <1>5, <2>1, <2>2 DEF Recursive
  <2>4. 0 \in Int
    OBVIOUS
  <2>5. Solution(D, Int, F)
    BY <2>3, <2>4, Recursion
  <2> QED BY <1>2, <2>5 DEF Solution
<1>7. f = [i \in D |-> Body(i, f)]
  <2> HIDE DEF Body, D
  <2> QED BY <1>6
<1>8. PICK v : v = Value(w)
  OBVIOUS
<1>9. v = CHOOSE h : h = [i \in D |-> Body(i, h)]
  BY <1>8 DEF Value
<1>10. v = [i \in D |-> Body(i, v)]
  <2> HIDE DEF Body, D
  <2> QED BY <1>7, <1>9
<1>11. \A i \in D : v[i] = Body(i, v)
  <2> HIDE DEF Body, D
  <2> QED BY <1>10
<1>12. v \in [D -> Int]
  <2> DEFINE Bad == {i \in D : v[i] \notin Int}
  <2>1. Bad = {}
    <3> SUFFICES ASSUME Bad # {} PROVE FALSE
      OBVIOUS
    <3>1. PICK k \in Bad : \A i \in Bad : k <= i
      <4>1. Bad \subseteq Nat
        BY <1>1
      <4> HIDE DEF Bad
      <4> QED BY <4>1, Least
    <3>2. k \in D /\ v[k] \notin Int
      OBVIOUS
    <3>3. k # 0 => v[k - 1] \in Int
      BY <1>1, <3>1, <3>2
    <3>4. v[k] = Body(k, v)
      <4> HIDE DEF Body, Bad, D
      <4> QED BY <1>11, <3>2
    <3>5. Body(k, v) \in Int
      BY <1>1, <3>2, <3>3
    <3> QED BY <3>2, <3>4, <3>5
  <2> HIDE DEF Body, D
  <2> QED BY <1>10, <2>1
<1> QED BY <1>1, <1>8, <1>11, <1>12

\* The value of a number with one more digit.
LEMMA ValueGrows ==
  ASSUME NEW w \in Seq(Byte), NEW c \in Byte
  PROVE  Value(w \o <<c>>)[Len(w \o <<c>>)] = 10 * Value(w)[Len(w)] + c - 48
<1> DEFINE u == w \o <<c>>
<1>1. /\ u \in Seq(Byte) /\ Len(w) \in Nat /\ Len(u) = Len(w) + 1
      /\ \A i \in 1..Len(w) : u[i] = w[i]
      /\ u[Len(w) + 1] = c
  <2>1. <<c>> \in Seq(Byte) /\ Len(<<c>>) = 1 /\ <<c>>[1] = c
    OBVIOUS
  <2> QED BY <2>1, ConcatProperties, LenProperties
<1> HIDE DEF u
<1>2. PICK a : a = Value(w)
  OBVIOUS
<1>3. PICK b : b = Value(u)
  OBVIOUS
<1>4. /\ a \in [0..Len(w) -> Int] /\ a[0] = 0
      /\ \A i \in 1..Len(w) : a[i] = 10 * a[i - 1] + w[i] - 48
  BY <1>2, ValueIs
<1>5. /\ b \in [0..(Len(w) + 1) -> Int] /\ b[0] = 0
      /\ \A i \in 1..(Len(w) + 1) : b[i] = 10 * b[i - 1] + u[i] - 48
  BY <1>1, <1>3, ValueIs
<1>6. a[Len(w)] = b[Len(w)]
  <2> DEFINE Bad == {i \in 0..Len(w) : a[i] # b[i]}
  <2> SUFFICES ASSUME Bad # {} PROVE FALSE
    BY <1>1
  <2>1. PICK k \in Bad : \A i \in Bad : k <= i
    <3>1. Bad \subseteq Nat
      BY <1>1
    <3> HIDE DEF Bad
    <3> QED BY <3>1, Least
  <2>2. k \in 0..Len(w) /\ a[k] # b[k] /\ k # 0
    BY <1>4, <1>5
  <2>3. k - 1 \in 0..Len(w) /\ k \in 1..Len(w) /\ k \in 1..(Len(w) + 1) /\ k - 1 < k
    BY <1>1, <2>2
  <2>4. k - 1 \notin Bad
    <3> HIDE DEF Bad
    <3> QED BY <1>1, <2>1, <2>3
  <2>5. a[k - 1] = b[k - 1] /\ u[k] = w[k]
    BY <1>1, <2>3, <2>4
  <2> HIDE DEF Bad
  <2> QED BY <1>4, <1>5, <2>2, <2>3, <2>5
<1>7. b[Len(w) + 1] = 10 * b[Len(w)] + c - 48
  <2>1. Len(w) + 1 \in 1..(Len(w) + 1) /\ (Len(w) + 1) - 1 = Len(w)
    BY <1>1
  <2> QED BY <1>1, <1>5, <2>1
<1> QED BY <1>1, <1>2, <1>3, <1>6, <1>7 DEF u

\* The digits of v, the first one first: they have the value v, and start with
\* 0 only if v is 0.
LEMMA DigitsSound ==
  ASSUME NEW v \in Nat
  PROVE  LET d == Reverse(DigitsReversed[v])
         IN  /\ d \in Seq(Byte) /\ Len(d) = Len(DigitsReversed[v]) /\ Len(d) > 0
             /\ Value(d)[Len(d)] = v
             /\ d[1] = 48 => Len(d) = 1
<1> DEFINE Rev(x) == Reverse(DigitsReversed[x])
           Ok(x) == /\ Rev(x) \in Seq(Byte) /\ Len(Rev(x)) = Len(DigitsReversed[x])
                    /\ Len(Rev(x)) > 0
                    /\ Value(Rev(x))[Len(Rev(x))] = x
                    /\ Rev(x)[1] = 48 => x = 0 /\ Len(Rev(x)) = 1
           Bad == {x \in Nat : ~Ok(x)}
<1> SUFFICES Bad = {}
  OBVIOUS
<1> SUFFICES ASSUME Bad # {} PROVE FALSE
  OBVIOUS
<1>1. PICK k \in Bad : \A i \in Bad : k <= i
  <2>1. Bad \subseteq Nat
    OBVIOUS
  <2> HIDE DEF Bad
  <2> QED BY <2>1, Least
<1>2. k \in Nat /\ ~Ok(k)
  OBVIOUS
<1>3. PICK t : t = DigitsReversed[k]
  OBVIOUS
<1>4. PICK w : w = IF k \div 10 = 0 THEN <<>> ELSE DigitsReversed[k \div 10]
  OBVIOUS
<1>5. t = <<48 + (k % 10)>> \o w /\ t \in Seq(Byte)
  BY <1>2, <1>3, <1>4, DigitsAre
<1>6. k \div 10 \in Nat /\ k % 10 \in 0..9 /\ k = 10 * (k \div 10) + (k % 10) /\ (k \div 10 # 0 => k \div 10 < k)
  BY <1>2
<1>7. k \div 10 # 0 => Ok(k \div 10)
  <2> HIDE DEF Ok
  <2> QED BY <1>1, <1>2, <1>6
<1>8. w \in Seq(Byte)
  <2>1. k \div 10 # 0 => DigitsReversed[k \div 10] \in Seq(Byte)
    BY <1>6, DigitsAre
  <2>2. <<>> \in Seq(Byte)
    OBVIOUS
  <2> QED BY <1>4, <2>1, <2>2
<1>9. PICK c \in Byte : c = 48 + (k % 10)
  BY <1>6 DEF Byte
<1>10. PICK r : r = Reverse(w)
  OBVIOUS
<1>11. PICK d : d = Rev(k)
  OBVIOUS
<1>12. d = r \o <<c>> /\ t = <<c>> \o w
  <2>1. t = <<c>> \o w
    BY <1>5, <1>9
  <2>2. d = Reverse(t)
    BY <1>3, <1>11
  <2>3. Reverse(<<c>> \o w) = Reverse(w) \o <<c>>
    BY <1>8, ReverseJoined
  <2> QED BY <1>10, <2>1, <2>2, <2>3
<1>13. r \in Seq(Byte) /\ Len(r) = Len(w) /\ Len(w) \in Nat
  BY <1>8, <1>10, Reversed, LenProperties
<1>14. <<c>> \in Seq(Byte) /\ Len(<<c>>) = 1 /\ <<c>>[1] = c
  OBVIOUS
<1>15. /\ d \in Seq(Byte) /\ Len(d) = Len(r) + 1 /\ Len(t) = Len(d)
       /\ d[1] = IF Len(r) > 0 THEN r[1] ELSE c
  <2>1. Len(d) = Len(r) + 1 /\ d \in Seq(Byte)
    BY <1>12, <1>13, <1>14, ConcatProperties
  <2>2. \A i \in 1..Len(d) : d[i] = IF i <= Len(r) THEN r[i] ELSE <<c>>[i - Len(r)]
    BY <1>12, <1>13, <1>14, <2>1, ConcatProperties
  <2>3. Len(t) = 1 + Len(w)
    BY <1>8, <1>12, <1>14, ConcatProperties
  <2> QED BY <1>13, <1>14, <2>1, <2>2, <2>3
<1>16. Value(d)[Len(d)] = 10 * Value(r)[Len(r)] + c - 48
  BY <1>12, <1>13, ValueGrows
<1>17. CASE k \div 10 = 0
  <2>1. r = <<>> /\ Len(r) = 0
    <3>1. w = <<>> /\ Len(w) = 0
      BY <1>4, <1>17
    <3> QED BY <1>13, <3>1, EmptySeq
  <2>2. Value(r)[Len(r)] = 0
    BY <1>13, <2>1, ValueIs
  <2>3. Ok(k)
    BY <1>2, <1>3, <1>6, <1>9, <1>11, <1>15, <1>16, <1>17, <2>1, <2>2
  <2> QED BY <1>2, <2>3
<1>18. CASE k \div 10 # 0
  <2>1. r = Rev(k \div 10)
    BY <1>4, <1>10, <1>18
  <2>2. /\ Value(r)[Len(r)] = k \div 10 /\ Len(r) > 0
        /\ r[1] # 48
    BY <1>7, <1>18, <2>1
  <2>3. Ok(k)
    BY <1>2, <1>3, <1>6, <1>9, <1>11, <1>13, <1>15, <1>16, <1>18, <2>2
  <2> QED BY <1>2, <2>3
<1> QED BY <1>17, <1>18

\* What stands behind a text.
LEMMA Behind ==
  ASSUME NEW p \in Seq(Byte), NEW d \in Seq(Byte)
  PROVE  SubSeq(p \o d, Len(p) + 1, Len(p) + Len(d)) = d
<1>1. PICK q : q = p \o d
  OBVIOUS
<1>2. Len(p) \in Nat /\ Len(d) \in Nat
  BY LenProperties
<1>3. /\ q \in Seq(Byte) /\ Len(q) = Len(p) + Len(d)
      /\ \A i \in 1..Len(d) : q[Len(p) + i] = d[i]
  BY <1>1, Joined
<1>4. \A i \in (Len(p) + 1)..(Len(p) + Len(d)) : q[i] \in Byte
  BY <1>2, <1>3, ElementOfSeq
<1>5. PICK r : r = SubSeq(q, Len(p) + 1, Len(p) + Len(d))
  OBVIOUS
<1>6. /\ r \in Seq(Byte)
      /\ Len(r) = IF Len(p) + 1 <= Len(p) + Len(d) THEN (Len(p) + Len(d)) - (Len(p) + 1) + 1 ELSE 0
      /\ \A i \in 1..((Len(p) + Len(d)) - (Len(p) + 1) + 1) : r[i] = q[(Len(p) + 1) + i - 1]
  BY <1>2, <1>4, <1>5, SubSeqProperties
<1>7. Len(r) = Len(d)
  BY <1>2, <1>6
<1>8. ASSUME NEW i \in 1..Len(d) PROVE r[i] = d[i]
  <2>1. i \in 1..((Len(p) + Len(d)) - (Len(p) + 1) + 1) /\ (Len(p) + 1) + i - 1 = Len(p) + i
    BY <1>2
  <2> QED BY <1>3, <1>6, <2>1
<1> QED BY <1>1, <1>5, <1>6, <1>7, <1>8, SeqEqual

\* Every number is appended in decimal, its sign before its digits and its highest
\* digit first, and its value is read from them again.
THEOREM NumbersArePrinted == Spec => []NumbersPrinted
<1>1. ASSUME SdsInv, NEW v \in Number
      PROVE  LET x == FmtPiece(s, [kind |-> "number", value |-> v])
                 digits == SubSeq(x.mem, s.len + (IF v < 0 THEN 2 ELSE 1), x.len)
             IN  /\ v < 0 => x.mem[s.len + 1] = 45
                 /\ Value(digits)[Len(digits)] = IF v < 0 THEN -v ELSE v
                 /\ Len(digits) > 1 => digits[1] # 48
  <2> DEFINE piece == [kind |-> "number", value |-> v]
             x == FmtPiece(s, piece)
             b == sdsll2str(v)
             c == Content(s)
             n == IF v < 0 THEN -v ELSE v
             d == Reverse(DigitsReversed[n])
             digits == SubSeq(x.mem, s.len + (IF v < 0 THEN 2 ELSE 1), x.len)
  <2>1. v \in Int /\ n \in Nat /\ Good(s)
    BY <1>1, SdsAssumption, InvIs
  <2>2. b \in Seq(Byte) /\ x.len = s.len + Len(b) /\ x.mem = c \o b
    <3>1. piece \in Piece /\ PieceBytes(piece) = b
      BY DEF Piece, PieceBytes
    <3> HIDE DEF piece, b, c
    <3> QED BY <2>1, <3>1, FmtGood DEF c
  <2>3. c \in Seq(Byte) /\ Len(c) = s.len /\ s.len \in Nat
    BY <2>1, ContentIs, LenProperties
  <2> HIDE DEF x, c, n
  <2>4. d \in Seq(Byte) /\ Len(d) > 0
    BY <2>1, DigitsSound
  <2>v. Value(d)[Len(d)] = n
    BY <2>1, DigitsSound
  <2>z. d[1] = 48 => Len(d) = 1
    BY <2>1, DigitsSound
  <2> HIDE DEF d
  <2>5. PICK u : u = <<45>>
    OBVIOUS
  <2>u. u \in Seq(Byte) /\ Len(u) = 1 /\ u[1] = 45
    BY <2>5 DEF Byte
  <2> DEFINE p == IF v < 0 THEN c \o u ELSE c
  <2>6. v < 0 => b = u \o d
    <3> SUFFICES ASSUME v < 0 PROVE b = u \o d
      OBVIOUS
    <3>1. n = -v
      BY DEF n
    <3>2. PICK w : w = DigitsReversed[n]
      OBVIOUS
    <3>3. w \in Seq(Byte)
      BY <2>1, <3>2, DigitsAre
    <3>4. b = Reverse(w \o <<45>>)
      BY <3>1, <3>2 DEF sdsll2str
    <3>5. 45 \in Byte
      BY DEF Byte
    <3> QED BY <2>5, <3>2, <3>3, <3>4, <3>5, ReverseJoined DEF d
  <2>7. ~(v < 0) => b = d
    BY DEF sdsll2str, n, d
  <2> HIDE DEF b
  <2>8. p \in Seq(Byte) /\ x.mem = p \o d /\ Len(p) = s.len + (IF v < 0 THEN 1 ELSE 0) /\ x.len = Len(p) + Len(d)
    <3>1. CASE v < 0
      <4>1. p = c \o u /\ b = u \o d
        BY <2>6, <3>1
      <4> HIDE DEF p
      <4>2. x.mem = p \o d
        <5>1. c \in Seq(Byte) /\ u \in Seq(Byte) /\ d \in Seq(Byte)
          BY <2>3, <2>4, <2>u
        <5>2. (c \o u) \o d = c \o (u \o d)
          BY ONLY <5>1, ConcatAssociative
        <5> QED BY <2>2, <4>1, <5>2
      <4>3. p \in Seq(Byte) /\ Len(p) = Len(c) + Len(u)
        BY <2>3, <2>u, <4>1, Joined
      <4>4. Len(b) = Len(u) + Len(d) /\ Len(d) \in Nat
        BY <2>4, <2>u, <4>1, Joined, LenProperties
      <4>5. Len(p) = s.len + 1 /\ x.len = Len(p) + Len(d)
        BY <2>2, <2>3, <2>u, <4>3, <4>4
      <4> QED BY <3>1, <4>2, <4>3, <4>5
    <3>2. CASE ~(v < 0)
      <4>1. p = c /\ b = d
        BY <2>7, <3>2
      <4> HIDE DEF p
      <4> QED BY <2>2, <2>3, <3>2, <4>1
    <3> QED BY <3>1, <3>2
  <2> HIDE DEF p
  <2>9. digits = d
    <3>1. s.len + (IF v < 0 THEN 2 ELSE 1) = Len(p) + 1
      BY <2>3, <2>8
    <3> QED BY <2>4, <2>8, <3>1, Behind
  <2>10. v < 0 => x.mem[s.len + 1] = 45
    <3> SUFFICES ASSUME v < 0 PROVE x.mem[s.len + 1] = 45
      OBVIOUS
    <3>1. b[1] = 45 /\ 1 \in 1..Len(b)
      <4>1. b = u \o d
        BY <2>6
      <4>2. d \in Seq(Byte) /\ u \in Seq(Byte)
        BY <2>4, <2>u
      <4>3. Len(b) = Len(u) + Len(d) /\ \A i \in 1..Len(u) : b[i] = u[i]
        BY ONLY <4>1, <4>2, Joined
      <4>4. Len(d) \in Nat /\ 1 \in 1..Len(u)
        BY <2>u, <4>2, LenProperties
      <4> QED BY <2>u, <4>3, <4>4
    <3>2. \A i \in 1..Len(b) : (c \o b)[Len(c) + i] = b[i]
      BY <2>2, <2>3, Joined
    <3>3. (c \o b)[Len(c) + 1] = b[1]
      BY <3>1, <3>2
    <3> QED BY <2>2, <2>3, <3>1, <3>3
  <2> HIDE DEF digits
  <2>11. Value(digits)[Len(digits)] = n
    BY <2>v, <2>9
  <2>12. Len(digits) > 1 => digits[1] # 48
    <3> SUFFICES ASSUME Len(d) > 1, d[1] = 48 PROVE FALSE
      BY <2>9
    <3>1. Len(d) = 1
      BY <2>z
    <3> QED BY <3>1
  <2> QED BY <2>10, <2>11, <2>12 DEF x, digits, n, piece
<1>2. SdsInv => NumbersPrinted
  BY <1>1 DEF NumbersPrinted, Value
<1> QED BY InitInv, NextInv, <1>2, PTL DEF Spec

-----------------------------------------------------------------------------
(* Reading the quotes back *)

\* The scanner of sdssplitargs: its states, a step, and where it stops from each state.
ArgState ==
  [p : Nat, in : {"blanks", "token", "inq", "insq", "end", "error"},
   current : Seq(Byte), argv : Seq(Seq(Byte))]

Stopped(st) == st.in \in {"end", "error"}

ArgStep(line, st) ==
  CASE st.in = "blanks" -> InBlanks(st, At(line, st.p))
    [] st.in = "token"  -> InToken(st, At(line, st.p))
    [] st.in = "inq"    -> InQuotes(st, At(line, st.p), At(line, st.p + 1), At(line, st.p + 2), At(line, st.p + 3))
    [] st.in = "insq"   -> InSingleQuotes(st, At(line, st.p), At(line, st.p + 1))

Scan(line) ==
  LET scan[st \in ArgState] == IF Stopped(st) THEN st ELSE scan[ArgStep(line, st)] IN scan

LEMMA ScanOf ==
  ASSUME NEW line
  PROVE  sdssplitargs(line) = Scan(line)[[p |-> 1, in |-> "blanks", current |-> <<>>, argv |-> <<>>]]
BY DEF sdssplitargs, Scan, ArgState, Stopped, ArgStep

LEMMA ByteAt ==
  ASSUME NEW line \in Seq(Byte), NEW p \in Nat
  PROVE  At(line, p) \in Byte /\ (At(line, p) # NUL => p \in 1..Len(line))
BY LenProperties, ElementOfSeq DEF At, NUL, Byte

\* The three ways to go on.
GoneTo(u, p, in) == u \in ArgState /\ u.p = p /\ u.in = in

Ins == {"blanks", "token", "inq", "insq", "end", "error"}

LEMMA TakeGoes ==
  ASSUME NEW st \in ArgState, NEW n \in Nat, NEW c \in Byte
  PROVE  GoneTo(Take(st, n, c), st.p + n, st.in)
<1>1. st.p + n \in Nat /\ Append(st.current, c) \in Seq(Byte)
  BY AppendProperties DEF ArgState
<1> QED BY <1>1 DEF Take, ArgState, GoneTo

LEMMA DoneGoes ==
  ASSUME NEW st \in ArgState, NEW n \in Nat
  PROVE  GoneTo(Done(st, n), st.p + n, "blanks")
<1>1. st.p + n \in Nat /\ Append(st.argv, st.current) \in Seq(Seq(Byte)) /\ <<>> \in Seq(Byte)
  BY AppendProperties DEF ArgState
<1> QED BY <1>1 DEF Done, ArgState, GoneTo

LEMMA EnterGoes ==
  ASSUME NEW st \in ArgState, NEW n \in Nat, NEW in \in Ins
  PROVE  GoneTo(Enter(st, n, in), st.p + n, in)
<1>1. st.p + n \in Nat
  BY DEF ArgState
<1> QED BY <1>1 DEF Enter, ArgState, GoneTo, Ins

\* A step that does not stop takes bytes, or finds out what comes next.
Moves(line, st, u) ==
  /\ u \in ArgState
  /\ \/ Stopped(u)
     \/ u.p > st.p /\ At(line, st.p) # NUL
     \/ u.p = st.p /\ st.in = "blanks" /\ u.in = "token" /\ At(line, st.p) # NUL
     \/ u.p = st.p /\ st.in = "token" /\ u.in = "blanks" /\ At(line, st.p) = NUL

LEMMA Escaped ==
  ASSUME NEW c \in Byte
  PROVE  Unescape(c) \in Byte
<1>1. DOMAIN Escape \subseteq Byte
  BY DEF Escape, Byte
<1> QED BY <1>1 DEF Unescape

LEMMA Hex ==
  ASSUME NEW a \in Byte, NEW b \in Byte, is_hex_digit(a), is_hex_digit(b)
  PROVE  hex_digit_to_int(a) * 16 + hex_digit_to_int(b) \in Byte
<1>1. \A c \in Byte : is_hex_digit(c) => hex_digit_to_int(c) \in 0..15
  BY DEF is_hex_digit, hex_digit_to_int, Byte
<1> QED BY <1>1 DEF Byte

LEMMA StepMoves ==
  ASSUME NEW line \in Seq(Byte), NEW st \in ArgState, ~Stopped(st)
  PROVE  Moves(line, st, ArgStep(line, st))
<1> DEFINE c == At(line, st.p)
           next == At(line, st.p + 1)
           n2 == At(line, st.p + 2)
           n3 == At(line, st.p + 3)
           u == ArgStep(line, st)
<1>1. st.p \in Nat /\ c \in Byte /\ next \in Byte /\ n2 \in Byte /\ n3 \in Byte
  <2>1. st.p \in Nat /\ st.p + 1 \in Nat /\ st.p + 2 \in Nat /\ st.p + 3 \in Nat
    BY DEF ArgState
  <2> QED BY <2>1, ByteAt
<1>2. st.in \in {"blanks", "token", "inq", "insq"}
  BY DEF ArgState, Stopped
<1> HIDE DEF c, next, n2, n3
<1>a. ASSUME NEW v, NEW n \in 1..4, NEW in, GoneTo(v, st.p + n, in), c # NUL
      PROVE  Moves(line, st, v)
  BY <1>1, <1>a DEF Moves, GoneTo, c
<1>3. ASSUME NEW n \in 1..4, NEW b \in Byte, c # NUL PROVE Moves(line, st, Take(st, n, b))
  BY <1>3, <1>a, TakeGoes
<1>4. ASSUME c # NUL PROVE Moves(line, st, Done(st, 1))
  BY <1>4, <1>a, DoneGoes
<1>5. ASSUME NEW in \in {"blanks", "inq", "insq"}, c # NUL PROVE Moves(line, st, Enter(st, 1, in))
  BY <1>5, <1>a, EnterGoes DEF Ins
<1>6. ASSUME NEW in \in {"end", "error"} PROVE Moves(line, st, Enter(st, 0, in))
  <2>1. GoneTo(Enter(st, 0, in), st.p + 0, in)
    BY EnterGoes DEF Ins
  <2> QED BY <2>1 DEF Moves, Stopped, GoneTo
<1>7. ASSUME c # NUL PROVE Moves(line, st, Closing(st, next))
  BY <1>4, <1>6, <1>7 DEF Closing
<1>8. CASE st.in = "blanks"
  <2>1. u = InBlanks(st, c)
    BY <1>8 DEF ArgStep, c
  <2>2. CASE c = NUL
    BY <1>6, <2>1, <2>2 DEF InBlanks, isspace, NUL, Space
  <2>3. CASE c # NUL /\ isspace(c)
    BY <1>5, <2>1, <2>3 DEF InBlanks
  <2>4. CASE c # NUL /\ ~isspace(c)
    <3>1. u = Enter(st, 0, "token")
      BY <2>1, <2>4 DEF InBlanks
    <3>2. GoneTo(u, st.p + 0, "token")
      BY <3>1, EnterGoes DEF Ins
    <3>3. PICK w : w = u
      OBVIOUS
    <3>4. Moves(line, st, w)
      <4> HIDE DEF u
      <4> QED BY <1>1, <1>8, <2>4, <3>2, <3>3 DEF Moves, GoneTo, c
    <3> QED BY <3>3, <3>4
  <2> QED BY <2>2, <2>3, <2>4
<1>9. CASE st.in = "token"
  <2>1. u = InToken(st, c)
    BY <1>9 DEF ArgStep, c
  <2>2. CASE c = NUL
    <3>1. u = Done(st, 0)
      BY <2>1, <2>2 DEF InToken, NUL, Space, DQuote, SQuote
    <3>2. GoneTo(u, st.p + 0, "blanks")
      BY <3>1, DoneGoes
    <3>3. PICK w : w = u
      OBVIOUS
    <3>4. Moves(line, st, w)
      <4> HIDE DEF u
      <4> QED BY <1>1, <1>9, <2>2, <3>2, <3>3 DEF Moves, GoneTo, c
    <3> QED BY <3>3, <3>4
  <2>3. CASE c \in {Space, 9, 10, 13}
    <3>1. c # NUL /\ u = Done(st, 1)
      BY <2>1, <2>3 DEF InToken, NUL, Space, DQuote, SQuote
    <3> QED BY <1>4, <3>1
  <2>4. CASE c = DQuote
    <3>1. c # NUL /\ u = Enter(st, 1, "inq")
      BY <2>1, <2>4 DEF InToken, NUL, Space, DQuote, SQuote
    <3> QED BY <1>5, <3>1
  <2>5. CASE c = SQuote
    <3>1. c # NUL /\ u = Enter(st, 1, "insq")
      BY <2>1, <2>5 DEF InToken, NUL, Space, DQuote, SQuote
    <3> QED BY <1>5, <3>1
  <2>6. CASE c \notin {NUL, Space, 9, 10, 13, DQuote, SQuote}
    <3>1. u = Take(st, 1, c)
      BY <2>1, <2>6 DEF InToken, NUL, Space, DQuote, SQuote
    <3> QED BY <1>1, <1>3, <2>6, <3>1
  <2> QED BY <2>2, <2>3, <2>4, <2>5, <2>6
<1>10. CASE st.in = "inq"
  <2> DEFINE hex == c = Backslash /\ next = LetterX /\ is_hex_digit(n2) /\ is_hex_digit(n3)
  <2>1. u = InQuotes(st, c, next, n2, n3)
    BY <1>10 DEF ArgStep, c, next, n2, n3
  <2>2. CASE hex
    <3>1. u = Take(st, 4, hex_digit_to_int(n2) * 16 + hex_digit_to_int(n3))
      BY <2>1, <2>2 DEF InQuotes, NUL, Backslash, DQuote
    <3>2. c # NUL /\ hex_digit_to_int(n2) * 16 + hex_digit_to_int(n3) \in Byte
      BY <1>1, <2>2, Hex DEF NUL, Backslash
    <3> QED BY <1>3, <3>1, <3>2
  <2>3. CASE ~hex /\ c = Backslash /\ next # NUL
    <3>1. u = Take(st, 2, Unescape(next))
      BY <2>1, <2>3 DEF InQuotes, NUL, Backslash, DQuote
    <3>2. c # NUL /\ Unescape(next) \in Byte
      BY <1>1, <2>3, Escaped DEF NUL, Backslash
    <3> QED BY <1>3, <3>1, <3>2
  <2>4. CASE ~hex /\ ~(c = Backslash /\ next # NUL) /\ c = DQuote
    <3>1. c # NUL /\ u = Closing(st, next)
      BY <2>1, <2>4 DEF InQuotes, NUL, Backslash, DQuote
    <3> QED BY <1>7, <3>1
  <2>5. CASE ~hex /\ ~(c = Backslash /\ next # NUL) /\ c = NUL
    <3>1. u = Enter(st, 0, "error")
      BY <2>1, <2>5 DEF InQuotes, NUL, Backslash, DQuote
    <3> QED BY <1>6, <3>1
  <2>6. CASE ~hex /\ ~(c = Backslash /\ next # NUL) /\ c # DQuote /\ c # NUL
    <3>1. u = Take(st, 1, c)
      BY <2>1, <2>6 DEF InQuotes
    <3> QED BY <1>1, <1>3, <2>6, <3>1
  <2> QED BY <2>2, <2>3, <2>4, <2>5, <2>6
<1>11. CASE st.in = "insq"
  <2>1. u = InSingleQuotes(st, c, next)
    BY <1>11 DEF ArgStep, c, next
  <2>2. CASE c = Backslash /\ next = SQuote
    <3>1. c # NUL /\ u = Take(st, 2, SQuote) /\ SQuote \in Byte
      BY <2>1, <2>2 DEF InSingleQuotes, NUL, Backslash, SQuote, Byte
    <3> QED BY <1>3, <3>1
  <2>3. CASE c = SQuote
    <3>1. c # NUL /\ u = Closing(st, next)
      BY <2>1, <2>3 DEF InSingleQuotes, NUL, Backslash, SQuote
    <3> QED BY <1>7, <3>1
  <2>4. CASE c = NUL
    <3>1. u = Enter(st, 0, "error")
      BY <2>1, <2>4 DEF InSingleQuotes, NUL, Backslash, SQuote
    <3> QED BY <1>6, <3>1
  <2>5. CASE ~(c = Backslash /\ next = SQuote) /\ c # SQuote /\ c # NUL
    <3>1. u = Take(st, 1, c)
      BY <2>1, <2>5 DEF InSingleQuotes
    <3> QED BY <1>1, <1>3, <2>5, <3>1
  <2> QED BY <2>2, <2>3, <2>4, <2>5
<1> QED BY <1>2, <1>8, <1>9, <1>10, <1>11

\* The scanner stops: what is left to read, and then what it is in, go down.
LEMMA ScanStep ==
  ASSUME NEW line \in Seq(Byte), NEW st \in ArgState
  PROVE  Scan(line)[st] = IF Stopped(st) THEN st ELSE Scan(line)[ArgStep(line, st)]
<1> DEFINE Left(p) == IF p <= Len(line) THEN Len(line) + 1 - p ELSE 0
           Rank(x) == IF (x.in = "blanks" /\ At(line, x.p) # NUL) \/ (x.in = "token" /\ At(line, x.p) = NUL)
                        THEN 2 ELSE 1
           m == [x \in ArgState |-> IF Stopped(x) THEN 0 ELSE 3 * Left(x.p) + Rank(x)]
           Body(x, g) == IF Stopped(x) THEN x ELSE g[ArgStep(line, x)]
           F == [xg \in ArgState \X [ArgState -> ArgState] |-> Body(xg[1], xg[2])]
           first == [p |-> 1, in |-> "blanks", current |-> <<>>, argv |-> <<>>]
<1>1. \A x \in ArgState : x.p \in Nat /\ Left(x.p) \in Nat /\ Rank(x) \in 1..2
  BY LenProperties DEF ArgState
<1>2. m \in [ArgState -> Nat]
  <2> HIDE DEF Left, Rank
  <2> QED BY <1>1
<1>3. ASSUME NEW x \in ArgState, ~Stopped(x)
      PROVE  ArgStep(line, x) \in ArgState /\ m[ArgStep(line, x)] < m[x]
  <2>1. PICK u : u = ArgStep(line, x)
    OBVIOUS
  <2>2. Moves(line, x, u)
    BY <1>3, <2>1, StepMoves
  <2>3. u \in ArgState
    BY <2>2 DEF Moves
  <2>4. m[x] = 3 * Left(x.p) + Rank(x) /\ m[u] = IF Stopped(u) THEN 0 ELSE 3 * Left(u.p) + Rank(u)
    BY <1>3, <2>3
  <2>5. /\ x.p \in Nat /\ Left(x.p) \in Nat /\ Rank(x) \in 1..2
        /\ u.p \in Nat /\ Left(u.p) \in Nat /\ Rank(u) \in 1..2
    BY <1>1, <2>3
  <2>6. CASE Stopped(u)
    <3> HIDE DEF Left, Rank, m
    <3> QED BY <2>1, <2>3, <2>4, <2>5, <2>6
  <2>7. CASE ~Stopped(u) /\ u.p > x.p /\ At(line, x.p) # NUL
    <3>1. x.p \in 1..Len(line) /\ Len(line) \in Nat
      BY <2>5, <2>7, ByteAt, LenProperties
    <3>2. Left(u.p) + 1 <= Left(x.p)
      BY <2>5, <2>7, <3>1
    <3> HIDE DEF Left, Rank, m
    <3> QED BY <2>1, <2>3, <2>4, <2>5, <2>7, <3>2
  <2>8. CASE ~Stopped(u) /\ u.p = x.p /\ x.in = "blanks" /\ u.in = "token" /\ At(line, x.p) # NUL
    <3>1. Rank(x) = 2 /\ Rank(u) = 1
      BY <2>8
    <3> HIDE DEF Rank, m
    <3>2. Left(u.p) = Left(x.p)
      BY <2>8
    <3> HIDE DEF Left
    <3> QED BY <2>1, <2>3, <2>4, <2>5, <2>8, <3>1, <3>2
  <2>9. CASE ~Stopped(u) /\ u.p = x.p /\ x.in = "token" /\ u.in = "blanks" /\ At(line, x.p) = NUL
    <3>1. Rank(x) = 2 /\ Rank(u) = 1
      BY <2>9
    <3> HIDE DEF Rank, m
    <3>2. Left(u.p) = Left(x.p)
      BY <2>9
    <3> HIDE DEF Left
    <3> QED BY <2>1, <2>3, <2>4, <2>5, <2>9, <3>1, <3>2
  <2> HIDE DEF m, Left, Rank
  <2> QED BY <2>2, <2>6, <2>7, <2>8, <2>9 DEF Moves
<1>4. first \in ArgState
  BY DEF ArgState
<1> HIDE DEF m, Left, Rank, first
<1>5. ASSUME NEW x \in ArgState, NEW g \in [ArgState -> ArgState] PROVE F[<<x, g>>] = Body(x, g)
  <2>1. <<x, g>> \in ArgState \X [ArgState -> ArgState] /\ <<x, g>>[1] = x /\ <<x, g>>[2] = g
    OBVIOUS
  <2> HIDE DEF Body
  <2> QED BY <2>1
<1>6. ASSUME NEW x \in ArgState, NEW g \in [ArgState -> ArgState] PROVE Body(x, g) \in ArgState
  BY <1>3
<1>7. ASSUME NEW x \in ArgState, NEW g \in [ArgState -> ArgState], NEW h \in [ArgState -> ArgState],
             \A y \in ArgState : m[y] < m[x] => g[y] = h[y]
      PROVE  Body(x, g) = Body(x, h)
  BY <1>3, <1>7
<1>8. PICK f \in [ArgState -> ArgState] : \A x \in ArgState : f[x] = Body(x, f)
  <2>1. ASSUME NEW x \in ArgState, NEW g \in [ArgState -> ArgState] PROVE F[<<x, g>>] \in ArgState
    <3> HIDE DEF F, Body
    <3> QED BY <1>5, <1>6
  <2>2. ASSUME NEW x \in ArgState, NEW g \in [ArgState -> ArgState], NEW h \in [ArgState -> ArgState],
               \A y \in ArgState : m[y] < m[x] => g[y] = h[y]
        PROVE  F[<<x, g>>] = F[<<x, h>>]
    <3>1. Body(x, g) = Body(x, h)
      BY <1>7, <2>2
    <3> HIDE DEF F, Body
    <3> QED BY <1>5, <3>1
  <2> HIDE DEF F, Body
  <2>3. Recursive(ArgState, ArgState, m, F)
    BY <1>2, <2>1, <2>2 DEF Recursive
  <2>4. Solution(ArgState, ArgState, F)
    BY <1>4, <2>3, Recursion
  <2> QED BY <1>5, <2>4 DEF Solution
<1>9. f = [x \in ArgState |-> Body(x, f)]
  <2> HIDE DEF Body
  <2> QED BY <1>8
<1>10. PICK v : v = Scan(line)
  OBVIOUS
<1>11. v = CHOOSE h : h = [x \in ArgState |-> Body(x, h)]
  BY <1>10 DEF Scan
<1>12. v = [x \in ArgState |-> Body(x, v)]
  <2> HIDE DEF Body
  <2> QED BY <1>9, <1>11
<1>13. v[st] = Body(st, v)
  <2> HIDE DEF Body
  <2> QED BY <1>12
<1> QED BY <1>10, <1>13

\* One byte, as sdscatrepr writes it, is read back by the scanner in quotes.
LEMMA ReadByte ==
  ASSUME NEW line \in Seq(Byte), NEW st \in ArgState, st.in = "inq", NEW c \in Byte,
         \A i \in 1..Len(ReprByte(c)) : At(line, st.p + i - 1) = ReprByte(c)[i]
  PROVE  ArgStep(line, st) = Take(st, Len(ReprByte(c)), c)
<1> DEFINE e == ReprByte(c)
           c1 == At(line, st.p)
           c2 == At(line, st.p + 1)
           c3 == At(line, st.p + 2)
           c4 == At(line, st.p + 3)
<1>1. /\ st.p \in Nat
      /\ st.p + 1 - 1 = st.p /\ st.p + 2 - 1 = st.p + 1 /\ st.p + 3 - 1 = st.p + 2 /\ st.p + 4 - 1 = st.p + 3
  BY DEF ArgState
<1>2. ArgStep(line, st) = InQuotes(st, c1, c2, c3, c4)
  BY DEF ArgStep
<1>3. CASE c \in {Backslash, DQuote}
  <2>1. e = <<Backslash, c>>
    BY <1>3 DEF ReprByte, Backslash, DQuote, Escape, isprint
  <2>2. Len(e) = 2 /\ c1 = Backslash /\ c2 = c
    <3>1. Len(e) = 2 /\ e[1] = Backslash /\ e[2] = c
      BY <2>1
    <3>2. At(line, st.p + 1 - 1) = e[1] /\ At(line, st.p + 2 - 1) = e[2]
      BY <3>1
    <3> QED BY <1>1, <3>1, <3>2
  <2>3. Unescape(c) = c
    BY <1>3 DEF Unescape, Escape, Backslash, DQuote
  <2> HIDE DEF c1, c2, c3, c4, e
  <2>4. InQuotes(st, c1, c2, c3, c4) = Take(st, 2, Unescape(c))
    BY <1>3, <2>2 DEF InQuotes, Backslash, DQuote, NUL, LetterX
  <2> QED BY <1>2, <2>2, <2>3, <2>4 DEF e
<1>4. CASE c \in DOMAIN Escape
  <2>1. c \in {7, 8, 9, 10, 13} /\ Escape[c] \in {97, 98, 116, 110, 114}
    BY <1>4 DEF Escape
  <2>2. e = <<Backslash, Escape[c]>>
    <3>1. c \notin {Backslash, DQuote} /\ ~isprint(c)
      BY <2>1 DEF Backslash, DQuote, isprint
    <3> QED BY <1>4, <3>1 DEF ReprByte
  <2>3. Len(e) = 2 /\ c1 = Backslash /\ c2 = Escape[c]
    <3>1. Len(e) = 2 /\ e[1] = Backslash /\ e[2] = Escape[c]
      BY <2>2
    <3>2. At(line, st.p + 1 - 1) = e[1] /\ At(line, st.p + 2 - 1) = e[2]
      BY <3>1
    <3> QED BY <1>1, <3>1, <3>2
  <2>4. Unescape(Escape[c]) = c
    <3>1. \A b \in DOMAIN Escape : Escape[b] = Escape[c] => b = c
      BY <1>4 DEF Escape
    <3> QED BY <1>4, <3>1 DEF Unescape
  <2> HIDE DEF c1, c2, c3, c4, e
  <2>5. InQuotes(st, c1, c2, c3, c4) = Take(st, 2, Unescape(Escape[c]))
    BY <2>1, <2>3 DEF InQuotes, Backslash, DQuote, NUL, LetterX
  <2> QED BY <1>2, <2>3, <2>4, <2>5 DEF e
<1>5. CASE isprint(c) /\ c \notin {Backslash, DQuote}
  <2>1. e = <<c>>
    BY <1>5 DEF ReprByte, Backslash, DQuote, isprint, Escape
  <2>2. Len(e) = 1 /\ c1 = c
    <3>1. Len(e) = 1 /\ e[1] = c
      BY <2>1
    <3>2. At(line, st.p + 1 - 1) = e[1]
      BY <3>1
    <3> QED BY <1>1, <3>1, <3>2
  <2> HIDE DEF c1, c2, c3, c4, e
  <2>3. InQuotes(st, c1, c2, c3, c4) = Take(st, 1, c)
    <3>1. c # Backslash /\ c # DQuote /\ c # NUL
      BY <1>5 DEF isprint, NUL
    <3> QED BY <2>2, <3>1 DEF InQuotes
  <2> QED BY <1>2, <2>2, <2>3 DEF e
<1>6. CASE ~isprint(c) /\ c \notin DOMAIN Escape /\ c \notin {Backslash, DQuote}
  <2> DEFINE h1 == HexDigit(c \div 16)
             h2 == HexDigit(c % 16)
  <2>1. e = <<Backslash, LetterX, h1, h2>>
    BY <1>6 DEF ReprByte
  <2>2. Len(e) = 4 /\ c1 = Backslash /\ c2 = LetterX /\ c3 = h1 /\ c4 = h2
    <3>1. Len(e) = 4 /\ e[1] = Backslash /\ e[2] = LetterX /\ e[3] = h1 /\ e[4] = h2
      BY <2>1
    <3>2. /\ At(line, st.p + 1 - 1) = e[1] /\ At(line, st.p + 2 - 1) = e[2]
          /\ At(line, st.p + 3 - 1) = e[3] /\ At(line, st.p + 4 - 1) = e[4]
      BY <3>1
    <3> QED BY <1>1, <3>1, <3>2
  <2>3. /\ is_hex_digit(h1) /\ is_hex_digit(h2)
        /\ hex_digit_to_int(h1) * 16 + hex_digit_to_int(h2) = c
    <3>1. ASSUME NEW n \in 0..15 PROVE is_hex_digit(HexDigit(n)) /\ hex_digit_to_int(HexDigit(n)) = n
      <4>1. CASE n < 10
        <5>1. HexDigit(n) = 48 + n /\ 48 + n \in 48..57 /\ 48 + n \notin 97..102 /\ 48 + n \notin 65..70
          BY <4>1 DEF HexDigit
        <5>2. (48 + n) - 48 = n
          OBVIOUS
        <5> QED BY <5>1, <5>2 DEF is_hex_digit, hex_digit_to_int
      <4>2. CASE ~(n < 10)
        <5>1. HexDigit(n) = 87 + n /\ 87 + n \in 97..102 /\ 87 + n \notin 48..57 /\ 87 + n \notin 65..70
          BY <4>2 DEF HexDigit
        <5>2. (87 + n) - 87 = n
          OBVIOUS
        <5> QED BY <5>1, <5>2 DEF is_hex_digit, hex_digit_to_int
      <4> QED BY <4>1, <4>2
    <3>2. c \div 16 \in 0..15 /\ c % 16 \in 0..15 /\ (c \div 16) * 16 + (c % 16) = c
      BY DEF Byte
    <3> QED BY <3>1, <3>2
  <2> HIDE DEF c1, c2, c3, c4, e, h1, h2
  <2>4. InQuotes(st, c1, c2, c3, c4) = Take(st, 4, hex_digit_to_int(h1) * 16 + hex_digit_to_int(h2))
    BY <2>2, <2>3 DEF InQuotes, Backslash, DQuote, NUL, LetterX
  <2> QED BY <1>2, <2>2, <2>3, <2>4 DEF e
<1> QED BY <1>3, <1>4, <1>5, <1>6

\* A state of the scanner, by its parts.
Scanner(p, in, current, argv) == [p |-> p, in |-> in, current |-> current, argv |-> argv]
Blank(p, argv) == Scanner(p, "blanks", <<>>, argv)
InQ(p, current, argv) == Scanner(p, "inq", current, argv)

LEMMA ScannerIs ==
  ASSUME NEW p \in Nat, NEW in \in Ins, NEW current \in Seq(Byte), NEW argv \in Seq(Seq(Byte))
  PROVE  LET st == Scanner(p, in, current, argv)
         IN  /\ GoneTo(st, p, in)
             /\ Stopped(st) <=> in \in {"end", "error"}
BY DEF Scanner, GoneTo, ArgState, Ins, Stopped

LEMMA ScannerGoes ==
  ASSUME NEW p \in Nat, NEW in \in Ins, NEW current \in Seq(Byte), NEW argv \in Seq(Seq(Byte)),
         NEW n \in Nat, NEW st, st = Scanner(p, in, current, argv)
  PROVE  /\ \A c \in Byte : Take(st, n, c) = Scanner(p + n, in, Append(current, c), argv)
         /\ Done(st, n) = Scanner(p + n, "blanks", <<>>, Append(argv, current))
         /\ \A other \in Ins : Enter(st, n, other) = Scanner(p + n, other, current, argv)
<1>1. /\ st \in ArgState /\ st.p = p /\ st.in = in /\ st.current = current /\ st.argv = argv
      /\ p + n \in Nat
  BY DEF Scanner, ArgState, Ins
<1> DEFINE on == [st EXCEPT !.p = p + n]
<1>2. on = Scanner(p + n, in, current, argv) /\ on \in ArgState
  BY <1>1 DEF Scanner, ArgState
<1>3. ASSUME NEW c \in Byte
      PROVE  Take(st, n, c) = Scanner(p + n, in, Append(current, c), argv)
  <2>1. Take(st, n, c) = [on EXCEPT !.current = Append(current, c)]
    BY <1>1 DEF Take
  <2> HIDE DEF on
  <2>2. Append(current, c) \in Seq(Byte)
    BY AppendProperties
  <2> QED BY <1>2, <2>1, <2>2 DEF Scanner, ArgState
<1>4. Done(st, n) = Scanner(p + n, "blanks", <<>>, Append(argv, current))
  <2> DEFINE b == [on EXCEPT !.in = "blanks"]
             e == [b EXCEPT !.current = <<>>]
  <2>1. Done(st, n) = [e EXCEPT !.argv = Append(argv, current)]
    BY <1>1 DEF Done
  <2>2. Append(argv, current) \in Seq(Seq(Byte)) /\ <<>> \in Seq(Byte)
    BY AppendProperties
  <2>3. b = Scanner(p + n, "blanks", current, argv) /\ b \in ArgState
    <3> HIDE DEF on
    <3> QED BY <1>2 DEF Scanner, ArgState
  <2>4. e = Scanner(p + n, "blanks", <<>>, argv) /\ e \in ArgState
    <3> HIDE DEF b
    <3>1. PICK z \in Seq(Byte) : z = <<>>
      BY <2>2
    <3>2. [b EXCEPT !.current = z] = Scanner(p + n, "blanks", z, argv)
      BY <2>3, <3>1 DEF Scanner, ArgState
    <3>3. [b EXCEPT !.current = z] \in ArgState
      BY <2>3 DEF ArgState
    <3> QED BY <3>1, <3>2, <3>3
  <2> HIDE DEF e
  <2> QED BY <2>1, <2>2, <2>4 DEF Scanner, ArgState
<1>5. ASSUME NEW other \in Ins
      PROVE  Enter(st, n, other) = Scanner(p + n, other, current, argv)
  <2>1. Enter(st, n, other) = [on EXCEPT !.in = other]
    BY <1>1 DEF Enter
  <2> HIDE DEF on
  <2> QED BY <1>2, <2>1 DEF Scanner, ArgState, Ins
<1> QED BY <1>3, <1>4, <1>5

LEMMA OneMore ==
  ASSUME NEW c \in Seq(Byte), NEW k \in Nat, k < Len(c)
  PROVE  Append(SubSeq(c, 1, k), c[k + 1]) = SubSeq(c, 1, k + 1)
<1>1. Len(c) \in Nat /\ k \in 0..Len(c) /\ k + 1 \in 0..Len(c) /\ k + 1 \in 1..Len(c)
  BY LenProperties
<1>2. PICK a : a = SubSeq(c, 1, k)
  OBVIOUS
<1>3. PICK b : b = SubSeq(c, 1, k + 1)
  OBVIOUS
<1>4. a \in Seq(Byte) /\ Len(a) = k /\ \A i \in 1..k : a[i] = c[i]
  BY <1>1, <1>2, Prefix
<1>5. b \in Seq(Byte) /\ Len(b) = k + 1 /\ \A i \in 1..(k + 1) : b[i] = c[i]
  BY <1>1, <1>3, Prefix
<1>6. c[k + 1] \in Byte
  BY <1>1, ElementOfSeq
<1>7. PICK d : d = Append(a, c[k + 1])
  OBVIOUS
<1>8. d \in Seq(Byte) /\ Len(d) = k + 1 /\ \A i \in 1..(k + 1) : d[i] = IF i <= k THEN a[i] ELSE c[k + 1]
  BY <1>4, <1>6, <1>7, AppendProperties
<1>9. \A i \in 1..(k + 1) : d[i] = b[i]
  BY <1>4, <1>5, <1>8
<1> QED BY <1>2, <1>3, <1>5, <1>7, <1>8, <1>9, SeqEqual

\* One step of the scanner from a state in which it goes on.
LEMMA ScannerStep ==
  ASSUME NEW line \in Seq(Byte), NEW p \in Nat, NEW in \in Ins \ {"end", "error"},
         NEW current \in Seq(Byte), NEW argv \in Seq(Seq(Byte)),
         NEW st, st = Scanner(p, in, current, argv)
  PROVE  /\ st \in ArgState /\ st.p = p /\ st.in = in
         /\ Scan(line)[st] = Scan(line)[ArgStep(line, st)]
<1>1. GoneTo(st, p, in) /\ ~Stopped(st)
  BY ScannerIs
<1> QED BY <1>1, ScanStep DEF GoneTo

\* The opening quote starts an argument in quotes.
LEMMA Opening ==
  ASSUME NEW line \in Seq(Byte), NEW p \in Nat, NEW argv \in Seq(Seq(Byte)), At(line, p) = DQuote
  PROVE  Scan(line)[Blank(p, argv)] = Scan(line)[InQ(p + 1, <<>>, argv)]
<1>1. PICK z \in Seq(Byte) : z = <<>>
  BY EmptySeq
<1>i. {"blanks", "token", "inq"} \subseteq Ins \ {"end", "error"}
  BY DEF Ins
<1>2. PICK a : a = Scanner(p, "blanks", z, argv)
  OBVIOUS
<1>3. a \in ArgState /\ a.p = p /\ a.in = "blanks" /\ Scan(line)[a] = Scan(line)[ArgStep(line, a)]
  BY <1>2, <1>i, ScannerStep
<1>4. ArgStep(line, a) = Enter(a, 0, "token")
  <2>1. ArgStep(line, a) = InBlanks(a, DQuote)
    BY <1>3 DEF ArgStep
  <2> QED BY <2>1 DEF InBlanks, isspace, NUL, DQuote, Space
<1>5. PICK b : b = Scanner(p, "token", z, argv)
  OBVIOUS
<1>6. ArgStep(line, a) = b
  <2>1. Enter(a, 0, "token") = Scanner(p + 0, "token", z, argv)
    BY <1>2, <1>i, ScannerGoes DEF Ins
  <2>2. p + 0 = p
    OBVIOUS
  <2> QED BY <1>4, <1>5, <2>1, <2>2
<1>7. b \in ArgState /\ b.p = p /\ b.in = "token" /\ Scan(line)[b] = Scan(line)[ArgStep(line, b)]
  BY <1>5, <1>i, ScannerStep
<1>8. ArgStep(line, b) = Enter(b, 1, "inq")
  <2>1. ArgStep(line, b) = InToken(b, DQuote)
    BY <1>7 DEF ArgStep
  <2> QED BY <2>1 DEF InToken, NUL, DQuote, SQuote, Space
<1>9. Enter(b, 1, "inq") = Scanner(p + 1, "inq", z, argv)
  BY <1>5, <1>i, ScannerGoes DEF Ins
<1>10. a = Blank(p, argv) /\ Scanner(p + 1, "inq", z, argv) = InQ(p + 1, <<>>, argv)
  BY <1>1, <1>2 DEF Blank, InQ
<1> QED BY <1>3, <1>6, <1>7, <1>8, <1>9, <1>10

\* A byte as sdscatrepr writes it is taken into the argument.
LEMMA OneByte ==
  ASSUME NEW line \in Seq(Byte), NEW p \in Nat, NEW current \in Seq(Byte), NEW argv \in Seq(Seq(Byte)),
         NEW b \in Byte, \A i \in 1..Len(ReprByte(b)) : At(line, p + i - 1) = ReprByte(b)[i]
  PROVE  Scan(line)[InQ(p, current, argv)]
           = Scan(line)[InQ(p + Len(ReprByte(b)), Append(current, b), argv)]
<1>1. Len(ReprByte(b)) \in Nat
  BY ReprByteText, LenProperties
<1>2. PICK st : st = Scanner(p, "inq", current, argv)
  OBVIOUS
<1>3. st \in ArgState /\ st.p = p /\ st.in = "inq" /\ Scan(line)[st] = Scan(line)[ArgStep(line, st)]
  BY <1>2, ScannerStep DEF Ins
<1>4. ArgStep(line, st) = Take(st, Len(ReprByte(b)), b)
  BY <1>3, ReadByte
<1>5. Take(st, Len(ReprByte(b)), b) = Scanner(p + Len(ReprByte(b)), "inq", Append(current, b), argv)
  BY <1>1, <1>2, ScannerGoes DEF Ins
<1> QED BY <1>2, <1>3, <1>4, <1>5 DEF InQ

\* The closing quote ends the argument, before a space or the end of the line.
LEMMA ClosingQuote ==
  ASSUME NEW line \in Seq(Byte), NEW p \in Nat, NEW current \in Seq(Byte), NEW argv \in Seq(Seq(Byte)),
         At(line, p) = DQuote, At(line, p + 1) \in {NUL, Space}
  PROVE  Scan(line)[InQ(p, current, argv)] = Scan(line)[Blank(p + 1, Append(argv, current))]
<1>1. PICK st : st = Scanner(p, "inq", current, argv)
  OBVIOUS
<1>2. st \in ArgState /\ st.p = p /\ st.in = "inq" /\ Scan(line)[st] = Scan(line)[ArgStep(line, st)]
  BY <1>1, ScannerStep DEF Ins
<1>3. ArgStep(line, st) = Done(st, 1)
  <2>1. PICK c2, c3, c4 : c2 \in {NUL, Space} /\ ArgStep(line, st) = InQuotes(st, DQuote, c2, c3, c4)
    BY <1>2 DEF ArgStep
  <2>2. InQuotes(st, DQuote, c2, c3, c4) = Closing(st, c2)
    BY DEF InQuotes, DQuote, Backslash, NUL
  <2>3. Closing(st, c2) = Done(st, 1)
    BY <2>1 DEF Closing, isspace, NUL, Space
  <2> QED BY <2>1, <2>2, <2>3
<1>4. Done(st, 1) = Scanner(p + 1, "blanks", <<>>, Append(argv, current))
  BY <1>1, ScannerGoes DEF Ins
<1> QED BY <1>1, <1>2, <1>3, <1>4 DEF InQ, Blank

\* Between the arguments a space is passed.
LEMMA BlankGoes ==
  ASSUME NEW line \in Seq(Byte), NEW p \in Nat, NEW argv \in Seq(Seq(Byte)), At(line, p) = Space
  PROVE  Scan(line)[Blank(p, argv)] = Scan(line)[Blank(p + 1, argv)]
<1>1. PICK z \in Seq(Byte) : z = <<>>
  BY EmptySeq
<1>2. PICK st : st = Scanner(p, "blanks", z, argv)
  OBVIOUS
<1>3. st \in ArgState /\ st.p = p /\ st.in = "blanks" /\ Scan(line)[st] = Scan(line)[ArgStep(line, st)]
  BY <1>2, ScannerStep DEF Ins
<1>4. ArgStep(line, st) = InBlanks(st, Space)
  BY <1>3 DEF ArgStep
<1>5. InBlanks(st, Space) = Enter(st, 1, "blanks")
  BY DEF InBlanks, isspace, NUL, Space
<1>6. Enter(st, 1, "blanks") = Scanner(p + 1, "blanks", z, argv)
  BY <1>2, ScannerGoes DEF Ins
<1> QED BY <1>1, <1>2, <1>3, <1>4, <1>5, <1>6 DEF Blank

\* The end of the line ends the scan.
LEMMA BlankEnds ==
  ASSUME NEW line \in Seq(Byte), NEW p \in Nat, NEW argv \in Seq(Seq(Byte)), At(line, p) = NUL
  PROVE  Scan(line)[Blank(p, argv)] = Scanner(p, "end", <<>>, argv)
<1>1. PICK z \in Seq(Byte) : z = <<>>
  BY EmptySeq
<1>2. PICK st : st = Scanner(p, "blanks", z, argv)
  OBVIOUS
<1>3. st \in ArgState /\ st.p = p /\ st.in = "blanks" /\ Scan(line)[st] = Scan(line)[ArgStep(line, st)]
  BY <1>2, ScannerStep DEF Ins
<1>4. ArgStep(line, st) = InBlanks(st, NUL)
  BY <1>3 DEF ArgStep
<1>5. InBlanks(st, NUL) = Enter(st, 0, "end")
  BY DEF InBlanks, isspace, NUL, Space
<1>6. PICK u : u = Scanner(p, "end", z, argv)
  OBVIOUS
<1>7. Enter(st, 0, "end") = u
  <2>1. Enter(st, 0, "end") = Scanner(p + 0, "end", z, argv)
    BY <1>2, ScannerGoes DEF Ins
  <2>2. p + 0 = p
    OBVIOUS
  <2> QED BY <1>6, <2>1, <2>2
<1>8. u \in ArgState /\ Stopped(u)
  BY <1>6, ScannerIs DEF Ins, GoneTo
<1>9. Scan(line)[u] = u
  BY <1>8, ScanStep
<1> QED BY <1>1, <1>2, <1>3, <1>4, <1>5, <1>6, <1>7, <1>9 DEF Blank

\* A text in a line, behind o bytes.
StandsAt(line, o, q) == \A i \in 1..Len(q) : At(line, o + i) = q[i]

\* The scanner reads what sdscatrepr has appended at an offset as one argument, and
\* stands behind the closing quote then.
LEMMA ReadQuoted ==
  ASSUME NEW c \in Seq(Byte), NEW line \in Seq(Byte), NEW o \in Nat, NEW argv \in Seq(Seq(Byte)),
         NEW q, q = FlattenSeq(ReprPieces(c)), StandsAt(line, o, q),
         NEW p1, p1 = o + 1, NEW p2, p2 = o + Len(q) + 1, At(line, p2) \in {NUL, Space}
  PROVE  Scan(line)[Blank(p1, argv)] = Scan(line)[Blank(p2, Append(argv, c))]
<1>1. PICK w : w = ReprPieces(c)
  OBVIOUS
<1>2. PICK n : n = Len(c)
  OBVIOUS
<1>3. /\ w \in Seq(Seq(Byte)) /\ n \in Nat /\ Len(w) = n + 2
      /\ w[1] = <<DQuote>> /\ w[n + 2] = <<DQuote>>
      /\ \A i \in 1..n : w[i + 1] = ReprByte(c[i]) /\ c[i] \in Byte
  BY <1>1, <1>2, Quoted, LenProperties, ElementOfSeq
<1>4. PICK f : f = Flat(w)
  OBVIOUS
<1>5. q = f[n + 2]
  <2>1. n + 2 # 0
    BY <1>3
  <2> QED BY <1>1, <1>3, <1>4, <2>1, FlatIs
<1> DEFINE Before(j) == IF j = 1 THEN 0 ELSE Len(f[j - 1])
\* The scanner finds each piece where it stands.
<1>6. ASSUME NEW j \in 1..(n + 2)
      PROVE  /\ f[j] \in Seq(Byte) /\ Before(j) \in Nat /\ Len(f[j]) \in Nat /\ Len(w[j]) \in Nat
             /\ Len(f[j]) = Before(j) + Len(w[j])
             /\ Len(f[j]) <= Len(q)
             /\ \A k \in 1..Len(w[j]) : At(line, o + Before(j) + k) = w[j][k]
  <2>1. j \in 1..Len(w)
    BY <1>3
  <2>2. /\ f[j] \in Seq(Byte) /\ w[j] \in Seq(Byte) /\ Before(j) \in Nat
        /\ Len(f[j]) = Before(j) + Len(w[j])
        /\ Len(f[j]) <= Len(q)
        /\ \A k \in 1..Len(w[j]) : q[Before(j) + k] = w[j][k]
    <3>1. f = Flat(w) /\ q = FlattenSeq(w)
      BY <1>1, <1>4
    <3> DEFINE before == IF j = 1 THEN 0 ELSE Len(Flat(w)[j - 1])
    <3>2. before = Before(j)
      BY <3>1
    <3>3. /\ Flat(w)[j] \in Seq(Byte) /\ w[j] \in Seq(Byte) /\ before \in Nat
          /\ Len(Flat(w)[j]) = before + Len(w[j])
          /\ Len(Flat(w)[j]) <= Len(FlattenSeq(w))
          /\ \A k \in 1..Len(w[j]) : FlattenSeq(w)[before + k] = w[j][k]
      <4>1. w \in Seq(Seq(Byte))
        BY <1>3
      <4> QED BY <2>1, <4>1, PieceAt
    <3> HIDE DEF before, Before
    <3> QED BY <3>1, <3>2, <3>3
  <2>3. Len(w[j]) \in Nat /\ Len(f[j]) \in Nat
    BY <2>2, LenProperties
  <2>4. Len(q) \in Nat
    <3>1. n + 2 \in 1..Len(w)
      BY <1>3
    <3>2. f[n + 2] \in Seq(Byte)
      BY <1>3, <1>4, <3>1, PieceAt
    <3> QED BY <1>5, <3>2, LenProperties
  <2>5. PICK a \in Nat : a = Len(w[j])
    BY <2>3
  <2>6. PICK d \in Nat : d = Before(j)
    BY <2>2
  <2>7. d + a <= Len(q) /\ \A k \in 1..a : q[d + k] = w[j][k]
    BY <2>2, <2>5, <2>6
  <2> HIDE DEF Before
  <2>8. ASSUME NEW k \in 1..a PROVE At(line, o + d + k) = w[j][k]
    <3>1. d + k \in 1..Len(q) /\ o + (d + k) = o + d + k
      BY <2>4, <2>7
    <3>2. At(line, o + (d + k)) = q[d + k]
      BY <3>1 DEF StandsAt
    <3> QED BY <2>7, <3>1, <3>2
  <2> QED BY <2>2, <2>3, <2>5, <2>6, <2>8
<1>b. Before(1) = 0 /\ \A j \in 1..(n + 1) : Before(j + 1) = Len(f[j])
  BY <1>3
<1> HIDE DEF Before
<1>7. Len(f[1]) = 1 /\ At(line, o + 1) = DQuote
  <2>1. 1 \in 1..(n + 2) /\ Len(w[1]) = 1 /\ 1 \in 1..Len(w[1]) /\ w[1][1] = DQuote /\ Before(1) = 0
    BY <1>3, <1>b
  <2>2. Len(f[1]) = Before(1) + Len(w[1])
    BY <1>6, <2>1
  <2>3. At(line, o + Before(1) + 1) = w[1][1]
    BY <1>6, <2>1
  <2>4. o + Before(1) + 1 = o + 1
    BY <2>1
  <2> QED BY <2>1, <2>2, <2>3, <2>4
<1> DEFINE S(k) == InQ(o + 1 + Len(f[k + 1]), SubSeq(c, 1, k), argv)
<1> HIDE DEF S
<1>8. S(0) = InQ(o + 2, <<>>, argv)
  <2>1. SubSeq(c, 1, 0) = <<>>
    BY Prefix, EmptySeq, LenProperties
  <2>2. 0 + 1 = 1 /\ o + 1 + 1 = o + 2
    OBVIOUS
  <2>3. o + 1 + Len(f[0 + 1]) = o + 2
    BY <1>7, <2>2
  <2> QED BY <2>1, <2>3 DEF S
\* The opening quote.
<1>9. Scan(line)[Blank(o + 1, argv)] = Scan(line)[S(0)]
  <2>1. o + 1 \in Nat /\ (o + 1) + 1 = o + 2
    OBVIOUS
  <2> QED BY <1>7, <1>8, <2>1, Opening
\* The bytes.
<1>10. ASSUME NEW k \in 0..n, k # n
       PROVE  Scan(line)[S(k)] = Scan(line)[S(k + 1)]
  <2>1. k + 1 \in 1..n /\ k + 2 \in 1..(n + 2) /\ k + 1 \in 1..(n + 1) /\ (k + 1) + 1 = k + 2
        /\ k + 1 \in 1..(n + 2)
    <3>1. n \in Nat /\ k \in 0..n /\ k # n
      BY <1>3, <1>10
    <3> QED BY ONLY <3>1
  <2>2. PICK b \in Byte : b = c[k + 1]
    BY <1>3, <2>1
  <2>3. PICK e : e = ReprByte(b)
    OBVIOUS
  <2>4. w[k + 2] = e
    <3>1. w[(k + 1) + 1] = ReprByte(c[k + 1])
      BY <1>3, <2>1
    <3> QED BY <2>1, <2>2, <2>3, <3>1
  <2>5. PICK d \in Nat : d = Len(f[k + 1])
    BY <1>6, <2>1
  <2>6. Before(k + 2) = d
    BY <1>b, <2>1, <2>5
  <2>7. /\ Len(f[k + 2]) = d + Len(e) /\ Len(e) \in Nat
        /\ \A i \in 1..Len(e) : At(line, o + d + i) = e[i]
    BY <1>6, <2>1, <2>4, <2>6
  <2>8. PICK x \in Seq(Byte) : x = SubSeq(c, 1, k)
    BY <1>2, Prefix
  <2>9. PICK p \in Nat : p = o + 1 + d
    OBVIOUS
  <2>10. \A i \in 1..Len(e) : At(line, p + i - 1) = e[i]
    <3> SUFFICES ASSUME NEW i \in 1..Len(e) PROVE At(line, p + i - 1) = e[i]
      OBVIOUS
    <3>1. p + i - 1 = o + d + i
      BY <2>7, <2>9
    <3> QED BY <2>7, <3>1
  <2>11. Scan(line)[InQ(p, x, argv)] = Scan(line)[InQ(p + Len(e), Append(x, b), argv)]
    BY <2>3, <2>10, OneByte
  <2>12. S(k) = InQ(p, x, argv)
    BY <2>5, <2>8, <2>9 DEF S
  <2>13. Append(x, b) = SubSeq(c, 1, k + 1)
    <3>1. k \in Nat /\ k < Len(c)
      BY <1>2, <1>3, <1>10
    <3> QED BY <2>2, <2>8, <3>1, OneMore
  <2>14. o + 1 + Len(f[(k + 1) + 1]) = p + Len(e)
    <3>1. o + 1 + (d + Len(e)) = p + Len(e)
      BY <2>7, <2>9
    <3> QED BY <2>1, <2>7, <3>1
  <2>15. S(k + 1) = InQ(p + Len(e), Append(x, b), argv)
    BY <2>13, <2>14 DEF S
  <2> QED BY <2>11, <2>12, <2>15
<1>11. Scan(line)[S(0)] = Scan(line)[S(n)]
  <2> DEFINE Same(k) == Scan(line)[S(0)] = Scan(line)[S(k)]
             Bad == {k \in 0..n : ~Same(k)}
  <2>s. Same(0) /\ \A k \in 0..n : k # n /\ Same(k) => Same(k + 1)
    BY <1>10
  <2> HIDE DEF Same
  <2>1. ASSUME Bad # {} PROVE FALSE
    <3>1. PICK k \in Bad : \A i \in Bad : k <= i
      <4>1. Bad \subseteq Nat
        BY <1>3
      <4> HIDE DEF Bad
      <4> QED BY <2>1, <4>1, Least
    <3>2. k \in 0..n /\ ~Same(k) /\ k # 0
      BY <2>s
    <3>3. k - 1 \in 0..n /\ k - 1 # n /\ k - 1 < k /\ (k - 1) + 1 = k
      BY <1>3, <3>2
    <3>4. Same(k - 1)
      BY <3>1, <3>2, <3>3
    <3> QED BY <2>s, <3>2, <3>3, <3>4
  <2>2. Same(n)
    BY <1>3, <2>1
  <2> QED BY <2>2 DEF Same
\* The closing quote.
<1>12. Scan(line)[S(n)] = Scan(line)[Blank(o + Len(q) + 1, Append(argv, c))]
  <2>1. n + 2 \in 1..(n + 2) /\ n + 1 \in 1..(n + 2) /\ n + 1 \in 1..(n + 1) /\ (n + 1) + 1 = n + 2
    BY <1>3
  <2>2. PICK d \in Nat : d = Len(f[n + 1])
    BY <1>6, <2>1
  <2>3. Before(n + 2) = d
    BY <1>b, <2>1, <2>2
  <2>4. Len(w[n + 2]) = 1 /\ 1 \in 1..Len(w[n + 2]) /\ w[n + 2][1] = DQuote
    BY <1>3
  <2>5. Len(q) = d + 1
    <3>1. Len(f[n + 2]) = Before(n + 2) + Len(w[n + 2])
      BY <1>6, <2>1
    <3> QED BY <1>5, <2>3, <2>4, <3>1
  <2>6. At(line, o + d + 1) = DQuote
    <3>1. At(line, o + Before(n + 2) + 1) = w[n + 2][1]
      BY <1>6, <2>1, <2>4
    <3> QED BY <2>3, <2>4, <3>1
  <2>7. SubSeq(c, 1, n) = c
    BY <1>2, <1>3, SubSeqFull
  <2>8. PICK p \in Nat : p = o + 1 + d
    OBVIOUS
  <2>9. p = o + d + 1 /\ p + 1 = o + Len(q) + 1
    BY <2>5, <2>8
  <2>10. At(line, p) = DQuote /\ At(line, p + 1) \in {NUL, Space}
    BY <2>6, <2>9
  <2>11. Scan(line)[InQ(p, c, argv)] = Scan(line)[Blank(p + 1, Append(argv, c))]
    BY <2>10, ClosingQuote
  <2>12. S(n) = InQ(p, c, argv)
    BY <2>2, <2>7, <2>8 DEF S
  <2> QED BY <2>9, <2>11, <2>12
<1> QED BY <1>9, <1>11, <1>12

\* The line that has the text of a string twice is read as the string twice.
LEMMA ReadTwice ==
  ASSUME NEW c \in Seq(Byte), NEW q, q = FlattenSeq(ReprPieces(c))
  PROVE  LET read == sdssplitargs((q \o <<Space>>) \o q)
         IN  read.in = "end" /\ read.argv = <<c, c>>
<1>1. PICK v : v = FlattenSeq(ReprPieces(c))
  OBVIOUS
<1>2. PICK n \in Nat : v \in Seq(Byte) /\ Len(v) = n
  <2>1. PICK w : w = ReprPieces(c)
    OBVIOUS
  <2>2. w \in Seq(Seq(Byte)) /\ Len(w) \in Nat /\ Len(w) # 0
    BY <2>1, Quoted, LenProperties
  <2>3. PICK f : f = Flat(w)
    OBVIOUS
  <2>4. f \in [1..Len(w) -> Seq(Byte)] /\ FlattenSeq(w) = IF Len(w) = 0 THEN <<>> ELSE f[Len(w)]
    BY <2>2, <2>3, FlatIs
  <2>5. v \in Seq(Byte)
    <3>1. v = f[Len(w)]
      BY <1>1, <2>1, <2>2, <2>4
    <3>2. Len(w) \in 1..Len(w)
      BY <2>2
    <3>3. f[Len(w)] \in Seq(Byte)
      BY <2>4, <3>2
    <3> QED BY <3>1, <3>3
  <2> QED BY <2>5, LenProperties
<1>3. PICK gap \in Seq(Byte) : gap = <<Space>> /\ Len(gap) = 1 /\ gap[1] = Space
  <2>1. <<Space>> \in Seq(Byte)
    BY DEF Space, Byte
  <2>2. Len(<<Space>>) = 1 /\ <<Space>>[1] = Space
    OBVIOUS
  <2> QED BY <2>1, <2>2
<1>4. PICK u : u = v \o gap
  OBVIOUS
<1>5. /\ u \in Seq(Byte) /\ Len(u) = n + 1
      /\ \A i \in 1..n : u[i] = v[i]
      /\ u[n + 1] = Space
  <2>1. u \in Seq(Byte) /\ Len(u) = Len(v) + Len(gap)
        /\ (\A i \in 1..Len(v) : u[i] = v[i]) /\ \A i \in 1..Len(gap) : u[Len(v) + i] = gap[i]
    <3>1. v \in Seq(Byte)
      BY <1>2
    <3>2. /\ v \o gap \in Seq(Byte) /\ Len(v \o gap) = Len(v) + Len(gap)
          /\ \A i \in 1..Len(v) : (v \o gap)[i] = v[i]
          /\ \A i \in 1..Len(gap) : (v \o gap)[Len(v) + i] = gap[i]
      BY <3>1, Joined
    <3> QED BY <1>4, <3>2
  <2> QED BY <1>2, <1>3, <2>1
<1>6. PICK line : line = u \o v
  OBVIOUS
<1>7. /\ line \in Seq(Byte) /\ Len(line) = n + 1 + n
      /\ \A i \in 1..(n + 1) : line[i] = u[i]
      /\ \A i \in 1..n : line[n + 1 + i] = v[i]
  <2>1. line \in Seq(Byte) /\ Len(line) = Len(u) + Len(v)
        /\ (\A i \in 1..Len(u) : line[i] = u[i]) /\ \A i \in 1..Len(v) : line[Len(u) + i] = v[i]
    <3>1. u \in Seq(Byte) /\ v \in Seq(Byte)
      BY <1>2, <1>5
    <3>2. /\ u \o v \in Seq(Byte) /\ Len(u \o v) = Len(u) + Len(v)
          /\ \A i \in 1..Len(u) : (u \o v)[i] = u[i]
          /\ \A i \in 1..Len(v) : (u \o v)[Len(u) + i] = v[i]
      BY <3>1, Joined
    <3> QED BY <1>6, <3>2
  <2> QED BY <1>2, <1>5, <2>1
\* The line byte by byte.
<1>8. /\ \A i \in 1..n : At(line, 0 + i) = v[i]
      /\ At(line, n + 1) = Space
      /\ \A i \in 1..n : At(line, n + 1 + i) = v[i]
      /\ At(line, n + 1 + n + 1) = NUL
  <2>1. \A i \in 1..(n + 1 + n) : At(line, i) = line[i]
    BY <1>7 DEF At
  <2>2. ASSUME NEW i \in 1..n PROVE At(line, 0 + i) = v[i]
    <3>1. 0 + i = i /\ i \in 1..(n + 1) /\ i \in 1..(n + 1 + n)
      OBVIOUS
    <3> QED BY <1>5, <1>7, <2>1, <3>1
  <2>3. At(line, n + 1) = Space
    <3>1. n + 1 \in 1..(n + 1) /\ n + 1 \in 1..(n + 1 + n)
      OBVIOUS
    <3> QED BY <1>5, <1>7, <2>1, <3>1
  <2>4. ASSUME NEW i \in 1..n PROVE At(line, n + 1 + i) = v[i]
    <3>1. n + 1 + i \in 1..(n + 1 + n)
      OBVIOUS
    <3> QED BY <1>7, <2>1, <3>1
  <2>5. At(line, n + 1 + n + 1) = NUL
    <3>1. n + 1 + n + 1 > Len(line) /\ n + 1 + n + 1 \in Nat
      BY <1>7
    <3> QED BY <1>7, <3>1 DEF At
  <2> QED BY <2>2, <2>3, <2>4, <2>5
<1>9. PICK none \in Seq(Seq(Byte)) : none = <<>>
  BY EmptySeq
<1>10. PICK one \in Seq(Seq(Byte)) : one = Append(none, c)
  BY AppendProperties
<1>11. PICK two \in Seq(Seq(Byte)) : two = Append(one, c)
  BY AppendProperties
<1>12. two = <<c, c>>
  <2>0. Len(none) = 0
    BY <1>9
  <2>1. Len(one) = 1 /\ one[1] = c
    <3>1. Len(one) = Len(none) + 1 /\ one[Len(none) + 1] = c
      BY <1>10, AppendProperties
    <3> QED BY <2>0, <3>1
  <2>2. Len(two) = 2 /\ two[1] = c /\ two[2] = c
    <3>1. Len(two) = Len(one) + 1 /\ two[Len(one) + 1] = c /\ \A i \in 1..Len(one) : two[i] = one[i]
      BY <1>11, AppendProperties
    <3> QED BY <2>1, <3>1
  <2>3. two \in [1..2 -> Seq(Byte)]
    BY <2>2, LenProperties
  <2>4. <<c, c>> \in [1..2 -> Seq(Byte)]
    OBVIOUS
  <2> QED BY <2>2, <2>3, <2>4
\* The first one.
<1>13. Scan(line)[Blank(1, none)] = Scan(line)[Blank(n + 1, one)]
  <2>1. StandsAt(line, 0, v)
    BY <1>2, <1>8 DEF StandsAt
  <2>2. 1 = 0 + 1 /\ n + 1 = 0 + Len(v) + 1
    BY <1>2
  <2>3. At(line, n + 1) \in {NUL, Space} /\ one = Append(none, c)
    BY <1>8, <1>10
  <2> QED BY <1>1, <1>7, <2>1, <2>2, <2>3, ReadQuoted
\* The space.
<1>14. Scan(line)[Blank(n + 1, one)] = Scan(line)[Blank(n + 1 + 1, one)]
  BY <1>7, <1>8, BlankGoes
\* The second one.
<1>15. Scan(line)[Blank(n + 1 + 1, one)] = Scan(line)[Blank(n + 1 + n + 1, two)]
  <2>1. PICK o \in Nat : o = n + 1
    OBVIOUS
  <2>2. StandsAt(line, o, v)
    BY <1>2, <1>8, <2>1 DEF StandsAt
  <2>3. n + 1 + 1 = o + 1 /\ n + 1 + n + 1 = o + Len(v) + 1
    BY <1>2, <2>1
  <2>4. PICK p1, p2 : p1 = n + 1 + 1 /\ p2 = n + 1 + n + 1
    OBVIOUS
  <2>5. p1 = o + 1 /\ p2 = o + Len(v) + 1 /\ At(line, p2) \in {NUL, Space} /\ two = Append(one, c)
    BY <1>8, <1>11, <2>3, <2>4
  <2>6. Scan(line)[Blank(p1, one)] = Scan(line)[Blank(p2, two)]
    BY <1>1, <1>7, <2>2, <2>5, ReadQuoted
  <2> QED BY <2>4, <2>6
<1>16. Scan(line)[Blank(n + 1 + n + 1, two)] = Scanner(n + 1 + n + 1, "end", <<>>, two)
  BY <1>7, <1>8, BlankEnds
<1>17. sdssplitargs(line) = Scan(line)[Blank(1, none)]
  BY <1>9, ScanOf DEF Blank, Scanner
<1>18. sdssplitargs(line) = Scanner(n + 1 + n + 1, "end", <<>>, two)
  BY <1>13, <1>14, <1>15, <1>16, <1>17
<1>19. line = (q \o <<Space>>) \o q
  BY <1>1, <1>3, <1>4, <1>6
<1>20. PICK read : read = sdssplitargs(line)
  OBVIOUS
<1>21. read.in = "end" /\ read.argv = <<c, c>>
  BY <1>12, <1>18, <1>20 DEF Scanner
<1> QED BY <1>19, <1>20, <1>21

\* What sdscatrepr appends is read back by sdssplitargs as the same bytes.
THEOREM QuotesAreReadBack == Spec => []QuotingRoundTrip
<1>1. SdsInv => QuotingRoundTrip
  <2> SUFFICES ASSUME SdsInv PROVE QuotingRoundTrip
    OBVIOUS
  <2>1. Content(s) \in Seq(Byte)
    BY InvIs, ContentIs
  <2> QED BY <2>1, ReadTwice DEF QuotingRoundTrip
<1> QED BY InitInv, NextInv, <1>1, PTL DEF Spec

-----------------------------------------------------------------------------
(* Splitting and joining *)

\* The tokens of sdssplitlen, and what sdsjoinsds makes of them.
Slot == [token : Seq(Byte), fits : BOOLEAN]

Pieces(r, sep) == [i \in DOMAIN r |-> IF i = Len(r) THEN r[i].token ELSE r[i].token \o sep]

LEMMA PiecesIs ==
  ASSUME NEW r \in Seq(Slot), NEW sep \in Seq(Byte)
  PROVE  /\ Pieces(r, sep) \in Seq(Seq(Byte)) /\ Len(Pieces(r, sep)) = Len(r)
         /\ \A i \in 1..Len(r) :
              Pieces(r, sep)[i] = IF i = Len(r) THEN r[i].token ELSE r[i].token \o sep
         /\ sdsjoinsds([i \in DOMAIN r |-> r[i].token], sep) = FlattenSeq(Pieces(r, sep))
<1>1. PICK n : n = Len(r)
  OBVIOUS
<1>2. n \in Nat /\ DOMAIN r = 1..n /\ \A i \in 1..n : r[i].token \in Seq(Byte)
  <2>1. \A i \in 1..Len(r) : r[i] \in Slot
    BY ElementOfSeq
  <2> QED BY <1>1, <2>1, LenProperties DEF Slot
<1>3. PICK T : T = Seq(Byte)
  OBVIOUS
<1>4. PICK t : t = [i \in 1..n |-> r[i].token]
  OBVIOUS
<1>5. t \in [1..n -> T]
  BY <1>2, <1>3, <1>4
<1>6. t \in Seq(T) /\ Len(t) = n /\ DOMAIN t = 1..n
  <2>1. t \in Seq(T)
    BY <1>2, <1>5, SeqDef
  <2> QED BY <1>2, <1>5, <2>1, LenProperties
<1>7. PICK w : w = [i \in 1..n |-> IF i = n THEN t[i] ELSE t[i] \o sep]
  OBVIOUS
<1>8. \A i \in 1..n : t[i] \o sep \in T /\ t[i] \in T
  BY <1>3, <1>5, ConcatProperties
<1>9. w \in [1..n -> T]
  BY <1>7, <1>8
<1>10. w \in Seq(T) /\ Len(w) = n
  <2>1. w \in Seq(T)
    BY <1>2, <1>9, SeqDef
  <2> QED BY <1>2, <1>9, <2>1, LenProperties
<1>11. w = Pieces(r, sep)
  BY <1>1, <1>2, <1>4, <1>7 DEF Pieces
<1>12. sdsjoinsds(t, sep) = FlattenSeq(w)
  BY <1>6, <1>7 DEF sdsjoinsds
<1>13. t = [i \in DOMAIN r |-> r[i].token]
  BY <1>2, <1>4
<1>14. \A i \in 1..n : w[i] = IF i = n THEN r[i].token ELSE r[i].token \o sep
  BY <1>4, <1>7
<1> QED BY <1>1, <1>3, <1>10, <1>11, <1>12, <1>13, <1>14

\* What is left of the text is one token, or starts with one and a separator.
LEMMA PiecesOne ==
  ASSUME NEW r \in Seq(Slot), NEW sep \in Seq(Byte), Len(r) = 1
  PROVE  FlattenSeq(Pieces(r, sep)) = r[1].token
<1>1. PICK w : w = Pieces(r, sep)
  OBVIOUS
<1>2. w \in Seq(Seq(Byte)) /\ Len(w) = 1 /\ w[1] = r[1].token
  <2>1. 1 \in 1..Len(r) /\ 1 = Len(r)
    OBVIOUS
  <2> QED BY <1>1, <2>1, PiecesIs
<1>3. Flat(w)[1] = w[1] /\ FlattenSeq(w) = Flat(w)[1]
  BY <1>2, FlatIs
<1> QED BY <1>1, <1>2, <1>3

LEMMA PiecesFirst ==
  ASSUME NEW e \in Slot, NEW r \in Seq(Slot), NEW sep \in Seq(Byte), Len(r) # 0
  PROVE  FlattenSeq(Pieces(<<e>> \o r, sep)) = (e.token \o sep) \o FlattenSeq(Pieces(r, sep))
<1>1. PICK n : n = Len(r)
  OBVIOUS
<1>2. PICK one \in Seq(Slot) : one = <<e>> /\ Len(one) = 1 /\ one[1] = e
  <2>1. <<e>> \in Seq(Slot) /\ Len(<<e>>) = 1 /\ <<e>>[1] = e
    OBVIOUS
  <2> QED BY <2>1
<1>3. PICK u : u = one \o r
  OBVIOUS
<1>4. n \in Nat /\ n # 0
  BY <1>1, LenProperties
<1>5. u \in Seq(Slot) /\ Len(u) = n + 1 /\ u[1] = e /\ \A i \in 1..n : u[i + 1] = r[i]
  <2>1. u \in Seq(Slot) /\ IsJoin(u, one, r)
    BY <1>3, JoinedSeq
  <2>2. Len(u) = 1 + n /\ u[1] = one[1] /\ \A i \in 1..n : u[1 + i] = r[i]
    BY <1>1, <1>2, <2>1 DEF IsJoin
  <2>3. \A i \in 1..n : 1 + i = i + 1
    OBVIOUS
  <2> QED BY <1>2, <1>4, <2>1, <2>2, <2>3
<1>6. PICK w : w = Pieces(r, sep)
  OBVIOUS
<1>7. PICK v : v = Pieces(u, sep)
  OBVIOUS
<1>8. /\ w \in Seq(Seq(Byte)) /\ Len(w) = n
      /\ \A i \in 1..n : w[i] = IF i = n THEN r[i].token ELSE r[i].token \o sep
  BY <1>1, <1>6, PiecesIs
<1>9. /\ v \in Seq(Seq(Byte)) /\ Len(v) = n + 1
      /\ \A i \in 1..(n + 1) : v[i] = IF i = n + 1 THEN u[i].token ELSE u[i].token \o sep
  <2>1. /\ v \in Seq(Seq(Byte)) /\ Len(v) = Len(u)
        /\ \A i \in 1..Len(u) : v[i] = IF i = Len(u) THEN u[i].token ELSE u[i].token \o sep
    <3>1. u \in Seq(Slot)
      BY <1>5
    <3> QED BY <1>7, <3>1, PiecesIs
  <2>2. Len(u) = n + 1
    BY <1>5
  <2> QED BY <2>1, <2>2
<1>10. PICK x : x = e.token \o sep
  OBVIOUS
<1>11. x \in Seq(Byte)
  BY <1>10, ConcatProperties DEF Slot
<1>12. PICK first \in Seq(Seq(Byte)) : first = <<x>> /\ Len(first) = 1 /\ first[1] = x
  <2>1. <<x>> \in Seq(Seq(Byte)) /\ Len(<<x>>) = 1 /\ <<x>>[1] = x
    BY <1>11
  <2> QED BY <2>1
<1>13. PICK z : z = first \o w
  OBVIOUS
<1>14. z \in Seq(Seq(Byte)) /\ Len(z) = 1 + n /\ z[1] = x /\ \A i \in 1..n : z[1 + i] = w[i]
  <2>1. z \in Seq(Seq(Byte)) /\ IsJoin(z, first, w)
    BY <1>8, <1>13, JoinedSeq
  <2> QED BY <1>8, <1>12, <2>1 DEF IsJoin
<1>15. z = v
  <2>1. v[1] = x
    <3>1. 1 \in 1..(n + 1) /\ 1 # n + 1
      BY <1>4
    <3> QED BY <1>5, <1>9, <1>10, <3>1
  <2>2. ASSUME NEW i \in 1..(1 + n) PROVE z[i] = v[i]
    <3>1. CASE i = 1
      BY <1>14, <2>1, <3>1
    <3>2. CASE i # 1
      <4>1. PICK k \in 1..n : i = k + 1
        BY <1>4, <3>2
      <4>2. z[i] = w[k]
        <5>1. i = 1 + k
          BY <4>1
        <5> QED BY <1>14, <5>1
      <4>3. u[i] = r[k] /\ (i = n + 1 <=> k = n)
        BY <1>4, <1>5, <4>1
      <4>4. v[i] = IF i = n + 1 THEN u[i].token ELSE u[i].token \o sep
        <5>1. i \in 1..(n + 1)
          BY <1>4
        <5> QED BY <1>9, <5>1
      <4> QED BY <1>8, <4>1, <4>2, <4>3, <4>4
    <3> QED BY <3>1, <3>2
  <2>3. z \in [1..(1 + n) -> Seq(Byte)] /\ v \in [1..(1 + n) -> Seq(Byte)]
    <3>1. Len(v) = 1 + n
      BY <1>4, <1>9
    <3>2. v \in [1..Len(v) -> Seq(Byte)]
      BY <1>9, LenProperties
    <3>3. z \in [1..Len(z) -> Seq(Byte)]
      BY <1>14, LenProperties
    <3> QED BY <1>14, <3>1, <3>2, <3>3
  <2>4. PICK N : N = 1..(1 + n)
    OBVIOUS
  <2>5. z \in [N -> Seq(Byte)] /\ v \in [N -> Seq(Byte)] /\ \A i \in N : z[i] = v[i]
    BY <2>2, <2>3, <2>4
  <2> QED BY <2>5
<1>16. FlattenSeq(<<x>> \o w) = x \o FlattenSeq(w)
  BY <1>4, <1>8, <1>11, FlattenFirst
<1> QED BY <1>2, <1>3, <1>6, <1>7, <1>10, <1>12, <1>13, <1>15, <1>16

\* The scan of sdssplitlen: its states, what it finds and where it goes on.
SplitState(text) == [j : 0..Len(text), start : 0..Len(text), n : Nat, slots : Nat]
SplitEnds(text, sep, at) == at.j >= Len(text) - (Len(sep) - 1)
SplitFinds(text, sep, at) ==
  at.j < Len(text) - (Len(sep) - 1) /\ SubSeq(text, at.j + 1, at.j + Len(sep)) = sep
Room(at) == IF at.slots < at.n + 2 THEN 2 * at.slots ELSE at.slots
LastSlot(text, at) == [token |-> SubSeq(text, at.start + 1, Len(text)), fits |-> at.n < at.slots]
NextSlot(text, at) == [token |-> SubSeq(text, at.start + 1, at.j), fits |-> at.n < Room(at)]
BehindSep(sep, at) == [j |-> at.j + Len(sep), start |-> at.j + Len(sep), n |-> at.n + 1, slots |-> Room(at)]
BehindByte(at) == [j |-> at.j + 1, start |-> at.start, n |-> at.n, slots |-> Room(at)]

SplitScan(text, sep) ==
  LET scan[at \in SplitState(text)] ==
        CASE SplitEnds(text, sep, at) -> <<LastSlot(text, at)>>
          [] SplitFinds(text, sep, at) -> <<NextSlot(text, at)>> \o scan[BehindSep(sep, at)]
          [] OTHER -> scan[BehindByte(at)]
  IN scan

LEMMA SplitOf ==
  ASSUME NEW text, NEW sep
  PROVE  sdssplitlen(text, sep) =
           IF sep = <<>> \/ text = <<>> THEN <<>>
           ELSE SplitScan(text, sep)[[j |-> 0, start |-> 0, n |-> 0, slots |-> 5]]
BY DEF sdssplitlen, SplitScan, SplitState, SplitEnds, SplitFinds, Room, LastSlot, NextSlot, BehindSep, BehindByte

LEMMA SplitTypes ==
  ASSUME NEW text \in Seq(Byte), NEW at \in SplitState(text)
  PROVE  /\ at.j \in Nat /\ at.start \in Nat /\ at.n \in Nat /\ at.slots \in Nat
         /\ at.j <= Len(text) /\ at.start <= Len(text) /\ Len(text) \in Nat /\ Room(at) \in Nat
         /\ LastSlot(text, at) \in Slot /\ NextSlot(text, at) \in Slot
         /\ Len(LastSlot(text, at).token) = Len(text) - at.start
         /\ Len(NextSlot(text, at).token) = IF at.start <= at.j THEN at.j - at.start ELSE 0
<1>1. /\ at.j \in Nat /\ at.start \in Nat /\ at.n \in Nat /\ at.slots \in Nat
      /\ at.j <= Len(text) /\ at.start <= Len(text) /\ Len(text) \in Nat
  BY LenProperties DEF SplitState
<1>2. Room(at) \in Nat
  BY <1>1 DEF Room
<1>3. \A i \in 1..Len(text) : text[i] \in Byte
  BY ElementOfSeq
<1>4. PICK a : a = SubSeq(text, at.start + 1, Len(text))
  OBVIOUS
<1>5. PICK b : b = SubSeq(text, at.start + 1, at.j)
  OBVIOUS
<1>6. a \in Seq(Byte) /\ Len(a) = Len(text) - at.start
  <2>1. \A i \in (at.start + 1)..Len(text) : text[i] \in Byte
    BY <1>1, <1>3
  <2>2. at.start + 1 \in Int /\ Len(text) \in Int
    BY <1>1
  <2>3. a \in Seq(Byte) /\ Len(a) = IF at.start + 1 <= Len(text) THEN Len(text) - (at.start + 1) + 1 ELSE 0
    BY <1>4, <2>1, <2>2, SubSeqProperties
  <2> QED BY <1>1, <2>3
<1>7. b \in Seq(Byte) /\ Len(b) = IF at.start <= at.j THEN at.j - at.start ELSE 0
  <2>1. \A i \in (at.start + 1)..at.j : text[i] \in Byte
    BY <1>1, <1>3
  <2>2. at.start + 1 \in Int /\ at.j \in Int
    BY <1>1
  <2>3. b \in Seq(Byte) /\ Len(b) = IF at.start + 1 <= at.j THEN at.j - (at.start + 1) + 1 ELSE 0
    BY <1>5, <2>1, <2>2, SubSeqProperties
  <2> QED BY <1>1, <2>3
<1>8. /\ LastSlot(text, at) = [token |-> a, fits |-> at.n < at.slots]
      /\ NextSlot(text, at) = [token |-> b, fits |-> at.n < Room(at)]
  BY <1>4, <1>5 DEF LastSlot, NextSlot
<1>9. (at.n < at.slots) \in BOOLEAN /\ (at.n < Room(at)) \in BOOLEAN
  BY <1>1, <1>2
<1> QED BY <1>1, <1>2, <1>6, <1>7, <1>8, <1>9 DEF Slot

\* The scan goes on behind where it is.
LEMMA SplitMoves ==
  ASSUME NEW text \in Seq(Byte), NEW sep \in Seq(Byte), sep # <<>>, NEW at \in SplitState(text),
         ~SplitEnds(text, sep, at)
  PROVE  /\ BehindSep(sep, at) \in SplitState(text) /\ BehindSep(sep, at).j > at.j
         /\ BehindByte(at) \in SplitState(text) /\ BehindByte(at).j > at.j
<1>1. Len(sep) \in Nat /\ Len(sep) # 0
  BY LenProperties, EmptySeq
<1>2. /\ at.j \in Nat /\ at.start \in Nat /\ at.n \in Nat /\ at.start <= Len(text)
      /\ Len(text) \in Nat /\ Room(at) \in Nat
  BY SplitTypes
<1>3. at.j + Len(sep) \in 0..Len(text) /\ at.j + Len(sep) > at.j
      /\ at.j + 1 \in 0..Len(text) /\ at.j + 1 > at.j
  BY <1>1, <1>2 DEF SplitEnds
<1>4. BehindSep(sep, at) \in SplitState(text) /\ BehindSep(sep, at).j = at.j + Len(sep)
  BY <1>2, <1>3 DEF BehindSep, SplitState
<1>5. BehindByte(at) \in SplitState(text) /\ BehindByte(at).j = at.j + 1
  BY <1>2, <1>3 DEF BehindByte, SplitState
<1> QED BY <1>3, <1>4, <1>5

LEMMA SplitStep ==
  ASSUME NEW text \in Seq(Byte), NEW sep \in Seq(Byte), sep # <<>>, NEW at \in SplitState(text)
  PROVE  /\ SplitEnds(text, sep, at) => SplitScan(text, sep)[at] = <<LastSlot(text, at)>>
         /\ SplitFinds(text, sep, at) =>
              SplitScan(text, sep)[at] = <<NextSlot(text, at)>> \o SplitScan(text, sep)[BehindSep(sep, at)]
         /\ ~SplitEnds(text, sep, at) /\ ~SplitFinds(text, sep, at) =>
              SplitScan(text, sep)[at] = SplitScan(text, sep)[BehindByte(at)]
<1> DEFINE D == SplitState(text)
           T == Seq(Slot)
           Body(x, g) ==
             CASE SplitEnds(text, sep, x) -> <<LastSlot(text, x)>>
               [] SplitFinds(text, sep, x) -> <<NextSlot(text, x)>> \o g[BehindSep(sep, x)]
               [] OTHER -> g[BehindByte(x)]
           m == [x \in D |-> Len(text) - x.j]
           F == [xg \in D \X [D -> T] |-> Body(xg[1], xg[2])]
<1>1. \A x \in D : SplitFinds(text, sep, x) => ~SplitEnds(text, sep, x)
  <2> SUFFICES ASSUME NEW x \in D, SplitFinds(text, sep, x), SplitEnds(text, sep, x) PROVE FALSE
    OBVIOUS
  <2>1. x.j \in Nat /\ Len(text) \in Nat /\ Len(sep) \in Nat
    BY SplitTypes, LenProperties
  <2> QED BY <2>1 DEF SplitEnds, SplitFinds
<1>2. ASSUME NEW x \in D, NEW g
      PROVE  /\ SplitEnds(text, sep, x) => Body(x, g) = <<LastSlot(text, x)>>
             /\ SplitFinds(text, sep, x) => Body(x, g) = <<NextSlot(text, x)>> \o g[BehindSep(sep, x)]
             /\ ~SplitEnds(text, sep, x) /\ ~SplitFinds(text, sep, x) => Body(x, g) = g[BehindByte(x)]
  BY <1>1
<1>3. m \in [D -> Nat]
  <2>1. \A x \in D : Len(text) - x.j \in Nat
    BY SplitTypes
  <2> QED BY <2>1
<1>4. ASSUME NEW x \in D, ~SplitEnds(text, sep, x)
      PROVE  /\ BehindSep(sep, x) \in D /\ m[BehindSep(sep, x)] < m[x]
             /\ BehindByte(x) \in D /\ m[BehindByte(x)] < m[x]
  <2>1. /\ BehindSep(sep, x) \in D /\ BehindSep(sep, x).j > x.j
        /\ BehindByte(x) \in D /\ BehindByte(x).j > x.j
    BY <1>4, SplitMoves
  <2>2. x.j \in Nat /\ BehindSep(sep, x).j \in Nat /\ BehindByte(x).j \in Nat /\ Len(text) \in Nat
    BY <2>1, SplitTypes
  <2> HIDE DEF D
  <2> QED BY <2>1, <2>2
<1>5. ASSUME NEW x \in D PROVE LastSlot(text, x) \in Slot /\ NextSlot(text, x) \in Slot
  BY SplitTypes
<1> HIDE DEF D, m, Body
<1>6. ASSUME NEW x \in D, NEW g \in [D -> T] PROVE F[<<x, g>>] = Body(x, g)
  <2>1. <<x, g>> \in D \X [D -> T] /\ <<x, g>>[1] = x /\ <<x, g>>[2] = g
    OBVIOUS
  <2> QED BY <2>1
<1>7. ASSUME NEW x \in D, NEW g \in [D -> T] PROVE Body(x, g) \in T
  <2>1. CASE SplitEnds(text, sep, x)
    <3>1. <<LastSlot(text, x)>> \in T
      BY <1>5
    <3> QED BY <1>2, <2>1, <3>1
  <2>2. CASE SplitFinds(text, sep, x)
    <3>1. PICK e \in Slot : e = NextSlot(text, x)
      BY <1>5
    <3>2. PICK h \in Seq(Slot) : h = g[BehindSep(sep, x)]
      BY <1>1, <1>4, <2>2
    <3>3. <<e>> \in Seq(Slot)
      OBVIOUS
    <3>4. <<e>> \o h \in Seq(Slot)
      BY <3>3, ConcatProperties
    <3> QED BY <1>2, <2>2, <3>1, <3>2, <3>4
  <2>3. CASE ~SplitEnds(text, sep, x) /\ ~SplitFinds(text, sep, x)
    <3>1. g[BehindByte(x)] \in T
      BY <1>4, <2>3
    <3> QED BY <1>2, <2>3, <3>1
  <2> QED BY <2>1, <2>2, <2>3
<1>8. ASSUME NEW x \in D, NEW g \in [D -> T], NEW h \in [D -> T],
             \A y \in D : m[y] < m[x] => g[y] = h[y]
      PROVE  Body(x, g) = Body(x, h)
  <2>1. CASE SplitEnds(text, sep, x)
    BY <1>2, <2>1
  <2>2. CASE SplitFinds(text, sep, x)
    <3>1. g[BehindSep(sep, x)] = h[BehindSep(sep, x)]
      BY <1>1, <1>4, <1>8, <2>2
    <3> QED BY <1>2, <2>2, <3>1
  <2>3. CASE ~SplitEnds(text, sep, x) /\ ~SplitFinds(text, sep, x)
    <3>1. g[BehindByte(x)] = h[BehindByte(x)]
      BY <1>4, <1>8, <2>3
    <3> QED BY <1>2, <2>3, <3>1
  <2> QED BY <2>1, <2>2, <2>3
<1>9. PICK f \in [D -> T] : \A x \in D : f[x] = Body(x, f)
  <2>1. ASSUME NEW x \in D, NEW g \in [D -> T] PROVE F[<<x, g>>] \in T
    <3> HIDE DEF F, T
    <3> QED BY <1>6, <1>7
  <2>2. ASSUME NEW x \in D, NEW g \in [D -> T], NEW h \in [D -> T],
               \A y \in D : m[y] < m[x] => g[y] = h[y]
        PROVE  F[<<x, g>>] = F[<<x, h>>]
    <3>1. Body(x, g) = Body(x, h)
      BY <1>8, <2>2
    <3> HIDE DEF F, T
    <3> QED BY <1>6, <3>1
  <2>3. <<>> \in T
    OBVIOUS
  <2> HIDE DEF F, T
  <2>4. Recursive(D, T, m, F)
    BY <1>3, <2>1, <2>2 DEF Recursive
  <2>5. Solution(D, T, F)
    BY <2>3, <2>4, Recursion
  <2> QED BY <1>6, <2>5 DEF Solution
<1>10. f = [x \in D |-> Body(x, f)]
  BY <1>9
<1>11. PICK v : v = SplitScan(text, sep)
  OBVIOUS
<1>12. v = CHOOSE h : h = [x \in D |-> Body(x, h)]
  BY <1>11 DEF SplitScan, D, Body
<1>13. v = [x \in D |-> Body(x, v)]
  BY <1>10, <1>12
<1>14. at \in D
  BY DEF D
<1>15. v[at] = Body(at, v)
  BY <1>13, <1>14
<1> QED BY <1>2, <1>11, <1>14, <1>15

SepAt(text, sep, k) == SubSeq(text, k + 1, k + Len(sep)) = sep

\* No separator in a token.
Free(t, sep) == \A j \in 0..(Len(t) - Len(sep)) : SubSeq(t, j + 1, j + Len(sep)) # sep

LEMMA TokenFree ==
  ASSUME NEW text \in Seq(Byte), NEW sep \in Seq(Byte), sep # <<>>,
         NEW a \in Nat, NEW b \in Nat, a <= b, b <= Len(text),
         \A k \in a..(b - Len(sep)) : ~SepAt(text, sep, k),
         NEW t, t = SubSeq(text, a + 1, b), Len(t) = b - a
  PROVE  Free(t, sep)
<1>1. PICK m \in Nat \ {0} : m = Len(sep)
  BY LenProperties, EmptySeq
<1>2. PICK n \in Nat : n = Len(text)
  BY LenProperties
<1> SUFFICES ASSUME NEW j \in 0..(Len(t) - Len(sep)) PROVE SubSeq(t, j + 1, j + Len(sep)) # sep
  BY DEF Free
<1>3. j \in Nat /\ j + m <= b - a
  BY <1>1
<1>4. /\ a + 1 \in 1..n /\ b \in 1..n
      /\ j + 1 \in 1..(b - (a + 1) + 1) /\ j + m \in 1..(b - (a + 1) + 1)
      /\ a + 1 + (j + 1) - 1 = (a + j) + 1 /\ a + 1 + (j + m) - 1 = (a + j) + m
      /\ a + j \in a..(b - m)
  BY <1>2, <1>3
<1>5. PICK i1 \in 1..n, i2 \in 1..n : i1 = a + 1 /\ i2 = b
  BY <1>4
<1>6. PICK k1 \in 1..(i2 - i1 + 1), k2 \in 1..(i2 - i1 + 1) : k1 = j + 1 /\ k2 = j + m
  BY <1>4, <1>5
<1>7. SubSeq(SubSeq(text, i1, i2), k1, k2) = SubSeq(text, i1 + k1 - 1, i1 + k2 - 1)
  BY <1>2, SubSeqOfSubSeq
<1>8. SubSeq(t, j + 1, j + m) = SubSeq(text, (a + j) + 1, (a + j) + m)
  BY <1>4, <1>5, <1>6, <1>7
<1>9. SubSeq(text, (a + j) + 1, (a + j) + m) # sep
  BY <1>1, <1>4 DEF SepAt
<1> QED BY <1>1, <1>8, <1>9

\* Where the scan may be: no separator since the start of the token, and a slot left.
SplitReached(text, sep, at) ==
  /\ at \in SplitState(text)
  /\ at.start <= at.j /\ at.n < at.slots
  /\ \A k \in at.start..(at.j - 1) : ~SepAt(text, sep, k)

\* What it makes of the text from there on.
SplitGood(text, sep, start, r) ==
  /\ r \in Seq(Slot) /\ Len(r) # 0
  /\ FlattenSeq(Pieces(r, sep)) = SubSeq(text, start + 1, Len(text))
  /\ \A i \in 1..Len(r) : r[i].fits /\ Free(r[i].token, sep)

\* The last token.
LEMMA SplitLast ==
  ASSUME NEW text \in Seq(Byte), NEW sep \in Seq(Byte), sep # <<>>,
         NEW at, SplitReached(text, sep, at), SplitEnds(text, sep, at)
  PROVE  SplitGood(text, sep, at.start, <<LastSlot(text, at)>>)
<1>1. /\ at.j \in Nat /\ at.start \in Nat /\ at.n \in Nat /\ at.slots \in Nat
      /\ at.start <= Len(text) /\ Len(text) \in Nat /\ Len(sep) \in Nat
      /\ at.start <= at.j /\ at.n < at.slots
  BY SplitTypes, LenProperties DEF SplitReached
<1>2. PICK e : e = LastSlot(text, at)
  OBVIOUS
<1>3. e \in Slot /\ Len(e.token) = Len(text) - at.start
  BY <1>2, SplitTypes DEF SplitReached
<1>4. e.token = SubSeq(text, at.start + 1, Len(text)) /\ e.fits
  BY <1>1, <1>2 DEF LastSlot
<1>5. Free(e.token, sep)
  <2>1. \A k \in at.start..(Len(text) - Len(sep)) : ~SepAt(text, sep, k)
    <3> SUFFICES ASSUME NEW k \in at.start..(Len(text) - Len(sep)) PROVE ~SepAt(text, sep, k)
      OBVIOUS
    <3>1. k \in at.start..(at.j - 1)
      BY <1>1 DEF SplitEnds
    <3> QED BY <3>1 DEF SplitReached
  <2>2. PICK a \in Nat, b \in Nat : a = at.start /\ b = Len(text)
    BY <1>1
  <2>3. a <= b /\ b <= Len(text) /\ \A k \in a..(b - Len(sep)) : ~SepAt(text, sep, k)
    BY <1>1, <2>1, <2>2
  <2>4. PICK t : t = e.token
    OBVIOUS
  <2>5. t = SubSeq(text, a + 1, b) /\ Len(t) = b - a
    BY <1>3, <1>4, <2>2, <2>4
  <2>6. Free(t, sep)
    BY <2>3, <2>5, TokenFree
  <2> QED BY <2>4, <2>6
<1>6. PICK r : r = <<e>>
  OBVIOUS
<1>7. r \in Seq(Slot) /\ Len(r) = 1 /\ r[1] = e
  BY <1>3, <1>6
<1>8. FlattenSeq(Pieces(r, sep)) = e.token
  BY <1>7, PiecesOne
<1>9. \A i \in 1..Len(r) : r[i] = e
  BY <1>7
<1>10. SplitGood(text, sep, at.start, r)
  <2>1. Len(r) # 0 /\ \A i \in 1..Len(r) : r[i].fits /\ Free(r[i].token, sep)
    <3>1. Len(r) # 0
      BY <1>7
    <3> QED BY <1>4, <1>5, <1>9, <3>1
  <2> QED BY <1>4, <1>7, <1>8, <2>1 DEF SplitGood
<1> QED BY <1>2, <1>6, <1>10

\* A token and a separator before the rest.
LEMMA SplitNext ==
  ASSUME NEW text \in Seq(Byte), NEW sep \in Seq(Byte), sep # <<>>,
         NEW at, SplitReached(text, sep, at), SplitFinds(text, sep, at),
         NEW rest, SplitGood(text, sep, at.j + Len(sep), rest)
  PROVE  SplitGood(text, sep, at.start, <<NextSlot(text, at)>> \o rest)
<1>1. PICK m \in Nat \ {0} : m = Len(sep)
  BY LenProperties, EmptySeq
<1>2. PICK n \in Nat : n = Len(text)
  BY LenProperties
<1>3. /\ at.j \in Nat /\ at.start \in Nat /\ at.n \in Nat /\ at.slots \in Nat
      /\ at.start <= at.j /\ at.n < at.slots /\ at.j + m <= n
  <2>1. /\ at.j \in Nat /\ at.start \in Nat /\ at.n \in Nat /\ at.slots \in Nat
    BY SplitTypes DEF SplitReached
  <2>2. at.j < n - (m - 1) /\ at.start <= at.j /\ at.n < at.slots
    BY <1>1, <1>2 DEF SplitReached, SplitFinds
  <2> QED BY <2>1, <2>2
<1>4. PICK start \in Nat, j \in Nat : start = at.start /\ j = at.j
  BY <1>3
<1>5. PICK e : e = NextSlot(text, at)
  OBVIOUS
<1>6. e \in Slot /\ Len(e.token) = j - start
  BY <1>3, <1>4, <1>5, SplitTypes DEF SplitReached
<1>7. e.token = SubSeq(text, start + 1, j) /\ e.fits
  <2>1. at.n < Room(at)
    BY <1>3 DEF Room
  <2> QED BY <1>4, <1>5, <2>1 DEF NextSlot
<1>8. Free(e.token, sep)
  <2>1. \A k \in start..(j - m) : ~SepAt(text, sep, k)
    <3> SUFFICES ASSUME NEW k \in start..(j - m) PROVE ~SepAt(text, sep, k)
      OBVIOUS
    <3>1. k \in at.start..(at.j - 1)
      BY <1>4
    <3> QED BY <3>1 DEF SplitReached
  <2>2. start <= j /\ j <= Len(text)
    BY <1>2, <1>3, <1>4
  <2> QED BY <1>1, <1>6, <1>7, <2>1, <2>2, TokenFree
<1>9. PICK r : r = <<e>> \o rest
  OBVIOUS
<1>10. PICK one \in Seq(Slot) : one = <<e>> /\ Len(one) = 1 /\ one[1] = e
  <2>1. <<e>> \in Seq(Slot) /\ Len(<<e>>) = 1 /\ <<e>>[1] = e
    BY <1>6
  <2> QED BY <2>1
<1>11. PICK l : l = Len(rest)
  OBVIOUS
<1>12. rest \in Seq(Slot) /\ l \in Nat /\ l # 0
  BY <1>11, LenProperties DEF SplitGood
<1>13. r \in Seq(Slot) /\ Len(r) = 1 + l /\ r[1] = e /\ \A i \in 1..l : r[1 + i] = rest[i]
  <2>1. r \in Seq(Slot) /\ IsJoin(r, one, rest)
    BY <1>9, <1>10, <1>12, JoinedSeq
  <2> QED BY <1>10, <1>11, <1>12, <2>1 DEF IsJoin
<1>14. ASSUME NEW i \in 1..(1 + l) PROVE r[i].fits /\ Free(r[i].token, sep)
  <2>1. CASE i = 1
    BY <1>7, <1>8, <1>13, <2>1
  <2>2. CASE i # 1
    <3>1. PICK k \in 1..l : i = 1 + k
      BY <1>12, <2>2
    <3>2. r[i] = rest[k]
      BY <1>13, <3>1
    <3>3. rest[k].fits /\ Free(rest[k].token, sep)
      BY <1>11 DEF SplitGood
    <3> QED BY <3>2, <3>3
  <2> QED BY <2>1, <2>2
<1>15. FlattenSeq(Pieces(r, sep)) = SubSeq(text, start + 1, n)
  <2>1. FlattenSeq(Pieces(r, sep)) = (e.token \o sep) \o FlattenSeq(Pieces(rest, sep))
    BY <1>6, <1>9, <1>11, <1>12, PiecesFirst
  <2>2. FlattenSeq(Pieces(rest, sep)) = SubSeq(text, (j + m) + 1, n)
    BY <1>1, <1>2, <1>4 DEF SplitGood
  <2>3. sep = SubSeq(text, j + 1, j + m)
    BY <1>1, <1>4 DEF SplitFinds
  <2>6. /\ start \in Nat /\ j \in Nat /\ j + m \in Nat /\ n \in Nat
        /\ start <= j /\ j <= j + m /\ start <= j + m /\ j + m <= n /\ j + m <= Len(text) /\ n <= Len(text)
    BY <1>2, <1>3, <1>4
  <2>4. SubSeq(text, start + 1, j) \o SubSeq(text, j + 1, j + m) = SubSeq(text, start + 1, j + m)
    BY <2>6, PartsJoin
  <2>5. SubSeq(text, start + 1, j + m) \o SubSeq(text, (j + m) + 1, n) = SubSeq(text, start + 1, n)
    BY <2>6, PartsJoin
  <2> QED BY <1>7, <2>1, <2>2, <2>3, <2>4, <2>5
<1>16. SplitGood(text, sep, start, r)
  <2>1. Len(r) # 0
    BY <1>12, <1>13
  <2> QED BY <1>2, <1>13, <1>14, <1>15, <2>1 DEF SplitGood
<1> QED BY <1>4, <1>5, <1>9, <1>16

\* From wherever the scan may be.
LEMMA Splits ==
  ASSUME NEW text \in Seq(Byte), NEW sep \in Seq(Byte), sep # <<>>,
         NEW first, SplitReached(text, sep, first)
  PROVE  SplitGood(text, sep, first.start, SplitScan(text, sep)[first])
<1> DEFINE Good1(at) == SplitGood(text, sep, at.start, SplitScan(text, sep)[at])
           Left(at) == Len(text) - at.j
           Bad == {k \in Nat : \E at : SplitReached(text, sep, at) /\ Left(at) = k /\ ~Good1(at)}
<1>1. ASSUME NEW at, SplitReached(text, sep, at),
             \A u : SplitReached(text, sep, u) /\ u.j > at.j => Good1(u)
      PROVE  Good1(at)
  <2>1. at \in SplitState(text)
    BY <1>1 DEF SplitReached
  <2>2. /\ at.j \in Nat /\ at.start \in Nat /\ at.n \in Nat /\ at.slots \in Nat
        /\ at.start <= at.j /\ at.n < at.slots /\ Len(sep) \in Nat
    BY <1>1, <2>1, SplitTypes, LenProperties DEF SplitReached
  <2>3. at.n + 1 < Room(at)
    BY <2>2 DEF Room
  <2>4. CASE SplitEnds(text, sep, at)
    <3>1. SplitScan(text, sep)[at] = <<LastSlot(text, at)>>
      BY <2>1, <2>4, SplitStep
    <3>2. SplitGood(text, sep, at.start, <<LastSlot(text, at)>>)
      BY <1>1, <2>4, SplitLast
    <3> QED BY <3>1, <3>2
  <2>5. CASE ~SplitEnds(text, sep, at) /\ SplitFinds(text, sep, at)
    <3>1. PICK u : u = BehindSep(sep, at)
      OBVIOUS
    <3>2. u \in SplitState(text) /\ u.j > at.j
      BY <2>1, <2>5, <3>1, SplitMoves
    <3>3. u.j = at.j + Len(sep) /\ u.start = at.j + Len(sep) /\ u.n = at.n + 1 /\ u.slots = Room(at)
      BY <3>1 DEF BehindSep
    <3>4. SplitReached(text, sep, u)
      BY <2>2, <2>3, <3>2, <3>3 DEF SplitReached
    <3>5. Good1(u)
      BY <1>1, <3>2, <3>4
    <3>6. PICK rest : rest = SplitScan(text, sep)[u]
      OBVIOUS
    <3>7. SplitGood(text, sep, at.j + Len(sep), rest)
      BY <3>3, <3>5, <3>6
    <3>8. SplitScan(text, sep)[at] = <<NextSlot(text, at)>> \o rest
      BY <2>1, <2>5, <3>1, <3>6, SplitStep
    <3> QED BY <1>1, <2>5, <3>7, <3>8, SplitNext
  <2>6. CASE ~SplitEnds(text, sep, at) /\ ~SplitFinds(text, sep, at)
    <3>1. PICK u : u = BehindByte(at)
      OBVIOUS
    <3>2. u \in SplitState(text) /\ u.j > at.j
      BY <2>1, <2>6, <3>1, SplitMoves
    <3>3. u.j = at.j + 1 /\ u.start = at.start /\ u.n = at.n /\ u.slots = Room(at)
      BY <3>1 DEF BehindByte
    <3>4. ~SepAt(text, sep, at.j)
      <4>1. Len(text) \in Nat
        BY LenProperties
      <4> QED BY <2>2, <2>6, <4>1 DEF SplitEnds, SplitFinds, SepAt
    <3>5. \A k \in u.start..(u.j - 1) : ~SepAt(text, sep, k)
      <4> SUFFICES ASSUME NEW k \in u.start..(u.j - 1) PROVE ~SepAt(text, sep, k)
        OBVIOUS
      <4>1. k = at.j \/ k \in at.start..(at.j - 1)
        BY <2>2, <3>3
      <4> QED BY <1>1, <3>4, <4>1 DEF SplitReached
    <3>6. SplitReached(text, sep, u)
      <4>1. at.n < Room(at) /\ Room(at) \in Nat
        BY <2>1, <2>2, <2>3, SplitTypes
      <4>2. u.start <= u.j /\ u.n < u.slots
        BY <2>2, <3>3, <4>1
      <4> QED BY <3>2, <3>5, <4>2 DEF SplitReached
    <3>7. Good1(u)
      BY <1>1, <3>2, <3>6
    <3>8. SplitScan(text, sep)[at] = SplitScan(text, sep)[u]
      BY <2>1, <2>6, <3>1, SplitStep
    <3> QED BY <3>3, <3>7, <3>8
  <2> QED BY <2>4, <2>5, <2>6
<1> HIDE DEF Good1
<1>2. \A at : SplitReached(text, sep, at) => at.j \in Nat /\ Left(at) \in Nat /\ Len(text) \in Nat
  BY SplitTypes DEF SplitReached
<1>3. ASSUME Bad # {} PROVE FALSE
  <2>1. PICK k \in Bad : \A i \in Bad : k <= i
    <3>1. PICK B : B = Bad
      OBVIOUS
    <3>2. B \subseteq Nat /\ B # {}
      BY <1>3, <3>1
    <3>3. \E k \in B : \A i \in B : k <= i
      BY ONLY <3>2, Least
    <3> QED BY <3>1, <3>3
  <2>2. PICK at : SplitReached(text, sep, at) /\ Left(at) = k /\ ~Good1(at)
    OBVIOUS
  <2>3. ASSUME NEW u, SplitReached(text, sep, u), u.j > at.j PROVE Good1(u)
    <3>1. Left(u) \in Nat /\ Left(u) < k
      BY <1>2, <2>2, <2>3
    <3>2. Left(u) \notin Bad
      <4>1. PICK l : l = Left(u)
        OBVIOUS
      <4>2. l \in Nat /\ l < k /\ k \in Nat
        BY <3>1, <4>1
      <4>3. l \notin Bad
        <5> HIDE DEF Bad
        <5> QED BY <2>1, <4>2
      <4> QED BY <4>1, <4>3
    <3> HIDE DEF Left
    <3> QED BY <2>3, <3>1, <3>2
  <2> QED BY <1>1, <2>2, <2>3
<1>4. Good1(first)
  BY <1>2, <1>3
<1> QED BY <1>4 DEF Good1

\* The whole text.
LEMMA SplitText ==
  ASSUME NEW text \in Seq(Byte), NEW sep \in Seq(Byte), sep # <<>>
  PROVE  LET split == sdssplitlen(text, sep)
         IN  /\ split \in Seq(Slot)
             /\ sdsjoinsds([i \in DOMAIN split |-> split[i].token], sep) = text
             /\ \A i \in 1..Len(split) : split[i].fits /\ Free(split[i].token, sep)
<1>1. PICK r : r = sdssplitlen(text, sep)
  OBVIOUS
<1>2. CASE text = <<>>
  <2>1. r = <<>>
    BY <1>1, <1>2, SplitOf
  <2>2. r \in Seq(Slot) /\ Len(r) = 0
    BY <2>1
  <2>3. PICK w : w = Pieces(r, sep)
    OBVIOUS
  <2>4. w \in Seq(Seq(Byte)) /\ Len(w) = 0 /\ sdsjoinsds([i \in DOMAIN r |-> r[i].token], sep) = FlattenSeq(w)
    BY <2>2, <2>3, PiecesIs
  <2>5. FlattenSeq(w) = <<>>
    BY <2>4, FlatIs
  <2> QED BY <1>1, <1>2, <2>2, <2>4, <2>5
<1>3. CASE text # <<>>
  <2>1. PICK first : first = [j |-> 0, start |-> 0, n |-> 0, slots |-> 5]
    OBVIOUS
  <2>2. r = SplitScan(text, sep)[first]
    BY <1>1, <1>3, <2>1, SplitOf
  <2>3. first.j = 0 /\ first.start = 0 /\ first.n = 0 /\ first.slots = 5 /\ first \in SplitState(text)
    BY <2>1, LenProperties DEF SplitState
  <2>4. SplitReached(text, sep, first)
    BY <2>3 DEF SplitReached
  <2>5. SplitGood(text, sep, 0, r)
    BY <2>2, <2>3, <2>4, Splits
  <2>6. r \in Seq(Slot) /\ FlattenSeq(Pieces(r, sep)) = SubSeq(text, 0 + 1, Len(text))
        /\ \A i \in 1..Len(r) : r[i].fits /\ Free(r[i].token, sep)
    BY <2>5 DEF SplitGood
  <2>7. SubSeq(text, 0 + 1, Len(text)) = text
    <3>1. 0 + 1 = 1
      OBVIOUS
    <3> QED BY <3>1, SubSeqFull
  <2>8. sdsjoinsds([i \in DOMAIN r |-> r[i].token], sep) = FlattenSeq(Pieces(r, sep))
    BY <2>6, PiecesIs
  <2> QED BY <1>1, <2>6, <2>7, <2>8
<1> QED BY <1>2, <1>3

\* sdsjoinsds undoes sdssplitlen, no token has the separator in it, and every token
\* is written inside the array.
THEOREM SplitIsUndone == Spec => []SplitSound
<1>1. SdsInv => SplitSound
  <2> SUFFICES ASSUME SdsInv, NEW sep \in Text \ {<<>>}
               PROVE  LET text == Content(s) \o Content(s) \o Content(s)
                          split == sdssplitlen(text, sep)
                          tokens == [i \in DOMAIN split |-> split[i].token]
                      IN  /\ sdsjoinsds(tokens, sep) = text
                          /\ \A i \in DOMAIN tokens : \A j \in 0..(Len(tokens[i]) - Len(sep)) :
                               SubSeq(tokens[i], j + 1, j + Len(sep)) # sep
                          /\ \A i \in DOMAIN split : split[i].fits
    BY DEF SplitSound
  <2>1. PICK c \in Seq(Byte) : c = Content(s)
    BY InvIs, ContentIs
  <2>2. PICK text \in Seq(Byte) : text = c \o c \o c
    <3>1. c \o c \in Seq(Byte)
      BY ConcatProperties
    <3> QED BY <3>1, ConcatProperties
  <2>3. sep \in Seq(Byte) /\ sep # <<>>
    BY SdsAssumption
  <2>4. PICK split : split = sdssplitlen(text, sep)
    OBVIOUS
  <2>5. /\ split \in Seq(Slot)
        /\ sdsjoinsds([i \in DOMAIN split |-> split[i].token], sep) = text
        /\ \A i \in 1..Len(split) : split[i].fits /\ Free(split[i].token, sep)
    BY <2>3, <2>4, SplitText
  <2>6. DOMAIN split = 1..Len(split)
    BY <2>5, LenProperties
  <2> QED BY <2>1, <2>2, <2>4, <2>5, <2>6 DEF Free
<1> QED BY InitInv, NextInv, <1>1, PTL DEF Spec
=============================================================================
