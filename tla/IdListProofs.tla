---------------------------- MODULE IdListProofs ----------------------------
(***************************************************************************)
(* Facts about the id lists: what getNextID and handle_delete do to a list *)
(* that is in order, for lists of any length.                              *)
(***************************************************************************)
EXTENDS IdList, SequenceTheorems, WellFoundedInduction, TLAPS

Positive == Nat \ {0}

(* The least element of a set of positions.                                *)
LEMMA MinExists ==
  ASSUME NEW T, T \subseteq Nat, T # {}
  PROVE  Min(T) \in T /\ \A y \in T : Min(T) <= y
<1> DEFINE R == {ss \in Nat \X Nat : ss[1] < ss[2]}
<1>1. IsWellFoundedOn(R, Nat)
  BY NatLessThanWellFounded, Zenon DEF OpToRel
<1>2. PICK x \in T : \A y \in T : ~(<<y, x>> \in R)
  <2> HIDE DEF R
  <2> QED BY <1>1, WFMin
<1>3. ASSUME NEW y \in T PROVE x <= y
  <2>1. y \in Nat /\ x \in Nat
    OBVIOUS
  <2>2. y < x => <<y, x>> \in R
    BY <2>1
  <2>3. ~(y < x)
    BY <1>2, <2>2
  <2> QED BY <2>1, <2>3
<1> QED BY <1>3 DEF Min

(* The greatest element of a set of positions with an upper bound.         *)
LEMMA MaxExists ==
  ASSUME NEW n \in Nat, NEW T, T \subseteq 0..n, T # {}
  PROVE  Max(T) \in T /\ \A y \in T : y <= Max(T)
<1> DEFINE D == {n - y : y \in T}
<1>1. D \subseteq Nat /\ D # {}
  <2>1. ASSUME NEW y \in T PROVE n - y \in Nat
    <3>1. y \in 0..n
      OBVIOUS
    <3> QED BY <3>1
  <2> QED BY <2>1
<1>2. Min(D) \in D /\ \A d \in D : Min(D) <= d
  <2> HIDE DEF D
  <2> QED BY <1>1, MinExists
<1>3. PICK x \in T : Min(D) = n - x
  BY <1>2
<1>4. ASSUME NEW y \in T PROVE x >= y
  <2>1. n - y \in D
    OBVIOUS
  <2>2. n - x <= n - y
    BY <1>2, <1>3, <2>1
  <2>3. x \in 0..n /\ y \in 0..n
    OBVIOUS
  <2> QED BY <2>2, <2>3
<1> HIDE DEF D
<1>5. Max(T) \in T /\ \A y \in T : Max(T) >= y
  BY <1>4 DEF Max
<1> QED BY <1>5

(* Induction over the numbers up to n, for a set of them.                  *)
LEMMA UptoInduction ==
  ASSUME NEW n \in Nat, NEW T, 0 \in T, \A m \in 0..(n - 1) : m \in T => m + 1 \in T
  PROVE  \A m \in 0..n : m \in T
<1> DEFINE B == {m \in 0..n : m \notin T}
<1> SUFFICES ASSUME B # {} PROVE FALSE
  OBVIOUS
<1>1. B \subseteq Nat
  OBVIOUS
<1>2. Min(B) \in B /\ \A y \in B : Min(B) <= y
  <2> HIDE DEF B
  <2> QED BY <1>1, MinExists
<1>3. PICK m \in B : \A y \in B : m <= y
  BY <1>2
<1>4. m \in 0..n /\ m # 0 /\ m \notin T
  BY <1>3
<1>5. m - 1 \in 0..(n - 1) /\ m - 1 \in 0..n /\ ~(m <= m - 1) /\ (m - 1) + 1 = m
  BY <1>4
<1>6. m - 1 \in T
  BY <1>3, <1>5
<1> QED BY <1>4, <1>5, <1>6

(* f goes from base to f[n] in n steps.                                    *)
Recursion(S, n, base, step, f) ==
  /\ f \in [0..n -> S]
  /\ f[0] = base /\ \A i \in 1..n : f[i] = step[<<i, f[i - 1]>>]

(* A recursion over the numbers up to n has a solution.                    *)
LEMMA RecursionExists ==
  ASSUME NEW S, NEW n \in Nat, NEW base \in S, NEW step \in [(1..n) \X S -> S]
  PROVE  \E f : Recursion(S, n, base, step, f)
<1> DEFINE Sol(f, m) == /\ f \in [0..m -> S] /\ f[0] = base
                        /\ \A i \in 1..m : f[i] = step[<<i, f[i - 1]>>]
           T == {m \in 0..n : \E f : Sol(f, m)}
<1>1. 0 \in T
  <2> DEFINE f == [i \in 0..0 |-> base]
  <2>1. Sol(f, 0)
    OBVIOUS
  <2> HIDE DEF Sol
  <2> QED BY <2>1
<1>2. ASSUME NEW m \in 0..(n - 1), m \in T PROVE m + 1 \in T
  <2>1. PICK f : Sol(f, m)
    BY <1>2
  <2> DEFINE v == step[<<m + 1, f[m]>>]
             g == [i \in 0..(m + 1) |-> IF i = m + 1 THEN v ELSE f[i]]
  <2>2. m \in Nat /\ m + 1 \in 1..n /\ m + 1 \in 0..n
    OBVIOUS
  <2>3. f[m] \in S /\ v \in S
    BY <2>1, <2>2
  <2>4. \A i \in 0..(m + 1) : i = m + 1 \/ i \in 0..m
    BY <2>2
  <2> HIDE DEF v
  <2>5. g \in [0..(m + 1) -> S]
    BY <2>1, <2>3, <2>4
  <2>6. g[m + 1] = v /\ \A i \in 0..m : g[i] = f[i]
    BY <2>2
  <2> HIDE DEF g
  <2>7. g[0] = base
    BY <2>1, <2>2, <2>6
  <2>8. ASSUME NEW i \in 1..(m + 1) PROVE g[i] = step[<<i, g[i - 1]>>]
    <3>1. i - 1 \in 0..m /\ g[i - 1] = f[i - 1]
      BY <2>2, <2>6
    <3>2. CASE i = m + 1
      BY <2>2, <2>6, <3>1, <3>2 DEF v
    <3>3. CASE i # m + 1
      <4>1. i \in 1..m /\ i \in 0..m
        BY <2>2, <3>3
      <4> QED BY <2>1, <2>6, <3>1, <4>1
    <3> QED BY <3>2, <3>3
  <2>9. Sol(g, m + 1)
    BY <2>5, <2>7, <2>8
  <2> HIDE DEF Sol
  <2> QED BY <2>2, <2>9
<1>3. n \in T
  <2>1. n \in 0..n
    OBVIOUS
  <2> HIDE DEF T
  <2> QED BY <1>1, <1>2, <2>1, UptoInduction
<1> QED BY <1>3 DEF Recursion

(* f is found from its last value to its first: step looks no further back *)
(* than the value it gives.                                                *)
Backward(S, n, step, f) ==
  f \in [1..n -> S] /\ \A a \in 1..n : f[a] = step[<<a, f>>]

SameBehind(n, a, f, g) == \A b \in (a + 1)..n : f[b] = g[b]

LEMMA BackwardExists ==
  ASSUME NEW S, NEW n \in Nat, NEW x \in S,
         NEW step \in [(1..n) \X [1..n -> S] -> S],
         \A a \in 1..n : \A f, g \in [1..n -> S] :
           SameBehind(n, a, f, g) => step[<<a, f>>] = step[<<a, g>>]
  PROVE  \E f : Backward(S, n, step, f)
<1> DEFINE Sol(f, m) == /\ f \in [1..n -> S]
                        /\ \A a \in (n - m + 1)..n : f[a] = step[<<a, f>>]
           T == {m \in 0..n : \E f : Sol(f, m)}
<1>1. 0 \in T
  <2>1. (n - 0 + 1)..n = {} /\ 0 \in 0..n
    OBVIOUS
  <2>2. Sol([a \in 1..n |-> x], 0)
    BY <2>1
  <2> HIDE DEF Sol
  <2> QED BY <2>1, <2>2
<1>2. ASSUME NEW m \in 0..(n - 1), m \in T PROVE m + 1 \in T
  <2>1. PICK f : Sol(f, m)
    BY <1>2
  <2>2. PICK k \in 1..n : k = n - m
    <3>1. n - m \in 1..n
      OBVIOUS
    <3> QED BY <3>1
  <2> DEFINE v == step[<<k, f>>]
             g == [f EXCEPT ![k] = v]
  <2>3. v \in S
    BY <2>1
  <2> HIDE DEF v
  <2>4. g \in [1..n -> S] /\ g[k] = v /\ \A a \in 1..n : a # k => g[a] = f[a]
    BY <2>1, <2>3
  <2> HIDE DEF g
  <2>5. ASSUME NEW a \in (n - (m + 1) + 1)..n PROVE g[a] = step[<<a, g>>]
    <3>1. a \in k..n /\ a \in 1..n
      BY <2>2
    <3>2. SameBehind(n, a, f, g)
      <4>1. \A b \in (a + 1)..n : b \in 1..n /\ b # k
        BY <3>1
      <4> QED BY <2>4, <4>1 DEF SameBehind
    <3>3. step[<<a, f>>] = step[<<a, g>>]
      BY <2>1, <2>4, <3>1, <3>2
    <3>4. CASE a = k
      BY <2>4, <3>3, <3>4 DEF v
    <3>5. CASE a # k
      <4>1. a \in (n - m + 1)..n
        BY <2>2, <3>1, <3>5
      <4> QED BY <2>1, <2>4, <3>1, <3>3, <3>5, <4>1
    <3> QED BY <3>4, <3>5
  <2>6. Sol(g, m + 1)
    BY <2>4, <2>5
  <2>7. m + 1 \in 0..n
    OBVIOUS
  <2> HIDE DEF Sol
  <2> QED BY <2>6, <2>7
<1>3. n \in T
  <2>1. n \in 0..n
    OBVIOUS
  <2> HIDE DEF T
  <2> QED BY <1>1, <1>2, <2>1, UptoInduction
<1>4. PICK f : Sol(f, n)
  BY <1>3
<1>5. n - n + 1 = 1
  OBVIOUS
<1> QED BY <1>4, <1>5 DEF Backward

(* Induction from n down, for a set of numbers.                            *)
LEMMA DownInduction ==
  ASSUME NEW n \in Nat, NEW T,
         \A m \in 1..n : (\A k \in (m + 1)..n : k \in T) => m \in T
  PROVE  \A m \in 1..n : m \in T
<1> DEFINE B == {m \in 1..n : m \notin T}
<1> SUFFICES ASSUME B # {} PROVE FALSE
  OBVIOUS
<1>1. B \subseteq 0..n
  OBVIOUS
<1>2. Max(B) \in B /\ \A y \in B : y <= Max(B)
  <2> HIDE DEF B
  <2> QED BY <1>1, MaxExists
<1>3. PICK m \in B : \A y \in B : y <= m
  BY <1>2
<1>4. ASSUME NEW k \in (m + 1)..n PROVE k \in T
  <2>1. k \in 1..n /\ ~(k <= m)
    BY <1>3
  <2> QED BY <1>3, <2>1
<1> QED BY <1>3, <1>4

-----------------------------------------------------------------------------
(* vector::insert and vector::erase.                                       *)

LEMMA InsertAtProperties ==
  ASSUME NEW S, NEW s \in Seq(S), NEW x \in S, NEW k \in 1..(Len(s) + 1)
  PROVE  /\ InsertAt(s, k, x) \in Seq(S)
         /\ Len(InsertAt(s, k, x)) = Len(s) + 1
         /\ \A i \in 1..(Len(s) + 1) :
              InsertAt(s, k, x)[i] =
                IF i < k THEN s[i] ELSE IF i = k THEN x ELSE s[i - 1]
<1> DEFINE front == SubSeq(s, 1, k - 1)
           back == SubSeq(s, k, Len(s))
<1>1. Len(s) \in Nat /\ k \in Nat /\ \A i \in 1..Len(s) : s[i] \in S
  OBVIOUS
<1>2. /\ front \in Seq(S) /\ Len(front) = k - 1
      /\ \A i \in 1..(k - 1) : front[i] = s[i]
  BY <1>1, SubSeqProperties
<1>3. /\ back \in Seq(S) /\ Len(back) = Len(s) - k + 1
      /\ \A i \in 1..(Len(s) - k + 1) : back[i] = s[k + i - 1]
  BY <1>1, SubSeqProperties
<1> DEFINE mid == <<x>>
<1>4. mid \in Seq(S) /\ Len(mid) = 1 /\ mid[1] = x
  OBVIOUS
<1>5. InsertAt(s, k, x) = (front \o mid) \o back
  BY DEF InsertAt
<1> HIDE DEF front, back, mid
<1>6. /\ front \o mid \in Seq(S)
      /\ Len(front \o mid) = Len(front) + Len(mid)
      /\ \A i \in 1..(Len(front) + Len(mid)) :
           (front \o mid)[i] =
             IF i <= Len(front) THEN front[i] ELSE mid[i - Len(front)]
  BY <1>2, <1>4, ConcatProperties
<1> DEFINE fm == front \o mid
<1> HIDE DEF fm
<1>7. /\ fm \in Seq(S) /\ Len(fm) = k
      /\ \A i \in 1..k : fm[i] = IF i < k THEN s[i] ELSE x
  <2>1. Len(front) + Len(mid) = k
    BY <1>1, <1>2, <1>4
  <2>2. ASSUME NEW i \in 1..k PROVE fm[i] = IF i < k THEN s[i] ELSE x
    <3>1. CASE i < k
      BY <1>1, <1>2, <1>6, <2>1, <3>1 DEF fm
    <3>2. CASE i = k
      BY <1>1, <1>2, <1>4, <1>6, <2>1, <3>2 DEF fm
    <3>3. i < k \/ i = k
      BY <1>1
    <3> QED BY <3>1, <3>2, <3>3
  <2> QED BY <1>6, <2>1, <2>2 DEF fm
<1>8. /\ fm \o back \in Seq(S)
      /\ Len(fm \o back) = Len(fm) + Len(back)
      /\ \A i \in 1..(Len(fm) + Len(back)) :
           (fm \o back)[i] = IF i <= Len(fm) THEN fm[i] ELSE back[i - Len(fm)]
  BY <1>3, <1>7, ConcatProperties
<1>9. Len(fm) + Len(back) = Len(s) + 1
  BY <1>1, <1>3, <1>7
<1>10. ASSUME NEW i \in 1..(Len(s) + 1)
       PROVE  (fm \o back)[i] =
                IF i < k THEN s[i] ELSE IF i = k THEN x ELSE s[i - 1]
  <2>1. CASE i <= k
    BY <1>1, <1>7, <1>8, <1>9, <2>1
  <2>2. CASE i > k
    <3>1. i - k \in 1..(Len(s) - k + 1) /\ k + (i - k) - 1 = i - 1
      BY <1>1, <2>2
    <3>2. back[i - k] = s[i - 1]
      BY <1>3, <3>1
    <3> QED BY <1>1, <1>7, <1>8, <1>9, <2>2, <3>2
  <2>3. i <= k \/ i > k
    BY <1>1
  <2> QED BY <2>1, <2>2, <2>3
<1> QED BY <1>5, <1>8, <1>9, <1>10 DEF fm

LEMMA RemoveAtProperties ==
  ASSUME NEW S, NEW s \in Seq(S), NEW k \in 1..Len(s)
  PROVE  /\ RemoveAt(s, k) \in Seq(S)
         /\ Len(RemoveAt(s, k)) = Len(s) - 1
         /\ \A i \in 1..(Len(s) - 1) :
              RemoveAt(s, k)[i] = IF i < k THEN s[i] ELSE s[i + 1]
<1> DEFINE front == SubSeq(s, 1, k - 1)
           back == SubSeq(s, k + 1, Len(s))
<1>1. Len(s) \in Nat /\ k \in Nat /\ \A i \in 1..Len(s) : s[i] \in S
  OBVIOUS
<1>2. /\ front \in Seq(S) /\ Len(front) = k - 1
      /\ \A i \in 1..(k - 1) : front[i] = s[i]
  BY <1>1, SubSeqProperties
<1>3. /\ back \in Seq(S) /\ Len(back) = Len(s) - k
      /\ \A i \in 1..(Len(s) - k) : back[i] = s[k + i]
  <2>1. k + 1 \in Int /\ Len(s) \in Int /\ \A i \in (k + 1)..Len(s) : s[i] \in S
    BY <1>1
  <2>2. /\ back \in Seq(S)
        /\ Len(back) = IF k + 1 <= Len(s) THEN Len(s) - (k + 1) + 1 ELSE 0
        /\ \A i \in 1..(Len(s) - (k + 1) + 1) : back[i] = s[(k + 1) + i - 1]
    BY <2>1, SubSeqProperties
  <2> HIDE DEF back
  <2>3. Len(s) - (k + 1) + 1 = Len(s) - k
    BY <1>1
  <2>4. \A i \in 1..(Len(s) - k) : (k + 1) + i - 1 = k + i
    BY <1>1
  <2>5. Len(back) = Len(s) - k
    BY <1>1, <2>2
  <2>6. \A i \in 1..(Len(s) - k) : back[i] = s[k + i]
    BY <2>2, <2>3, <2>4
  <2> QED BY <2>2, <2>5, <2>6
<1>4. RemoveAt(s, k) = front \o back
  BY DEF RemoveAt
<1> HIDE DEF front, back
<1>5. /\ front \o back \in Seq(S)
      /\ Len(front \o back) = Len(front) + Len(back)
      /\ \A i \in 1..(Len(front) + Len(back)) :
           (front \o back)[i] =
             IF i <= Len(front) THEN front[i] ELSE back[i - Len(front)]
  BY <1>2, <1>3, ConcatProperties
<1>6. Len(front) + Len(back) = Len(s) - 1
  BY <1>1, <1>2, <1>3
<1>7. ASSUME NEW i \in 1..(Len(s) - 1)
      PROVE  (front \o back)[i] = IF i < k THEN s[i] ELSE s[i + 1]
  <2>1. CASE i < k
    BY <1>1, <1>2, <1>5, <1>6, <2>1
  <2>2. CASE i >= k
    <3>1. i - (k - 1) \in 1..(Len(s) - k) /\ k + (i - (k - 1)) = i + 1
      BY <1>1, <2>2
    <3>2. back[i - (k - 1)] = s[i + 1]
      BY <1>3, <3>1
    <3> QED BY <1>1, <1>2, <1>5, <1>6, <2>2, <3>2
  <2>3. i < k \/ i >= k
    BY <1>1
  <2> QED BY <2>1, <2>2, <2>3
<1> QED BY <1>4, <1>5, <1>6, <1>7

-----------------------------------------------------------------------------
(* The first run of consecutive ids: it ends at the end of the list or     *)
(* before a gap, and unless it is a single id, it got there by a step of   *)
(* one.                                                                    *)
LEMMA RunLengthProperties ==
  ASSUME NEW s \in Seq(Positive), Len(s) > 0
  PROVE  /\ RunLength(s) \in 1..Len(s)
         /\ RunLength(s) = Len(s) \/ s[RunLength(s) + 1] # s[RunLength(s)] + 1
         /\ RunLength(s) > 1 => s[RunLength(s)] = s[RunLength(s) - 1] + 1
<1> DEFINE T == {i \in 1..Len(s) : i = Len(s) \/ s[i + 1] # s[i] + 1}
           k == RunLength(s)
<1>1. Len(s) \in Nat /\ Len(s) \in T /\ T \subseteq Nat
  OBVIOUS
<1>2. k \in T /\ \A y \in T : k <= y
  <2>1. k = Min(T)
    BY DEF RunLength
  <2> HIDE DEF T, k
  <2> QED BY <1>1, <2>1, MinExists
<1>3. k > 1 => s[k] = s[k - 1] + 1
  <2> SUFFICES ASSUME k > 1 PROVE s[k] = s[k - 1] + 1
    OBVIOUS
  <2>1. k - 1 \notin T /\ k - 1 \in 1..Len(s) /\ (k - 1) + 1 = k
    <3> HIDE DEF k
    <3>1. k \in 1..Len(s) /\ k \in Int
      BY <1>1, <1>2
    <3>2. ~(k <= k - 1)
      BY <3>1
    <3>3. k - 1 \notin T
      <4> HIDE DEF T
      <4> QED BY <1>2, <3>2
    <3> QED BY <1>1, <3>1, <3>3
  <2> HIDE DEF k
  <2>2. s[(k - 1) + 1] = s[k - 1] + 1
    BY <2>1
  <2> QED BY <2>1, <2>2
<1> QED BY <1>2, <1>3

LEMMA ZeroOneMore == \A n \in Nat : n = 0 \/ n = 1 \/ n > 1
OBVIOUS

(* Behind the first run of a list in order the next number is free.        *)
LEMMA NextIdFree ==
  ASSUME NEW s \in Seq(Positive), InOrder(s)
  PROVE  /\ NextId(s) \in Positive
         /\ \A j \in 1..Len(s) : s[j] # NextId(s)
<1>0. Len(s) \in Nat /\ \A j \in 1..Len(s) : s[j] \in Nat /\ s[j] > 0
  BY DEF Positive
<1>1. CASE Len(s) = 0
  BY <1>1 DEF NextId, Positive
<1>2. CASE Len(s) = 1
  BY <1>0, <1>2 DEF NextId, Positive
<1>3. CASE Len(s) > 1
  <2> DEFINE k == RunLength(s)
  <2>1. /\ k \in 1..Len(s)
        /\ k = Len(s) \/ s[k + 1] # s[k] + 1
        /\ k > 1 => s[k] = s[k - 1] + 1
    BY <1>3, RunLengthProperties
  <2>2. NextId(s) = s[k] + 1
    BY <1>0, <1>3 DEF NextId
  <2> HIDE DEF k
  <2>3. ASSUME NEW j \in 1..Len(s), s[j] = s[k] + 1 PROVE FALSE
    <3>1. CASE j < k
      <4>1. s[j] < s[k] \/ (k = Len(s) /\ s[k] = 1)
        BY <2>1, <3>1 DEF InOrder
      <4>2. k > 1 /\ k - 1 \in 1..Len(s)
        BY <1>0, <2>1, <3>1
      <4> QED BY <1>0, <2>1, <2>3, <4>1, <4>2
    <3>2. CASE j = k
      BY <1>0, <2>1, <2>3, <3>2
    <3>3. CASE j > k
      <4>1. k + 1 \in 1..Len(s) /\ k < k + 1
        BY <1>0, <2>1, <3>3
      <4>2. s[k] < s[j] \/ s[j] = 1
        BY <2>1, <3>3 DEF InOrder
      <4>3. j # k + 1
        BY <1>0, <2>1, <2>3, <4>1
      <4>4. k + 1 < j
        BY <1>0, <2>1, <3>3, <4>3
      <4>5. s[k + 1] < s[j] \/ s[j] = 1
        BY <4>1, <4>4 DEF InOrder
      <4>6. s[k] < s[k + 1] \/ (k + 1 = Len(s))
        BY <2>1, <4>1 DEF InOrder
      <4> QED BY <1>0, <2>1, <2>3, <4>1, <4>2, <4>4, <4>5, <4>6
    <3>4. j < k \/ j = k \/ j > k
      BY <1>0, <2>1
    <3> QED BY <3>1, <3>2, <3>3, <3>4
  <2> QED BY <1>0, <2>1, <2>2, <2>3 DEF Positive
<1>4. Len(s) = 0 \/ Len(s) = 1 \/ Len(s) > 1
  BY <1>0, ZeroOneMore
<1> QED BY <1>1, <1>2, <1>3, <1>4

-----------------------------------------------------------------------------
(* Types, for lists in any order.                                          *)

LEMMA ToSetSeq ==
  ASSUME NEW S, NEW s \in Seq(S)
  PROVE  /\ ToSet(s) = {s[i] : i \in 1..Len(s)}
         /\ ToSet(s) \subseteq S
BY DEF ToSet

LEMMA ConsProperties ==
  ASSUME NEW S, NEW s \in Seq(S), NEW x \in S
  PROVE  /\ <<x>> \o s \in Seq(S)
         /\ Len(<<x>> \o s) = Len(s) + 1
         /\ \A i \in 1..(Len(s) + 1) :
              (<<x>> \o s)[i] = IF i = 1 THEN x ELSE s[i - 1]
<1> DEFINE h == <<x>>
<1>1. h \in Seq(S) /\ Len(h) = 1 /\ h[1] = x /\ Len(s) \in Nat
  OBVIOUS
<1> HIDE DEF h
<1>2. /\ h \o s \in Seq(S) /\ Len(h \o s) = Len(h) + Len(s)
      /\ \A i \in 1..(Len(h) + Len(s)) :
           (h \o s)[i] = IF i <= Len(h) THEN h[i] ELSE s[i - Len(h)]
  BY <1>1, ConcatProperties
<1>3. ASSUME NEW i \in 1..(Len(s) + 1)
      PROVE  (h \o s)[i] = IF i = 1 THEN x ELSE s[i - 1]
  <2>1. CASE i = 1
    BY <1>1, <1>2, <2>1
  <2>2. CASE i # 1
    BY <1>1, <1>2, <2>2
  <2> QED BY <2>1, <2>2
<1>4. Len(h) + Len(s) = Len(s) + 1
  BY <1>1
<1> QED BY <1>2, <1>3, <1>4 DEF h

LEMMA ScanInsertType ==
  ASSUME NEW S, S \subseteq Positive, NEW s \in Seq(S), NEW x \in S
  PROVE  ScanInsert(s, x) \in Seq(S)
<1>1. <<x>> \o s \in Seq(S) /\ Append(s, x) \in Seq(S)
  BY ConsProperties
<1>2. CASE Len(s) >= 2
  <2>1. s \in Seq(Positive) /\ Len(s) \in Nat
    BY SeqMonotonic
  <2>2. RunLength(s) + 1 \in 1..(Len(s) + 1)
    BY <1>2, <2>1, RunLengthProperties
  <2>3. InsertAt(s, RunLength(s) + 1, x) \in Seq(S)
    BY <2>2, InsertAtProperties
  <2> QED BY <1>1, <2>3 DEF ScanInsert
<1>3. CASE ~(Len(s) >= 2)
  <2>1. Len(s) < 2
    BY <1>3
  <2> QED BY <1>1, <2>1 DEF ScanInsert
<1> QED BY <1>2, <1>3

LEMMA TakeIdType ==
  ASSUME NEW S, S \subseteq Positive, NEW s \in Seq(S), NextId(s) \in S
  PROVE  TakeId(s) \in Seq(S)
<1>1. <<NextId(s)>> \o s \in Seq(S)
  BY ConsProperties
<1>2. CASE Len(s) >= 2
  <2>1. s \in Seq(Positive) /\ Len(s) \in Nat
    BY SeqMonotonic
  <2>2. RunLength(s) + 1 \in 1..(Len(s) + 1)
    BY <1>2, <2>1, RunLengthProperties
  <2>3. InsertAt(s, RunLength(s) + 1, NextId(s)) \in Seq(S)
    BY <2>2, InsertAtProperties
  <2> QED BY <1>1, <2>3 DEF TakeId
<1>3. CASE ~(Len(s) >= 2)
  <2>1. Len(s) < 2
    BY <1>3
  <2> QED BY <1>1, <2>1 DEF TakeId
<1> QED BY <1>2, <1>3

LEMMA NextIdType ==
  ASSUME NEW s \in Seq(Positive)
  PROVE  NextId(s) \in Positive
<1>1. CASE Len(s) >= 2
  <2>1. RunLength(s) \in 1..Len(s)
    BY <1>1, RunLengthProperties
  <2>2. s[RunLength(s)] \in Positive
    BY <2>1, ElementOfSeq
  <2> QED BY <1>1, <2>2 DEF NextId, Positive
<1>2. CASE ~(Len(s) >= 2)
  <2>1. Len(s) \in Nat /\ (Len(s) > 1 => Len(s) >= 2)
    OBVIOUS
  <2>2. Len(s) = 0 \/ Len(s) = 1
    BY <1>2, <2>1, ZeroOneMore
  <2> QED BY <2>2 DEF NextId, Positive
<1> QED BY <1>1, <1>2

LEMMA EraseIdType ==
  ASSUME NEW S, NEW s \in Seq(S), NEW x
  PROVE  EraseId(s, x) \in Seq(S)
<1> DEFINE I == {i \in 1..Len(s) : s[i] = x}
<1>1. CASE I # {}
  <2>1. Min(I) \in I
    <3>1. I \subseteq Nat
      OBVIOUS
    <3> HIDE DEF I
    <3> QED BY <1>1, <3>1, MinExists
  <2>2. EraseId(s, x) = RemoveAt(s, Min(I))
    BY <1>1 DEF EraseId, RemoveFirst, SelectInSeq
  <2> HIDE DEF I
  <2>3. Min(I) \in 1..Len(s)
    BY <2>1 DEF I
  <2> QED BY <2>2, <2>3, RemoveAtProperties
<1>2. CASE I = {}
  BY <1>2 DEF EraseId, RemoveFirst
<1> QED BY <1>1, <1>2

-----------------------------------------------------------------------------
(* What the lists hold, in any order.                                      *)

LEMMA InsertElements ==
  ASSUME NEW S, NEW s \in Seq(S), NEW x \in S, NEW k \in 1..(Len(s) + 1)
  PROVE  ToSet(InsertAt(s, k, x)) = ToSet(s) \cup {x}
<1> DEFINE r == InsertAt(s, k, x)
<1>1. /\ r \in Seq(S) /\ Len(r) = Len(s) + 1 /\ Len(s) \in Nat /\ k \in Nat
      /\ \A i \in 1..(Len(s) + 1) :
           r[i] = IF i < k THEN s[i] ELSE IF i = k THEN x ELSE s[i - 1]
  BY InsertAtProperties
<1> HIDE DEF r
<1>2. ASSUME NEW i \in 1..Len(r) PROVE r[i] \in ToSet(s) \cup {x}
  <2>0. i \in Nat /\ i \in 1..(Len(s) + 1)
    BY <1>1
  <2>1. CASE i < k
    <3>1. i \in 1..Len(s) /\ r[i] = s[i]
      BY <1>1, <2>0, <2>1
    <3> QED BY <3>1, ToSetSeq
  <2>2. CASE i = k
    BY <1>1, <2>0, <2>2
  <2>3. CASE i > k
    <3>1. i - 1 \in 1..Len(s) /\ r[i] = s[i - 1]
      BY <1>1, <2>0, <2>3
    <3> QED BY <3>1, ToSetSeq
  <2> QED BY <1>1, <2>0, <2>1, <2>2, <2>3
<1>3. ASSUME NEW j \in 1..Len(s) PROVE \E i \in 1..Len(r) : r[i] = s[j]
  <2>1. CASE j < k
    BY <1>1, <2>1
  <2>2. CASE ~(j < k)
    <3>1. j + 1 \in 1..(Len(s) + 1) /\ ~(j + 1 < k) /\ j + 1 # k /\ (j + 1) - 1 = j
      BY <1>1, <2>2
    <3> QED BY <1>1, <3>1
  <2> QED BY <2>1, <2>2
<1>4. \E i \in 1..Len(r) : r[i] = x
  BY <1>1
<1>5. ToSet(r) = {r[i] : i \in 1..Len(r)} /\ ToSet(s) = {s[i] : i \in 1..Len(s)}
  BY <1>1, ToSetSeq
<1> QED BY <1>2, <1>3, <1>4, <1>5 DEF r

LEMMA ConsElements ==
  ASSUME NEW S, NEW s \in Seq(S), NEW x \in S
  PROVE  ToSet(<<x>> \o s) = ToSet(s) \cup {x}
<1> DEFINE r == <<x>> \o s
<1>1. /\ r \in Seq(S) /\ Len(r) = Len(s) + 1 /\ Len(s) \in Nat
      /\ \A i \in 1..(Len(s) + 1) : r[i] = IF i = 1 THEN x ELSE s[i - 1]
  BY ConsProperties
<1> HIDE DEF r
<1>2. ASSUME NEW i \in 1..Len(r), i # 1
      PROVE  i - 1 \in 1..Len(s) /\ r[i] = s[i - 1]
  BY <1>1, <1>2
<1>3. ASSUME NEW j \in 1..Len(s) PROVE j + 1 \in 1..Len(r) /\ r[j + 1] = s[j]
  BY <1>1
<1>4. 1 \in 1..Len(r) /\ r[1] = x
  BY <1>1
<1>5. ToSet(r) = {r[i] : i \in 1..Len(r)} /\ ToSet(s) = {s[i] : i \in 1..Len(s)}
  BY <1>1, ToSetSeq
<1>6. \A i \in 1..Len(r) : i = 1 \/ r[i] \in ToSet(s)
  BY <1>2, <1>5
<1>7. \A j \in 1..Len(s) : s[j] \in ToSet(r)
  BY <1>3, <1>5
<1>8. x \in ToSet(r)
  BY <1>4, <1>5
<1>9. ToSet(r) = ToSet(s) \cup {x}
  BY <1>4, <1>5, <1>6, <1>7, <1>8
<1> QED BY <1>9 DEF r

(* The constructor adds the id it found and forgets none ...               *)
LEMMA ScanInsertElements ==
  ASSUME NEW s \in Seq(Positive), NEW x \in Positive
  PROVE  ToSet(ScanInsert(s, x)) = ToSet(s) \cup {x}
<1>0. Len(s) \in Nat
  OBVIOUS
<1>1. CASE x \in ToSet(s)
  BY <1>1 DEF ScanInsert
<1>2. CASE x \notin ToSet(s) /\ Len(s) = 1 /\ x < s[1]
  <2>1. ScanInsert(s, x) = <<x>> \o s
    BY <1>2 DEF ScanInsert
  <2> QED BY <2>1, ConsElements
<1>3. CASE x \notin ToSet(s) /\ Len(s) < 2 /\ ~(Len(s) = 1 /\ x < s[1])
  <2> DEFINE r == Append(s, x)
  <2>1. ScanInsert(s, x) = r
    BY <1>3 DEF ScanInsert
  <2>2. /\ r \in Seq(Positive) /\ Len(r) = Len(s) + 1
        /\ \A i \in 1..Len(s) : r[i] = s[i]
        /\ r[Len(s) + 1] = x
    OBVIOUS
  <2> HIDE DEF r
  <2>3. ToSet(r) = {r[i] : i \in 1..Len(r)} /\ ToSet(s) = {s[i] : i \in 1..Len(s)}
    BY <2>2, ToSetSeq
  <2>4. \A i \in 1..Len(r) : i \in 1..Len(s) \/ i = Len(s) + 1
    BY <1>0, <2>2
  <2>5. \A i \in 1..Len(s) : i \in 1..Len(r)
    BY <1>0, <2>2
  <2>6. Len(s) + 1 \in 1..Len(r)
    BY <1>0, <2>2
  <2> QED BY <2>1, <2>2, <2>3, <2>4, <2>5, <2>6
<1>4. CASE x \notin ToSet(s) /\ ~(Len(s) < 2)
  <2>1. ScanInsert(s, x) = InsertAt(s, RunLength(s) + 1, x)
    <3>1. \A n \in Nat : ~(n < 2) => n # 1
      OBVIOUS
    <3>2. Len(s) # 1
      BY <1>0, <1>4, <3>1, Zenon
    <3> QED BY <1>4, <3>2 DEF ScanInsert
  <2>2. RunLength(s) + 1 \in 1..(Len(s) + 1)
    BY <1>0, <1>4, RunLengthProperties
  <2> DEFINE k == RunLength(s) + 1
  <2> HIDE DEF k
  <2>3. k \in 1..(Len(s) + 1) /\ ScanInsert(s, x) = InsertAt(s, k, x)
    BY <2>1, <2>2 DEF k
  <2> QED BY <2>3, InsertElements
<1> QED BY <1>1, <1>2, <1>3, <1>4

(* ... getNextID adds the id it returns ...                                *)
LEMMA TakeIdElements ==
  ASSUME NEW s \in Seq(Positive)
  PROVE  ToSet(TakeId(s)) = ToSet(s) \cup {NextId(s)}
<1> DEFINE x == NextId(s)
<1>1. x \in Positive /\ Len(s) \in Nat
  BY NextIdType
<1>2. CASE Len(s) < 2
  <2>1. TakeId(s) = <<x>> \o s
    BY <1>2 DEF TakeId
  <2> HIDE DEF x
  <2>2. ToSet(TakeId(s)) = ToSet(s) \cup {x}
    BY <1>1, <2>1, ConsElements
  <2> QED BY <2>2 DEF x
<1>3. CASE ~(Len(s) < 2)
  <2> DEFINE k == RunLength(s) + 1
  <2>1. TakeId(s) = InsertAt(s, k, x)
    BY <1>3 DEF TakeId
  <2>2. k \in 1..(Len(s) + 1)
    BY <1>1, <1>3, RunLengthProperties
  <2> HIDE DEF x, k
  <2>3. ToSet(TakeId(s)) = ToSet(s) \cup {x}
    BY <1>1, <2>1, <2>2, InsertElements
  <2> QED BY <2>3 DEF x
<1> QED BY <1>2, <1>3

(* ... and handle_delete takes away one place of the id it erases.         *)
LEMMA EraseIdElements ==
  ASSUME NEW S, NEW s \in Seq(S), NEW x
  PROVE  /\ ToSet(s) \ {x} \subseteq ToSet(EraseId(s, x))
         /\ ToSet(EraseId(s, x)) \subseteq ToSet(s)
         /\ IsInjective(s) => ToSet(EraseId(s, x)) = ToSet(s) \ {x}
<1> DEFINE I == {i \in 1..Len(s) : s[i] = x}
           r == EraseId(s, x)
<1>0. Len(s) \in Nat /\ r \in Seq(S) /\ ToSet(s) = {s[i] : i \in 1..Len(s)}
  BY EraseIdType, ToSetSeq
<1>1. CASE I = {}
  <2>1. r = s
    BY <1>1 DEF EraseId, RemoveFirst
  <2>2. x \notin ToSet(s)
    BY <1>0, <1>1
  <2> QED BY <2>1, <2>2
<1>2. CASE I # {}
  <2> DEFINE k == Min(I)
  <2>1. k \in I
    <3>1. I \subseteq Nat
      OBVIOUS
    <3> HIDE DEF I
    <3> QED BY <1>2, <3>1, MinExists
  <2>2. r = RemoveAt(s, k)
    BY <1>2 DEF EraseId, RemoveFirst, SelectInSeq
  <2>3. k \in 1..Len(s) /\ k \in Nat /\ s[k] = x
    <3> HIDE DEF k
    <3> QED BY <2>1
  <2> HIDE DEF I, k, r
  <2>4. /\ Len(r) = Len(s) - 1
        /\ \A i \in 1..(Len(s) - 1) : r[i] = IF i < k THEN s[i] ELSE s[i + 1]
    BY <2>2, <2>3, RemoveAtProperties
  <2>5. ToSet(r) = {r[i] : i \in 1..Len(r)}
    BY <1>0, ToSetSeq
  <2>6. ASSUME NEW j \in 1..Len(s), j # k PROVE \E i \in 1..Len(r) : r[i] = s[j]
    <3>1. CASE j < k
      <4>1. j \in 1..(Len(s) - 1)
        BY <1>0, <2>3, <3>1
      <4> QED BY <2>4, <3>1, <4>1
    <3>2. CASE ~(j < k)
      <4>1. j - 1 \in 1..(Len(s) - 1) /\ ~(j - 1 < k) /\ (j - 1) + 1 = j
        BY <1>0, <2>3, <2>6, <3>2
      <4> QED BY <2>4, <4>1
    <3> QED BY <3>1, <3>2
  <2>7. ASSUME NEW i \in 1..Len(r) PROVE \E j \in 1..Len(s) \ {k} : r[i] = s[j]
    <3>1. i \in 1..(Len(s) - 1) /\ i \in Nat
      BY <1>0, <2>4
    <3>2. CASE i < k
      BY <1>0, <2>3, <2>4, <3>1, <3>2
    <3>3. CASE ~(i < k)
      <4>1. i + 1 \in 1..Len(s) \ {k} /\ r[i] = s[i + 1]
        BY <1>0, <2>3, <2>4, <3>1, <3>3
      <4> QED BY <4>1
    <3> QED BY <3>2, <3>3
  <2>8. ToSet(s) \ {x} \subseteq ToSet(r) /\ ToSet(r) \subseteq ToSet(s)
    BY <1>0, <2>3, <2>5, <2>6, <2>7
  <2>9. ASSUME IsInjective(s), x \in ToSet(r) PROVE FALSE
    <3>1. PICK j \in 1..Len(s) \ {k} : s[j] = x
      BY <2>5, <2>7, <2>9
    <3>2. DOMAIN s = 1..Len(s)
      OBVIOUS
    <3> QED BY <2>3, <2>9, <3>1, <3>2 DEF IsInjective
  <2> QED BY <2>8, <2>9 DEF r
<1> QED BY <1>1, <1>2

-----------------------------------------------------------------------------
(* The lists POSTs and DELETEs build stay in order.                        *)

LEMMA TakeIdKeepsOrder ==
  ASSUME NEW s \in Seq(Positive), InOrder(s)
  PROVE  InOrder(TakeId(s))
<1> DEFINE x == NextId(s)
           r == TakeId(s)
<1>0. /\ Len(s) \in Nat /\ \A j \in 1..Len(s) : s[j] \in Nat /\ s[j] > 0
      /\ x \in Positive /\ x \in Nat /\ x > 0
      /\ \A j \in 1..Len(s) : s[j] # x
  BY NextIdFree DEF Positive
<1>1. r \in Seq(Positive)
  BY <1>0, TakeIdType
<1>2. CASE Len(s) < 2
  <2>1. r = <<x>> \o s
    BY <1>2 DEF TakeId
  <2>2. /\ Len(r) = Len(s) + 1
        /\ \A i \in 1..(Len(s) + 1) : r[i] = IF i = 1 THEN x ELSE s[i - 1]
    BY <1>0, <2>1, ConsProperties
  <2>3. Len(s) = 1 => x = IF s[1] = 1 THEN 2 ELSE 1
    BY DEF NextId
  <2> HIDE DEF r, x
  <2>4. InOrder(r)
    <3>1. CASE Len(s) = 0
      BY <2>2, <3>1 DEF InOrder
    <3>2. CASE Len(s) = 1
      <4>1. Len(r) = 2 /\ r[1] = x /\ r[2] = s[1]
        BY <2>2, <3>2
      <4>2. s[1] \in Nat /\ s[1] > 0
        BY <1>0, <3>2
      <4> QED BY <2>3, <3>2, <4>1, <4>2 DEF InOrder
    <3>3. Len(s) = 0 \/ Len(s) = 1
      <4>1. \A n \in Nat : n < 2 => n = 0 \/ n = 1
        OBVIOUS
      <4> QED BY <1>0, <1>2, <4>1
    <3> QED BY <3>1, <3>2, <3>3
  <2> QED BY <2>4 DEF r, x
<1>3. CASE ~(Len(s) < 2)
  <2> DEFINE k == RunLength(s)
  <2>0. Len(s) >= 2 /\ Len(s) > 0 /\ Len(s) # 0 /\ Len(s) # 1
    BY <1>0, <1>3
  <2>1. /\ k \in 1..Len(s) /\ k \in Nat
        /\ k > 1 => s[k] = s[k - 1] + 1
    BY <2>0, RunLengthProperties
  <2>2. x = s[k] + 1 /\ r = InsertAt(s, k + 1, x)
    BY <1>3, <2>0 DEF NextId, TakeId
  <2> HIDE DEF k
  <2>3. k + 1 \in 1..(Len(s) + 1)
    BY <1>0, <2>1
  <2>4. /\ Len(r) = Len(s) + 1
        /\ \A i \in 1..(Len(s) + 1) :
             r[i] = IF i < k + 1 THEN s[i] ELSE IF i = k + 1 THEN x ELSE s[i - 1]
    <3>1. s \in Seq(Positive) /\ x \in Positive
      BY <1>0
    <3> DEFINE m == k + 1
    <3>2. m \in 1..(Len(s) + 1)
      BY <2>3
    <3> HIDE DEF r, x, m
    <3>3. /\ Len(InsertAt(s, m, x)) = Len(s) + 1
          /\ \A i \in 1..(Len(s) + 1) : InsertAt(s, m, x)[i] =
               IF i < m THEN s[i] ELSE IF i = m THEN x ELSE s[i - 1]
      BY <3>1, <3>2, InsertAtProperties
    <3> QED BY <2>2, <3>3 DEF m
  <2> HIDE DEF r, x
  <2>5. ASSUME NEW i \in 1..k PROVE s[i] <= s[k]
    <3>1. CASE i = k
      BY <1>0, <2>1, <3>1
    <3>2. CASE i < k
      <4>1. s[i] < s[k] \/ (k = Len(s) /\ s[k] = 1)
        BY <1>0, <2>1, <3>2 DEF InOrder
      <4>2. k - 1 \in 1..Len(s) /\ k > 1
        BY <1>0, <2>1, <3>2
      <4>3. s[k - 1] > 0 /\ s[k] = s[k - 1] + 1 /\ s[k - 1] \in Nat
        BY <1>0, <2>1, <4>2
      <4> QED BY <1>0, <2>1, <4>1, <4>3
    <3> QED BY <2>1, <3>1, <3>2
  <2>6. ASSUME NEW j \in (k + 1)..Len(s)
        PROVE  s[j] > x \/ (j = Len(s) /\ s[j] = 1)
    <3>1. s[k] < s[j] \/ (j = Len(s) /\ s[j] = 1)
      BY <1>0, <2>1 DEF InOrder
    <3>2. s[j] # x /\ s[j] \in Nat /\ s[k] \in Nat
      BY <1>0, <2>1
    <3> QED BY <2>2, <3>1, <3>2
  <2>7. ASSUME NEW i \in 1..Len(r), NEW j \in 1..Len(r), i < j
        PROVE  r[i] < r[j] \/ (j = Len(r) /\ r[j] = 1 /\ r[i] > 1)
    <3>0. i \in Nat /\ j \in Nat /\ i \in 1..(Len(s) + 1) /\ j \in 1..(Len(s) + 1)
      BY <1>0, <2>4
    <3>1. CASE j < k + 1
      <4>1. i \in 1..Len(s) /\ j \in 1..Len(s) /\ r[i] = s[i] /\ r[j] = s[j]
        BY <1>0, <2>1, <2>4, <2>7, <3>0, <3>1
      <4>2. j # Len(s) \/ s[j] # 1
        <5>1. CASE j < k
          BY <1>0, <2>1, <3>0, <5>1
        <5>2. CASE j = k
          <6>1. k > 1 /\ k - 1 \in 1..Len(s)
            BY <1>0, <2>1, <2>7, <3>0, <5>2
          <6>2. s[k] = s[k - 1] + 1 /\ s[k - 1] > 0 /\ s[k - 1] \in Nat
            BY <1>0, <2>1, <6>1
          <6> QED BY <5>2, <6>2
        <5> QED BY <2>1, <3>0, <3>1, <5>1, <5>2
      <4> QED BY <2>7, <4>1, <4>2 DEF InOrder
    <3>2. CASE j = k + 1
      <4>1. i \in 1..k /\ r[i] = s[i] /\ r[j] = x /\ i \in 1..Len(s)
        BY <1>0, <2>1, <2>4, <2>7, <3>0, <3>2
      <4>2. s[i] <= s[k] /\ s[i] \in Nat /\ s[k] \in Nat
        BY <1>0, <2>1, <2>5, <4>1
      <4> QED BY <2>2, <4>1, <4>2
    <3>3. CASE j > k + 1
      <4>1. j - 1 \in (k + 1)..Len(s) /\ r[j] = s[j - 1] /\ j - 1 \in 1..Len(s)
        BY <1>0, <2>1, <2>4, <3>0, <3>3
      <4>2. s[j - 1] > x \/ (j - 1 = Len(s) /\ s[j - 1] = 1)
        BY <2>6, <4>1
      <4>3. CASE i < k + 1
        <5>1. i \in 1..Len(s) /\ r[i] = s[i] /\ i < j - 1
          BY <1>0, <2>1, <2>4, <3>0, <3>3, <4>3
        <5>2. s[i] < s[j - 1] \/ (j - 1 = Len(s) /\ s[j - 1] = 1 /\ s[i] > 1)
          BY <4>1, <5>1 DEF InOrder
        <5> QED BY <1>0, <2>4, <3>0, <4>1, <5>1, <5>2
      <4>4. CASE i = k + 1
        <5>1. r[i] = x
          BY <2>1, <2>4, <3>0, <4>4
        <5>2. s[j - 1] \in Nat
          BY <1>0, <4>1
        <5>3. x > 1
          BY <1>0, <2>1, <2>2
        <5> QED BY <1>0, <2>4, <3>0, <4>1, <4>2, <5>1, <5>2, <5>3
      <4>5. CASE i > k + 1
        <5>1. i - 1 \in 1..Len(s) /\ r[i] = s[i - 1] /\ i - 1 < j - 1
          BY <1>0, <2>1, <2>4, <2>7, <3>0, <4>5
        <5>2. \/ s[i - 1] < s[j - 1]
              \/ (j - 1 = Len(s) /\ s[j - 1] = 1 /\ s[i - 1] > 1)
          BY <4>1, <5>1 DEF InOrder
        <5> QED BY <1>0, <2>4, <3>0, <4>1, <5>1, <5>2
      <4>6. i < k + 1 \/ i = k + 1 \/ i > k + 1
        BY <2>1, <3>0
      <4> QED BY <4>3, <4>4, <4>5, <4>6
    <3>4. j < k + 1 \/ j = k + 1 \/ j > k + 1
      BY <2>1, <3>0
    <3> QED BY <3>1, <3>2, <3>3, <3>4
  <2>8. InOrder(r)
    BY <2>7 DEF InOrder
  <2> QED BY <2>8 DEF r
<1> QED BY <1>2, <1>3

LEMMA EraseIdKeepsOrder ==
  ASSUME NEW s \in Seq(Positive), InOrder(s), NEW x
  PROVE  InOrder(EraseId(s, x))
<1> DEFINE I == {i \in 1..Len(s) : s[i] = x}
           r == EraseId(s, x)
<1>0. Len(s) \in Nat /\ r \in Seq(Positive)
  BY EraseIdType
<1>1. CASE I = {}
  <2>1. r = s
    BY <1>1 DEF EraseId, RemoveFirst
  <2> QED BY <2>1
<1>2. CASE I # {}
  <2> DEFINE k == Min(I)
  <2>1. k \in I
    <3>1. I \subseteq Nat
      OBVIOUS
    <3> HIDE DEF I
    <3> QED BY <1>2, <3>1, MinExists
  <2>2. r = RemoveAt(s, k)
    BY <1>2 DEF EraseId, RemoveFirst, SelectInSeq
  <2>3. k \in 1..Len(s) /\ k \in Nat /\ s[k] = x
    <3> HIDE DEF k
    <3> QED BY <2>1
  <2> HIDE DEF I, k, r
  <2>4. /\ Len(r) = Len(s) - 1
        /\ \A i \in 1..(Len(s) - 1) : r[i] = IF i < k THEN s[i] ELSE s[i + 1]
    BY <2>2, <2>3, RemoveAtProperties
  <2>5. ASSUME NEW i \in 1..Len(r), NEW j \in 1..Len(r), i < j
        PROVE  r[i] < r[j] \/ (j = Len(r) /\ r[j] = 1 /\ r[i] > 1)
    <3> DEFINE at(n) == IF n < k THEN n ELSE n + 1
    <3>1. i \in 1..(Len(s) - 1) /\ j \in 1..(Len(s) - 1) /\ i \in Nat /\ j \in Nat
      BY <1>0, <2>4
    <3>2. /\ at(i) \in 1..Len(s) /\ at(j) \in 1..Len(s) /\ at(i) < at(j)
          /\ at(j) = Len(s) => j = Len(s) - 1
      BY <1>0, <2>3, <2>5, <3>1
    <3>3. r[i] = s[at(i)] /\ r[j] = s[at(j)]
      BY <2>4, <3>1
    <3>4. s[at(i)] < s[at(j)] \/ (at(j) = Len(s) /\ s[at(j)] = 1 /\ s[at(i)] > 1)
      <4> HIDE DEF at
      <4> QED BY <3>2 DEF InOrder
    <3> QED BY <2>4, <3>2, <3>3, <3>4
  <2>6. InOrder(r)
    BY <2>5 DEF InOrder
  <2> QED BY <2>6 DEF r
<1> QED BY <1>1, <1>2

LEMMA InOrderInjective ==
  ASSUME NEW s \in Seq(Positive), InOrder(s)
  PROVE  IsInjective(s)
<1> SUFFICES ASSUME NEW i \in 1..Len(s), NEW j \in 1..Len(s), s[i] = s[j], i < j
             PROVE  FALSE
  BY DEF IsInjective
<1>1. s[i] \in Nat /\ s[j] \in Nat
  BY DEF Positive
<1>2. s[i] < s[j] \/ (s[j] = 1 /\ s[i] > 1)
  BY DEF InOrder
<1> QED BY <1>1, <1>2
=============================================================================
