------------------------------ MODULE Recursion -------------------------------
(***************************************************************************)
(* Induction over the numbers, and functions defined by recursion, without *)
(* the theorems that take an operator: a predicate is a set, and one step  *)
(* of a recursion a function.  The proofs about numbers and texts use it.  *)
(***************************************************************************)
EXTENDS Integers, SequenceTheorems, WellFoundedInduction, TLAPS

(* Every set of numbers that is not empty has a least one.                  *)
Less == {p \in Nat \X Nat : p[1] < p[2]}
LEMMA LessIsWellFounded == IsWellFoundedOn(Less, Nat)
BY NatLessThanWellFounded DEF OpToRel, Less

LEMMA LeastExists ==
  ASSUME NEW S \in SUBSET Nat, S # {}
  PROVE  \E n \in S : \A k \in S : n <= k
<1>1. PICK n \in S : \A k \in S : ~(<<k, n>> \in Less)
  BY LessIsWellFounded, WFMin
<1>2. \A k \in S : ~(k < n) /\ k \in Nat /\ n \in Nat
  BY <1>1 DEF Less
<1> QED
  BY <1>2

(* Induction up to N, for a set in place of a predicate.                    *)
LEMMA UpTo ==
  ASSUME NEW N \in Nat, NEW S, 0 \in S, \A k \in 1..N : k - 1 \in S => k \in S
  PROVE  \A k \in 0..N : k \in S
<1> SUFFICES ASSUME (0..N) \ S # {} PROVE FALSE
  OBVIOUS
<1>1. PICK n \in (0..N) \ S : \A k \in (0..N) \ S : n <= k
  <2> DEFINE Out == (0..N) \ S
  <2>1. Out \in SUBSET Nat /\ Out # {}
    OBVIOUS
  <2> HIDE DEF Out
  <2>2. \E n \in Out : \A k \in Out : n <= k
    BY <2>1, LeastExists
  <2> QED
    BY <2>2 DEF Out
<1>2. n \in 1..N /\ n - 1 \in 0..N /\ ~(n <= n - 1)
  BY <1>1
<1>3. n - 1 \in S
  BY <1>1, <1>2
<1> QED
  BY <1>1, <1>2, <1>3

(* A function defined by recursion on its argument exists.                  *)
Steps(N, T) == [(1..N) \X T -> T]
Iterates(f, N, T, base, step) ==
  /\ f \in [0..N -> T]
  /\ f[0] = base
  /\ \A k \in 1..N : f[k] = step[<<k, f[k - 1]>>]
LEMMA RecursionExists ==
  ASSUME NEW N \in Nat, NEW T, NEW base \in T, NEW step \in Steps(N, T)
  PROVE  \E f : Iterates(f, N, T, base, step)
<1> DEFINE Fits(n, f) == f[0] = base /\ \A k \in 1..n : f[k] = step[<<k, f[k - 1]>>]
           Good == {n \in 0..N : \E f \in [0..n -> T] : Fits(n, f)}
<1>1. 0 \in Good
  <2>1. [k \in 0..0 |-> base] \in [0..0 -> T] /\ Fits(0, [k \in 0..0 |-> base])
    OBVIOUS
  <2>2. \E f \in [0..0 -> T] : Fits(0, f)
    BY <2>1
  <2>3. 0 \in 0..N
    OBVIOUS
  <2> HIDE DEF Fits
  <2> QED
    BY <2>2, <2>3
<1>2. ASSUME NEW n \in 1..N, n - 1 \in Good
      PROVE  n \in Good
  <2>1. PICK f \in [0..(n - 1) -> T] : Fits(n - 1, f)
    BY <1>2
  <2> DEFINE g == [k \in 0..n |-> IF k = n THEN step[<<n, f[n - 1]>>] ELSE f[k]]
  <2>2. \A k \in 0..n : k = n \/ k \in 0..(n - 1)
    OBVIOUS
  <2>3. step[<<n, f[n - 1]>>] \in T
    <3>1. f[n - 1] \in T
      BY <2>1
    <3> QED
      BY <3>1 DEF Steps
  <2>4. g \in [0..n -> T]
    BY <2>1, <2>2, <2>3
  <2>5. \A k \in 0..(n - 1) : g[k] = f[k]
    OBVIOUS
  <2>5a. g[n] = step[<<n, f[n - 1]>>] /\ g[n - 1] = f[n - 1]
    BY <2>5
  <2> HIDE DEF g
  <2>6. g[0] = base
    BY <2>1, <2>5
  <2>7. \A k \in 1..n : g[k] = step[<<k, g[k - 1]>>]
    <3> TAKE k \in 1..n
    <3>1. k - 1 \in 0..(n - 1) /\ g[k - 1] = f[k - 1]
      BY <2>5
    <3>2. CASE k = n
      BY <3>2, <2>5a
    <3>3. CASE k # n
      <4>1. k \in 1..(n - 1) /\ g[k] = f[k]
        BY <3>3, <2>5
      <4> QED
        BY <4>1, <3>1, <2>1
    <3> QED
      BY <3>2, <3>3
  <2> QED
    BY <2>4, <2>6, <2>7
<1>3. N \in 0..N
  OBVIOUS
<1> HIDE DEF Good
<1>4. N \in Good
  BY <1>1, <1>2, <1>3, UpTo
<1> QED
  BY <1>4 DEF Good, Iterates

(* The values of such a function.                                           *)
LEMMA RecursionStays ==
  ASSUME NEW N \in Nat, NEW T, NEW f, f[0] \in T,
         \A k \in 1..N : f[k - 1] \in T => f[k] \in T
  PROVE  \A k \in 0..N : f[k] \in T
<1> DEFINE S == {k \in 0..N : f[k] \in T}
<1>1. 0 \in S /\ \A k \in 1..N : k - 1 \in S => k \in S
  OBVIOUS
<1>2. \A k \in 0..N : k \in S
  <2> HIDE DEF S
  <2> QED  BY <1>1, UpTo
<1> QED
  BY <1>2

(* Induction over the sequences of a set, from their end.                   *)
LEMMA SequencesUpTo ==
  ASSUME NEW T, NEW S, <<>> \in S,
         \A s \in Seq(T), x \in T : s \in S => Append(s, x) \in S
  PROVE  \A s \in Seq(T) : s \in S
<1> SUFFICES ASSUME NEW s \in Seq(T) PROVE s \in S
  OBVIOUS
<1> DEFINE N == Len(s)
           Good == {k \in 0..N : SubSeq(s, 1, k) \in S}
<1>1. N \in Nat /\ \A k \in 1..N : s[k] \in T
  OBVIOUS
<1>2. 0 \in Good
  <2>1. SubSeq(s, 1, 0) = <<>> /\ 0 \in 0..N
    BY <1>1, SubSeqEmpty
  <2> QED
    BY <2>1, Zenon
<1>3. ASSUME NEW k \in 1..N, k - 1 \in Good PROVE k \in Good
  <2> DEFINE u == SubSeq(s, 1, k - 1)
  <2>1. 1 \in 1..N /\ k \in 1..N /\ s[k] \in T
    BY <1>1
  <2>2. SubSeq(s, 1, k) = u \o <<s[k]>>
    BY <2>1, SubSeqRecursiveSecond
  <2>3. u \in Seq(T)
    <3>1. \A n \in 1..(k - 1) : s[n] \in T
      BY <1>1
    <3> QED
      BY <1>1, <3>1, SubSeqProperties
  <2>4. u \in S
    BY <1>3
  <2> HIDE DEF u
  <2>5. SubSeq(s, 1, k) = Append(u, s[k])
    BY <2>1, <2>2, <2>3, AppendIsConcat
  <2>6. Append(u, s[k]) \in S
    BY <2>1, <2>3, <2>4
  <2>7. k \in 0..N
    BY <1>1
  <2> QED
    BY <2>5, <2>6, <2>7, Zenon
<1>4. N \in Good
  <2>1. N \in 0..N
    BY <1>1
  <2> HIDE DEF Good, N
  <2> QED  BY <1>1, <1>2, <1>3, <2>1, UpTo
<1>5. SubSeq(s, 1, N) = s
  BY SubSeqFull, Zenon
<1> QED
  BY <1>4, <1>5, Zenon

(* Three sequences may be put together from either end: element by element, *)
(* from what each element of a concatenation is.  Stated for every set of   *)
(* elements at once, so that a proof instantiates it without arithmetic.    *)
IsConcat(a, b, ab) ==
  /\ Len(a) \in Nat /\ Len(b) \in Nat /\ Len(ab) = Len(a) + Len(b)
  /\ \A i \in 1..Len(a) + Len(b) : ab[i] = IF i <= Len(a) THEN a[i] ELSE b[i - Len(a)]

LEMMA ConcatIs ==
  \A T : \A a, b \in Seq(T) : a \o b \in Seq(T) /\ IsConcat(a, b, a \o b)
BY ConcatProperties DEF IsConcat

LEMMA SameElements ==
  \A T : \A s, t \in Seq(T) : Len(s) = Len(t) /\ (\A i \in 1..Len(s) : s[i] = t[i]) => s = t
BY SeqEqual

Regroups(T) == \A a, b, c \in Seq(T) : (a \o b) \o c = a \o (b \o c)

LEMMA ConcatRegroups == \A T : Regroups(T)
<1> SUFFICES ASSUME NEW T, NEW a \in Seq(T), NEW b \in Seq(T), NEW c \in Seq(T)
             PROVE  (a \o b) \o c = a \o (b \o c)
  BY DEF Regroups
<1> DEFINE ab == a \o b
           bc == b \o c
           lhs == (a \o b) \o c
           rhs == a \o (b \o c)
<1>1. /\ ab \in Seq(T) /\ IsConcat(a, b, ab) /\ bc \in Seq(T) /\ IsConcat(b, c, bc)
  BY ConcatIs, Zenon
<1>2. lhs \in Seq(T) /\ rhs \in Seq(T) /\ IsConcat(ab, c, lhs) /\ IsConcat(a, bc, rhs)
  BY <1>1, ConcatIs, Zenon
<1> HIDE DEF lhs, rhs, ab, bc
<1>3. Len(lhs) = Len(rhs)
  BY <1>1, <1>2 DEF IsConcat
<1>4. \A i \in 1..Len(lhs) : lhs[i] = rhs[i]
  <2> SUFFICES ASSUME NEW i \in 1..Len(lhs) PROVE lhs[i] = rhs[i]
    OBVIOUS
  <2>1. CASE i <= Len(a)
    <3>1. i \in 1..Len(a) + Len(b) /\ i \in 1..Len(ab) + Len(c) /\ i \in 1..Len(a) + Len(bc) /\ i <= Len(ab)
      BY <1>1, <1>2, <2>1 DEF IsConcat
    <3> QED
      BY <1>1, <1>2, <2>1, <3>1 DEF IsConcat
  <2>2. CASE Len(a) < i /\ i <= Len(a) + Len(b)
    <3> DEFINE j == i - Len(a)
    <3>1. /\ i \in 1..Len(a) + Len(b) /\ i \in 1..Len(ab) + Len(c) /\ i \in 1..Len(a) + Len(bc)
          /\ i <= Len(ab) /\ ~(i <= Len(a)) /\ j \in 1..Len(b) + Len(c) /\ j <= Len(b)
      BY <1>1, <1>2, <2>2 DEF IsConcat
    <3>2. lhs[i] = ab[i] /\ ab[i] = b[j]
      BY <1>1, <1>2, <3>1 DEF IsConcat
    <3>3. rhs[i] = bc[j] /\ bc[j] = b[j]
      <4> HIDE DEF j
      <4>1. bc[j] = b[j]
        BY <1>1, <3>1 DEF IsConcat
      <4>2. rhs[i] = bc[i - Len(a)]
        BY <1>2, <3>1 DEF IsConcat
      <4> QED
        BY <4>1, <4>2 DEF j
    <3> QED
      BY <3>2, <3>3
  <2>3. CASE Len(a) + Len(b) < i
    <3> DEFINE j == i - Len(a)
               k == i - Len(ab)
    <3>1. /\ i \in 1..Len(ab) + Len(c) /\ i \in 1..Len(a) + Len(bc) /\ ~(i <= Len(ab)) /\ ~(i <= Len(a))
          /\ j \in 1..Len(b) + Len(c) /\ ~(j <= Len(b)) /\ j - Len(b) = k
      BY <1>1, <1>2, <2>3 DEF IsConcat
    <3>2. lhs[i] = c[k]
      BY <1>2, <3>1 DEF IsConcat
    <3>3. rhs[i] = bc[j]
      BY <1>2, <3>1 DEF IsConcat
    <3>4. bc[j] = c[k]
      <4> HIDE DEF j, k
      <4>1. bc[j] = c[j - Len(b)]
        BY <1>1, <3>1 DEF IsConcat
      <4> QED
        BY <3>1, <4>1, Zenon
    <3> QED
      BY <3>2, <3>3, <3>4, Zenon
  <2> QED
    BY <1>1, <1>2, <2>1, <2>2, <2>3 DEF IsConcat
<1>5. lhs = rhs
  BY <1>2, <1>3, <1>4, SameElements, Zenon
<1> QED
  BY <1>5 DEF lhs, rhs, ab, bc
==============================================================================
