---------------------------- MODULE ConsoleProofs ----------------------------
(***************************************************************************)
(* Proofs about Console: the numerals, what is left of a printf and what   *)
(* it will say, and the buffer.                                            *)
(***************************************************************************)
EXTENDS Console, Recursion

-----------------------------------------------------------------------------
(* FlattenSeq: the empty sequence, one more member, and two sequences.      *)

(* The sequences it goes through, one for each prefix of seqs.              *)
JoinsTo(g, seqs, N) == g[0] = <<>> /\ \A k \in 1..N : g[k] = g[k - 1] \o seqs[k]
Joins(g, seqs, T) == g \in [0..Len(seqs) -> Seq(T)] /\ JoinsTo(g, seqs, Len(seqs))

LEMMA JoinsExist ==
  ASSUME NEW T, NEW seqs \in Seq(Seq(T))
  PROVE  \E g : Joins(g, seqs, T)
<1> DEFINE N == Len(seqs)
           step == [p \in (1..N) \X Seq(T) |-> p[2] \o seqs[p[1]]]
<1>1. N \in Nat /\ <<>> \in Seq(T) /\ \A k \in 1..N : seqs[k] \in Seq(T)
  BY ElementOfSeq
<1>2. step \in Steps(N, Seq(T))
  <2>1. \A p \in (1..N) \X Seq(T) : p[2] \o seqs[p[1]] \in Seq(T)
    BY <1>1, ConcatProperties
  <2> QED
    BY <2>1 DEF Steps
<1>3. PICK g : Iterates(g, N, Seq(T), <<>>, step)
  <2> HIDE DEF step, N
  <2> QED  BY <1>1, <1>2, RecursionExists
<1>4. g \in [0..N -> Seq(T)] /\ g[0] = <<>> /\ \A k \in 1..N : g[k] = step[<<k, g[k - 1]>>]
  <2> HIDE DEF step
  <2> QED  BY <1>3 DEF Iterates
<1>5. \A k \in 1..N : g[k] = g[k - 1] \o seqs[k]
  <2> TAKE k \in 1..N
  <2>1. k - 1 \in 0..N
    BY <1>1
  <2>2. <<k, g[k - 1]>> \in (1..N) \X Seq(T)
    BY <1>4, <2>1
  <2> QED
    BY <1>4, <2>2
<1> QED
  BY <1>4, <1>5 DEF Joins, JoinsTo

(* There is only one.                                                       *)
LEMMA JoinsAgree ==
  ASSUME NEW T, NEW seqs \in Seq(Seq(T)), NEW g, Joins(g, seqs, T), NEW N \in 0..Len(seqs),
         NEW f, JoinsTo(f, seqs, N)
  PROVE  f[N] = g[N]
<1> DEFINE S == {k \in 0..N : f[k] = g[k]}
<1>1. N \in Nat /\ 0 \in S
  BY DEF Joins, JoinsTo
<1>2. ASSUME NEW k \in 1..N, k - 1 \in S PROVE k \in S
  <2>1. k \in 1..Len(seqs) /\ k \in 0..N
    BY <1>1
  <2>2. g[k] = g[k - 1] \o seqs[k] /\ f[k] = f[k - 1] \o seqs[k] /\ f[k - 1] = g[k - 1]
    BY <1>2, <2>1 DEF Joins, JoinsTo
  <2> QED
    BY <2>1, <2>2
<1>3. N \in S
  <2>1. N \in 0..N
    BY <1>1
  <2> HIDE DEF S
  <2> QED  BY <1>1, <1>2, <2>1, UpTo
<1> QED
  BY <1>3

LEMMA FlattenJoins ==
  ASSUME NEW T, NEW seqs \in Seq(Seq(T)), NEW g, Joins(g, seqs, T)
  PROVE  FlattenSeq(seqs) = g[Len(seqs)] /\ FlattenSeq(seqs) \in Seq(T)
<1> DEFINE N == Len(seqs)
           Body(f) == [k \in 1..N |-> IF k = 1 THEN seqs[k] ELSE f[k - 1] \o seqs[k]]
           flat == CHOOSE f : f = Body(f)
<1>1. N \in Nat /\ \A k \in 1..N : seqs[k] \in Seq(T)
  BY ElementOfSeq
<1>2. g[N] \in Seq(T)
  BY <1>1 DEF Joins, JoinsTo
<1>3. CASE N = 0
  <2>1. seqs = <<>> /\ FlattenSeq(seqs) = seqs
    BY <1>3, <1>1 DEF FlattenSeq
  <2> QED
    BY <1>2, <1>3, <2>1 DEF Joins, JoinsTo
<1>4. CASE N # 0
  <2>1. FlattenSeq(seqs) = flat[N]
    BY <1>4 DEF FlattenSeq
  <2> DEFINE h == [k \in 1..N |-> g[k]]
  <2>2. h = Body(h)
    <3>1. \A k \in 1..N : g[k] = IF k = 1 THEN seqs[k] ELSE h[k - 1] \o seqs[k]
      <4> TAKE k \in 1..N
      <4>1. CASE k = 1
        <5>1. k - 1 = 0 /\ seqs[k] \in Seq(T)
          BY <1>1, <4>1
        <5>2. g[0] = <<>> /\ g[k] = g[k - 1] \o seqs[k]
          BY Zenon DEF Joins, JoinsTo
        <5>3. g[k] = <<>> \o seqs[k]
          BY <5>1, <5>2, Zenon
        <5> QED
          BY <4>1, <5>1, <5>3, ConcatEmptySeq
      <4>2. CASE k # 1
        <5>1. k - 1 \in 1..N
          BY <4>2, <1>1
        <5> QED
          BY <4>2, <5>1 DEF Joins, JoinsTo
      <4> QED
        BY <4>1, <4>2
    <3> QED
      BY <3>1
  <2>3. flat = Body(flat)
    <3>1. \E f : f = Body(f)
      BY <2>2
    <3> QED
      BY <3>1
  <2>4. \A k \in 1..N : flat[k] = IF k = 1 THEN seqs[k] ELSE flat[k - 1] \o seqs[k]
    <3> HIDE DEF flat
    <3>1. \A k \in 1..N : Body(flat)[k] = IF k = 1 THEN seqs[k] ELSE flat[k - 1] \o seqs[k]
      OBVIOUS
    <3> HIDE DEF Body
    <3> QED
      BY <2>3, <3>1
  <2> DEFINE e == [k \in 0..N |-> IF k = 0 THEN <<>> ELSE flat[k]]
  <2> HIDE DEF flat
  <2>5. e[0] = <<>> /\ \A k \in 1..N : e[k] = flat[k]
    BY <1>1
  <2>6. \A k \in 1..N : e[k] = e[k - 1] \o seqs[k]
    <3> TAKE k \in 1..N
    <3>1. CASE k = 1
      <4>1. e[k] = seqs[k] /\ e[k - 1] = <<>>
        BY <2>4, <2>5, <3>1
      <4> QED
        BY <4>1, <1>1, ConcatEmptySeq
    <3>2. CASE k # 1
      <4>1. k - 1 \in 1..N
        BY <1>1, <3>2
      <4> HIDE DEF e
      <4> QED
        BY <2>4, <2>5, <3>2, <4>1
    <3> QED
      BY <3>1, <3>2
  <2>7. e[N] = g[N]
    <3>1. N \in 0..N
      BY <1>1
    <3>2. JoinsTo(e, seqs, N)
      <4> HIDE DEF e
      <4> QED  BY <2>5, <2>6, Zenon DEF JoinsTo
    <3> HIDE DEF e
    <3> QED
      BY <3>1, <3>2, JoinsAgree
  <2>8. e[N] = flat[N]
    BY <1>1, <1>4
  <2> QED
    BY <1>2, <2>1, <2>7, <2>8
<1> QED
  BY <1>3, <1>4

LEMMA FlattenType ==
  ASSUME NEW T, NEW seqs \in Seq(Seq(T))
  PROVE  FlattenSeq(seqs) \in Seq(T)
BY JoinsExist, FlattenJoins

LEMMA FlattenEmpty == FlattenSeq(<<>>) = <<>>
BY DEF FlattenSeq

(* One text more at the end.                                                *)
LEMMA FlattenAppend ==
  ASSUME NEW T, NEW seqs \in Seq(Seq(T)), NEW x \in Seq(T)
  PROVE  FlattenSeq(Append(seqs, x)) = FlattenSeq(seqs) \o x
<1> DEFINE N == Len(seqs)
           longer == Append(seqs, x)
<1>1. /\ N \in Nat /\ longer \in Seq(Seq(T)) /\ Len(longer) = N + 1
      /\ longer[N + 1] = x /\ \A k \in 1..N : longer[k] = seqs[k]
  BY AppendProperties
<1> HIDE DEF longer
<1>2. PICK f : Joins(f, seqs, T)
  BY JoinsExist
<1>3. PICK g : Joins(g, longer, T)
  BY <1>1, JoinsExist
<1>4. g[0] = <<>> /\ \A k \in 1..(N + 1) : g[k] = g[k - 1] \o longer[k]
  BY <1>1, <1>3 DEF Joins, JoinsTo
<1>5. g[N] = f[N]
  <2>1. N \in 0..N /\ JoinsTo(g, seqs, N)
    <3>1. N \in 0..N /\ \A k \in 1..N : k \in 1..(N + 1)
      BY <1>1
    <3> QED
      BY <1>1, <1>4, <3>1, Zenon DEF JoinsTo
  <2> QED
    BY <1>2, <2>1, JoinsAgree
<1>6. g[N + 1] = g[N] \o x
  <2>1. N + 1 \in 1..(N + 1) /\ (N + 1) - 1 = N
    BY <1>1
  <2>2. g[N + 1] = g[(N + 1) - 1] \o longer[N + 1]
    BY <1>4, <2>1, Zenon
  <2> QED
    BY <1>1, <2>1, <2>2, Zenon
<1> QED
  BY <1>1, <1>2, <1>3, <1>5, <1>6, FlattenJoins DEF longer

LEMMA FlattenOne ==
  ASSUME NEW T, NEW x \in Seq(T)
  PROVE  FlattenSeq(<<x>>) = x
<1>1. <<>> \in Seq(Seq(T)) /\ <<x>> = Append(<<>>, x)
  OBVIOUS
<1>2. FlattenSeq(Append(<<>>, x)) = FlattenSeq(<<>>) \o x
  BY <1>1, FlattenAppend, Zenon
<1>3. FlattenSeq(<<x>>) = <<>> \o x
  BY <1>1, <1>2, FlattenEmpty, Zenon
<1> QED
  BY <1>3, ConcatEmptySeq

LEMMA FlattenConcat ==
  ASSUME NEW T, NEW s \in Seq(Seq(T)), NEW t \in Seq(Seq(T))
  PROVE  FlattenSeq(s \o t) = FlattenSeq(s) \o FlattenSeq(t)
<1> DEFINE S == {u \in Seq(Seq(T)) : FlattenSeq(s \o u) = FlattenSeq(s) \o FlattenSeq(u)}
<1>1. <<>> \in S
  <2>1. s \o <<>> = s /\ FlattenSeq(s) \o <<>> = FlattenSeq(s)
    BY ConcatEmptySeq, FlattenType
  <2>2. <<>> \in Seq(Seq(T))
    BY EmptySeq, Zenon
  <2> QED
    BY <2>1, <2>2, FlattenEmpty, Zenon
<1>2. ASSUME NEW u \in Seq(Seq(T)), NEW x \in Seq(T), u \in S
      PROVE  Append(u, x) \in S
  <2>1. /\ Append(u, x) = u \o <<x>> /\ <<x>> \in Seq(Seq(T))
        /\ Append(u, x) \in Seq(Seq(T)) /\ s \o u \in Seq(Seq(T))
    BY AppendIsConcat, AppendProperties, ConcatProperties
  <2>2. s \o Append(u, x) = Append(s \o u, x)
    <3> DEFINE one == <<x>>
               su == s \o u
    <3> HIDE DEF one, su
    <3>1. one \in Seq(Seq(T)) /\ su \in Seq(Seq(T)) /\ Append(u, x) = u \o one
      BY <2>1 DEF one, su
    <3>2. (s \o u) \o one = s \o (u \o one)
      <4>1. Regroups(Seq(T))
        BY ConcatRegroups, Zenon
      <4> QED
        BY <3>1, <4>1, Zenon DEF Regroups
    <3>3. Append(su, x) = su \o one
      BY <3>1, AppendIsConcat DEF one
    <3> QED
      BY <3>1, <3>2, <3>3, Zenon DEF su
  <2>3. FlattenSeq(s \o Append(u, x)) = FlattenSeq(s \o u) \o x
    <3>1. FlattenSeq(Append(s \o u, x)) = FlattenSeq(s \o u) \o x
      BY <2>1, FlattenAppend
    <3> QED
      BY <2>2, <3>1, Zenon
  <2>4. FlattenSeq(s \o u) = FlattenSeq(s) \o FlattenSeq(u)
    BY <1>2
  <2>5. (FlattenSeq(s) \o FlattenSeq(u)) \o x = FlattenSeq(s) \o (FlattenSeq(u) \o x)
    <3> DEFINE a == FlattenSeq(s)
               b == FlattenSeq(u)
    <3>1. a \in Seq(T) /\ b \in Seq(T)
      BY FlattenType
    <3> HIDE DEF a, b
    <3>2. (a \o b) \o x = a \o (b \o x)
      <4>1. Regroups(T)
        BY ConcatRegroups, Zenon
      <4> QED
        BY <3>1, <4>1, Zenon DEF Regroups
    <3> QED
      BY <3>2 DEF a, b
  <2>6. FlattenSeq(Append(u, x)) = FlattenSeq(u) \o x
    BY FlattenAppend
  <2> QED
    BY <2>1, <2>3, <2>4, <2>5, <2>6
<1>3. t \in S
  <2> HIDE DEF S
  <2> QED  BY <1>1, <1>2, SequencesUpTo
<1> QED
  BY <1>3

(* Three texts may be put together from either end.                         *)
LEMMA Regroup ==
  \A a, b, c \in Seq(Nat) : (a \o b) \o c = a \o (b \o c)
<1>1. Regroups(Nat)
  BY ConcatRegroups, Zenon
<1> QED
  BY <1>1, Zenon DEF Regroups

-----------------------------------------------------------------------------
(* Numerals: the digits from the highest down that the code writes are the  *)
(* digits from the lowest up that the number has.                           *)
Bases == Nat \ {0, 1}

LEMMA DivBounds ==
  ASSUME NEW a \in Nat, NEW d \in Nat \ {0}
  PROVE  a \div d \in Nat /\ (a \div d) * d <= a /\ a < (a \div d) * d + d
OBVIOUS

LEMMA DivIs ==
  ASSUME NEW a \in Nat, NEW d \in Nat \ {0}, NEW q \in Nat, q * d <= a, a < q * d + d
  PROVE  a \div d = q
OBVIOUS

LEMMA ProductGrows ==
  ASSUME NEW a \in Nat, NEW b \in Nat, NEW d \in Nat, a <= b
  PROVE  a * d <= b * d
OBVIOUS

(* Dividing twice is dividing by the product.                               *)
LEMMA DivDiv ==
  ASSUME NEW a \in Nat, NEW b \in Nat \ {0}, NEW d \in Nat \ {0}
  PROVE  a \div (b * d) = (a \div b) \div d
<1> DEFINE m == a \div b
           q == m \div d
<1>1. m \in Nat /\ m * b <= a /\ a < m * b + b
  BY DivBounds
<1>2. q \in Nat /\ q * d <= m /\ m < q * d + d
  BY <1>1, DivBounds
<1> HIDE DEF m, q
<1>3. b * d \in Nat \ {0} /\ q * d \in Nat /\ (q * d) * b = q * (b * d)
      /\ (q * d + d) * b = q * (b * d) + b * d
  BY <1>2
<1>4. q * (b * d) <= a
  BY <1>1, <1>2, <1>3, ProductGrows
<1>5. a < q * (b * d) + b * d
  <2>1. (m + 1) * b <= (q * d + d) * b
    BY <1>1, <1>2, ProductGrows
  <2> QED
    BY <1>1, <1>2, <1>3, <2>1
<1>6. a \div (b * d) = q
  BY <1>2, <1>3, <1>4, <1>5, DivIs
<1> QED
  BY <1>6 DEF m, q

LEMMA PowersAre ==
  ASSUME NEW base \in Bases, NEW N \in Nat
  PROVE  /\ Powers(base, N) \in [0..N -> Nat \ {0}]
         /\ Powers(base, N)[0] = 1
         /\ \A k \in 1..N : Powers(base, N)[k] = base * Powers(base, N)[k - 1]
<1> DEFINE step == [p \in (1..N) \X (Nat \ {0}) |-> base * p[2]]
           Body(f) == [k \in 0..N |-> IF k = 0 THEN 1 ELSE base * f[k - 1]]
           f == Powers(base, N)
<1>1. base \in Nat /\ base > 1
  BY DEF Bases
<1>2. step \in Steps(N, Nat \ {0})
  <2>1. \A a \in Nat \ {0} : base * a \in Nat \ {0}
    BY <1>1
  <2> QED
    BY <2>1 DEF Steps
<1>3. PICK g : Iterates(g, N, Nat \ {0}, 1, step)
  <2>1. 1 \in Nat \ {0}
    OBVIOUS
  <2> HIDE DEF step, Body, f
  <2> QED  BY <2>1, <1>2, RecursionExists
<1>4. g = Body(g)
  <2>1. \A k \in 0..N : k = 0 \/ k \in 1..N
    OBVIOUS
  <2>2. g \in [0..N -> Nat \ {0}] /\ g[0] = 1 /\ \A k \in 1..N : g[k] = step[<<k, g[k - 1]>>]
    <3> HIDE DEF step
    <3> QED  BY <1>3 DEF Iterates
  <2>3. \A k \in 1..N : g[k] = base * g[k - 1]
    <3> TAKE k \in 1..N
    <3>1. <<k, g[k - 1]>> \in (1..N) \X (Nat \ {0})
      BY <2>2
    <3> QED
      BY <2>2, <3>1
  <2>4. \A k \in 0..N : g[k] = IF k = 0 THEN 1 ELSE base * g[k - 1]
    BY <2>1, <2>2, <2>3
  <2> QED
    BY <2>2, <2>4
<1>5. f = Body(f)
  BY <1>4 DEF Powers
<1>6. f[0] = 1 /\ \A k \in 1..N : f[k] = base * f[k - 1]
  <2> HIDE DEF f
  <2>1. \A k \in 0..N : Body(f)[k] = IF k = 0 THEN 1 ELSE base * f[k - 1]
    OBVIOUS
  <2> HIDE DEF Body
  <2>2. \A k \in 0..N : f[k] = IF k = 0 THEN 1 ELSE base * f[k - 1]
    BY <1>5, <2>1
  <2>3. 0 \in 0..N /\ \A k \in 1..N : k \in 0..N /\ k # 0
    OBVIOUS
  <2> QED
    BY <2>2, <2>3
<1>7. \A k \in 0..N : f[k] \in Nat \ {0}
  <2> HIDE DEF f
  <2>1. \A a \in Nat \ {0} : base * a \in Nat \ {0}
    BY <1>1
  <2>2. f[0] \in Nat \ {0} /\ \A k \in 1..N : f[k - 1] \in Nat \ {0} => f[k] \in Nat \ {0}
    BY <1>6, <2>1
  <2> QED
    BY <2>2, RecursionStays
<1> QED
  BY <1>5, <1>6, <1>7

LEMMA PowersAgree ==
  ASSUME NEW base \in Bases, NEW N \in Nat, NEW n \in 0..N
  PROVE  \A k \in 0..n : Powers(base, n)[k] = Powers(base, N)[k]
<1> DEFINE P == Powers(base, n)
           Q == Powers(base, N)
           S == {k \in 0..n : P[k] = Q[k]}
<1>1. n \in Nat /\ P[0] = 1 /\ Q[0] = 1
      /\ (\A k \in 1..n : P[k] = base * P[k - 1]) /\ \A k \in 1..N : Q[k] = base * Q[k - 1]
  BY PowersAre
<1> HIDE DEF P, Q
<1>2. 0 \in S
  BY <1>1
<1>3. ASSUME NEW k \in 1..n, k - 1 \in S PROVE k \in S
  <2>1. k \in 0..n /\ k \in 1..N
    OBVIOUS
  <2> QED
    BY <1>1, <1>3, <2>1
<1>4. \A k \in 0..n : k \in S
  <2> HIDE DEF S
  <2> QED  BY <1>1, <1>2, <1>3, UpTo
<1> QED
  BY <1>4 DEF P, Q

(* The powers grow, and faster than their exponents.                        *)
LEMMA PowersGrow ==
  ASSUME NEW base \in Bases, NEW N \in Nat
  PROVE  /\ \A k \in 0..N : k < Powers(base, N)[k]
         /\ \A k \in 0..N, j \in 0..N : j <= k => Powers(base, N)[j] <= Powers(base, N)[k]
<1> DEFINE P == Powers(base, N)
           S == {k \in 0..N : k < P[k]}
<1>1. /\ base \in Nat /\ base > 1 /\ P[0] = 1
      /\ \A k \in 0..N : P[k] \in Nat \ {0}
      /\ \A k \in 1..N : P[k] = base * P[k - 1]
  <2>1. P \in [0..N -> Nat \ {0}] /\ P[0] = 1 /\ \A k \in 1..N : P[k] = base * P[k - 1]
    BY PowersAre
  <2> HIDE DEF P
  <2> QED  BY <2>1 DEF Bases
<1> HIDE DEF P
<1>2. \A a \in Nat \ {0} : base * a >= 2 * a
  BY <1>1
<1>3. \A k \in 1..N : P[k - 1] \in Nat \ {0} /\ P[k] \in Nat \ {0} /\ P[k] >= 2 * P[k - 1]
  <2> TAKE k \in 1..N
  <2>1. k - 1 \in 0..N /\ k \in 0..N
    OBVIOUS
  <2> QED
    BY <1>1, <1>2, <2>1
<1>4. \A k \in 0..N : k \in S
  <2>1. 0 \in S
    BY <1>1
  <2>2. \A k \in 1..N : k - 1 \in S => k \in S
    BY <1>3
  <2> HIDE DEF S
  <2> QED  BY <2>1, <2>2, UpTo
<1>5. ASSUME NEW k \in 0..N, NEW j \in 0..N, j <= k PROVE P[j] <= P[k]
  <2> DEFINE R == {i \in 0..N : j <= i => P[j] <= P[i]}
  <2>1. 0 \in R
    <3>1. j <= 0 => j = 0
      OBVIOUS
    <3> QED
      BY <1>1, <3>1
  <2>2. ASSUME NEW i \in 1..N, i - 1 \in R PROVE i \in R
    <3>1. i \in 0..N /\ P[i - 1] <= P[i] /\ P[j] \in Nat /\ P[i] \in Nat /\ P[i - 1] \in Nat
      BY <1>1, <1>3
    <3>2. CASE j = i
      BY <3>1, <3>2
    <3>3. CASE j # i
      <4>1. j <= i => j <= i - 1
        BY <3>3
      <4> QED
        BY <2>2, <3>1, <4>1
    <3> QED
      BY <3>2, <3>3
  <2>3. k \in R
    <3> HIDE DEF R
    <3> QED  BY <2>1, <2>2, UpTo
  <2> QED
    BY <1>5, <2>3
<1> QED
  BY <1>4, <1>5 DEF P

(* The first digit of a numeral, and the numeral, by powers up to any N.    *)
IsTop(num, base, P, t) ==
  num \div P[t] < base /\ \A j \in 0..(t - 1) : num \div P[j] >= base

(* The powers may go on beyond the number: the top stays where it is.       *)
LEMMA NumeralIs ==
  ASSUME NEW base \in Bases, NEW N \in Nat, NEW num \in 0..N
  PROVE  \E t \in 0..num :
           /\ IsTop(num, base, Powers(base, N), t)
           /\ Numeral(num, base) =
                [n \in 1..(t + 1) |->
                   DigitChar((num \div Powers(base, N)[t + 1 - n]) % base)]
<1> DEFINE P == Powers(base, num)
           Q == Powers(base, N)
           Tops == {k \in 0..num : num \div P[k] < base}
<1>1. num \in Nat /\ base \in Nat /\ base > 1 /\ \A k \in 0..num : P[k] \in Nat \ {0} /\ P[k] = Q[k]
  BY PowersAre, PowersAgree DEF Bases
<1>2. num \in Tops
  <2>1. P[num] \in Nat \ {0} /\ num < P[num] /\ num \in 0..num
    BY <1>1, PowersGrow
  <2>2. num \div P[num] = 0
    <3> HIDE DEF P
    <3> QED  BY <1>1, <2>1, DivIs
  <2> QED
    BY <1>1, <2>1, <2>2
<1>3. PICK t \in Tops : \A k \in Tops : t <= k
  <2>1. Tops \in SUBSET Nat /\ Tops # {}
    BY <1>2
  <2> HIDE DEF Tops
  <2> QED  BY <2>1, LeastExists
<1>4. t \in 0..num /\ IsTop(num, base, P, t)
  <2>1. t \in 0..num /\ num \div P[t] < base
    BY <1>3
  <2>2. ASSUME NEW j \in 0..(t - 1) PROVE num \div P[j] >= base
    <3>1. j \in 0..num /\ ~(t <= j)
      BY <2>1
    <3>2. j \notin Tops
      <4> HIDE DEF Tops
      <4> QED  BY <1>3, <3>1
    <3>3. num \div P[j] \in Nat
      <4> HIDE DEF P
      <4> QED  BY <1>1, <3>1, DivBounds
    <3> QED
      BY <1>1, <3>1, <3>2, <3>3
  <2> QED
    BY <2>1, <2>2 DEF IsTop
<1> DEFINE top == CHOOSE k \in 0..num : IsTop(num, base, P, k)
<1>5. top \in 0..num /\ IsTop(num, base, P, top)
  <2> HIDE DEF P
  <2> QED  BY <1>4
<1>6. Numeral(num, base) = [n \in 1..(top + 1) |-> DigitChar((num \div P[top + 1 - n]) % base)]
  BY DEF Numeral, IsTop
<1> HIDE DEF top, P
<1>7. IsTop(num, base, Q, top)
  <2> HIDE DEF Q
  <2>1. top \in 0..num /\ \A j \in 0..(top - 1) : j \in 0..num
    BY <1>5
  <2> QED
    BY <1>1, <1>5, <2>1 DEF IsTop
<1>8. Numeral(num, base) = [n \in 1..(top + 1) |-> DigitChar((num \div Q[top + 1 - n]) % base)]
  <2> HIDE DEF Q
  <2>1. \A n \in 1..(top + 1) : top + 1 - n \in 0..num
    BY <1>5
  <2>2. \A n \in 1..(top + 1) : P[top + 1 - n] = Q[top + 1 - n]
    BY <1>1, <2>1
  <2> QED
    BY <1>6, <2>2
<1> QED
  BY <1>5, <1>7, <1>8

LEMMA NumeralSmall ==
  ASSUME NEW base \in Bases, NEW num \in Nat, num < base
  PROVE  Numeral(num, base) = <<DigitChar(num)>>
<1> DEFINE P == Powers(base, num)
<1>1. PICK t \in 0..num :
        /\ IsTop(num, base, P, t)
        /\ Numeral(num, base) = [n \in 1..(t + 1) |-> DigitChar((num \div P[t + 1 - n]) % base)]
  BY NumeralIs
<1>2. P[0] = 1 /\ base \in Nat \ {0}
  BY PowersAre DEF Bases
<1> HIDE DEF P
<1>3. num \div P[0] = num /\ num % base = num
  BY <1>2
<1>4. t = 0
  <2>1. 0 \in 0..(t - 1) => num \div P[0] >= base
    BY <1>1 DEF IsTop
  <2>2. ~(num >= base)
    BY <1>2
  <2>3. t # 0 => 0 \in 0..(t - 1)
    OBVIOUS
  <2> QED
    BY <1>3, <2>1, <2>2, <2>3
<1>5. Numeral(num, base) = [n \in 1..1 |-> DigitChar((num \div P[1 - n]) % base)]
  BY <1>1, <1>4
<1>6. \A n \in 1..1 : 1 - n = 0
  OBVIOUS
<1>7. Numeral(num, base) = [n \in 1..1 |-> DigitChar(num)]
  BY <1>3, <1>5, <1>6
<1> QED
  BY <1>7

LEMMA NumeralType ==
  ASSUME NEW base \in Bases, NEW num \in Nat
  PROVE  Numeral(num, base) \in Seq(Nat) /\ Len(Numeral(num, base)) \in 1..(num + 1)
<1> DEFINE P == Powers(base, num)
<1>1. PICK t \in 0..num :
        /\ IsTop(num, base, P, t)
        /\ Numeral(num, base) = [n \in 1..(t + 1) |-> DigitChar((num \div P[t + 1 - n]) % base)]
  BY NumeralIs
<1>2. base \in Nat \ {0} /\ \A k \in 0..num : P[k] \in Nat \ {0}
  BY PowersAre DEF Bases
<1> HIDE DEF P
<1>3. \A k \in 0..num : num \div P[k] \in Nat
  BY <1>2, DivBounds
<1>4. \A k \in 0..num : DigitChar((num \div P[k]) % base) \in Nat
  <2>1. \A a \in Nat : DigitChar(a % base) \in Nat
    BY <1>2 DEF DigitChar
  <2> QED
    BY <1>3, <2>1
<1>5. \A n \in 1..(t + 1) : t + 1 - n \in 0..num
  OBVIOUS
<1>6. \A n \in 1..(t + 1) : DigitChar((num \div P[t + 1 - n]) % base) \in Nat
  BY <1>4, <1>5
<1>7. t + 1 \in Nat /\ Numeral(num, base) \in [1..(t + 1) -> Nat]
  BY <1>1, <1>6
<1> QED
  BY <1>7

(* One digit more: all but the last are the digits of the quotient.         *)
LEMMA NumeralLarge ==
  ASSUME NEW base \in Bases, NEW num \in Nat, num >= base
  PROVE  Numeral(num, base) = Append(Numeral(num \div base, base), DigitChar(num % base))
<1> DEFINE m == num \div base
           P == Powers(base, num)
           Digit(a) == DigitChar(a % base)
<1>1. base \in Nat /\ base > 1
  BY DEF Bases
<1>2. m \in 0..num /\ m < num
  <2>1. m \in Nat /\ m * base <= num
    BY <1>1, DivBounds
  <2>2. m * 2 <= m * base
    BY <1>1, <2>1
  <2> QED
    BY <1>1, <2>1, <2>2
<1>3. P[0] = 1 /\ \A k \in 1..num : P[k] = base * P[k - 1] /\ P[k - 1] \in Nat \ {0}
  BY PowersAre
<1>4. PICK t \in 0..num :
        /\ IsTop(num, base, P, t)
        /\ Numeral(num, base) = [n \in 1..(t + 1) |-> Digit(num \div P[t + 1 - n])]
  <2> HIDE DEF m
  <2> QED  BY NumeralIs
<1>5. PICK u \in 0..m :
        /\ IsTop(m, base, P, u)
        /\ Numeral(m, base) = [n \in 1..(u + 1) |-> Digit(m \div P[u + 1 - n])]
  <2> HIDE DEF m
  <2> QED  BY <1>2, NumeralIs
<1> HIDE DEF P, Digit
<1>6. \A k \in 1..num : num \div P[k] = m \div P[k - 1]
  <2> TAKE k \in 1..num
  <2>1. P[k] = base * P[k - 1] /\ P[k - 1] \in Nat \ {0} /\ base \in Nat \ {0}
    BY <1>1, <1>3
  <2>2. num \div (base * P[k - 1]) = m \div P[k - 1]
    BY <2>1, DivDiv
  <2> QED
    BY <2>1, <2>2
<1>7. num \div P[0] = num
  BY <1>3
<1> HIDE DEF m
<1>8. t = u + 1
  <2>1. \A k \in 0..num : num \div P[k] \in Nat
    BY <1>3, PowersAre, DivBounds DEF P
  <2>2. IsTop(num, base, P, u + 1)
    <3>1. u + 1 \in 1..num /\ (u + 1) - 1 = u
      BY <1>2
    <3>2. num \div P[u + 1] < base
      BY <1>5, <1>6, <3>1 DEF IsTop
    <3>3. ASSUME NEW j \in 0..u PROVE num \div P[j] >= base
      <4>1. CASE j = 0
        BY <1>7, <4>1
      <4>2. CASE j # 0
        <5>1. j \in 1..num /\ j - 1 \in 0..(u - 1)
          BY <3>1, <4>2
        <5> QED
          BY <1>5, <1>6, <5>1 DEF IsTop
      <4> QED
        BY <4>1, <4>2
    <3> QED
      BY <3>1, <3>2, <3>3 DEF IsTop
  <2>3. u + 1 \in 0..num /\ u + 1 \in Nat /\ t \in Nat
    BY <1>2
  <2>4. CASE t < u + 1
    <3>1. t \in 0..((u + 1) - 1) /\ t \in 0..num
      BY <2>3, <2>4
    <3> QED
      BY <1>1, <1>4, <2>1, <2>2, <3>1 DEF IsTop
  <2>5. CASE u + 1 < t
    <3>1. u + 1 \in 0..(t - 1)
      BY <2>3, <2>5
    <3> QED
      BY <1>1, <1>4, <2>1, <2>2, <2>3, <3>1 DEF IsTop
  <2> QED
    BY <2>3, <2>4, <2>5
<1> DEFINE s == Numeral(m, base)
           d == Digit(num)
           long == Numeral(num, base)
<1>9. s \in Seq(Nat) /\ Len(s) = u + 1 /\ d \in Nat
  <2>1. m \in Nat /\ \A a \in Nat : a % base \in Nat
    BY <1>1, <1>2
  <2>2. s \in Seq(Nat)
    BY <2>1, NumeralType
  <2>3. d \in Nat
    BY <2>1 DEF Digit, DigitChar
  <2>4. Len(s) = u + 1
    BY <1>5
  <2> QED
    BY <2>2, <2>3, <2>4
<1>10. long \in Seq(Nat) /\ Len(long) = u + 2
  <2>1. long \in Seq(Nat)
    BY NumeralType
  <2>2. Len(long) = t + 1
    BY <1>4
  <2> QED
    BY <1>8, <2>1, <2>2
<1>11. /\ Append(s, d) \in Seq(Nat) /\ Len(Append(s, d)) = u + 2
       /\ Append(s, d)[u + 2] = d /\ \A n \in 1..(u + 1) : Append(s, d)[n] = s[n]
  <2> HIDE DEF s, d
  <2> QED  BY <1>9, AppendProperties
<1>12. \A n \in 1..(u + 1) : long[n] = s[n]
  <2> TAKE n \in 1..(u + 1)
  <2>1. n \in 1..(t + 1) /\ t + 1 - n \in 1..num /\ (t + 1 - n) - 1 = u + 1 - n
    BY <1>2, <1>8
  <2>2. long[n] = Digit(num \div P[t + 1 - n]) /\ s[n] = Digit(m \div P[u + 1 - n])
    BY <1>4, <1>5, <2>1
  <2> QED
    BY <1>6, <2>1, <2>2
<1>13. long[u + 2] = d
  <2>1. u + 2 \in 1..(t + 1) /\ t + 1 - (u + 2) = 0
    BY <1>8
  <2>2. long[u + 2] = Digit(num \div P[0])
    BY <1>4, <2>1
  <2> QED
    BY <1>7, <2>2
<1>14. long = Append(s, d)
  <2> HIDE DEF s, d, long
  <2>1. \A n \in 1..(u + 2) : n \in 1..(u + 1) \/ n = u + 2
    OBVIOUS
  <2>2. \A n \in 1..Len(long) : long[n] = Append(s, d)[n]
    BY <1>10, <1>11, <1>12, <1>13, <2>1
  <2> QED
    BY <1>10, <1>11, <2>2, SeqEqual
<1> QED
  BY <1>14 DEF m, Digit

(* %u, %d and %x write the digits of the number: those that the divisor     *)
(* takes off the front, of _printf_write_uintn and _printf_write_hex, are   *)
(* those that dividing by the base takes off the back.  The numerals solve  *)
(* the recursion that defines the digits, and it has only one solution.     *)
THEOREM DigitsNumeral ==
  ASSUME NEW base \in Bases, NEW num \in Nat
  PROVE  Digits(num, base) = Numeral(num, base)
<1> DEFINE Body(f) == [n \in 0..num |->
             IF n < base THEN <<DigitChar(n)>> ELSE Append(f[n \div base], DigitChar(n % base))]
           g == [n \in 0..num |-> Numeral(n, base)]
           D == CHOOSE f : f = Body(f)
           Wrong == {n \in 0..num : D[n] # Numeral(n, base)}
<1>1. base \in Nat /\ base > 1
  BY DEF Bases
<1>2. \A n \in 0..num : ~(n < base) => n \div base \in 0..num /\ n \div base < n
  <2> TAKE n \in 0..num
  <2>1. n \in Nat /\ base \in Nat \ {0}
    BY <1>1
  <2>2. n \div base \in Nat /\ (n \div base) * base <= n
    BY <2>1, DivBounds
  <2>3. (n \div base) * 2 <= (n \div base) * base
    BY <1>1, <2>2
  <2> QED
    BY <1>1, <2>2, <2>3
<1>3. g = Body(g)
  <2>1. ASSUME NEW n \in 0..num
        PROVE  Numeral(n, base) = IF n < base THEN <<DigitChar(n)>>
                                  ELSE Append(g[n \div base], DigitChar(n % base))
    <3>1. CASE n < base
      BY <3>1, NumeralSmall
    <3>2. CASE ~(n < base)
      <4>1. g[n \div base] = Numeral(n \div base, base)
        BY <1>2, <3>2
      <4>2. n \in Nat /\ n >= base
        BY <1>1, <3>2
      <4> HIDE DEF g
      <4> QED
        BY <3>2, <4>1, <4>2, NumeralLarge
    <3> QED
      BY <3>1, <3>2
  <2> QED
    BY <2>1
<1>4. D = Body(D)
  <2>1. \E f : f = Body(f)
    BY <1>3
  <2> QED
    BY <2>1
<1>5. Digits(num, base) = D[num]
  BY DEF Digits
<1>6. \A n \in 0..num : D[n] = IF n < base THEN <<DigitChar(n)>>
                              ELSE Append(D[n \div base], DigitChar(n % base))
  <2> HIDE DEF D
  <2>1. \A n \in 0..num : Body(D)[n] = IF n < base THEN <<DigitChar(n)>>
                                      ELSE Append(D[n \div base], DigitChar(n % base))
    OBVIOUS
  <2> HIDE DEF Body
  <2> QED
    BY <1>4, <2>1
<1> HIDE DEF D
<1>7. Wrong = {}
  <2> SUFFICES ASSUME Wrong # {} PROVE FALSE
    OBVIOUS
  <2>1. PICK n \in Wrong : \A k \in Wrong : n <= k
    <3>1. Wrong \in SUBSET Nat
      OBVIOUS
    <3> HIDE DEF Wrong
    <3> QED  BY <3>1, LeastExists
  <2>2. n \in 0..num /\ n \in Nat /\ D[n] # Numeral(n, base)
    BY <2>1
  <2>3. CASE n < base
    BY <1>6, <2>2, <2>3, NumeralSmall
  <2>4. CASE ~(n < base)
    <3>1. n \div base \in 0..num /\ n \div base < n
      BY <1>2, <2>2, <2>4
    <3>2. n \div base \notin Wrong
      <4> HIDE DEF Wrong
      <4> QED  BY <2>1, <2>2, <3>1
    <3>3. D[n \div base] = Numeral(n \div base, base)
      BY <3>1, <3>2
    <3>4. n >= base
      BY <1>1, <2>2, <2>4
    <3>5. Numeral(n, base) = Append(Numeral(n \div base, base), DigitChar(n % base))
      BY <2>2, <3>4, NumeralLarge
    <3> QED
      BY <1>6, <2>2, <2>4, <3>3, <3>5
  <2> QED
    BY <2>3, <2>4
<1> QED
  BY <1>5, <1>7

(* %p writes the digits with zeros in front of them.                        *)
LEMMA PointerIs ==
  ASSUME NEW num \in 0..(Powers(16, POINTER_DIGITS)[POINTER_DIGITS] - 1)
  PROVE  /\ Pointer(num) \in Seq(Nat) /\ Digits(num, 16) \in Seq(Nat)
         /\ [n \in 1..(POINTER_DIGITS - Len(Digits(num, 16))) |-> 48] \in Seq(Nat)
         /\ Pointer(num) = [n \in 1..(POINTER_DIGITS - Len(Digits(num, 16))) |-> 48]
                             \o Digits(num, 16)
<1> DEFINE K == POINTER_DIGITS
           N == num + K
           R == Powers(16, K)
           P == Powers(16, N)
           Digit(a) == DigitChar(a % 16)
           d == Digits(num, 16)
<1>1. K \in Nat \ {0} /\ 16 \in Bases
  BY ConsoleAssumption DEF Bases
<1>2. R[K] \in Nat \ {0}
  <2> HIDE DEF K
  <2>1. Powers(16, K) \in [0..K -> Nat \ {0}]
    BY <1>1, PowersAre
  <2>2. K \in 0..K
    BY <1>1
  <2> QED
    BY <2>1, <2>2
<1>3. num \in Nat /\ num < R[K] /\ N \in Nat /\ K \in 0..N /\ num \in 0..N
  <2> HIDE DEF R, K
  <2> QED  BY <1>1, <1>2 DEF R, K
<1>4. \A k \in 0..K : R[k] = P[k]
  <2> HIDE DEF N, K
  <2> QED  BY <1>1, <1>3, PowersAgree
<1>5. /\ P[0] = 1 /\ (\A k \in 1..N : P[k] = 16 * P[k - 1])
      /\ \A k \in 0..N : P[k] \in Nat \ {0}
  <2>1. P \in [0..N -> Nat \ {0}] /\ P[0] = 1 /\ \A k \in 1..N : P[k] = 16 * P[k - 1]
    <3> HIDE DEF N
    <3> QED  BY <1>1, <1>3, PowersAre
  <2> HIDE DEF P, N
  <2> QED  BY <2>1
<1>6. \A k \in 0..N, j \in 0..N : j <= k => P[j] <= P[k]
  <2> HIDE DEF N
  <2> QED  BY <1>1, <1>3, PowersGrow
<1>7. PICK t \in 0..num :
        IsTop(num, 16, P, t) /\ d = [n \in 1..(t + 1) |-> Digit(num \div P[t + 1 - n])]
  <2>1. d = Numeral(num, 16)
    BY <1>1, <1>3, DigitsNumeral
  <2> HIDE DEF N, d
  <2>2. \E t \in 0..num :
          /\ IsTop(num, 16, Powers(16, N), t)
          /\ Numeral(num, 16) =
               [n \in 1..(t + 1) |-> DigitChar((num \div Powers(16, N)[t + 1 - n]) % 16)]
    BY <1>1, <1>3, NumeralIs
  <2> QED
    BY <2>1, <2>2
<1>8. Pointer(num) = [n \in 1..K |-> Digit(num \div R[K - n])]
  BY DEF Pointer
<1>9. d \in Seq(Nat)
  BY <1>1, <1>3, NumeralType, DigitsNumeral
<1> HIDE DEF P, R, Digit, d
<1>10. Len(d) = t + 1
  BY <1>7
<1>11. \A k \in 0..N : num \div P[k] \in Nat /\ (num \div P[k]) * P[k] <= num
                       /\ num < (num \div P[k]) * P[k] + P[k]
  BY <1>3, <1>5, DivBounds
<1>12. t + 1 <= K
  <2> SUFFICES ASSUME K <= t PROVE FALSE
    BY <1>1
  <2>1. K - 1 \in 0..(t - 1) /\ K \in 1..N /\ K - 1 \in 0..N /\ K \in 0..K
    BY <1>1, <1>3
  <2>2. num \div P[K - 1] >= 16 /\ P[K] = 16 * P[K - 1] /\ R[K] = P[K]
    BY <1>4, <1>5, <1>7, <2>1 DEF IsTop
  <2>3. P[K - 1] \in Nat /\ num \div P[K - 1] \in Nat /\ (num \div P[K - 1]) * P[K - 1] <= num
    BY <1>5, <1>11, <2>1
  <2>4. 16 * P[K - 1] <= (num \div P[K - 1]) * P[K - 1]
    BY <2>2, <2>3, ProductGrows
  <2> QED
    BY <1>3, <2>2, <2>3, <2>4
<1>13. num < P[t + 1]
  <2>1. t \in 0..N /\ t + 1 \in 1..N /\ (t + 1) - 1 = t
    BY <1>1, <1>3, <1>12
  <2>2. num \div P[t] <= 15 /\ P[t + 1] = 16 * P[t]
    BY <1>5, <1>7, <1>11, <2>1 DEF IsTop
  <2>3. (num \div P[t]) * P[t] <= 15 * P[t]
    BY <1>5, <1>11, <2>1, <2>2, ProductGrows
  <2>4. P[t] \in Nat /\ (num \div P[t]) * P[t] \in Nat /\ num < (num \div P[t]) * P[t] + P[t]
    BY <1>5, <1>11, <2>1
  <2> QED
    BY <1>3, <2>2, <2>3, <2>4
<1> DEFINE zeros == [n \in 1..(K - Len(d)) |-> 48]
<1>14. zeros \in Seq(Nat) /\ Len(zeros) = K - (t + 1)
  BY <1>1, <1>10, <1>12
<1>15. \A n \in 1..(K - (t + 1)) : Digit(num \div R[K - n]) = 48
  <2> TAKE n \in 1..(K - (t + 1))
  <2>1. K - n \in 0..K /\ K - n \in 0..N /\ t + 1 \in 0..N /\ t + 1 <= K - n
    BY <1>1, <1>3, <1>12
  <2>2. P[t + 1] <= P[K - n] /\ P[K - n] \in Nat \ {0} /\ P[t + 1] \in Nat
    BY <1>5, <1>6, <2>1
  <2>3. num \div P[K - n] = 0
    BY <1>3, <1>13, <2>2, DivIs
  <2> QED
    BY <1>4, <2>1, <2>3 DEF Digit, DigitChar
<1>16. \A n \in (K - (t + 1) + 1)..K : Digit(num \div R[K - n]) = d[n - (K - (t + 1))]
  <2> TAKE n \in (K - (t + 1) + 1)..K
  <2>1. K - n \in 0..K /\ n - (K - (t + 1)) \in 1..(t + 1)
        /\ t + 1 - (n - (K - (t + 1))) = K - n
    BY <1>1, <1>12
  <2> QED
    BY <1>4, <1>7, <2>1
<1>17. \A k \in 0..K : Digit(num \div R[k]) \in Nat
  <2> TAKE k \in 0..K
  <2>1. num \div P[k] \in Nat /\ R[k] = P[k]
    BY <1>1, <1>3, <1>4, <1>11
  <2> QED
    BY <2>1 DEF Digit, DigitChar
<1>18. Pointer(num) \in Seq(Nat) /\ Len(Pointer(num)) = K
  <2>1. \A n \in 1..K : K - n \in 0..K
    BY <1>1
  <2>2. Pointer(num) \in [1..K -> Nat]
    BY <1>8, <1>17, <2>1
  <2> QED
    BY <1>1, <2>2
<1> HIDE DEF zeros
<1>19. /\ zeros \o d \in Seq(Nat) /\ Len(zeros \o d) = K
       /\ \A n \in 1..K : (zeros \o d)[n] =
            IF n <= K - (t + 1) THEN zeros[n] ELSE d[n - (K - (t + 1))]
  <2>1. /\ zeros \o d \in Seq(Nat) /\ Len(zeros \o d) = Len(zeros) + Len(d)
        /\ \A n \in 1..(Len(zeros) + Len(d)) : (zeros \o d)[n] =
             IF n <= Len(zeros) THEN zeros[n] ELSE d[n - Len(zeros)]
    BY <1>9, <1>14, ConcatProperties
  <2>2. Len(zeros) = K - (t + 1) /\ Len(zeros) + Len(d) = K
    BY <1>1, <1>10, <1>12, <1>14
  <2> HIDE DEF K
  <2> QED
    BY <2>1, <2>2
<1>20. \A n \in 1..K : Pointer(num)[n] = (zeros \o d)[n]
  <2> TAKE n \in 1..K
  <2>1. Pointer(num)[n] = Digit(num \div R[K - n])
    BY <1>8
  <2>2. CASE n <= K - (t + 1)
    <3>1. n \in 1..(K - (t + 1)) /\ zeros[n] = 48
      BY <1>1, <1>10, <2>2 DEF zeros
    <3> QED
      BY <1>15, <1>19, <2>1, <2>2, <3>1
  <2>3. CASE ~(n <= K - (t + 1))
    <3>1. n \in (K - (t + 1) + 1)..K
      BY <1>1, <2>3
    <3> QED
      BY <1>16, <1>19, <2>1, <2>3, <3>1
  <2> QED
    BY <2>2, <2>3
<1>21. Pointer(num) = zeros \o d
  BY <1>18, <1>19, <1>20, SeqEqual
<1> QED
  BY <1>9, <1>14, <1>18, <1>21 DEF zeros, d

-----------------------------------------------------------------------------
(* What an operation of todo, and a sequence of them, puts on the line.     *)
Ops ==
  [op : {"write", "store", "malloc", "copy"}, text : Seq(Nat)]
    \cup [op : {"free"}, count : {0, 1}] \cup {Flush}

Output(op, exited) ==
  CASE op.op \in {"write", "store"} -> op.text
    [] op.op = "malloc" -> IF exited THEN (BugMalloc \o Narrow(op.text)) \o BugFree
                                     ELSE Narrow(op.text)
    [] op.op = "copy" -> IF exited THEN Narrow(op.text) \o BugFree ELSE Narrow(op.text)
    [] op.op = "free" -> IF exited THEN BugFree ELSE <<>>
    [] op.op = "flush" -> <<>>
Outputs(ops, exited) == FlattenSeq([k \in 1..Len(ops) |-> Output(ops[k], exited)])

LEMMA NarrowIs ==
  ASSUME NEW str \in Seq(Nat)
  PROVE  Narrow(str) \in Seq(Nat) /\ Len(Narrow(str)) < BUFFER_SIZE
<1> DEFINE n == IF Len(str) < NARROW_MAX THEN Len(str) ELSE NARROW_MAX
<1>1. n \in 0..NARROW_MAX /\ n \in 0..Len(str) /\ NARROW_MAX < BUFFER_SIZE
      /\ NARROW_MAX \in Nat /\ BUFFER_SIZE \in Nat
  BY ConsoleAssumption
<1> HIDE DEF n
<1>2. \A k \in 1..n : str[k] \in Nat
  BY <1>1
<1>3. SubSeq(str, 1, n) \in Seq(Nat) /\ Len(SubSeq(str, 1, n)) = IF 1 <= n THEN n - 1 + 1 ELSE 0
  BY <1>1, <1>2, SubSeqProperties
<1> QED
  BY <1>1, <1>3 DEF Narrow, n

LEMMA OpsAre ==
  /\ \A text \in Seq(Nat) : {Write(text), Store(text), Malloc(text), Copy(text)} \subseteq Ops
  /\ {Free(0), Free(1), Flush} \subseteq Ops
BY DEF Ops, Write, Store, Malloc, Copy, Free, Flush

LEMMA OpIs ==
  ASSUME NEW op \in Ops
  PROVE  /\ op.op \in {"write", "store", "malloc", "copy", "free", "flush"}
         /\ op.op \in {"write", "store", "malloc", "copy"} => op.text \in Seq(Nat)
         /\ op.op = "free" => op.count \in {0, 1}
BY DEF Ops, Flush

LEMMA OutputIs ==
  ASSUME NEW exited \in BOOLEAN
  PROVE  /\ \A text \in Seq(Nat) :
              /\ Output(Write(text), exited) = text
              /\ Output(Store(text), exited) = text
              /\ Output(Copy(text), exited) =
                   IF exited THEN Narrow(text) \o BugFree ELSE Narrow(text)
         /\ \A n \in {0, 1} : Output(Free(n), exited) = IF exited THEN BugFree ELSE <<>>
         /\ Output(Flush, exited) = <<>>
BY DEF Output, Write, Store, Copy, Free, Flush

LEMMA OutputType ==
  ASSUME NEW op \in Ops, NEW exited \in BOOLEAN
  PROVE  Output(op, exited) \in Seq(Nat)
<1>1. BugMalloc \in Seq(Nat) /\ BugFree \in Seq(Nat) /\ <<>> \in Seq(Nat)
  BY ConsoleAssumption
<1>2. CASE op.op \in {"write", "store"}
  BY <1>2, OpIs DEF Output
<1>3. CASE op.op = "malloc"
  <2>1. Narrow(op.text) \in Seq(Nat)
    BY <1>3, OpIs, NarrowIs
  <2>2. (BugMalloc \o Narrow(op.text)) \o BugFree \in Seq(Nat)
    BY <1>1, <2>1, ConcatProperties
  <2> QED
    BY <1>3, <2>1, <2>2 DEF Output
<1>4. CASE op.op = "copy"
  <2>1. Narrow(op.text) \in Seq(Nat)
    BY <1>4, OpIs, NarrowIs
  <2>2. Narrow(op.text) \o BugFree \in Seq(Nat)
    BY <1>1, <2>1, ConcatProperties
  <2> QED
    BY <1>4, <2>1, <2>2 DEF Output
<1>5. CASE op.op \in {"free", "flush"}
  BY <1>1, <1>5 DEF Output
<1> QED
  BY <1>2, <1>3, <1>4, <1>5, OpIs

(* Outputs takes sequences of operations to sequences of characters one by  *)
(* one, and puts the results together.                                      *)
LEMMA OutputsType ==
  ASSUME NEW ops \in Seq(Ops), NEW exited \in BOOLEAN
  PROVE  /\ [k \in 1..Len(ops) |-> Output(ops[k], exited)] \in Seq(Seq(Nat))
         /\ Outputs(ops, exited) \in Seq(Nat)
<1>1. Len(ops) \in Nat /\ \A k \in 1..Len(ops) : Output(ops[k], exited) \in Seq(Nat)
  BY OutputType
<1>2. [k \in 1..Len(ops) |-> Output(ops[k], exited)] \in Seq(Seq(Nat))
  BY <1>1
<1> QED
  BY <1>2, FlattenType DEF Outputs

LEMMA OutputsOne ==
  ASSUME NEW op \in Ops, NEW exited \in BOOLEAN
  PROVE  Outputs(<<op>>, exited) = Output(op, exited)
<1>1. [k \in 1..Len(<<op>>) |-> Output(<<op>>[k], exited)] = <<Output(op, exited)>>
  OBVIOUS
<1> QED
  BY <1>1, OutputType, FlattenOne DEF Outputs

LEMMA OutputsConcat ==
  ASSUME NEW s \in Seq(Ops), NEW t \in Seq(Ops), NEW exited \in BOOLEAN
  PROVE  Outputs(s \o t, exited) = Outputs(s, exited) \o Outputs(t, exited)
<1> DEFINE Each(ops) == [k \in 1..Len(ops) |-> Output(ops[k], exited)]
<1>1. s \o t \in Seq(Ops) /\ Len(s \o t) = Len(s) + Len(t) /\ Len(s) \in Nat /\ Len(t) \in Nat
      /\ \A k \in 1..(Len(s) + Len(t)) :
           (s \o t)[k] = IF k <= Len(s) THEN s[k] ELSE t[k - Len(s)]
  BY ConcatProperties
<1>2. /\ Each(s) \in Seq(Seq(Nat)) /\ Each(t) \in Seq(Seq(Nat)) /\ Each(s \o t) \in Seq(Seq(Nat))
      /\ Len(Each(s)) = Len(s) /\ Len(Each(t)) = Len(t) /\ Len(Each(s \o t)) = Len(s) + Len(t)
  <2>1. \A ops \in Seq(Ops) : Each(ops) \in Seq(Seq(Nat))
    BY OutputsType
  <2>2. \A ops \in Seq(Ops) : Len(Each(ops)) = Len(ops)
    OBVIOUS
  <2> HIDE DEF Each
  <2> QED  BY <1>1, <2>1, <2>2
<1>3. /\ \A k \in 1..Len(s) : Each(s)[k] = Output(s[k], exited)
      /\ \A k \in 1..Len(t) : Each(t)[k] = Output(t[k], exited)
      /\ \A k \in 1..(Len(s) + Len(t)) : Each(s \o t)[k] = Output((s \o t)[k], exited)
  BY <1>1
<1> HIDE DEF Each
<1>4. Each(s) \o Each(t) \in Seq(Seq(Nat)) /\ Len(Each(s) \o Each(t)) = Len(s) + Len(t)
      /\ \A k \in 1..(Len(s) + Len(t)) : (Each(s) \o Each(t))[k] =
           IF k <= Len(s) THEN Each(s)[k] ELSE Each(t)[k - Len(s)]
  <2> DEFINE a == Each(s)
             b == Each(t)
  <2> HIDE DEF a, b
  <2>1. a \in Seq(Seq(Nat)) /\ b \in Seq(Seq(Nat)) /\ Len(a) = Len(s) /\ Len(b) = Len(t)
    BY <1>2 DEF a, b
  <2>2. /\ a \o b \in Seq(Seq(Nat)) /\ Len(a \o b) = Len(a) + Len(b)
        /\ \A k \in 1..(Len(a) + Len(b)) :
             (a \o b)[k] = IF k <= Len(a) THEN a[k] ELSE b[k - Len(a)]
    BY <2>1, ConcatProperties
  <2> QED
    BY <2>1, <2>2 DEF a, b
<1>5. \A k \in 1..(Len(s) + Len(t)) : Each(s \o t)[k] = (Each(s) \o Each(t))[k]
  <2> TAKE k \in 1..(Len(s) + Len(t))
  <2>1. CASE k <= Len(s)
    <3>1. k \in 1..Len(s)
      BY <1>1, <2>1
    <3> QED
      BY <1>1, <1>3, <1>4, <2>1, <3>1
  <2>2. CASE ~(k <= Len(s))
    <3>1. k - Len(s) \in 1..Len(t)
      BY <1>1, <2>2
    <3> QED
      BY <1>1, <1>3, <1>4, <2>2, <3>1
  <2> QED
    BY <2>1, <2>2
<1>6. Each(s \o t) = Each(s) \o Each(t)
  BY <1>2, <1>4, <1>5, SeqEqual
<1>7. FlattenSeq(Each(s \o t)) = FlattenSeq(Each(s)) \o FlattenSeq(Each(t))
  BY <1>2, <1>6, FlattenConcat
<1> QED
  BY <1>7 DEF Outputs, Each

LEMMA OutputsEmpty == \A exited : Outputs(<<>>, exited) = <<>>
<1>1. \A exited : [k \in 1..Len(<<>>) |-> Output(<<>>[k], exited)] = <<>>
  OBVIOUS
<1> QED
  BY <1>1, FlattenEmpty DEF Outputs

(* ... and the head first.                                                  *)
LEMMA OutputsHead ==
  ASSUME NEW ops \in Seq(Ops), ops # <<>>, NEW exited \in BOOLEAN
  PROVE  /\ Outputs(ops, exited) = Output(Head(ops), exited) \o Outputs(Tail(ops), exited)
         /\ Head(ops) \in Ops /\ Tail(ops) \in Seq(Ops)
<1>1. Head(ops) \in Ops /\ Tail(ops) \in Seq(Ops)
  BY HeadTailProperties
<1>2. ops = <<Head(ops)>> \o Tail(ops)
  OBVIOUS
<1>3. <<Head(ops)>> \in Seq(Ops)
  BY <1>1
<1>4. Outputs(<<Head(ops)>> \o Tail(ops), exited)
        = Outputs(<<Head(ops)>>, exited) \o Outputs(Tail(ops), exited)
  BY <1>1, <1>3, OutputsConcat
<1>5. Outputs(<<Head(ops)>>, exited) = Output(Head(ops), exited)
  BY <1>1, OutputsOne
<1> QED
  BY <1>1, <1>2, <1>4, <1>5

LEMMA OutputsFlatten ==
  ASSUME NEW ss \in Seq(Seq(Ops)), NEW exited \in BOOLEAN
  PROVE  Outputs(FlattenSeq(ss), exited) = FlattenSeq([k \in 1..Len(ss) |-> Outputs(ss[k], exited)])
<1> DEFINE Each(us) == [k \in 1..Len(us) |-> Outputs(us[k], exited)]
           S == {us \in Seq(Seq(Ops)) : Outputs(FlattenSeq(us), exited) = FlattenSeq(Each(us))}
<1>1. \A us \in Seq(Seq(Ops)) : Each(us) \in Seq(Seq(Nat)) /\ Len(Each(us)) = Len(us)
  <2> TAKE us \in Seq(Seq(Ops))
  <2>1. Len(us) \in Nat /\ \A k \in 1..Len(us) : Outputs(us[k], exited) \in Seq(Nat)
    BY OutputsType, ElementOfSeq
  <2> QED
    BY <2>1
<1>2. <<>> \in S
  <2>1. Each(<<>>) = <<>> /\ <<>> \in Seq(Seq(Ops))
    OBVIOUS
  <2> HIDE DEF Each
  <2> QED
    BY <2>1, FlattenEmpty, OutputsEmpty
<1>3. ASSUME NEW us \in Seq(Seq(Ops)), NEW x \in Seq(Ops), us \in S
      PROVE  Append(us, x) \in S
  <2>1. Append(us, x) \in Seq(Seq(Ops)) /\ Outputs(x, exited) \in Seq(Nat)
    BY AppendProperties, OutputsType
  <2>2. Each(Append(us, x)) = Append(Each(us), Outputs(x, exited))
    OBVIOUS
  <2>3. FlattenSeq(Each(Append(us, x))) = FlattenSeq(Each(us)) \o Outputs(x, exited)
    <3> HIDE DEF Each
    <3> QED  BY <1>1, <2>1, <2>2, FlattenAppend
  <2>4. FlattenSeq(Append(us, x)) = FlattenSeq(us) \o x /\ FlattenSeq(us) \in Seq(Ops)
    BY FlattenAppend, FlattenType
  <2>5. Outputs(FlattenSeq(us) \o x, exited) = Outputs(FlattenSeq(us), exited) \o Outputs(x, exited)
    BY <2>4, OutputsConcat
  <2>6. Outputs(FlattenSeq(us), exited) = FlattenSeq(Each(us))
    BY <1>3
  <2>7. Outputs(FlattenSeq(Append(us, x)), exited) = FlattenSeq(Each(Append(us, x)))
    <3> HIDE DEF Each
    <3> QED  BY <2>3, <2>4, <2>5, <2>6
  <2> QED
    BY <2>1, <2>7
<1>4. ss \in S
  <2> HIDE DEF S
  <2> QED  BY <1>2, <1>3, SequencesUpTo
<1> QED
  BY <1>4

-----------------------------------------------------------------------------
(* What printf queues says what its items mean.                             *)
LEMMA Singletons ==
  ASSUME NEW T, NEW t \in Seq(T)
  PROVE  FlattenSeq([k \in 1..Len(t) |-> <<t[k]>>]) = t
<1> DEFINE Ones(u) == [k \in 1..Len(u) |-> <<u[k]>>]
           S == {u \in Seq(T) : FlattenSeq(Ones(u)) = u}
<1>1. <<>> \in S
  <2>1. Ones(<<>>) = <<>> /\ <<>> \in Seq(T)
    OBVIOUS
  <2> HIDE DEF Ones
  <2> QED
    BY <2>1, FlattenEmpty
<1>2. ASSUME NEW u \in Seq(T), NEW x \in T, u \in S PROVE Append(u, x) \in S
  <2>1. Ones(u) \in Seq(Seq(T)) /\ <<x>> \in Seq(T) /\ Append(u, x) \in Seq(T)
    OBVIOUS
  <2>2. Ones(Append(u, x)) = Append(Ones(u), <<x>>)
    OBVIOUS
  <2>3. FlattenSeq(Append(Ones(u), <<x>>)) = FlattenSeq(Ones(u)) \o <<x>>
    <3> HIDE DEF Ones
    <3> QED  BY <2>1, FlattenAppend
  <2>4. Append(u, x) = u \o <<x>>
    BY AppendIsConcat
  <2>5. FlattenSeq(Ones(u)) = u
    BY <1>2
  <2>6. FlattenSeq(Ones(Append(u, x))) = Append(u, x)
    <3> HIDE DEF Ones
    <3> QED  BY <2>2, <2>3, <2>4, <2>5
  <2> QED
    BY <2>1, <2>6
<1>3. t \in S
  <2> HIDE DEF S
  <2> QED  BY <1>1, <1>2, SequencesUpTo
<1> QED
  BY <1>3

(* The operations a conversion comes to: only a %s writes a text that may   *)
(* not fit in the buffer.                                                   *)
Pieces(item) ==
  {op \in Ops :
     \/ /\ op.op = "write"
        /\ Len(op.text) <= BUFFER_SIZE \/ (item.spec = "s" /\ Len(item.arg) > BUFFER_SIZE)
     \/ op.op = "malloc" /\ item.spec = "-s"}

LEMMA ShortWrite ==
  ASSUME NEW item, NEW text \in Seq(Nat), Len(text) <= 2
  PROVE  Write(text) \in Pieces(item)
<1>1. Len(text) <= BUFFER_SIZE
  BY ConsoleAssumption
<1>2. Write(text) \in Ops /\ Write(text).op = "write" /\ Write(text).text = text
  BY OpsAre DEF Write
<1> QED
  BY <1>1, <1>2 DEF Pieces

LEMMA WriteCharsIs ==
  ASSUME NEW item, NEW text \in Seq(Nat), NEW exited \in BOOLEAN
  PROVE  WriteChars(text) \in Seq(Pieces(item)) /\ Outputs(WriteChars(text), exited) = text
<1>1. Len(text) \in Nat /\ \A n \in 1..Len(text) : <<text[n]>> \in Seq(Nat) /\ Len(<<text[n]>>) <= 2
  OBVIOUS
<1>2. \A n \in 1..Len(text) : Write(<<text[n]>>) \in Pieces(item)
                              /\ Output(Write(<<text[n]>>), exited) = <<text[n]>>
  BY <1>1, ShortWrite, OutputIs
<1>3. WriteChars(text) \in Seq(Pieces(item)) /\ Len(WriteChars(text)) = Len(text)
  BY <1>1, <1>2 DEF WriteChars
<1>4. [k \in 1..Len(WriteChars(text)) |-> Output(WriteChars(text)[k], exited)]
        = [k \in 1..Len(text) |-> <<text[k]>>]
  BY <1>2, <1>3 DEF WriteChars
<1> QED
  BY <1>3, <1>4, Singletons DEF Outputs

(* What printf prints for an item: its meaning, unless it departs from it.  *)
Printed(item, exited) ==
  CASE item.spec = "-s" /\ ~exited -> Narrow(item.arg)
    [] item.spec = "-s" /\ exited -> (BugMalloc \o Narrow(item.arg)) \o BugFree
    [] item.spec = "-other" -> <<37, item.arg>>
    [] item.spec \notin {"-s", "-other"} -> Meaning(item, exited)

LEMMA PrintedIsMeaning ==
  ASSUME NEW item, IsItem(item), ~Departs(item), NEW exited \in BOOLEAN
  PROVE  Printed(item, exited) = Meaning(item, exited)
<1>1. CASE item.spec = "-s"
  <2>1. item.arg \in Seq(Nat) /\ Len(item.arg) <= NARROW_MAX /\ Len(item.arg) \in Nat
        /\ NARROW_MAX \in Nat
    BY <1>1, ConsoleAssumption DEF IsItem, Departs
  <2>2. (IF Len(item.arg) < NARROW_MAX THEN Len(item.arg) ELSE NARROW_MAX) = Len(item.arg)
    BY <2>1
  <2>3. Narrow(item.arg) = item.arg
    BY <2>1, <2>2, SubSeqFull DEF Narrow
  <2> QED
    BY <1>1, <2>3 DEF Printed, Meaning
<1>2. CASE item.spec # "-s"
  BY <1>2 DEF Printed, Departs
<1> QED
  BY <1>1, <1>2

(* Each conversion of printf queues what writes what its item prints.       *)
LEMMA ConversionIs ==
  ASSUME NEW item, IsItem(item), NEW exited \in BOOLEAN
  PROVE  /\ Conversion(item) \in Seq(Pieces(item))
         /\ Outputs(Conversion(item), exited) = Printed(item, exited)
<1> DEFINE spec == item.spec
           arg == item.arg
<1>0. 10 \in Bases /\ 16 \in Bases /\ Pieces(item) \subseteq Ops
  BY DEF Bases, Pieces
<1>1. \A num \in Nat : /\ Digits(num, 10) = Numeral(num, 10) /\ Numeral(num, 10) \in Seq(Nat)
                       /\ Digits(num, 16) = Numeral(num, 16) /\ Numeral(num, 16) \in Seq(Nat)
  BY <1>0, DigitsNumeral, NumeralType
<1>2. ASSUME NEW text \in Seq(Nat), Write(text) \in Pieces(item), Conversion(item) = <<Write(text)>>
      PROVE  Conversion(item) \in Seq(Pieces(item)) /\ Outputs(Conversion(item), exited) = text
  <2>1. Conversion(item) \in Seq(Pieces(item))
    BY <1>2
  <2>2. Outputs(<<Write(text)>>, exited) = Output(Write(text), exited)
    BY OpsAre, OutputsOne
  <2> QED
    BY <1>2, <2>1, <2>2, OutputIs
<1>3. ASSUME NEW text \in Seq(Nat), Len(text) <= 2, NEW rest \in Seq(Pieces(item)),
             Conversion(item) = <<Write(text)>> \o rest
      PROVE  Conversion(item) \in Seq(Pieces(item)) /\ Outputs(Conversion(item), exited) = text \o Outputs(rest, exited)
  <2>1. Write(text) \in Pieces(item) /\ <<Write(text)>> \in Seq(Pieces(item))
    BY <1>3, ShortWrite
  <2>2. Conversion(item) \in Seq(Pieces(item))
    BY <1>3, <2>1, ConcatProperties
  <2>3. <<Write(text)>> \in Seq(Ops) /\ rest \in Seq(Ops) /\ Write(text) \in Ops
    BY <1>0, <2>1, SeqMonotonic
  <2>4. Outputs(<<Write(text)>>, exited) = text
    BY <2>3, OutputsOne, OutputIs
  <2> QED
    BY <1>3, <2>2, <2>3, <2>4, OutputsConcat
<1>4. CASE spec \in {"literal", "c"}
  <2>1. arg \in Nat /\ Conversion(item) = <<Write(<<arg>>)>> /\ Printed(item, exited) = <<arg>>
    BY <1>4 DEF IsItem, Conversion, Printed, Meaning
  <2>2. <<arg>> \in Seq(Nat) /\ Len(<<arg>>) <= 2
    BY <2>1
  <2> HIDE DEF arg
  <2> QED
    BY <1>2, <2>1, <2>2, ShortWrite
<1>5. CASE spec = "s"
  <2>1. arg \in Seq(Nat) /\ Conversion(item) = <<Write(arg)>> /\ Printed(item, exited) = arg
    BY <1>5 DEF IsItem, Conversion, Printed, Meaning
  <2>2. Len(arg) \in Nat /\ BUFFER_SIZE \in Nat
    BY <2>1, ConsoleAssumption
  <2>3. Write(arg) \in Ops /\ Write(arg).op = "write" /\ Write(arg).text = arg
    BY <2>1, OpsAre DEF Write
  <2>4. Write(arg) \in Pieces(item)
    BY <1>5, <2>2, <2>3 DEF Pieces
  <2> HIDE DEF arg
  <2> QED
    BY <1>2, <2>1, <2>4
<1>6. CASE spec = "u"
  <2>1. arg \in Nat /\ Conversion(item) = WriteChars(Numeral(arg, 10)) /\ Printed(item, exited) = Digits(arg, 10)
    BY <1>6 DEF IsItem, Conversion, Printed, Meaning
  <2> HIDE DEF arg
  <2> QED
    BY <1>1, <2>1, WriteCharsIs
<1>7. CASE spec = "x"
  <2>1. arg \in Nat /\ Conversion(item) = WriteChars(Numeral(arg, 16)) /\ Printed(item, exited) = Digits(arg, 16)
    BY <1>7 DEF IsItem, Conversion, Printed, Meaning
  <2> HIDE DEF arg
  <2> QED
    BY <1>1, <2>1, WriteCharsIs
<1>8. CASE spec = "d" /\ arg < 0
  <2>1. -arg \in Nat /\ Conversion(item) = <<Write(<<45>>)>> \o WriteChars(Numeral(-arg, 10))
        /\ Printed(item, exited) = <<45>> \o Digits(-arg, 10)
    BY <1>8 DEF IsItem, Conversion, Printed, Meaning
  <2>2. <<45>> \in Seq(Nat) /\ Len(<<45>>) <= 2
    OBVIOUS
  <2> HIDE DEF arg
  <2>3. /\ WriteChars(Numeral(-arg, 10)) \in Seq(Pieces(item))
        /\ Outputs(WriteChars(Numeral(-arg, 10)), exited) = Digits(-arg, 10)
    BY <1>1, <2>1, WriteCharsIs
  <2> QED
    BY <1>3, <2>1, <2>2, <2>3
<1>9. CASE spec = "d" /\ ~(arg < 0)
  <2>1. arg \in Nat /\ arg >= 0
    BY <1>9 DEF IsItem
  <2>2. Conversion(item) = WriteChars(Numeral(arg, 10)) /\ Printed(item, exited) = Digits(arg, 10)
    BY <1>9, <2>1 DEF Conversion, Printed, Meaning
  <2> HIDE DEF arg
  <2> QED
    BY <1>1, <2>1, <2>2, WriteCharsIs
<1>10. CASE spec = "p"
  <2> DEFINE d == Digits(arg, 16)
             zeros == [n \in 1..(POINTER_DIGITS - Len(d)) |-> 48]
  <2>1. arg \in 0..(Powers(16, POINTER_DIGITS)[POINTER_DIGITS] - 1)
    BY <1>10 DEF IsItem
  <2>2. Conversion(item) = <<Write(<<48, 120>>)>> \o WriteChars(Pointer(arg))
        /\ Printed(item, exited) = (<<48, 120>> \o zeros) \o d
    BY <1>10 DEF Conversion, Printed, Meaning
  <2>3. zeros \in Seq(Nat) /\ d \in Seq(Nat) /\ Pointer(arg) \in Seq(Nat) /\ Pointer(arg) = zeros \o d
    <3> HIDE DEF arg
    <3> QED  BY <2>1, PointerIs
  <2> HIDE DEF arg, d, zeros
  <2>4. <<48, 120>> \in Seq(Nat) /\ Len(<<48, 120>>) <= 2
    OBVIOUS
  <2>5. (<<48, 120>> \o zeros) \o d = <<48, 120>> \o Pointer(arg)
    <3> DEFINE a == <<48, 120>>
    <3> HIDE DEF a
    <3>1. a \in Seq(Nat)
      BY <2>4 DEF a
    <3>2. (a \o zeros) \o d = a \o (zeros \o d)
      BY <2>3, <3>1, Regroup, Zenon
    <3> QED
      BY <2>3, <3>2 DEF a
  <2>6. /\ WriteChars(Pointer(arg)) \in Seq(Pieces(item))
        /\ Outputs(WriteChars(Pointer(arg)), exited) = Pointer(arg)
    BY <2>3, WriteCharsIs
  <2> DEFINE text == <<48, 120>>
             rest == WriteChars(Pointer(arg))
  <2>7. /\ text \in Seq(Nat) /\ Len(text) <= 2 /\ rest \in Seq(Pieces(item))
        /\ Conversion(item) = <<Write(text)>> \o rest
    BY <2>2, <2>4, <2>6, Zenon
  <2>8. Outputs(rest, exited) = Pointer(arg) /\ Printed(item, exited) = text \o Pointer(arg)
    BY <2>2, <2>5, <2>6, Zenon
  <2> HIDE DEF text, rest
  <2>9. /\ Conversion(item) \in Seq(Pieces(item))
        /\ Outputs(Conversion(item), exited) = text \o Outputs(rest, exited)
    BY <1>3, <2>7, Zenon
  <2> QED
    BY <2>8, <2>9, Zenon
<1>11. CASE spec = "%"
  <2>1. Conversion(item) = <<Write(<<37>>)>> /\ Printed(item, exited) = <<37>>
    BY <1>11 DEF Conversion, Printed, Meaning
  <2>2. <<37>> \in Seq(Nat) /\ Len(<<37>>) <= 2
    OBVIOUS
  <2> QED
    BY <1>2, <2>1, <2>2, ShortWrite
<1>12. CASE spec \in {"other", "-other"}
  <2>1. arg \in Nat /\ Conversion(item) = <<Write(<<37>>), Write(<<arg>>)>> /\ Printed(item, exited) = <<37, arg>>
    BY <1>12 DEF IsItem, Conversion, Printed, Meaning
  <2>2. <<37>> \in Seq(Nat) /\ Len(<<37>>) <= 2 /\ <<arg>> \in Seq(Nat) /\ Len(<<arg>>) <= 2
    BY <2>1
  <2>3. Write(<<arg>>) \in Pieces(item) /\ Write(<<arg>>) \in Ops
    BY <2>2, ShortWrite, OpsAre
  <2>4. <<Write(<<arg>>)>> \in Seq(Pieces(item))
    BY <2>3
  <2>6. Outputs(<<Write(<<arg>>)>>, exited) = Output(Write(<<arg>>), exited)
    BY <2>3, OutputsOne
  <2>7. Outputs(<<Write(<<arg>>)>>, exited) = <<arg>>
    BY <2>2, <2>6, OutputIs
  <2>5. <<Write(<<37>>), Write(<<arg>>)>> = <<Write(<<37>>)>> \o <<Write(<<arg>>)>>
        /\ <<37, arg>> = <<37>> \o <<arg>>
    OBVIOUS
  <2> HIDE DEF arg
  <2> QED
    BY <1>3, <2>1, <2>2, <2>4, <2>7, <2>5
<1>13. CASE spec = "-s"
  <2>1. arg \in Seq(Nat) /\ Conversion(item) = <<Malloc(arg)>>
        /\ Printed(item, exited) = IF exited THEN (BugMalloc \o Narrow(arg)) \o BugFree
                                             ELSE Narrow(arg)
    BY <1>13 DEF IsItem, Conversion, Printed, Meaning
  <2>2. Malloc(arg) \in Ops /\ Malloc(arg).op = "malloc" /\ Malloc(arg).text = arg
    BY <2>1, OpsAre DEF Malloc
  <2>3. Malloc(arg) \in Pieces(item)
    BY <1>13, <2>2 DEF Pieces
  <2>4. Outputs(<<Malloc(arg)>>, exited) = Output(Malloc(arg), exited)
    BY <2>2, OutputsOne
  <2>5. Output(Malloc(arg), exited) = Printed(item, exited)
    BY <2>1, <2>2 DEF Output
  <2> HIDE DEF arg
  <2> QED
    BY <2>1, <2>3, <2>4, <2>5
<1> QED
  BY <1>4, <1>5, <1>6, <1>7, <1>8, <1>9, <1>10, <1>11, <1>12, <1>13 DEF IsItem

(* So does printf for all its items, and the last it does is to flush.      *)
LEMMA PrintfIs ==
  ASSUME NEW items, Len(items) \in Nat, \A k \in 1..Len(items) : IsItem(items[k]),
         NEW S, S \subseteq Ops, Flush \in S, \A k \in 1..Len(items) : Pieces(items[k]) \subseteq S,
         NEW exited \in BOOLEAN
  PROVE  /\ Printf(items) \in Seq(S)
         /\ Len(Printf(items)) \in Nat \ {0}
         /\ Printf(items)[Len(Printf(items))] = Flush
         /\ Outputs(Printf(items), exited)
              = FlattenSeq([k \in 1..Len(items) |-> Printed(items[k], exited)])
<1> DEFINE N == Len(items)
           ss == [n \in 1..N |-> Conversion(items[n])]
           flat == FlattenSeq(ss)
<1>1. \A k \in 1..N : Conversion(items[k]) \in Seq(S) /\ Conversion(items[k]) \in Seq(Ops)
                      /\ Outputs(Conversion(items[k]), exited) = Printed(items[k], exited)
  <2> TAKE k \in 1..N
  <2>1. Conversion(items[k]) \in Seq(Pieces(items[k]))
        /\ Outputs(Conversion(items[k]), exited) = Printed(items[k], exited)
    BY ConversionIs
  <2>2. Conversion(items[k]) \in Seq(S)
    BY <2>1, SeqMonotonic
  <2> QED
    BY <2>1, <2>2, SeqMonotonic
<1>2. ss \in Seq(Seq(S)) /\ ss \in Seq(Seq(Ops)) /\ Len(ss) = N /\ \A k \in 1..N : ss[k] = Conversion(items[k])
  BY <1>1
<1>3. [k \in 1..Len(ss) |-> Outputs(ss[k], exited)] = [k \in 1..N |-> Printed(items[k], exited)]
  <2> HIDE DEF ss
  <2> QED  BY <1>1, <1>2
<1>4. Printf(items) = flat \o <<Flush>>
  BY DEF Printf
<1> HIDE DEF ss
<1>5. flat \in Seq(S) /\ flat \in Seq(Ops)
  BY <1>2, FlattenType
<1>6. Outputs(flat, exited) = FlattenSeq([k \in 1..N |-> Printed(items[k], exited)])
  BY <1>2, <1>3, OutputsFlatten
<1> HIDE DEF flat
<1>7. <<Flush>> \in Seq(S) /\ <<Flush>> \in Seq(Ops) /\ Len(<<Flush>>) = 1 /\ <<Flush>>[1] = Flush
      /\ Flush \in Ops
  BY OpsAre
<1>8. /\ flat \o <<Flush>> \in Seq(S)
      /\ Len(flat \o <<Flush>>) = Len(flat) + 1 /\ Len(flat) \in Nat
      /\ (flat \o <<Flush>>)[Len(flat) + 1] = Flush
  BY <1>5, <1>7, ConcatProperties
<1>9. Outputs(flat \o <<Flush>>, exited) = Outputs(flat, exited) \o Outputs(<<Flush>>, exited)
  BY <1>5, <1>7, OutputsConcat
<1>10. Outputs(<<Flush>>, exited) = <<>>
  BY <1>7, OutputsOne, OutputIs
<1>11. Outputs(flat, exited) \o <<>> = Outputs(flat, exited)
  BY <1>5, OutputsType, ConcatEmptySeq
<1>12. Outputs(Printf(items), exited) = FlattenSeq([k \in 1..N |-> Printed(items[k], exited)])
  BY <1>4, <1>6, <1>9, <1>10, <1>11, Zenon
<1>13. /\ Printf(items) \in Seq(S)
       /\ Len(Printf(items)) \in Nat \ {0}
       /\ Printf(items)[Len(Printf(items))] = Flush
  <2> DEFINE p == flat \o <<Flush>>
  <2>1. p \in Seq(S) /\ Len(p) = Len(flat) + 1 /\ Len(flat) \in Nat /\ p[Len(flat) + 1] = Flush
    BY <1>8
  <2> HIDE DEF p
  <2>2. p \in Seq(S) /\ Len(p) \in Nat \ {0} /\ p[Len(p)] = Flush
    BY <2>1
  <2> QED
    BY <1>4, <2>2, Zenon DEF p
<1> QED
  BY <1>12, <1>13

(* The messages of malloc and free: characters and a flush.                 *)
Short == {op \in Ops : op.op = "write" /\ Len(op.text) <= BUFFER_SIZE} \cup {Flush}

LEMMA TextIs ==
  ASSUME NEW text \in Seq(Nat), NEW exited \in BOOLEAN
  PROVE  /\ Printf(Text(text)) \in Seq(Short) /\ Printf(Text(text)) \in Seq(Ops)
         /\ Len(Printf(Text(text))) \in Nat \ {0}
         /\ Printf(Text(text))[Len(Printf(Text(text)))] = Flush
         /\ Outputs(Printf(Text(text)), exited) = text
<1> DEFINE items == Text(text)
<1>1. Len(items) = Len(text) /\ Len(text) \in Nat
      /\ \A k \in 1..Len(items) : items[k].spec = "literal" /\ items[k].arg = text[k] /\ text[k] \in Nat
  BY DEF Text
<1> HIDE DEF items
<1>2. \A k \in 1..Len(items) : IsItem(items[k]) /\ Printed(items[k], exited) = <<text[k]>>
  BY <1>1 DEF IsItem, Printed, Meaning
<1>3. Short \subseteq Ops /\ Flush \in Short /\ \A k \in 1..Len(items) : Pieces(items[k]) \subseteq Short
  BY <1>1, OpsAre DEF Short, Pieces
<1>4. [k \in 1..Len(items) |-> Printed(items[k], exited)] = [k \in 1..Len(text) |-> <<text[k]>>]
  BY <1>1, <1>2
<1>5. /\ Printf(items) \in Seq(Short)
      /\ Len(Printf(items)) \in Nat \ {0}
      /\ Printf(items)[Len(Printf(items))] = Flush
      /\ Outputs(Printf(items), exited)
           = FlattenSeq([k \in 1..Len(items) |-> Printed(items[k], exited)])
  BY <1>1, <1>2, <1>3, PrintfIs
<1> QED
  BY <1>3, <1>4, <1>5, Singletons, SeqMonotonic DEF items

-----------------------------------------------------------------------------
(* Characters as bytes, and what the statements so far have said.           *)
Bytes(chars) == [n \in 1..Len(chars) |-> chars[n] % CHAR_LIMIT]

LEMMA BytesType ==
  ASSUME NEW chars \in Seq(Nat)
  PROVE  Bytes(chars) \in Seq(Nat) /\ Len(Bytes(chars)) = Len(chars)
<1>1. \A n \in 1..Len(chars) : chars[n] % CHAR_LIMIT \in Nat
  BY ConsoleAssumption
<1> QED
  BY <1>1 DEF Bytes

LEMMA BytesOne ==
  /\ Bytes(<<>>) = <<>>
  /\ \A c : Bytes(<<c>>) = <<c % CHAR_LIMIT>>
BY DEF Bytes

LEMMA BytesConcat ==
  ASSUME NEW s \in Seq(Nat), NEW t \in Seq(Nat)
  PROVE  Bytes(s \o t) = Bytes(s) \o Bytes(t)
<1>1. /\ s \o t \in Seq(Nat) /\ Len(s \o t) = Len(s) + Len(t) /\ Len(s) \in Nat /\ Len(t) \in Nat
      /\ \A n \in 1..(Len(s) + Len(t)) : (s \o t)[n] = IF n <= Len(s) THEN s[n] ELSE t[n - Len(s)]
  BY ConcatProperties
<1>2. /\ Bytes(s \o t) \in Seq(Nat) /\ Bytes(s) \in Seq(Nat) /\ Bytes(t) \in Seq(Nat)
      /\ Len(Bytes(s \o t)) = Len(s) + Len(t) /\ Len(Bytes(s)) = Len(s) /\ Len(Bytes(t)) = Len(t)
  BY <1>1, BytesType
<1>3. /\ Bytes(s) \o Bytes(t) \in Seq(Nat) /\ Len(Bytes(s) \o Bytes(t)) = Len(s) + Len(t)
      /\ \A n \in 1..(Len(s) + Len(t)) : (Bytes(s) \o Bytes(t))[n] =
           IF n <= Len(s) THEN Bytes(s)[n] ELSE Bytes(t)[n - Len(s)]
  <2> DEFINE a == Bytes(s)
             b == Bytes(t)
  <2> HIDE DEF a, b
  <2>1. a \in Seq(Nat) /\ b \in Seq(Nat) /\ Len(a) = Len(s) /\ Len(b) = Len(t)
    BY <1>2 DEF a, b
  <2>2. /\ a \o b \in Seq(Nat) /\ Len(a \o b) = Len(a) + Len(b)
        /\ \A n \in 1..(Len(a) + Len(b)) : (a \o b)[n] = IF n <= Len(a) THEN a[n] ELSE b[n - Len(a)]
    BY <2>1, ConcatProperties
  <2> QED
    BY <2>1, <2>2 DEF a, b
<1>4. \A n \in 1..(Len(s) + Len(t)) : Bytes(s \o t)[n] = (Bytes(s) \o Bytes(t))[n]
  <2> TAKE n \in 1..(Len(s) + Len(t))
  <2>1. Bytes(s \o t)[n] = (s \o t)[n] % CHAR_LIMIT
    BY <1>1 DEF Bytes
  <2>2. CASE n <= Len(s)
    <3>1. n \in 1..Len(s)
      BY <1>1, <2>2
    <3>2. Bytes(s)[n] = s[n] % CHAR_LIMIT
      BY <3>1 DEF Bytes
    <3> QED
      BY <1>1, <1>3, <2>1, <2>2, <3>2
  <2>3. CASE ~(n <= Len(s))
    <3>1. n - Len(s) \in 1..Len(t)
      BY <1>1, <2>3
    <3>2. Bytes(t)[n - Len(s)] = t[n - Len(s)] % CHAR_LIMIT
      BY <3>1 DEF Bytes
    <3> QED
      BY <1>1, <1>3, <2>1, <2>3, <3>2
  <2> QED
    BY <2>2, <2>3
<1> QED
  BY <1>2, <1>3, <1>4, SeqEqual

ExitedBy(s, n) == \E k \in 1..n : s[k].call = "wstdlib_bs_exited"
Statement(s, n) ==
  FlattenSeq([k \in 1..Len(s[n].items) |-> Printed(s[n].items[k], ExitedBy(s, n))])
Spoken(s, n) == FlattenSeq([k \in 1..n |-> Statement(s, k)])

(* The bytes that printf puts on the line for the calls so far.             *)
Shown == Bytes(Spoken(script, next - 1))

LEMMA ShownIs == Shown = Bytes(Spoken(script, next - 1))
BY DEF Shown

LEMMA StatementType ==
  ASSUME NEW s \in Scripts, NEW n \in 1..Len(s)
  PROVE  Statement(s, n) \in Seq(Nat)
<1> DEFINE items == s[n].items
           exited == ExitedBy(s, n)
<1>1. Len(items) \in Nat /\ (\A k \in 1..Len(items) : IsItem(items[k])) /\ exited \in BOOLEAN
  BY ScriptsAssumption DEF ExitedBy
<1>2. Statement(s, n) = FlattenSeq([k \in 1..Len(items) |-> Printed(items[k], exited)])
  BY DEF Statement
<1>3. Ops \subseteq Ops /\ Flush \in Ops /\ \A k \in 1..Len(items) : Pieces(items[k]) \subseteq Ops
  BY OpsAre DEF Pieces
<1> HIDE DEF items, exited
<1>4. Printf(items) \in Seq(Ops)
      /\ Outputs(Printf(items), exited) = FlattenSeq([k \in 1..Len(items) |-> Printed(items[k], exited)])
  BY <1>1, <1>3, PrintfIs
<1> QED
  BY <1>1, <1>2, <1>4, OutputsType

(* A statement adds what it means to what was said before.                  *)
LEMMA SpokenNext ==
  ASSUME NEW s \in Scripts, NEW n \in 1..Len(s)
  PROVE  /\ Spoken(s, n - 1) \in Seq(Nat)
         /\ Spoken(s, n) = Spoken(s, n - 1) \o Statement(s, n)
<1> DEFINE short == [k \in 1..(n - 1) |-> Statement(s, k)]
           long == [k \in 1..n |-> Statement(s, k)]
<1>1. Len(s) \in Nat /\ \A k \in 1..n : k \in 1..Len(s)
  BY ScriptsAssumption
<1>2. \A k \in 1..n : Statement(s, k) \in Seq(Nat)
  BY <1>1, StatementType
<1>3. short \in Seq(Seq(Nat))
  BY <1>2
<1>4. long = Append(short, Statement(s, n))
  BY <1>1, <1>2
<1>5. Statement(s, n) \in Seq(Nat)
  BY <1>1, <1>2
<1> HIDE DEF short, long
<1>6. FlattenSeq(long) = FlattenSeq(short) \o Statement(s, n) /\ FlattenSeq(short) \in Seq(Nat)
  BY <1>3, <1>4, <1>5, FlattenAppend, FlattenType
<1> QED
  BY <1>6 DEF Spoken, short, long

-----------------------------------------------------------------------------
(* The inductive invariant.                                                 *)
TypeInv ==
  /\ script \in Scripts
  /\ next \in 1..(Len(script) + 1)
  /\ todo \in Seq(Ops)
  /\ buffer \in Seq(Nat)
  /\ sent \in 0..Len(buffer)
  /\ thr \in Nat \cup {NONE}
  /\ wire \in Seq(Nat)
  /\ bsExited \in BOOLEAN
  /\ stopped \in {"no", "overrun", "null"}

(* A call ends with a flush, and leaves nothing behind.                     *)
CallInv ==
  /\ bsExited = ExitedBy(script, next - 1)
  /\ todo = <<>> => buffer = <<>> /\ sent = 0
  /\ todo # <<>> => todo[Len(todo)] = Flush /\ next > 1

(* One copy at a time: a copy and a free come before all the rest of the    *)
(* printf, and the block that is allocated is the one that will be freed.   *)
Frees(op) == op.op \in {"copy", "free"}
FreeInv ==
  \A k \in 1..Len(todo) : Frees(todo[k]) =>
    \A j \in 1..Len(todo) :
      /\ j # k => ~Frees(todo[j])
      /\ j < k => todo[j].op # "malloc"

Owed == \E k \in 1..Len(todo) : todo[k].op = "free" /\ todo[k].count = 1
BlocksInv == blocks = IF Owed /\ ~bsExited THEN 1 ELSE 0

(* A text is stored where it fits, or right after a flush, unless it is a   *)
(* %s that is longer than the buffer.                                       *)
LongString ==
  \E k \in 1..Len(script[next - 1].items) :
    LET item == script[next - 1].items[k] IN
    item.spec = "s" /\ Len(item.arg) > BUFFER_SIZE
Fits(buf, text) == Len(buf) + Len(text) <= BUFFER_SIZE \/ Len(text) > BUFFER_SIZE
TooLong(op) == op.op \in {"write", "store"} /\ Len(op.text) > BUFFER_SIZE
StoreInv ==
  /\ \A k \in 2..Len(todo) : todo[k].op = "store" => todo[k - 1].op = "flush"
  /\ todo # <<>> /\ todo[1].op = "store" => Fits(buffer, todo[1].text)
  /\ \A k \in 1..Len(todo) : TooLong(todo[k]) => LongString
  /\ stopped = "overrun" => LongString

(* What the port was given, what waits in the buffer and what is still to   *)
(* come make up what the calls print.                                       *)
Waiting == SubSeq(buffer, sent + 1, Len(buffer))
Pending == Waiting \o Outputs(todo, bsExited)
OutputInv == Given \o Bytes(Pending) = Shown

IInv == TypeInv /\ CallInv /\ FreeInv /\ BlocksInv /\ StoreInv /\ OutputInv

LEMMA RestIs ==
  ASSUME NEW s \in Seq(Nat), NEW m \in 0..Len(s)
  PROVE  /\ SubSeq(s, m + 1, Len(s)) \in Seq(Nat)
         /\ m = Len(s) => SubSeq(s, m + 1, Len(s)) = <<>>
         /\ m < Len(s) =>
              SubSeq(s, m + 1, Len(s)) = <<s[m + 1]>> \o SubSeq(s, (m + 1) + 1, Len(s))
<1>1. Len(s) \in Nat /\ m \in Nat /\ \A n \in (m + 1)..Len(s) : s[n] \in Nat
  OBVIOUS
<1>2. SubSeq(s, m + 1, Len(s)) \in Seq(Nat)
  BY <1>1, SubSeqProperties
<1>3. m = Len(s) => SubSeq(s, m + 1, Len(s)) = <<>>
  BY <1>1, SubSeqEmpty
<1>4. ASSUME m < Len(s)
      PROVE  SubSeq(s, m + 1, Len(s)) = <<s[m + 1]>> \o SubSeq(s, (m + 1) + 1, Len(s))
  <2>1. m + 1 \in 1..Len(s) /\ Len(s) \in (m + 1)..Len(s)
    BY <1>1, <1>4
  <2> QED
    BY <2>1, SubSeqRecursiveFirst
<1> QED
  BY <1>2, <1>3, <1>4

LEMMA WaitingIs ==
  ASSUME TypeInv
  PROVE  /\ Waiting \in Seq(Nat)
         /\ sent = Len(buffer) => Waiting = <<>>
         /\ sent < Len(buffer) =>
              Waiting = <<buffer[sent + 1]>> \o SubSeq(buffer, (sent + 1) + 1, Len(buffer))
BY RestIs DEF TypeInv, Waiting

-----------------------------------------------------------------------------
(* Initially.                                                               *)
LEMMA InitIInv == Init => IInv
<1> SUFFICES ASSUME Init PROVE IInv
  OBVIOUS
<1>1. Len(script) \in Nat
  BY ScriptsAssumption DEF Init
<1>2. TypeInv
  <2>1. todo \in Seq(Ops) /\ buffer \in Seq(Nat) /\ wire \in Seq(Nat) /\ Len(buffer) = 0
    BY EmptySeq DEF Init
  <2>2. sent \in 0..Len(buffer) /\ next \in 1..(Len(script) + 1)
    BY <1>1, <2>1 DEF Init
  <2> QED
    BY <2>1, <2>2 DEF Init, TypeInv
<1>3. CallInv
  <2>1. next - 1 = 0 /\ \A k \in 1..0 : FALSE
    BY DEF Init
  <2>2. ExitedBy(script, next - 1) = FALSE
    BY <2>1 DEF ExitedBy
  <2> QED
    BY <2>2 DEF Init, CallInv
<1>4. FreeInv /\ BlocksInv /\ StoreInv
  BY DEF Init, FreeInv, BlocksInv, Owed, StoreInv
<1>5. OutputInv
  <2>1. Waiting = <<>> /\ Outputs(todo, bsExited) = <<>> /\ Given = <<>>
    BY <1>2, WaitingIs, OutputsEmpty DEF Init, Given
  <2>2. Bytes(Pending) = <<>>
    BY <2>1, BytesOne DEF Pending
  <2>3. Spoken(script, next - 1) = <<>>
    <3>1. [k \in 1..0 |-> Statement(script, k)] = <<>>
      OBVIOUS
    <3> QED
      BY <3>1, FlattenEmpty DEF Init, Spoken
  <2> QED
    BY <2>1, <2>2, <2>3, ShownIs, BytesOne DEF OutputInv
<1> QED
  BY <1>2, <1>3, <1>4, <1>5 DEF IInv

-----------------------------------------------------------------------------
(* A step that replaces the head of todo.                                   *)
LEMMA Becoming ==
  ASSUME TypeInv, todo # <<>>, NEW ops \in Seq(Ops), Becomes(ops)
  PROVE  /\ todo' \in Seq(Ops)
         /\ Len(todo) \in Nat \ {0} /\ Len(ops) \in Nat
         /\ Len(todo') = Len(ops) + Len(todo) - 1
         /\ todo[1] \in Ops /\ todo[1] = Head(todo)
         /\ \A k \in 1..Len(ops) : todo'[k] = ops[k]
         /\ \A k \in (Len(ops) + 1)..Len(todo') : todo'[k] = todo[k - Len(ops) + 1]
<1>1. todo \in Seq(Ops) /\ Len(todo) \in Nat \ {0} /\ Head(todo) = todo[1]
  BY DEF TypeInv
<1>2. /\ Head(todo) \in Ops /\ Tail(todo) \in Seq(Ops) /\ Len(Tail(todo)) = Len(todo) - 1
      /\ \A k \in 1..Len(Tail(todo)) : Tail(todo)[k] = todo[k + 1]
  BY <1>1, HeadTailProperties
<1>3. /\ todo' \in Seq(Ops) /\ Len(todo') = Len(ops) + Len(Tail(todo)) /\ Len(ops) \in Nat
      /\ \A k \in 1..(Len(ops) + Len(Tail(todo))) :
           todo'[k] = IF k <= Len(ops) THEN ops[k] ELSE Tail(todo)[k - Len(ops)]
  <2> DEFINE t == Tail(todo)
  <2>1. t \in Seq(Ops) /\ todo' = ops \o t
    BY <1>2 DEF Becomes
  <2> HIDE DEF t
  <2>2. /\ ops \o t \in Seq(Ops) /\ Len(ops \o t) = Len(ops) + Len(t)
        /\ \A k \in 1..(Len(ops) + Len(t)) :
             (ops \o t)[k] = IF k <= Len(ops) THEN ops[k] ELSE t[k - Len(ops)]
    BY <2>1, ConcatProperties
  <2> QED
    BY <2>1, <2>2 DEF t
<1>4. ASSUME NEW k \in 1..Len(ops) PROVE todo'[k] = ops[k]
  <2>1. k \in 1..(Len(ops) + Len(Tail(todo))) /\ k <= Len(ops)
    BY <1>1, <1>2, <1>3
  <2> QED
    BY <1>3, <2>1
<1>5. ASSUME NEW k \in (Len(ops) + 1)..Len(todo') PROVE todo'[k] = todo[k - Len(ops) + 1]
  <2>1. k - Len(ops) \in 1..Len(Tail(todo)) /\ ~(k <= Len(ops))
        /\ k \in 1..(Len(ops) + Len(Tail(todo)))
    BY <1>1, <1>2, <1>3
  <2> QED
    BY <1>2, <1>3, <2>1
<1> QED
  BY <1>1, <1>2, <1>3, <1>4, <1>5

(* ... changes what is pending only by what its operation comes to.         *)
LEMMA BecomingOutputs ==
  ASSUME TypeInv, todo # <<>>, NEW ops \in Seq(Ops), Becomes(ops), UNCHANGED bsExited,
         NEW more \in Seq(Nat), Output(Head(todo), bsExited) = more \o Outputs(ops, bsExited)
  PROVE  Outputs(todo, bsExited) = more \o Outputs(todo, bsExited)'
<1> DEFINE t == Tail(todo)
           a == Outputs(ops, bsExited)
           b == Outputs(t, bsExited)
<1>1. todo \in Seq(Ops) /\ bsExited \in BOOLEAN
  BY DEF TypeInv
<1>2. t \in Seq(Ops) /\ Outputs(todo, bsExited) = Output(Head(todo), bsExited) \o b
  BY <1>1, OutputsHead
<1>3. a \in Seq(Nat) /\ b \in Seq(Nat)
  <2> HIDE DEF t
  <2> QED  BY <1>1, <1>2, OutputsType
<1>4. Outputs(todo, bsExited)' = a \o b
  <2>1. Outputs(todo, bsExited)' = Outputs(ops \o t, bsExited)
    BY DEF Becomes
  <2> HIDE DEF t
  <2> QED  BY <1>1, <1>2, <2>1, OutputsConcat
<1>5. Outputs(todo, bsExited) = (more \o a) \o b
  BY <1>2
<1> HIDE DEF a, b
<1>6. (more \o a) \o b = more \o (a \o b)
  BY <1>3, Regroup, Zenon
<1> QED
  BY <1>4, <1>5, <1>6

(* ... keeps what the port has and will have, if the buffer takes the rest. *)
LEMMA BecomingPending ==
  ASSUME TypeInv, todo # <<>>, NEW ops \in Seq(Ops), Becomes(ops), NEW more \in Seq(Nat),
         Output(Head(todo), bsExited) = more \o Outputs(ops, bsExited),
         Waiting' = Waiting \o more, OutputInv,
         UNCHANGED <<loaderVars, thr, wire>>
  PROVE  OutputInv'
<1> DEFINE w == Waiting
           u == Outputs(todo, bsExited)'
<1>1. UNCHANGED bsExited /\ bsExited \in BOOLEAN /\ Given' = Given
  BY DEF TypeInv, loaderVars, Given
<1>2. Shown' = Shown
  BY DEF loaderVars, Shown, Bytes, Spoken, Statement, ExitedBy
<1>3. Outputs(todo, bsExited) = more \o u
  BY <1>1, BecomingOutputs
<1>4. u \in Seq(Nat)
  <2>1. todo' \in Seq(Ops) /\ bsExited' \in BOOLEAN
    BY <1>1, Becoming
  <2> QED
    BY <2>1, OutputsType
<1>5. w \in Seq(Nat)
  BY WaitingIs
<1>6. Pending = w \o (more \o u) /\ Pending' = (w \o more) \o u
  BY <1>3 DEF Pending
<1> HIDE DEF w, u
<1>7. (w \o more) \o u = w \o (more \o u)
  BY <1>4, <1>5, Regroup, Zenon
<1>8. Pending' = Pending
  BY <1>6, <1>7
<1> QED
  BY <1>1, <1>2, <1>8 DEF OutputInv, Bytes

(* ... leaves the flush that ends the call, unless it is that flush.        *)
LEMMA BecomingCall ==
  ASSUME TypeInv, CallInv, todo # <<>>, NEW ops \in Seq(Ops), Becomes(ops),
         UNCHANGED loaderVars,
         Head(todo).op = "flush" => Len(ops) = 0 /\ buffer' = <<>> /\ sent' = 0
  PROVE  CallInv'
<1>1. /\ Len(todo') = Len(ops) + Len(todo) - 1 /\ Len(todo) \in Nat \ {0} /\ Len(ops) \in Nat
      /\ \A k \in (Len(ops) + 1)..Len(todo') : todo'[k] = todo[k - Len(ops) + 1]
      /\ todo[1] = Head(todo) /\ todo' \in Seq(Ops)
  BY Becoming
<1>2. todo[Len(todo)] = Flush /\ next > 1
  BY DEF CallInv
<1>3. CASE Len(todo) = 1
  <2>1. Len(ops) = 0 /\ buffer' = <<>> /\ sent' = 0
    BY <1>1, <1>2, <1>3 DEF Flush
  <2>2. todo' = <<>>
    BY <1>1, <1>3, <2>1
  <2>3. bsExited' = ExitedBy(script, next - 1)'
    BY DEF CallInv, loaderVars, ExitedBy
  <2> QED
    BY <2>1, <2>2, <2>3 DEF CallInv
<1> SUFFICES ASSUME Len(todo) # 1 PROVE CallInv'
  BY <1>3
<1>4. Len(todo') \in (Len(ops) + 1)..Len(todo') /\ Len(todo') - Len(ops) + 1 = Len(todo)
  <2> DEFINE m == Len(todo)
             n == Len(ops)
             p == Len(todo')
  <2>1. p = n + m - 1 /\ m \in Nat \ {0, 1} /\ n \in Nat
    BY <1>1
  <2> HIDE DEF m, n, p
  <2>2. p \in (n + 1)..p /\ p - n + 1 = m
    BY <2>1
  <2> QED
    BY <2>2 DEF m, n, p
<1>5. todo'[Len(todo')] = Flush
  BY <1>1, <1>2, <1>4
<1>6. todo' # <<>>
  BY <1>1, <1>4
<1>7. bsExited' = ExitedBy(script, next - 1)' /\ next' > 1
  BY <1>2 DEF CallInv, loaderVars, ExitedBy
<1> QED
  BY <1>5, <1>6, <1>7 DEF CallInv

(* ... and brings no second copy, nor one that waits for a malloc.          *)
Plain(op) == op.op \in {"write", "store", "flush"}

LEMMA BecomingPlain ==
  ASSUME TypeInv, FreeInv, todo # <<>>, NEW ops \in Seq(Ops), Becomes(ops),
         \A k \in 1..Len(ops) : Plain(ops[k])
  PROVE  /\ FreeInv'
         /\ Owed' <=> \E k \in 2..Len(todo) : todo[k].op = "free" /\ todo[k].count = 1
<1>1. /\ Len(todo') = Len(ops) + Len(todo) - 1 /\ Len(todo) \in Nat \ {0} /\ Len(ops) \in Nat
      /\ \A k \in 1..Len(ops) : todo'[k] = ops[k]
      /\ \A k \in (Len(ops) + 1)..Len(todo') : todo'[k] = todo[k - Len(ops) + 1]
  BY Becoming
<1>2. ASSUME NEW k \in 1..Len(todo'), ~Plain(todo'[k])
      PROVE  /\ k - Len(ops) + 1 \in 2..Len(todo) /\ todo'[k] = todo[k - Len(ops) + 1]
  <2>1. ~(k <= Len(ops))
    BY <1>1, <1>2
  <2> QED
    BY <1>1, <2>1
<1>3. FreeInv'
  <2> SUFFICES ASSUME NEW k \in 1..Len(todo'), Frees(todo'[k]), NEW j \in 1..Len(todo')
               PROVE  /\ j # k => ~Frees(todo'[j])
                      /\ j < k => todo'[j].op # "malloc"
    BY DEF FreeInv, Frees
  <2>1. /\ k - Len(ops) + 1 \in 2..Len(todo) /\ Frees(todo[k - Len(ops) + 1])
    BY <1>2 DEF Frees, Plain
  <2>2. CASE Plain(todo'[j])
    BY <2>2 DEF Plain, Frees
  <2>3. CASE ~Plain(todo'[j])
    <3>1. j - Len(ops) + 1 \in 2..Len(todo) /\ todo'[j] = todo[j - Len(ops) + 1]
      BY <1>2, <2>3
    <3> DEFINE a == j - Len(ops) + 1
               b == k - Len(ops) + 1
    <3>2. a \in 1..Len(todo) /\ b \in 1..Len(todo) /\ Frees(todo[b])
      BY <2>1, <3>1
    <3>3. (j # k => a # b) /\ (j < k => a < b)
      BY <1>1
    <3>4. todo'[j] = todo[a]
      BY <3>1
    <3> HIDE DEF a, b
    <3>5. (a # b => ~Frees(todo[a])) /\ (a < b => todo[a].op # "malloc")
      BY <3>2, Zenon DEF FreeInv
    <3> QED
      BY <3>3, <3>4, <3>5
  <2> QED
    BY <2>2, <2>3
<1>4. ASSUME Owed' PROVE \E k \in 2..Len(todo) : todo[k].op = "free" /\ todo[k].count = 1
  <2>1. PICK k \in 1..Len(todo') : todo'[k].op = "free" /\ todo'[k].count = 1
    BY <1>4 DEF Owed
  <2>2. k - Len(ops) + 1 \in 2..Len(todo) /\ todo'[k] = todo[k - Len(ops) + 1]
    BY <1>2, <2>1 DEF Plain
  <2> QED
    BY <2>1, <2>2
<1>5. ASSUME NEW k \in 2..Len(todo), todo[k].op = "free", todo[k].count = 1 PROVE Owed'
  <2> DEFINE m == Len(todo)
             n == Len(ops)
             p == Len(todo')
             j == k + n - 1
  <2>1. p = n + m - 1 /\ m \in Nat \ {0} /\ n \in Nat /\ k \in 2..m
    BY <1>1
  <2>2. \A i \in (n + 1)..p : todo'[i] = todo[i - n + 1]
    BY <1>1
  <2> HIDE DEF m, n, p
  <2>3. j \in (n + 1)..p /\ j \in 1..p /\ j - n + 1 = k
    BY <2>1
  <2> HIDE DEF j
  <2>4. todo'[j] = todo[k]
    BY <2>2, <2>3
  <2> QED
    BY <1>5, <2>3, <2>4 DEF Owed, p
<1> QED
  BY <1>3, <1>4, <1>5

LEMMA BecomingFrees ==
  ASSUME TypeInv, FreeInv, todo # <<>>, Head(todo).op \in {"malloc", "copy"},
         NEW ops \in Seq(Ops), Becomes(ops), Len(ops) # 0,
         \A k \in 1..(Len(ops) - 1) : Plain(ops[k]), Frees(ops[Len(ops)])
  PROVE  /\ FreeInv'
         /\ ~Owed
         /\ Owed' <=> ops[Len(ops)].op = "free" /\ ops[Len(ops)].count = 1
<1>1. /\ Len(todo') = Len(ops) + Len(todo) - 1 /\ Len(todo) \in Nat \ {0} /\ Len(ops) \in Nat
      /\ \A k \in 1..Len(ops) : todo'[k] = ops[k]
      /\ \A k \in (Len(ops) + 1)..Len(todo') : todo'[k] = todo[k - Len(ops) + 1]
      /\ todo[1] = Head(todo)
  BY Becoming
<1>2. \A k \in 2..Len(todo) : ~Frees(todo[k])
  <2> SUFFICES ASSUME NEW k \in 2..Len(todo), Frees(todo[k]) PROVE FALSE
    OBVIOUS
  <2>1. k \in 1..Len(todo) /\ 1 \in 1..Len(todo) /\ 1 # k /\ 1 < k
    BY <1>1
  <2>2. ~Frees(todo[1]) /\ todo[1].op # "malloc"
    BY <2>1 DEF FreeInv
  <2> QED
    BY <1>1, <2>2 DEF Frees
<1>3. ASSUME NEW k \in 1..Len(todo'), k # Len(ops)
      PROVE  ~Frees(todo'[k]) /\ (k < Len(ops) => todo'[k].op # "malloc")
  <2>1. CASE k < Len(ops)
    <3>1. k \in 1..Len(ops) /\ k \in 1..(Len(ops) - 1)
      BY <1>1, <2>1
    <3> QED
      BY <1>1, <3>1 DEF Plain, Frees
  <2>2. CASE ~(k < Len(ops))
    <3>1. k \in (Len(ops) + 1)..Len(todo') /\ k - Len(ops) + 1 \in 2..Len(todo)
      BY <1>1, <1>3, <2>2
    <3> QED
      BY <1>1, <1>2, <2>2, <3>1
  <2> QED
    BY <2>1, <2>2
<1>4. todo'[Len(ops)] = ops[Len(ops)] /\ Len(ops) \in 1..Len(todo')
  BY <1>1
<1>5. FreeInv'
  <2> SUFFICES ASSUME NEW k \in 1..Len(todo'), Frees(todo'[k]), NEW j \in 1..Len(todo')
               PROVE  /\ j # k => ~Frees(todo'[j])
                      /\ j < k => todo'[j].op # "malloc"
    BY DEF FreeInv, Frees
  <2>1. k = Len(ops)
    BY <1>3
  <2> QED
    BY <1>3, <2>1
<1>6. ~Owed
  <2> SUFFICES ASSUME NEW k \in 1..Len(todo), todo[k].op = "free" PROVE FALSE
    BY DEF Owed
  <2>1. k # 1
    BY <1>1
  <2> QED
    BY <1>1, <1>2, <2>1 DEF Frees
<1>7. Owed' <=> ops[Len(ops)].op = "free" /\ ops[Len(ops)].count = 1
  <2>1. ASSUME Owed' PROVE ops[Len(ops)].op = "free" /\ ops[Len(ops)].count = 1
    <3>1. PICK k \in 1..Len(todo') : todo'[k].op = "free" /\ todo'[k].count = 1
      BY <2>1 DEF Owed
    <3>2. k = Len(ops)
      BY <1>3, <3>1 DEF Frees
    <3> QED
      BY <1>4, <3>1, <3>2
  <2>2. ASSUME ops[Len(ops)].op = "free", ops[Len(ops)].count = 1 PROVE Owed'
    BY <1>4, <2>2 DEF Owed
  <2> QED
    BY <2>1, <2>2
<1> QED
  BY <1>5, <1>6, <1>7

(* ... keeps each store behind a flush or within the buffer.                *)
LEMMA BecomingStores ==
  ASSUME TypeInv, StoreInv, todo # <<>>, NEW ops \in Seq(Ops), Becomes(ops),
         UNCHANGED <<loaderVars, stopped>>,
         \A k \in 2..Len(ops) : ops[k].op = "store" => ops[k - 1].op = "flush",
         Len(ops) # 0 /\ ops[1].op = "store" => Fits(buffer', ops[1].text),
         \A k \in 1..Len(ops) : TooLong(ops[k]) => LongString,
         Head(todo).op = "flush" => Len(ops) = 0 /\ buffer' = <<>>
  PROVE  StoreInv'
<1>1. /\ Len(todo') = Len(ops) + Len(todo) - 1 /\ Len(todo) \in Nat \ {0} /\ Len(ops) \in Nat
      /\ \A k \in 1..Len(ops) : todo'[k] = ops[k]
      /\ \A k \in (Len(ops) + 1)..Len(todo') : todo'[k] = todo[k - Len(ops) + 1]
      /\ todo[1] = Head(todo) /\ todo' \in Seq(Ops)
  BY Becoming
<1>2. LongString' = LongString
  BY DEF LongString, loaderVars
<1>3. ASSUME NEW k \in 2..Len(todo'), todo'[k].op = "store" PROVE todo'[k - 1].op = "flush"
  <2>1. CASE k <= Len(ops)
    <3>1. k \in 2..Len(ops) /\ k \in 1..Len(ops) /\ k - 1 \in 1..Len(ops)
      BY <1>1, <2>1
    <3> QED
      BY <1>1, <1>3, <3>1
  <2>2. CASE k = Len(ops) + 1
    <3>1. k \in (Len(ops) + 1)..Len(todo') /\ k - Len(ops) + 1 = 2 /\ 2 \in 2..Len(todo)
          /\ k - Len(ops) + 1 \in 2..Len(todo) /\ Len(ops) # 0
      BY <1>1, <1>3, <2>2
    <3>2. todo[2].op = "store"
      BY <1>1, <1>3, <3>1
    <3>3. todo[2 - 1].op = "flush"
      BY <3>1, <3>2 DEF StoreInv
    <3> QED
      BY <1>1, <3>1, <3>3
  <2>3. CASE k > Len(ops) + 1
    <3>1. /\ k \in (Len(ops) + 1)..Len(todo') /\ k - 1 \in (Len(ops) + 1)..Len(todo')
          /\ k - Len(ops) + 1 \in 2..Len(todo)
          /\ (k - 1) - Len(ops) + 1 = (k - Len(ops) + 1) - 1
      <4> DEFINE m == Len(todo)
                 n == Len(ops)
                 p == Len(todo')
      <4>1. p = n + m - 1 /\ m \in Nat \ {0} /\ n \in Nat /\ k \in 2..p /\ k > n + 1
        BY <1>1, <1>3, <2>3
      <4> HIDE DEF m, n, p
      <4>2. k \in (n + 1)..p /\ k - 1 \in (n + 1)..p /\ k - n + 1 \in 2..m
            /\ (k - 1) - n + 1 = (k - n + 1) - 1
        BY <4>1
      <4> QED
        BY <4>2 DEF m, n, p
    <3>2. todo[(k - Len(ops) + 1) - 1].op = "flush"
      BY <1>1, <1>3, <3>1 DEF StoreInv
    <3> QED
      BY <1>1, <3>1, <3>2
  <2> QED
    BY <1>1, <2>1, <2>2, <2>3
<1>4. ASSUME todo' # <<>>, todo'[1].op = "store" PROVE Fits(buffer', todo'[1].text)
  <2>1. CASE Len(ops) # 0
    <3>1. todo'[1] = ops[1]
      BY <1>1, <2>1
    <3> QED
      BY <1>4, <2>1, <3>1
  <2>2. CASE Len(ops) = 0
    <3>1. Len(todo') # 0
      BY <1>1, <1>4
    <3>2. 1 \in (Len(ops) + 1)..Len(todo') /\ 1 - Len(ops) + 1 = 2 /\ 2 \in 2..Len(todo)
      BY <1>1, <2>2, <3>1
    <3>3. todo'[1] = todo[2] /\ todo[2].op = "store"
      BY <1>1, <1>4, <3>2
    <3>4. todo[2 - 1].op = "flush"
      BY <3>2, <3>3 DEF StoreInv
    <3>5. buffer' = <<>>
      BY <1>1, <3>4
    <3>6. todo'[1].text \in Seq(Nat)
      <4>1. todo'[1] \in Ops
        BY <1>1, <3>1
      <4> QED
        BY <1>4, <4>1, OpIs
    <3>7. Len(buffer') + Len(todo'[1].text) = Len(todo'[1].text) /\ Len(todo'[1].text) \in Nat
      BY <3>5, <3>6
    <3> QED
      BY <3>7, ConsoleAssumption DEF Fits
  <2> QED
    BY <2>1, <2>2
<1>5. ASSUME NEW k \in 1..Len(todo'), TooLong(todo'[k]) PROVE LongString
  <2>1. CASE k <= Len(ops)
    <3>1. k \in 1..Len(ops)
      BY <1>1, <2>1
    <3> QED
      BY <1>1, <1>5, <3>1
  <2>2. CASE ~(k <= Len(ops))
    <3>1. k \in (Len(ops) + 1)..Len(todo') /\ k - Len(ops) + 1 \in 1..Len(todo)
      BY <1>1, <2>2
    <3> QED
      BY <1>1, <1>5, <3>1 DEF StoreInv
  <2> QED
    BY <2>1, <2>2
<1>6. stopped' = "overrun" => LongString
  BY DEF StoreInv
<1> QED
  <2>1. /\ \A k \in 2..Len(todo') : todo'[k].op = "store" => todo'[k - 1].op = "flush"
        /\ todo' # <<>> /\ todo'[1].op = "store" => Fits(buffer', todo'[1].text)
        /\ \A k \in 1..Len(todo') : TooLong(todo'[k]) => LongString'
        /\ stopped' = "overrun" => LongString'
    BY <1>2, <1>3, <1>4, <1>5, <1>6
  <2> QED
    BY <2>1, Zenon DEF StoreInv, TooLong, Fits

LEMMA OwedLater ==
  ASSUME TypeInv, todo # <<>>, Head(todo).op # "free"
  PROVE  Owed <=> \E k \in 2..Len(todo) : todo[k].op = "free" /\ todo[k].count = 1
<1>1. Len(todo) \in Nat \ {0} /\ Head(todo) = todo[1]
  BY DEF TypeInv
<1>2. \A k \in 1..Len(todo) : k # 1 => k \in 2..Len(todo)
  BY <1>1
<1>3. \A k \in 2..Len(todo) : k \in 1..Len(todo)
  BY <1>1
<1> QED
  BY <1>1, <1>2, <1>3 DEF Owed

LEMMA PlainBlocks ==
  ASSUME TypeInv, FreeInv, BlocksInv, todo # <<>>, Head(todo).op # "free",
         NEW ops \in Seq(Ops), Becomes(ops), \A k \in 1..Len(ops) : Plain(ops[k]),
         UNCHANGED <<loaderVars, blocks>>
  PROVE  FreeInv' /\ BlocksInv'
<1>1. FreeInv' /\ (Owed' <=> Owed)
  BY BecomingPlain, OwedLater
<1> QED
  BY <1>1 DEF BlocksInv, loaderVars

(* ... and all of that for the steps that leave the buffer alone.           *)
LEMMA BecomingSays ==
  ASSUME IInv, todo # <<>>, NEW ops \in Seq(Ops), Becomes(ops), Head(todo).op # "flush",
         UNCHANGED <<loaderVars, buffer, sent, thr, wire, stopped>>,
         Output(Head(todo), bsExited) = Outputs(ops, bsExited),
         \A k \in 2..Len(ops) : ops[k].op = "store" => ops[k - 1].op = "flush",
         Len(ops) # 0 /\ ops[1].op = "store" => Fits(buffer, ops[1].text),
         \A k \in 1..Len(ops) : TooLong(ops[k]) => LongString
  PROVE  TypeInv' /\ CallInv' /\ StoreInv' /\ OutputInv'
<1> USE DEF IInv
<1>1. todo' \in Seq(Ops)
  BY Becoming
<1>2. TypeInv'
  BY <1>1 DEF TypeInv, loaderVars
<1>3. CallInv'
  BY BecomingCall
<1>4. StoreInv'
  <2>1. Len(ops) # 0 /\ ops[1].op = "store" => Fits(buffer', ops[1].text)
    OBVIOUS
  <2>2. UNCHANGED <<loaderVars, stopped>>
    OBVIOUS
  <2> QED
    BY <2>1, <2>2, BecomingStores
<1>5. OutputInv'
  <2>1. Waiting \in Seq(Nat) /\ Waiting' = Waiting
    BY WaitingIs DEF Waiting
  <2>2. Outputs(ops, bsExited) \in Seq(Nat) /\ <<>> \in Seq(Nat)
    BY OutputsType DEF TypeInv
  <2>3. Waiting' = Waiting \o <<>> /\ Output(Head(todo), bsExited) = <<>> \o Outputs(ops, bsExited)
    BY <2>1, <2>2, ConcatEmptySeq
  <2>4. UNCHANGED <<loaderVars, thr, wire>>
    OBVIOUS
  <2> QED
    BY <2>2, <2>3, <2>4, BecomingPending
<1> QED
  BY <1>2, <1>3, <1>4, <1>5

-----------------------------------------------------------------------------
(* Each action.                                                             *)
LEMMA Pairs == \A a, b : <<a>> \o <<b>> = <<a, b>> /\ <<>> \o <<b>> = <<b>>
<1> SUFFICES ASSUME NEW a, NEW b PROVE <<a>> \o <<b>> = <<a, b>> /\ <<>> \o <<b>> = <<b>>
  OBVIOUS
<1>1. <<a>> \in Seq({a, b}) /\ <<b>> \in Seq({a, b}) /\ <<a, b>> \in Seq({a, b})
  OBVIOUS
<1>2. <<a>> \o <<b>> = <<a, b>>
  <2>1. /\ <<a>> \o <<b>> \in Seq({a, b}) /\ Len(<<a>> \o <<b>>) = 2
        /\ (<<a>> \o <<b>>)[1] = a /\ (<<a>> \o <<b>>)[2] = b
    BY <1>1, ConcatProperties
  <2>2. \A i \in 1..2 : (<<a>> \o <<b>>)[i] = <<a, b>>[i]
    BY <2>1
  <2> QED
    BY <1>1, <2>1, <2>2, SeqEqual
<1> QED
  BY <1>1, <1>2, ConcatEmptySeq

LEMMA WriteTextStep ==
  ASSUME IInv, WriteText
  PROVE  IInv'
<1> DEFINE text == Head(todo).text
           ops == IF Full(text) THEN <<Flush, Store(text)>> ELSE <<Store(text)>>
<1>1. todo # <<>> /\ Head(todo).op = "write" /\ Head(todo) \in Ops /\ todo[1] = Head(todo)
      /\ 1 \in 1..Len(todo) /\ bsExited \in BOOLEAN
  BY HeadTailProperties DEF IInv, TypeInv, WriteText, Doing
<1>2. text \in Seq(Nat) /\ Output(Head(todo), bsExited) = text
  BY <1>1, OpIs DEF Output
<1>3. Becomes(ops) /\ UNCHANGED <<loaderVars, buffer, sent, thr, wire, stopped>> /\ UNCHANGED blocks
  <2>1. (IF Full(text) THEN <<Flush>> ELSE <<>>) \o <<Store(text)>> = ops
    <3>1. <<Flush>> \o <<Store(text)>> = <<Flush, Store(text)>> /\ <<>> \o <<Store(text)>> = <<Store(text)>>
      BY Pairs
    <3> QED
      BY <3>1, Zenon
  <2> QED
    BY <2>1 DEF WriteText
<1>4. TooLong(Head(todo)) => LongString
  BY <1>1 DEF IInv, StoreInv
<1>5. Store(text) \in Ops /\ Flush \in Ops
  BY <1>2, OpsAre
<1> HIDE DEF text
<1>6. CASE Full(text)
  <2>1. ops = <<Flush, Store(text)>> /\ ops = <<Flush>> \o <<Store(text)>>
    BY <1>6
  <2> HIDE DEF ops
  <2>2. ops \in Seq(Ops) /\ Len(ops) = 2 /\ ops[1] = Flush /\ ops[2] = Store(text)
        /\ \A k \in 1..Len(ops) : k = 1 \/ k = 2
    BY <1>5, <2>1
  <2>3. Outputs(ops, bsExited) = text
    <3>1. <<Flush>> \in Seq(Ops) /\ <<Store(text)>> \in Seq(Ops)
      BY <1>5
    <3>2. Outputs(ops, bsExited) = Outputs(<<Flush>>, bsExited) \o Outputs(<<Store(text)>>, bsExited)
      BY <1>1, <2>1, <3>1, OutputsConcat
    <3>3. Outputs(<<Flush>>, bsExited) = <<>> /\ Outputs(<<Store(text)>>, bsExited) = text
      BY <1>1, <1>2, <1>5, OutputsOne, OutputIs
    <3> QED
      BY <1>2, <3>2, <3>3, ConcatEmptySeq
  <2>4. \A k \in 1..Len(ops) : Plain(ops[k]) /\ (TooLong(ops[k]) => LongString)
    BY <1>1, <1>4, <2>2 DEF Plain, Flush, Store, TooLong, text
  <2>5. /\ \A k \in 2..Len(ops) : ops[k].op = "store" => ops[k - 1].op = "flush"
        /\ Len(ops) # 0 /\ ops[1].op = "store" => Fits(buffer, ops[1].text)
    BY <2>2 DEF Flush
  <2>6. FreeInv' /\ BlocksInv'
    BY <1>1, <1>3, <2>2, <2>4, PlainBlocks DEF IInv
  <2>7. TypeInv' /\ CallInv' /\ StoreInv' /\ OutputInv'
    BY <1>1, <1>2, <1>3, <2>2, <2>3, <2>4, <2>5, BecomingSays
  <2> QED
    BY <2>6, <2>7 DEF IInv
<1>7. CASE ~Full(text)
  <2>1. ops = <<Store(text)>>
    BY <1>7
  <2> HIDE DEF ops
  <2>2. ops \in Seq(Ops) /\ Len(ops) = 1 /\ ops[1] = Store(text)
        /\ \A k \in 1..Len(ops) : k = 1
    BY <1>5, <2>1
  <2>3. Outputs(ops, bsExited) = text
    BY <1>1, <1>2, <1>5, <2>1, OutputsOne, OutputIs
  <2>4. \A k \in 1..Len(ops) : Plain(ops[k]) /\ (TooLong(ops[k]) => LongString)
    BY <1>1, <1>4, <2>2 DEF Plain, Store, TooLong, text
  <2>5. /\ \A k \in 2..Len(ops) : ops[k].op = "store" => ops[k - 1].op = "flush"
        /\ Len(ops) # 0 /\ ops[1].op = "store" => Fits(buffer, ops[1].text)
    <3>1. Len(buffer) \in Nat /\ Len(text) \in Nat /\ BUFFER_SIZE \in Nat
      BY <1>2, ConsoleAssumption DEF IInv, TypeInv
    <3>2. ops[1].text = text
      BY <2>2 DEF Store
    <3> QED
      BY <1>7, <2>2, <3>1, <3>2 DEF Fits, Full
  <2>6. FreeInv' /\ BlocksInv'
    BY <1>1, <1>3, <2>2, <2>4, PlainBlocks DEF IInv
  <2>7. TypeInv' /\ CallInv' /\ StoreInv' /\ OutputInv'
    BY <1>1, <1>2, <1>3, <2>2, <2>3, <2>4, <2>5, BecomingSays
  <2> QED
    BY <2>6, <2>7 DEF IInv
<1> QED
  BY <1>6, <1>7

LEMMA MallocCopyStep ==
  ASSUME IInv, MallocCopy
  PROVE  IInv'
<1> DEFINE text == Head(todo).text
           narrow == Narrow(text)
<1>1. todo # <<>> /\ Head(todo).op = "malloc" /\ Head(todo) \in Ops
      /\ bsExited \in BOOLEAN /\ UNCHANGED <<loaderVars, buffer, sent, thr, wire, stopped>>
      /\ BugMalloc \in Seq(Nat) /\ BugFree \in Seq(Nat)
  BY HeadTailProperties, ConsoleAssumption DEF IInv, TypeInv, MallocCopy, Doing
<1>2. text \in Seq(Nat) /\ narrow \in Seq(Nat) /\ Len(narrow) <= BUFFER_SIZE
      /\ Output(Head(todo), bsExited) = IF bsExited THEN (BugMalloc \o narrow) \o BugFree ELSE narrow
  <2>1. text \in Seq(Nat)
    BY <1>1, OpIs
  <2>2. Len(narrow) \in Nat /\ BUFFER_SIZE \in Nat /\ narrow \in Seq(Nat) /\ Len(narrow) < BUFFER_SIZE
    BY <2>1, NarrowIs, ConsoleAssumption
  <2> QED
    BY <1>1, <2>1, <2>2 DEF Output
<1>3. Copy(text) \in Ops /\ Write(narrow) \in Ops /\ Free(1) \in Ops
  <2> HIDE DEF text, narrow
  <2> QED  BY <1>2, OpsAre
<1>4. Outputs(<<Copy(text)>>, bsExited) = IF bsExited THEN narrow \o BugFree ELSE narrow
  <2> HIDE DEF text
  <2> QED  BY <1>1, <1>2, <1>3, OutputsOne, OutputIs DEF narrow
<1>5. /\ Copy(text).op = "copy" /\ Free(1).op = "free" /\ Free(1).count = 1
      /\ Write(narrow).op = "write" /\ Write(narrow).text = narrow
  BY DEF Copy, Free, Write
<1>6. CASE bsExited /\ Becomes(Printf(Text(BugMalloc)) \o <<Copy(text)>>) /\ UNCHANGED blocks
  <2> DEFINE p == Printf(Text(BugMalloc))
             ops == p \o <<Copy(text)>>
  <2>1. p \in Seq(Short) /\ p \in Seq(Ops) /\ Len(p) \in Nat \ {0} /\ Outputs(p, bsExited) = BugMalloc
    BY <1>1, TextIs
  <2>2. Becomes(ops)
    BY <1>6
  <2> HIDE DEF p, text, narrow
  <2>3. <<Copy(text)>> \in Seq(Ops) /\ Len(<<Copy(text)>>) = 1 /\ <<Copy(text)>>[1] = Copy(text)
    BY <1>3
  <2>4. /\ ops \in Seq(Ops) /\ Len(ops) = Len(p) + 1 /\ ops[Len(p) + 1] = Copy(text)
        /\ \A k \in 1..Len(p) : ops[k] = p[k]
    <3> DEFINE c == <<Copy(text)>>
    <3> HIDE DEF c
    <3>1. c \in Seq(Ops) /\ Len(c) = 1 /\ c[1] = Copy(text)
      BY <2>3 DEF c
    <3>2. /\ p \o c \in Seq(Ops) /\ Len(p \o c) = Len(p) + Len(c)
          /\ \A k \in 1..(Len(p) + Len(c)) : (p \o c)[k] = IF k <= Len(p) THEN p[k] ELSE c[k - Len(p)]
      BY <2>1, <3>1, ConcatProperties
    <3> QED
      BY <2>1, <3>1, <3>2 DEF c
  <2>5. Outputs(ops, bsExited) = BugMalloc \o (narrow \o BugFree)
    BY <1>1, <1>4, <1>6, <2>1, <2>3, OutputsConcat
  <2>6. Output(Head(todo), bsExited) = Outputs(ops, bsExited)
    <3>1. (BugMalloc \o narrow) \o BugFree = BugMalloc \o (narrow \o BugFree)
      <4>1. BugMalloc \in Seq(Nat) /\ narrow \in Seq(Nat) /\ BugFree \in Seq(Nat)
        BY <1>1, <1>2
      <4> QED
        BY <4>1, Regroup, Zenon
    <3> QED
      BY <1>2, <1>6, <2>5, <3>1, Zenon
  <2> HIDE DEF ops
  <2>7. \A k \in 1..(Len(ops) - 1) : ops[k] \in Short
    BY <2>1, <2>4
  <2>8. \A k \in 1..(Len(ops) - 1) : Plain(ops[k]) /\ ops[k].op # "store" /\ ~TooLong(ops[k])
    <3> TAKE k \in 1..(Len(ops) - 1)
    <3> DEFINE o == ops[k]
    <3>1. o \in Short
      BY <2>7
    <3> HIDE DEF o
    <3>2. o = Flush \/ (o \in Ops /\ o.op = "write" /\ Len(o.text) <= BUFFER_SIZE)
      BY <3>1 DEF Short
    <3>3. o.op = "write" /\ o \in Ops => Len(o.text) \in Nat /\ BUFFER_SIZE \in Nat
      BY OpIs, ConsoleAssumption
    <3>4. Plain(o) /\ o.op # "store" /\ ~TooLong(o)
      BY <3>2, <3>3 DEF Plain, TooLong, Flush
    <3> QED
      BY <3>4 DEF o
  <2>9. Len(ops) # 0 /\ ops[Len(ops)] = Copy(text) /\ Len(ops) \in Nat
        /\ \A k \in 1..Len(ops) : k = Len(ops) \/ k \in 1..(Len(ops) - 1)
    BY <2>1, <2>4
  <2>10. \A k \in 1..Len(ops) : ops[k].op # "store" /\ ~TooLong(ops[k])
    BY <1>5, <2>8, <2>9 DEF TooLong
  <2>11. FreeInv' /\ ~Owed /\ ~Owed'
    BY <1>1, <1>5, <2>2, <2>4, <2>8, <2>9, BecomingFrees DEF IInv, Frees
  <2>12. BlocksInv'
    BY <1>1, <1>6, <2>11 DEF IInv, BlocksInv
  <2>13. /\ \A k \in 2..Len(ops) : ops[k].op = "store" => ops[k - 1].op = "flush"
         /\ Len(ops) # 0 /\ ops[1].op = "store" => Fits(buffer, ops[1].text)
         /\ \A k \in 1..Len(ops) : TooLong(ops[k]) => LongString
    <3>1. \A k \in 2..Len(ops) : k \in 1..Len(ops)
      BY <2>9
    <3>2. Len(ops) # 0 => 1 \in 1..Len(ops)
      BY <2>9
    <3> QED
      BY <2>10, <3>1, <3>2
  <2>14. TypeInv' /\ CallInv' /\ StoreInv' /\ OutputInv'
    BY <1>1, <2>2, <2>4, <2>6, <2>13, BecomingSays
  <2> QED
    BY <2>11, <2>12, <2>14 DEF IInv
<1>7. CASE ~bsExited /\ blocks' = blocks + 1 /\ Becomes(<<Write(narrow), Free(1)>>)
  <2> DEFINE ops == <<Write(narrow), Free(1)>>
  <2> HIDE DEF text, narrow
  <2>1. ops \in Seq(Ops) /\ Len(ops) = 2 /\ ops[1] = Write(narrow) /\ ops[2] = Free(1)
        /\ ops = <<Write(narrow)>> \o <<Free(1)>> /\ Becomes(ops)
        /\ (\A k \in 1..Len(ops) : k = 1 \/ k = 2) /\ (\A k \in 1..(Len(ops) - 1) : k = 1)
    BY <1>3, <1>7
  <2> HIDE DEF ops
  <2>2. Outputs(ops, bsExited) = narrow
    <3>1. <<Write(narrow)>> \in Seq(Ops) /\ <<Free(1)>> \in Seq(Ops)
      BY <1>3
    <3>2. Outputs(ops, bsExited) = Outputs(<<Write(narrow)>>, bsExited) \o Outputs(<<Free(1)>>, bsExited)
      BY <1>1, <2>1, <3>1, OutputsConcat
    <3>3. Outputs(<<Write(narrow)>>, bsExited) = narrow /\ Outputs(<<Free(1)>>, bsExited) = <<>>
      BY <1>1, <1>2, <1>3, <1>7, OutputsOne, OutputIs
    <3> QED
      BY <1>2, <3>2, <3>3, ConcatEmptySeq
  <2>3. \A k \in 1..(Len(ops) - 1) : Plain(ops[k])
    BY <1>5, <2>1 DEF Plain
  <2>4. FreeInv' /\ ~Owed /\ Owed'
    <3>1. ops[Len(ops)] = Free(1) /\ Len(ops) # 0 /\ Head(todo).op \in {"malloc", "copy"}
      BY <1>1, <2>1
    <3>2. Frees(ops[Len(ops)])
      BY <1>5, <3>1 DEF Frees
    <3> QED
      BY <1>1, <1>5, <2>1, <2>3, <3>1, <3>2, BecomingFrees DEF IInv
  <2>5. BlocksInv'
    BY <1>1, <1>7, <2>4 DEF IInv, BlocksInv, loaderVars
  <2>6. Len(narrow) \in Nat /\ BUFFER_SIZE \in Nat
    BY <1>2, ConsoleAssumption
  <2>7. /\ \A k \in 2..Len(ops) : ops[k].op = "store" => ops[k - 1].op = "flush"
        /\ Len(ops) # 0 /\ ops[1].op = "store" => Fits(buffer, ops[1].text)
        /\ \A k \in 1..Len(ops) : TooLong(ops[k]) => LongString
    BY <1>2, <1>5, <2>1, <2>6 DEF TooLong
  <2>8. TypeInv' /\ CallInv' /\ StoreInv' /\ OutputInv'
    BY <1>1, <1>2, <1>7, <2>1, <2>2, <2>7, BecomingSays
  <2> QED
    BY <2>4, <2>5, <2>8 DEF IInv
<1>8. CASE ~bsExited /\ Becomes(<<Copy(text)>>) /\ UNCHANGED blocks
  <2> DEFINE ops == <<Copy(text)>>
  <2>0. Outputs(ops, bsExited) = narrow
    BY <1>4, <1>8
  <2> HIDE DEF text, narrow
  <2>1. ops \in Seq(Ops) /\ Len(ops) = 1 /\ ops[1] = Copy(text) /\ Becomes(ops)
        /\ (\A k \in 1..Len(ops) : k = 1) /\ (\A k \in 1..(Len(ops) - 1) : FALSE)
    BY <1>3, <1>8
  <2> HIDE DEF ops
  <2>2. \A k \in 1..(Len(ops) - 1) : Plain(ops[k])
    BY <2>1
  <2>4. FreeInv' /\ ~Owed /\ ~Owed'
    <3>1. ops[Len(ops)] = Copy(text) /\ Len(ops) # 0 /\ Head(todo).op \in {"malloc", "copy"}
      BY <1>1, <2>1
    <3>2. Frees(ops[Len(ops)])
      BY <1>5, <3>1 DEF Frees
    <3> QED
      BY <1>1, <1>5, <2>1, <2>2, <3>1, <3>2, BecomingFrees DEF IInv
  <2>5. BlocksInv'
    BY <1>1, <1>8, <2>4 DEF IInv, BlocksInv
  <2>7. /\ \A k \in 2..Len(ops) : ops[k].op = "store" => ops[k - 1].op = "flush"
        /\ Len(ops) # 0 /\ ops[1].op = "store" => Fits(buffer, ops[1].text)
        /\ \A k \in 1..Len(ops) : TooLong(ops[k]) => LongString
    BY <1>5, <2>1 DEF TooLong
  <2>8. TypeInv' /\ CallInv' /\ StoreInv' /\ OutputInv'
    BY <1>1, <1>2, <1>8, <2>0, <2>1, <2>7, BecomingSays
  <2> QED
    BY <2>4, <2>5, <2>8 DEF IInv
<1> QED
  BY <1>6, <1>7, <1>8 DEF MallocCopy

LEMMA CopyToNullStep ==
  ASSUME IInv, CopyToNull
  PROVE  IInv'
<1> DEFINE text == Head(todo).text
           narrow == Narrow(text)
<1>1. todo # <<>> /\ Head(todo).op = "copy" /\ Head(todo) \in Ops
      /\ bsExited \in BOOLEAN /\ UNCHANGED <<loaderVars, buffer, sent, thr, wire, blocks>>
      /\ BugFree \in Seq(Nat)
  BY HeadTailProperties, ConsoleAssumption DEF IInv, TypeInv, CopyToNull, Doing
<1>2. CASE stopped' = "null" /\ UNCHANGED todo
  <2>1. TypeInv' /\ CallInv' /\ FreeInv' /\ BlocksInv'
    BY <1>1, <1>2 DEF IInv, TypeInv, CallInv, ExitedBy, FreeInv, BlocksInv, Owed, loaderVars
  <2>2. StoreInv'
    BY <1>1, <1>2 DEF IInv, StoreInv, LongString, loaderVars
  <2>3. Shown' = Shown
    BY <1>1 DEF Shown, loaderVars, Bytes, Spoken, Statement, ExitedBy
  <2>4. OutputInv'
    BY <1>1, <1>2, <2>3 DEF IInv, OutputInv, Given, Pending, Waiting, Bytes, loaderVars
  <2> QED
    BY <2>1, <2>2, <2>4 DEF IInv
<1>3. CASE Becomes(<<Write(narrow), Free(0)>>) /\ UNCHANGED stopped
  <2> DEFINE ops == <<Write(narrow), Free(0)>>
  <2>1. text \in Seq(Nat) /\ narrow \in Seq(Nat) /\ Len(narrow) <= BUFFER_SIZE
        /\ Output(Head(todo), bsExited) = IF bsExited THEN narrow \o BugFree ELSE narrow
    <3>1. text \in Seq(Nat)
      BY <1>1, OpIs
    <3>2. Len(narrow) \in Nat /\ BUFFER_SIZE \in Nat /\ narrow \in Seq(Nat) /\ Len(narrow) < BUFFER_SIZE
      BY <3>1, NarrowIs, ConsoleAssumption
    <3> QED
      BY <1>1, <3>1, <3>2 DEF Output
  <2> HIDE DEF text, narrow
  <2>2. Write(narrow) \in Ops /\ Free(0) \in Ops
    BY <2>1, OpsAre
  <2>3. /\ Free(0).op = "free" /\ Free(0).count = 0
        /\ Write(narrow).op = "write" /\ Write(narrow).text = narrow
    BY DEF Free, Write
  <2>4. ops \in Seq(Ops) /\ Len(ops) = 2 /\ ops[1] = Write(narrow) /\ ops[2] = Free(0)
        /\ ops = <<Write(narrow)>> \o <<Free(0)>> /\ Becomes(ops)
        /\ (\A k \in 1..Len(ops) : k = 1 \/ k = 2) /\ (\A k \in 1..(Len(ops) - 1) : k = 1)
    BY <1>3, <2>2
  <2> HIDE DEF ops
  <2>5. Output(Head(todo), bsExited) = Outputs(ops, bsExited)
    <3>1. <<Write(narrow)>> \in Seq(Ops) /\ <<Free(0)>> \in Seq(Ops)
      BY <2>2
    <3>2. Outputs(ops, bsExited) = Outputs(<<Write(narrow)>>, bsExited) \o Outputs(<<Free(0)>>, bsExited)
      BY <1>1, <2>4, <3>1, OutputsConcat
    <3>3. /\ Outputs(<<Write(narrow)>>, bsExited) = narrow
          /\ Outputs(<<Free(0)>>, bsExited) = IF bsExited THEN BugFree ELSE <<>>
      BY <1>1, <2>1, <2>2, OutputsOne, OutputIs
    <3>4. narrow \o <<>> = narrow
      BY <2>1, ConcatEmptySeq
    <3> QED
      BY <2>1, <3>2, <3>3, <3>4, Zenon
  <2>6. FreeInv' /\ ~Owed /\ ~Owed'
    <3>1. ops[Len(ops)] = Free(0) /\ Len(ops) # 0 /\ Head(todo).op \in {"malloc", "copy"}
      BY <1>1, <2>4
    <3>2. Frees(ops[Len(ops)])
      BY <2>3, <3>1 DEF Frees
    <3>3. \A k \in 1..(Len(ops) - 1) : Plain(ops[k])
      BY <2>3, <2>4 DEF Plain
    <3> QED
      BY <1>1, <2>3, <2>4, <3>1, <3>2, <3>3, BecomingFrees DEF IInv
  <2>7. BlocksInv'
    BY <1>1, <2>6 DEF IInv, BlocksInv
  <2>8. Len(narrow) \in Nat /\ BUFFER_SIZE \in Nat
    BY <2>1, ConsoleAssumption
  <2>9. /\ \A k \in 2..Len(ops) : ops[k].op = "store" => ops[k - 1].op = "flush"
        /\ Len(ops) # 0 /\ ops[1].op = "store" => Fits(buffer, ops[1].text)
        /\ \A k \in 1..Len(ops) : TooLong(ops[k]) => LongString
    BY <2>1, <2>3, <2>4, <2>8 DEF TooLong
  <2>10. TypeInv' /\ CallInv' /\ StoreInv' /\ OutputInv'
    BY <1>1, <1>3, <2>4, <2>5, <2>9, BecomingSays
  <2> QED
    BY <2>6, <2>7, <2>10 DEF IInv
<1> QED
  BY <1>2, <1>3 DEF CopyToNull

LEMMA FreeCopyStep ==
  ASSUME IInv, FreeCopy
  PROVE  IInv'
<1> DEFINE ops == IF bsExited THEN Printf(Text(BugFree)) ELSE <<>>
<1>1. todo # <<>> /\ Head(todo).op = "free" /\ Head(todo) \in Ops /\ todo[1] = Head(todo)
      /\ 1 \in 1..Len(todo) /\ Len(todo) \in Nat
      /\ bsExited \in BOOLEAN /\ UNCHANGED <<loaderVars, buffer, sent, thr, wire, stopped>>
      /\ BugFree \in Seq(Nat) /\ <<>> \in Seq(Nat)
  BY HeadTailProperties, ConsoleAssumption DEF IInv, TypeInv, FreeCopy, Doing
<1>2. Becomes(ops) /\ blocks' = IF bsExited THEN blocks ELSE blocks - Head(todo).count
  BY DEF FreeCopy
<1>3. /\ ops \in Seq(Ops) /\ Len(ops) \in Nat /\ Outputs(ops, bsExited) = Output(Head(todo), bsExited)
      /\ \A k \in 1..Len(ops) : ops[k] \in Short
  <2>1. Output(Head(todo), bsExited) = IF bsExited THEN BugFree ELSE <<>>
    BY <1>1 DEF Output
  <2>2. CASE bsExited
    <3> DEFINE p == Printf(Text(BugFree))
    <3>1. p \in Seq(Short) /\ p \in Seq(Ops) /\ Outputs(p, bsExited) = BugFree
      BY <1>1, TextIs
    <3> HIDE DEF p
    <3>2. ops = p
      BY <2>2 DEF p
    <3> HIDE DEF ops
    <3>3. Len(p) \in Nat /\ \A k \in 1..Len(p) : p[k] \in Short
      BY <3>1
    <3> QED
      BY <2>1, <2>2, <3>1, <3>2, <3>3
  <2>3. CASE ~bsExited
    <3>1. ops = <<>> /\ <<>> \in Seq(Ops) /\ Len(<<>>) = 0
      BY <2>3
    <3> HIDE DEF ops
    <3> QED
      BY <2>1, <2>3, <3>1, OutputsEmpty
  <2> QED
    BY <2>2, <2>3
<1> HIDE DEF ops
<1>4. \A k \in 1..Len(ops) : Plain(ops[k]) /\ ops[k].op # "store" /\ ~TooLong(ops[k])
  <2> TAKE k \in 1..Len(ops)
  <2> DEFINE o == ops[k]
  <2>1. o \in Short
    BY <1>3
  <2> HIDE DEF o
  <2>2. o = Flush \/ (o \in Ops /\ o.op = "write" /\ Len(o.text) <= BUFFER_SIZE)
    BY <2>1 DEF Short
  <2>3. o.op = "write" /\ o \in Ops => Len(o.text) \in Nat /\ BUFFER_SIZE \in Nat
    BY OpIs, ConsoleAssumption
  <2>4. Plain(o) /\ o.op # "store" /\ ~TooLong(o)
    BY <2>2, <2>3 DEF Plain, TooLong, Flush
  <2> QED
    BY <2>4 DEF o
<1>5. \A k \in 2..Len(todo) : k \in 1..Len(todo) /\ ~Frees(todo[k])
  <2> TAKE k \in 2..Len(todo)
  <2>1. k \in 1..Len(todo) /\ k # 1
    BY <1>1
  <2>2. Frees(todo[1])
    BY <1>1 DEF Frees
  <2> QED
    BY <1>1, <2>1, <2>2 DEF IInv, FreeInv
<1>6. FreeInv' /\ ~Owed'
  <2>1. FreeInv' /\ (Owed' <=> \E k \in 2..Len(todo) : todo[k].op = "free" /\ todo[k].count = 1)
    BY <1>1, <1>2, <1>3, <1>4, BecomingPlain DEF IInv
  <2> QED
    BY <1>5, <2>1 DEF Frees
<1>7. Owed <=> Head(todo).count = 1
  <2>1. ASSUME Owed PROVE Head(todo).count = 1
    <3>1. PICK k \in 1..Len(todo) : todo[k].op = "free" /\ todo[k].count = 1
      BY <2>1 DEF Owed
    <3>2. k = 1
      BY <1>1, <1>5, <3>1 DEF Frees
    <3> QED
      BY <1>1, <3>1, <3>2
  <2>2. ASSUME Head(todo).count = 1 PROVE Owed
    BY <1>1, <2>2 DEF Owed
  <2> QED
    BY <2>1, <2>2
<1>8. BlocksInv'
  <2>1. Head(todo).count \in {0, 1}
    BY <1>1, OpIs
  <2> QED
    BY <1>1, <1>2, <1>6, <1>7, <2>1 DEF IInv, BlocksInv, loaderVars
<1>9. /\ \A k \in 2..Len(ops) : ops[k].op = "store" => ops[k - 1].op = "flush"
      /\ Len(ops) # 0 /\ ops[1].op = "store" => Fits(buffer, ops[1].text)
      /\ \A k \in 1..Len(ops) : TooLong(ops[k]) => LongString
  <2>1. (\A k \in 2..Len(ops) : k \in 1..Len(ops)) /\ (Len(ops) # 0 => 1 \in 1..Len(ops))
    BY <1>3
  <2> QED
    BY <1>4, <2>1
<1>10. TypeInv' /\ CallInv' /\ StoreInv' /\ OutputInv'
  BY <1>1, <1>2, <1>3, <1>9, BecomingSays
<1> QED
  BY <1>6, <1>8, <1>10 DEF IInv

(* What is put at the end is still to come after what waits already.        *)
LEMMA SubSeqToEnd ==
  ASSUME NEW T, NEW s \in Seq(T), NEW t \in Seq(T), NEW m \in 0..Len(s)
  PROVE  SubSeq(s \o t, m + 1, Len(s \o t)) = SubSeq(s, m + 1, Len(s)) \o t
<1> DEFINE st == s \o t
           a == SubSeq(s, m + 1, Len(s))
           b == SubSeq(st, m + 1, Len(st))
<1>1. /\ st \in Seq(T) /\ Len(st) = Len(s) + Len(t) /\ Len(s) \in Nat /\ Len(t) \in Nat /\ m \in Nat
      /\ \A i \in 1..(Len(s) + Len(t)) : st[i] = IF i <= Len(s) THEN s[i] ELSE t[i - Len(s)]
  BY ConcatProperties
<1> HIDE DEF st
<1>2. /\ a \in Seq(T) /\ Len(a) = Len(s) - m
      /\ \A i \in 1..(Len(s) - m) : a[i] = s[m + i]
  <2>1. \A i \in (m + 1)..Len(s) : s[i] \in T
    BY <1>1
  <2>2. /\ a \in Seq(T) /\ Len(a) = IF m + 1 <= Len(s) THEN Len(s) - (m + 1) + 1 ELSE 0
        /\ \A i \in 1..(Len(s) - (m + 1) + 1) : a[i] = s[(m + 1) + i - 1]
    BY <1>1, <2>1, SubSeqProperties
  <2> HIDE DEF a
  <2> QED
    BY <1>1, <2>2
<1>3. /\ b \in Seq(T) /\ Len(b) = Len(st) - m
      /\ \A i \in 1..(Len(st) - m) : b[i] = st[m + i]
  <2>1. \A i \in (m + 1)..Len(st) : st[i] \in T
    BY <1>1
  <2>2. /\ b \in Seq(T) /\ Len(b) = IF m + 1 <= Len(st) THEN Len(st) - (m + 1) + 1 ELSE 0
        /\ \A i \in 1..(Len(st) - (m + 1) + 1) : b[i] = st[(m + 1) + i - 1]
    BY <1>1, <2>1, SubSeqProperties
  <2> HIDE DEF b
  <2> QED
    BY <1>1, <2>2
<1> HIDE DEF a, b
<1>4. /\ a \o t \in Seq(T) /\ Len(a \o t) = Len(a) + Len(t)
      /\ \A i \in 1..(Len(a) + Len(t)) : (a \o t)[i] = IF i <= Len(a) THEN a[i] ELSE t[i - Len(a)]
  BY <1>2, ConcatProperties
<1>5. Len(b) = Len(a \o t)
  BY <1>1, <1>2, <1>3, <1>4
<1>6. ASSUME NEW i \in 1..Len(b) PROVE b[i] = (a \o t)[i]
  <2>1. i \in 1..(Len(st) - m) /\ i \in 1..(Len(a) + Len(t)) /\ m + i \in 1..(Len(s) + Len(t))
    BY <1>1, <1>2, <1>3
  <2>2. b[i] = IF m + i <= Len(s) THEN s[m + i] ELSE t[m + i - Len(s)]
    BY <1>1, <1>3, <2>1
  <2>3. CASE m + i <= Len(s)
    <3>1. i \in 1..(Len(s) - m) /\ i <= Len(a)
      BY <1>1, <1>2, <2>1, <2>3
    <3> QED
      BY <1>2, <1>4, <2>1, <2>2, <2>3, <3>1
  <2>4. CASE ~(m + i <= Len(s))
    <3>1. ~(i <= Len(a)) /\ i - Len(a) = m + i - Len(s)
      BY <1>1, <1>2, <2>1, <2>4
    <3> QED
      BY <1>4, <2>1, <2>2, <2>4, <3>1
  <2> QED
    BY <2>3, <2>4
<1>7. b = a \o t
  BY <1>3, <1>4, <1>5, <1>6, SeqEqual
<1> QED
  BY <1>7 DEF a, b, st

LEMMA StoreTextStep ==
  ASSUME IInv, StoreText
  PROVE  IInv'
<1> DEFINE text == Head(todo).text
<1>1. todo # <<>> /\ Head(todo).op = "store" /\ Head(todo) \in Ops /\ todo[1] = Head(todo)
      /\ 1 \in 1..Len(todo) /\ bsExited \in BOOLEAN /\ stopped = "no"
      /\ UNCHANGED <<loaderVars, sent, thr, wire, blocks>>
      /\ buffer \in Seq(Nat) /\ sent \in 0..Len(buffer) /\ Len(buffer) \in Nat
  BY HeadTailProperties DEF IInv, TypeInv, StoreText, Doing
<1>2. text \in Seq(Nat) /\ Len(text) \in Nat /\ Output(Head(todo), bsExited) = text /\ BUFFER_SIZE \in Nat
  BY <1>1, OpIs, ConsoleAssumption DEF Output
<1>3. CASE buffer' = buffer \o text /\ Becomes(<<>>) /\ UNCHANGED stopped
  <2> DEFINE ops == <<>>
  <2>1. ops \in Seq(Ops) /\ Len(ops) = 0 /\ Becomes(ops) /\ Outputs(ops, bsExited) = <<>>
        /\ \A k : k \notin 1..Len(ops) /\ k \notin 2..Len(ops)
    BY <1>3, OutputsEmpty
  <2> HIDE DEF ops, text
  <2>2. Waiting' = Waiting \o text
    BY <1>1, <1>2, <1>3, SubSeqToEnd DEF Waiting
  <2>3. buffer' \in Seq(Nat) /\ Len(buffer') = Len(buffer) + Len(text)
    BY <1>1, <1>2, <1>3, ConcatProperties
  <2>4. todo' \in Seq(Ops)
    BY <1>1, <2>1, Becoming DEF IInv
  <2>5. TypeInv'
    <3>1. sent' \in 0..Len(buffer')
      BY <1>1, <1>2, <2>3
    <3> QED
      BY <1>1, <1>3, <2>3, <2>4, <3>1 DEF IInv, TypeInv, loaderVars
  <2>6. CallInv'
    BY <1>1, <2>1, BecomingCall DEF IInv
  <2>7. FreeInv' /\ BlocksInv'
    BY <1>1, <2>1, PlainBlocks DEF IInv
  <2>8. StoreInv'
    BY <1>1, <1>3, <2>1, BecomingStores DEF IInv
  <2>9. OutputInv'
    <3>1. Output(Head(todo), bsExited) = text \o Outputs(ops, bsExited)
      BY <1>2, <2>1, ConcatEmptySeq
    <3> QED
      BY <1>1, <1>2, <2>1, <2>2, <3>1, BecomingPending DEF IInv
  <2> QED
    BY <2>5, <2>6, <2>7, <2>8, <2>9 DEF IInv
<1>4. CASE ~(Len(buffer) + Len(text) <= BUFFER_SIZE) /\ stopped' = "overrun" /\ UNCHANGED <<buffer, todo>>
  <2>1. LongString
    <3>1. Fits(buffer, text)
      BY <1>1 DEF IInv, StoreInv
    <3>2. TooLong(todo[1])
      BY <1>1, <1>4, <3>1 DEF Fits, TooLong
    <3> QED
      BY <1>1, <3>2 DEF IInv, StoreInv
  <2>2. TypeInv' /\ CallInv' /\ FreeInv' /\ BlocksInv'
    BY <1>1, <1>4 DEF IInv, TypeInv, CallInv, ExitedBy, FreeInv, BlocksInv, Owed, loaderVars
  <2>3. StoreInv'
    <3>1. LongString' = LongString
      BY <1>1 DEF LongString, loaderVars
    <3> QED
      BY <1>1, <1>4, <2>1, <3>1 DEF IInv, StoreInv, TooLong, Fits
  <2>4. Shown' = Shown
    BY <1>1 DEF Shown, loaderVars, Bytes, Spoken, Statement, ExitedBy
  <2>5. OutputInv'
    BY <1>1, <1>4, <2>4 DEF IInv, OutputInv, Given, Pending, Waiting, Bytes, loaderVars
  <2> QED
    BY <2>2, <2>3, <2>5 DEF IInv
<1> QED
  BY <1>3, <1>4 DEF StoreText

LEMMA SerialPutcStep ==
  ASSUME IInv, SerialPutc
  PROVE  IInv'
<1> DEFINE c == buffer[sent + 1]
           rest == SubSeq(buffer, (sent + 1) + 1, Len(buffer))
           u == Outputs(todo, bsExited)
<1>1. /\ todo # <<>> /\ sent < Len(buffer) /\ thr = NONE /\ thr' = c % CHAR_LIMIT /\ sent' = sent + 1
      /\ UNCHANGED <<loaderVars, todo, buffer, wire, blocks, stopped>>
      /\ buffer \in Seq(Nat) /\ sent \in 0..Len(buffer) /\ Len(buffer) \in Nat
      /\ wire \in Seq(Nat) /\ bsExited \in BOOLEAN /\ todo \in Seq(Ops)
  BY DEF IInv, TypeInv, SerialPutc, Putc, Doing
<1>2. c \in Nat /\ thr' \in Nat /\ thr' # NONE
  <2>1. sent + 1 \in 1..Len(buffer)
    BY <1>1
  <2>2. c \in Nat
    BY <1>1, <2>1
  <2>3. c % CHAR_LIMIT \in Nat /\ NONE \notin Nat
    BY <2>2, ConsoleAssumption
  <2> HIDE DEF c
  <2> QED
    BY <1>1, <2>2, <2>3
<1>3. TypeInv'
  <2>1. sent' \in 0..Len(buffer')
    BY <1>1
  <2> QED
    BY <1>1, <1>2, <2>1 DEF IInv, TypeInv, loaderVars
<1>4. CallInv' /\ FreeInv' /\ BlocksInv' /\ StoreInv'
  <2>1. CallInv' /\ FreeInv' /\ BlocksInv'
    BY <1>1 DEF IInv, CallInv, ExitedBy, FreeInv, BlocksInv, Owed, loaderVars
  <2>2. StoreInv'
    BY <1>1 DEF IInv, StoreInv, LongString, loaderVars
  <2> QED
    BY <2>1, <2>2
<1>5. OutputInv'
  <2>1. Waiting = <<c>> \o rest /\ Waiting' = rest
    BY <1>1, WaitingIs DEF IInv, Waiting
  <2>2. rest \in Seq(Nat) /\ u \in Seq(Nat)
    <3>1. sent + 1 \in 0..Len(buffer)
      BY <1>1
    <3>2. rest \in Seq(Nat)
      BY <1>1, <3>1, RestIs
    <3> QED
      BY <1>1, <3>2, OutputsType
  <2>3. Given = wire /\ Given' = Append(wire, c % CHAR_LIMIT)
    BY <1>1, <1>2 DEF Given
  <2>4. Shown' = Shown
    BY <1>1 DEF Shown, loaderVars, Bytes, Spoken, Statement, ExitedBy
  <2>5. Pending = (<<c>> \o rest) \o u /\ Pending' = rest \o u
    BY <1>1, <2>1 DEF Pending, loaderVars
  <2>6. wire \o Bytes(Pending) = Shown
    BY <2>3 DEF IInv, OutputInv
  <2> HIDE DEF c, rest, u
  <2> DEFINE v == rest \o u
             b == c % CHAR_LIMIT
  <2>7. v \in Seq(Nat) /\ <<c>> \in Seq(Nat) /\ b \in Nat /\ (<<c>> \o rest) \o u = <<c>> \o v
    <3>1. <<c>> \in Seq(Nat) /\ b \in Nat
      BY <1>1, <1>2
    <3>2. (<<c>> \o rest) \o u = <<c>> \o (rest \o u)
      BY <2>2, <3>1, Regroup, Zenon
    <3> QED
      BY <2>2, <3>1, <3>2, ConcatProperties
  <2>8. Bytes(Pending) = <<b>> \o Bytes(v)
    <3> HIDE DEF v
    <3>1. Bytes(<<c>> \o v) = Bytes(<<c>>) \o Bytes(v) /\ Bytes(<<c>>) = <<b>>
      BY <2>7, BytesConcat, BytesOne
    <3> QED
      BY <2>5, <2>7, <3>1
  <2>9. Bytes(Pending') = Bytes(v) /\ Bytes(v) \in Seq(Nat)
    <3>1. Bytes(v) \in Seq(Nat)
      BY <2>7, BytesType
    <3> QED
      BY <2>5, <3>1
  <2> DEFINE w == Bytes(v)
  <2> HIDE DEF b, v, w
  <2>10. <<b>> \in Seq(Nat) /\ Append(wire, b) = wire \o <<b>>
    <3>1. <<b>> \in Seq(Nat)
      BY <2>7
    <3> QED
      BY <3>1, <1>1, <2>7, AppendIsConcat
  <2>11. w \in Seq(Nat)
    BY <2>9 DEF w
  <2>12. (wire \o <<b>>) \o w = wire \o (<<b>> \o w)
    BY <1>1, <2>10, <2>11, Regroup, Zenon
  <2>13. Given' \o Bytes(Pending') = Shown
    <3>1. Given' = wire \o <<b>>
      BY <2>3, <2>10 DEF b
    <3>2. Bytes(Pending') = w /\ Bytes(Pending) = <<b>> \o w
      BY <2>8, <2>9 DEF w
    <3> QED
      BY <2>6, <2>12, <3>1, <3>2
  <2> QED
    BY <2>4, <2>13 DEF OutputInv, Bytes
<1> QED
  BY <1>3, <1>4, <1>5 DEF IInv

LEMMA FlushEndsStep ==
  ASSUME IInv, FlushEnds
  PROVE  IInv'
<1> DEFINE ops == <<>>
<1>1. todo # <<>> /\ Head(todo).op = "flush" /\ Head(todo) \in Ops /\ todo[1] = Head(todo)
      /\ bsExited \in BOOLEAN /\ sent = Len(buffer) /\ buffer' = <<>> /\ sent' = 0
      /\ UNCHANGED <<loaderVars, thr, wire, blocks, stopped>>
  BY HeadTailProperties DEF IInv, TypeInv, FlushEnds, Doing
<1>2. ops \in Seq(Ops) /\ Len(ops) = 0 /\ Becomes(ops) /\ Outputs(ops, bsExited) = <<>>
      /\ \A k : k \notin 1..Len(ops) /\ k \notin 2..Len(ops)
  BY OutputsEmpty DEF FlushEnds
<1>3. <<>> \in Seq(Nat) /\ Len(<<>>) = 0 /\ <<>> \o <<>> = <<>>
  BY ConcatEmptySeq
<1> HIDE DEF ops
<1>4. TypeInv'
  <2>1. todo' \in Seq(Ops)
    BY <1>1, <1>2, Becoming DEF IInv
  <2>2. buffer' \in Seq(Nat) /\ sent' \in 0..Len(buffer')
    BY <1>1, <1>3
  <2> QED
    BY <1>1, <2>1, <2>2 DEF IInv, TypeInv, loaderVars
<1>5. CallInv'
  BY <1>1, <1>2, BecomingCall DEF IInv
<1>6. FreeInv' /\ BlocksInv'
  BY <1>1, <1>2, PlainBlocks DEF IInv
<1>7. StoreInv'
  BY <1>1, <1>2, BecomingStores DEF IInv
<1>8. OutputInv'
  <2>1. Waiting = <<>> /\ Waiting' = <<>>
    <3>1. SubSeq(<<>>, 0 + 1, Len(<<>>)) = <<>>
      BY <1>3, RestIs
    <3> QED
      BY <1>1, <3>1, WaitingIs DEF IInv, Waiting
  <2>2. Waiting' = Waiting \o <<>>
    BY <1>3, <2>1
  <2>3. Output(Head(todo), bsExited) = <<>> \o Outputs(ops, bsExited)
    BY <1>1, <1>2, <1>3 DEF Output
  <2> QED
    BY <1>1, <1>2, <1>3, <2>2, <2>3, BecomingPending DEF IInv
<1> QED
  BY <1>4, <1>5, <1>6, <1>7, <1>8 DEF IInv

LEMMA CallStep ==
  ASSUME IInv, Call
  PROVE  IInv'
<1> DEFINE items == script[next].items
<1>1. /\ stopped = "no" /\ todo = <<>> /\ next <= Len(script) /\ next' = next + 1
      /\ UNCHANGED <<script, buffer, sent, thr, wire, blocks, stopped>>
      /\ script \in Scripts /\ next \in 1..Len(script) /\ next \in Nat /\ Len(script) \in Nat
      /\ bsExited \in BOOLEAN /\ buffer = <<>> /\ sent = 0 /\ blocks = 0
      /\ bsExited = ExitedBy(script, next - 1)
      /\ next' - 1 = next /\ next' > 1 /\ next' \in 1..(Len(script) + 1)
  <2>1. /\ stopped = "no" /\ todo = <<>> /\ next <= Len(script) /\ next' = next + 1
        /\ UNCHANGED <<script, buffer, sent, thr, wire, blocks, stopped>>
        /\ script \in Scripts /\ next \in 1..(Len(script) + 1) /\ bsExited \in BOOLEAN
    BY DEF IInv, TypeInv, Call
  <2>2. buffer = <<>> /\ sent = 0 /\ bsExited = ExitedBy(script, next - 1)
    BY <2>1 DEF IInv, CallInv
  <2>3. blocks = 0
    <3>1. ~Owed
      BY <2>1 DEF Owed
    <3> QED
      BY <3>1 DEF IInv, BlocksInv
  <2>4. Len(script) \in Nat
    BY <2>1, ScriptsAssumption
  <2> QED
    BY <2>1, <2>2, <2>3, <2>4
<1>2. Waiting' = <<>> /\ Waiting = <<>>
  BY <1>1, WaitingIs DEF IInv, Waiting
<1>3. Given = Bytes(Spoken(script, next - 1)) /\ Given' = Given
  <2>1. Pending = <<>> /\ Bytes(<<>>) = <<>>
    BY <1>1, <1>2, OutputsEmpty, BytesOne DEF Pending
  <2>2. Given \in Seq(Nat)
    BY AppendProperties DEF IInv, TypeInv, Given
  <2>3. Given \o <<>> = Given
    BY <2>2, ConcatEmptySeq
  <2>4. Given \o <<>> = Shown
    BY <2>1 DEF IInv, OutputInv
  <2> QED
    BY <1>1, <2>3, <2>4, ShownIs DEF Given
<1>4. /\ Spoken(script, next - 1) \in Seq(Nat)
      /\ Spoken(script, next) = Spoken(script, next - 1) \o Statement(script, next)
      /\ Statement(script, next) \in Seq(Nat)
  BY <1>1, SpokenNext, StatementType
<1>5. Shown' = Bytes(Spoken(script, next - 1)) \o Bytes(Statement(script, next))
  <2>1. Shown' = Bytes(Spoken(script', next' - 1))
    BY ShownIs DEF Shown, Bytes, Spoken, Statement, ExitedBy
  <2>2. Shown' = Bytes(Spoken(script, next))
    BY <1>1, <2>1
  <2> QED
    BY <1>4, <2>2, BytesConcat
<1>6. ExitedBy(script, next) <=> bsExited \/ script[next].call = "wstdlib_bs_exited"
  <2>1. \A k \in 1..next : k = next \/ k \in 1..(next - 1)
    BY <1>1
  <2>2. next \in 1..next /\ \A k \in 1..(next - 1) : k \in 1..next
    BY <1>1
  <2> QED
    BY <1>1, <2>1, <2>2 DEF ExitedBy
<1>7. CASE script[next].call = "printf" /\ todo' = Printf(items) /\ UNCHANGED bsExited
  <2> DEFINE Long == \E k \in 1..Len(items) : items[k].spec = "s" /\ Len(items[k].arg) > BUFFER_SIZE
             Fresh == {op \in Ops : op.op \in {"write", "malloc", "flush"} /\ (TooLong(op) => Long)}
             p == Printf(items)
  <2>1. Len(items) \in Nat /\ \A k \in 1..Len(items) : IsItem(items[k])
    BY <1>1, ScriptsAssumption
  <2>2. Fresh \subseteq Ops /\ Flush \in Fresh
    BY OpsAre DEF TooLong, Flush
  <2>3. ASSUME NEW k \in 1..Len(items) PROVE Pieces(items[k]) \subseteq Fresh
    <3> SUFFICES ASSUME NEW op \in Pieces(items[k]) PROVE op \in Fresh
      OBVIOUS
    <3>1. op \in Ops /\ (\/ op.op = "write" /\ (Len(op.text) <= BUFFER_SIZE \/ Long)
                         \/ op.op = "malloc")
      BY DEF Pieces
    <3>2. op.op = "write" => Len(op.text) \in Nat /\ BUFFER_SIZE \in Nat
      BY <3>1, OpIs, ConsoleAssumption
    <3> HIDE DEF Long
    <3> QED
      BY <3>1, <3>2 DEF TooLong
  <2> HIDE DEF items, Fresh
  <2>4. /\ p \in Seq(Fresh) /\ Len(p) \in Nat \ {0} /\ p[Len(p)] = Flush
        /\ Outputs(p, bsExited) = FlattenSeq([k \in 1..Len(items) |-> Printed(items[k], bsExited)])
    BY <1>1, <2>1, <2>2, <2>3, PrintfIs
  <2>5. ExitedBy(script, next) = bsExited
    BY <1>1, <1>6, <1>7 DEF ExitedBy
  <2>6. Outputs(p, bsExited) = Statement(script, next)
    BY <2>4, <2>5 DEF Statement, items
  <2> HIDE DEF p
  <2>7. todo' = p
    BY <1>7 DEF p
  <2>8. p \in Seq(Ops) /\ p # <<>>
    BY <2>2, <2>4, SeqMonotonic
  <2>9. \A k \in 1..Len(p) : p[k] \in Fresh
    BY <2>4
  <2>10. \A k \in 1..Len(p) : /\ p[k].op \in {"write", "malloc", "flush"}
                              /\ TooLong(p[k]) => Long
    BY <2>9 DEF Fresh
  <2>11. Long <=> LongString'
    BY <1>1 DEF LongString, items
  <2> HIDE DEF Long
  <2>12. TypeInv'
    BY <1>1, <1>7, <2>7, <2>8 DEF IInv, TypeInv
  <2>13. CallInv'
    <3>1. bsExited' = ExitedBy(script, next - 1)'
      <4>1. ExitedBy(script, next - 1)' = ExitedBy(script, next)
        BY <1>1 DEF ExitedBy
      <4> QED
        BY <1>7, <2>5, <4>1
    <3> QED
      BY <1>1, <2>4, <2>7, <2>8, <3>1 DEF CallInv
  <2>14. FreeInv' /\ BlocksInv'
    <3>1. \A k \in 1..Len(todo') : ~Frees(todo'[k])
      BY <2>7, <2>10 DEF Frees
    <3>2. FreeInv'
      BY <3>1 DEF FreeInv, Frees
    <3>3. ~Owed'
      BY <3>1 DEF Owed, Frees
    <3> QED
      BY <1>1, <3>2, <3>3 DEF BlocksInv
  <2>15. StoreInv'
    <3>1. \A k \in 1..Len(todo') : todo'[k].op # "store" /\ (TooLong(todo'[k]) => LongString')
      BY <2>7, <2>10, <2>11
    <3>2. (\A k \in 2..Len(todo') : k \in 1..Len(todo')) /\ 1 \in 1..Len(todo')
      BY <2>4, <2>7
    <3>3. /\ \A k \in 2..Len(todo') : todo'[k].op # "store"
          /\ todo'[1].op # "store" /\ stopped' # "overrun"
      BY <1>1, <3>1, <3>2
    <3> QED
      BY <3>1, <3>3 DEF StoreInv, TooLong
  <2>16. OutputInv'
    <3> DEFINE t == Statement(script, next)
    <3>1. Outputs(todo, bsExited)' = t
      BY <1>7, <2>6, <2>7
    <3>2. t \in Seq(Nat) /\ <<>> \o t = t
      BY <1>4, ConcatEmptySeq
    <3>3. Pending' = t
      BY <1>2, <3>1, <3>2 DEF Pending
    <3> HIDE DEF t
    <3>4. Given' = Bytes(Spoken(script, next - 1))
      BY <1>3
    <3>5. Shown' = Bytes(Spoken(script, next - 1)) \o Bytes(t)
      BY <1>5 DEF t
    <3>6. Given' \o Bytes(Pending') = Shown'
      BY <3>3, <3>4, <3>5
    <3> QED
      BY <3>6 DEF OutputInv, Bytes
  <2> QED
    BY <2>12, <2>13, <2>14, <2>15, <2>16 DEF IInv
<1>8. CASE script[next].call = "wstdlib_bs_exited" /\ bsExited' = TRUE /\ UNCHANGED todo
  <2>1. items = <<>>
    BY <1>1, <1>8, ScriptsAssumption
  <2>2. Statement(script, next) = <<>>
    <3>1. [k \in 1..Len(script[next].items) |->
             Printed(script[next].items[k], ExitedBy(script, next))] = <<>>
      BY <2>1
    <3> QED
      BY <3>1, FlattenEmpty DEF Statement
  <2>3. TypeInv'
    BY <1>1, <1>8 DEF IInv, TypeInv
  <2>4. CallInv'
    <3>1. ExitedBy(script, next - 1)' = ExitedBy(script, next)
      BY <1>1 DEF ExitedBy
    <3>2. ExitedBy(script, next) = TRUE
      BY <1>6, <1>8 DEF ExitedBy
    <3> QED
      BY <1>1, <1>8, <3>1, <3>2 DEF CallInv
  <2>5. FreeInv' /\ BlocksInv' /\ StoreInv'
    BY <1>1, <1>8 DEF FreeInv, BlocksInv, Owed, StoreInv
  <2>6. OutputInv'
    <3>1. Pending' = <<>>
      <4>1. Outputs(todo, bsExited)' = <<>>
        BY <1>1, <1>8, OutputsEmpty
      <4> QED
        BY <1>2, <4>1 DEF Pending
    <3> DEFINE b == Bytes(Spoken(script, next - 1))
    <3>2. b \in Seq(Nat)
      BY <1>4, BytesType
    <3>3. Given' = b /\ Shown' = b \o Bytes(<<>>)
      BY <1>3, <1>5, <2>2
    <3> HIDE DEF b
    <3>4. Given' \o Bytes(Pending') = Shown'
      BY <3>1, <3>3
    <3> QED
      BY <3>4 DEF OutputInv, Bytes
  <2> QED
    BY <2>3, <2>4, <2>5, <2>6 DEF IInv
<1> QED
  BY <1>7, <1>8 DEF Call

LEMMA TransmitStep ==
  ASSUME IInv, Transmit
  PROVE  IInv'
<1>1. /\ thr # NONE /\ thr' = NONE /\ wire' = Append(wire, thr)
      /\ UNCHANGED <<loaderVars, todo, buffer, sent, blocks, stopped>>
  BY DEF Transmit
<1>2. TypeInv'
  <2>1. wire' \in Seq(Nat)
    BY <1>1, AppendProperties DEF IInv, TypeInv
  <2> QED
    BY <1>1, <2>1 DEF IInv, TypeInv, loaderVars
<1>3. CallInv' /\ FreeInv' /\ BlocksInv'
  BY <1>1 DEF IInv, CallInv, ExitedBy, FreeInv, BlocksInv, Owed, loaderVars
<1>4. StoreInv'
  BY <1>1 DEF IInv, StoreInv, LongString, loaderVars
<1>5. Given' = Given
  BY <1>1 DEF Given
<1>6. Shown' = Shown
  BY <1>1 DEF Shown, loaderVars, Bytes, Spoken, Statement, ExitedBy
<1>7. OutputInv'
  BY <1>1, <1>5, <1>6 DEF IInv, OutputInv, Pending, Waiting, Bytes, loaderVars
<1> QED
  BY <1>2, <1>3, <1>4, <1>7 DEF IInv

(* Every step keeps the invariant.                                          *)
LEMMA IInvHolds == Spec => []IInv
<1>1. IInv /\ [Next]_vars => IInv'
  <2> SUFFICES ASSUME IInv, [Next]_vars PROVE IInv'
    OBVIOUS
  <2>1. CASE Call
    BY <2>1, CallStep
  <2>2. CASE WriteText
    BY <2>2, WriteTextStep
  <2>3. CASE StoreText
    BY <2>3, StoreTextStep
  <2>4. CASE SerialPutc
    BY <2>4, SerialPutcStep
  <2>5. CASE FlushEnds
    BY <2>5, FlushEndsStep
  <2>6. CASE MallocCopy
    BY <2>6, MallocCopyStep
  <2>7. CASE CopyToNull
    BY <2>7, CopyToNullStep
  <2>8. CASE FreeCopy
    BY <2>8, FreeCopyStep
  <2>9. CASE Transmit
    BY <2>9, TransmitStep
  <2>10. CASE UNCHANGED vars
    <3>1. TypeInv' /\ CallInv' /\ FreeInv' /\ BlocksInv'
      BY <2>10 DEF IInv, TypeInv, CallInv, ExitedBy, FreeInv, BlocksInv, Owed, vars
    <3>2. StoreInv'
      BY <2>10 DEF IInv, StoreInv, LongString, vars
    <3>3. Shown' = Shown
      BY <2>10 DEF Shown, vars, Bytes, Spoken, Statement, ExitedBy
    <3>4. OutputInv'
      BY <2>10, <3>3 DEF IInv, OutputInv, Given, Pending, Waiting, Bytes, vars
    <3> QED
      BY <3>1, <3>2, <3>4 DEF IInv
  <2> QED
    BY <2>1, <2>2, <2>3, <2>4, <2>5, <2>6, <2>7, <2>8, <2>9, <2>10 DEF Next, Loader
<1> QED
  BY InitIInv, <1>1, PTL DEF Spec

-----------------------------------------------------------------------------
(* What the loader may rely on.                                             *)

(* _printf_write overruns the buffer by nothing but a %s that is longer     *)
(* than all of it.                                                          *)
THEOREM OverrunOnlyLong == Spec => []OverrunOnlyByLongString
<1>1. IInv => OverrunOnlyByLongString
  BY DEF IInv, StoreInv, LongString, OverrunOnlyByLongString
<1> QED
  BY <1>1, IInvHolds, PTL

LEMMA PrefixOfConcat ==
  ASSUME NEW s \in Seq(Nat), NEW t \in Seq(Nat)
  PROVE  IsPrefix(s, s \o t)
<1>1. Len(s) \in Nat /\ Len(t) \in Nat /\ s \o t \in Seq(Nat) /\ Len(s \o t) = Len(s) + Len(t)
  BY ConcatProperties
<1>2. SubSeq(s, 1, Len(s)) = s
  BY SubSeqFull
<1>3. SubSeq(s \o t, 1, Len(s)) = SubSeq(s, 1, Len(s))
  <2>1. CASE Len(s) = 0
    BY <1>1, <2>1, SubSeqEmpty
  <2>2. CASE Len(s) # 0
    <3>1. 1 \in 1..Len(s) /\ Len(s) \in 1..Len(s)
      BY <1>1, <2>2
    <3> QED
      BY <3>1, SubSeqOfConcat1
  <2> QED
    BY <2>1, <2>2
<1> QED
  BY <1>1, <1>3 DEF IsPrefix

(* As long as no item departs, the calls have printed what they mean.       *)
LEMMA ShownIsSaid ==
  ASSUME script \in Scripts, next \in 1..(Len(script) + 1), ~Departed
  PROVE  Shown = Said
<1> DEFINE N == next - 1
           Means(n) == FlattenSeq([k \in 1..Len(script[n].items) |->
                                     Meaning(script[n].items[k], ExitedBy(script, n))])
<1>1. ASSUME NEW n \in 1..N
      PROVE  Statement(script, n) = Means(n)
  <2> DEFINE items == script[n].items
  <2>1. n \in 1..Len(script)
    BY ScriptsAssumption
  <2>2. \A k \in 1..Len(items) : IsItem(items[k]) /\ ~Departs(items[k])
    BY <2>1, ScriptsAssumption DEF Departed
  <2>3. \A k \in 1..Len(items) :
          Printed(items[k], ExitedBy(script, n)) = Meaning(items[k], ExitedBy(script, n))
    BY <2>2, PrintedIsMeaning DEF ExitedBy
  <2>4. [k \in 1..Len(items) |-> Printed(items[k], ExitedBy(script, n))]
          = [k \in 1..Len(items) |-> Meaning(items[k], ExitedBy(script, n))]
    <3> HIDE DEF items
    <3> QED  BY <2>3
  <2> QED
    BY <2>4 DEF Statement
<1>2. [n \in 1..N |-> Statement(script, n)] = [n \in 1..N |-> Means(n)]
  <2> HIDE DEF Means, N
  <2> QED  BY <1>1
<1>3. Shown = Bytes(FlattenSeq([n \in 1..N |-> Means(n)]))
  BY <1>2 DEF Shown, Spoken
<1> QED
  BY <1>3 DEF Said, Bytes, ExitedBy

(* Until printf prints an item otherwise than wstdlib.h says, the serial    *)
(* line carries what its calls mean, in their order, and all of it when a   *)
(* call has returned; _printf_buffer is empty then and no copy of %-s is    *)
(* allocated.                                                               *)
THEOREM LineIsOutput == Spec => []SerialOutput
<1>1. IInv => SerialOutput
  <2> SUFFICES ASSUME IInv PROVE SerialOutput
    OBVIOUS
  <2>1. Given \in Seq(Nat)
    BY AppendProperties DEF IInv, TypeInv, Given
  <2>2. Pending \in Seq(Nat)
    <3>1. Outputs(todo, bsExited) \in Seq(Nat)
      BY OutputsType DEF IInv, TypeInv
    <3>2. Waiting \in Seq(Nat)
      BY WaitingIs DEF IInv
    <3> DEFINE w == Waiting
               u == Outputs(todo, bsExited)
    <3> HIDE DEF w, u
    <3>3. w \in Seq(Nat) /\ u \in Seq(Nat)
      BY <3>1, <3>2 DEF w, u
    <3>4. w \o u \in Seq(Nat)
      BY <3>3, ConcatProperties
    <3> QED
      BY <3>4 DEF Pending, w, u
  <2>3. Bytes(Pending) \in Seq(Nat) /\ Shown = Given \o Bytes(Pending)
    BY <2>2, BytesType DEF IInv, OutputInv
  <2>4. IsPrefix(Given, Shown)
    BY <2>1, <2>3, PrefixOfConcat
  <2>5. ASSUME todo = <<>> PROVE Given = Shown /\ buffer = <<>> /\ blocks = 0
    <3>1. buffer = <<>> /\ sent = 0 /\ Len(buffer) = 0
      BY <2>5 DEF IInv, CallInv
    <3>2. ~Owed
      BY <2>5 DEF Owed
    <3>3. blocks = 0
      BY <3>2 DEF IInv, BlocksInv
    <3>4. Waiting = <<>>
      BY <3>1, WaitingIs DEF IInv
    <3>5. Bytes(Pending) = <<>>
      BY <2>5, <3>4, OutputsEmpty, BytesOne DEF Pending
    <3>6. Given \o <<>> = Given
      BY <2>1, ConcatEmptySeq
    <3> QED
      BY <2>3, <3>1, <3>3, <3>5, <3>6
  <2>6. ~Departed => Shown = Said
    BY ShownIsSaid DEF IInv, TypeInv
  <2> QED
    BY <2>4, <2>5, <2>6 DEF SerialOutput, AsHeaderSays
<1> QED
  BY <1>1, IInvHolds, PTL

==============================================================================
