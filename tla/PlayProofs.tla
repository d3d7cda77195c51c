------------------------------ MODULE PlayProofs ------------------------------
(***************************************************************************)
(* Proofs about what players may do to each other and to the quest: of the *)
(* game modes, for any number of addresses, players and kills and any      *)
(* quest; and of the relay, for any number of clients.                     *)
(***************************************************************************)
EXTENDS GameModes, WorldRelay, FiniteSetTheorems, SequenceTheorems, WellFoundedInduction, TLAPS

(***************************************************************************)
(* The folds of the models, a step at a time: what a client makes of the   *)
(* packets it has to read, a sum of kills, the number a numeral stands     *)
(* for.                                                                    *)
(***************************************************************************)

LessThan == {p \in Nat \X Nat : p[1] < p[2]}

LEMMA LessThanIsWellFounded == IsWellFoundedOn(LessThan, Nat)
BY NatLessThanWellFounded DEF OpToRel, LessThan

\* A set of numbers that has 0 and the next of each of its own has them all.
LEMMA CountUp ==
  ASSUME NEW S \in SUBSET Nat, 0 \in S, \A n \in S : n + 1 \in S
  PROVE  S = Nat
<1>1. SUFFICES ASSUME Nat \ S # {} PROVE FALSE
  OBVIOUS
<1>2. PICK m \in Nat \ S : \A r \in Nat \ S : <<r, m>> \notin LessThan
  BY <1>1, LessThanIsWellFounded, WFMin
<1>3. m - 1 \in Nat /\ (m - 1) + 1 = m
  BY <1>2
<1>4. m - 1 \in Nat \ S
  BY <1>3
<1>5. <<m - 1, m>> \in LessThan
  BY <1>2, <1>3 DEF LessThan
<1> QED BY <1>2, <1>4, <1>5

\* The greatest of some numbers.
LEMMA MaxOfSome ==
  ASSUME NEW n \in Nat, NEW S \in SUBSET (0 .. n), S # {}
  PROVE  Max(S) \in S /\ \A y \in S : Max(S) >= y
<1> DEFINE B == {b \in Nat : \A y \in S : b >= y}
<1>1. B # {} /\ B \in SUBSET Nat
  <2>1. n \in B
    OBVIOUS
  <2> QED BY <2>1
<1>2. PICK m \in B : \A r \in B : <<r, m>> \notin LessThan
  BY <1>1, LessThanIsWellFounded, WFMin
<1>3. m \in S
  <2>1. SUFFICES ASSUME m \notin S PROVE FALSE
    OBVIOUS
  <2>2. m \in Nat /\ m # 0 /\ \A y \in S : y \in Nat /\ m > y
    <3>1. m \in Nat /\ \A y \in S : m >= y /\ y \in Nat
      BY <1>2
    <3>2. PICK y \in S : TRUE
      OBVIOUS
    <3> QED BY <2>1, <3>1, <3>2
  <2>3. m - 1 \in B
    BY <2>2
  <2>4. <<m - 1, m>> \in LessThan
    BY <2>2 DEF LessThan
  <2> QED BY <1>2, <2>3, <2>4
<1>4. \E x \in S : \A y \in S : x >= y
  BY <1>2, <1>3
<1> HIDE DEF B
<1> QED BY <1>4, Zenon DEF Max

\* The first n + 1 numbers are n + 1 and the first n.
LEMMA TopOfFirst ==
  ASSUME NEW n \in Nat
  PROVE  /\ \A S \in SUBSET (1 .. n + 1) : n + 1 \in S =>
              Max(S) = n + 1 /\ S \ {n + 1} \in SUBSET (1 .. n)
         /\ \A S \in SUBSET (1 .. n + 1) : n + 1 \notin S => S \in SUBSET (1 .. n)
         /\ Max(1 .. n + 1) = n + 1 /\ (1 .. n + 1) \ {n + 1} = 1 .. n
<1>1. ASSUME NEW S \in SUBSET (1 .. n + 1), n + 1 \in S PROVE Max(S) = n + 1
  <2>1. Max(S) \in 1 .. n + 1 /\ Max(S) >= n + 1
    <3>1. n + 1 \in Nat /\ S \in SUBSET (0 .. n + 1)
      OBVIOUS
    <3> QED BY <1>1, <3>1, MaxOfSome
  <2> QED BY <2>1
<1>2. \A S \in SUBSET (1 .. n + 1) : S \ {n + 1} \in SUBSET (1 .. n)
  OBVIOUS
<1>3. (1 .. n + 1) \ {n + 1} = 1 .. n /\ n + 1 \in 1 .. n + 1
  OBVIOUS
<1> QED BY <1>1, <1>2, <1>3

\* One step of each of the model's folds.
Step(kind, x, y) ==
  CASE kind = "read" -> Apply(x, y) [] kind = "sum" -> x + y [] OTHER -> x * 10 + y

\* A fold, as the library defines it, is a function of the sets of places.
IsFold(kind, h, b, s, n) ==
  h = [S \in SUBSET (1 .. n) |->
         IF S = {} THEN b ELSE Step(kind, h[S \ {Max(S)}], s[Max(S)])]

LEMMA FoldExists ==
  ASSUME NEW kind, NEW b, NEW s, NEW n \in Nat
  PROVE  \E h : IsFold(kind, h, b, s, n)
<1> DEFINE K == {k \in Nat : \E h : IsFold(kind, h, b, s, k)}
<1>1. 0 \in K
  <2> DEFINE h == [S \in {{}} |-> b]
  <2>1. SUBSET (1 .. 0) = {{}}
    OBVIOUS
  <2>2. IsFold(kind, h, b, s, 0)
    BY <2>1 DEF IsFold
  <2> QED BY <2>2
<1>2. ASSUME NEW k \in K PROVE k + 1 \in K
  <2>1. k \in Nat /\ k + 1 \in Nat
    BY <1>2
  <2>2. PICK h : IsFold(kind, h, b, s, k)
    BY <1>2, Zenon
  <2> HIDE DEF K
  <2> DEFINE g == [S \in SUBSET (1 .. k + 1) |->
                     IF k + 1 \in S THEN Step(kind, h[S \ {k + 1}], s[k + 1]) ELSE h[S]]
  <2>3. \A S \in SUBSET (1 .. k + 1) : g[S] =
          IF k + 1 \in S THEN Step(kind, h[S \ {k + 1}], s[k + 1]) ELSE h[S]
    OBVIOUS
  <2>4. ASSUME NEW S \in SUBSET (1 .. k + 1)
        PROVE  g[S] = IF S = {} THEN b ELSE Step(kind, g[S \ {Max(S)}], s[Max(S)])
    <3> HIDE DEF g
    <3>1. CASE k + 1 \in S
      <4>1. Max(S) = k + 1
        BY <2>1, <3>1, TopOfFirst
      <4>2. S \ {k + 1} \in SUBSET (1 .. k + 1) /\ k + 1 \notin S \ {k + 1}
        OBVIOUS
      <4>3. g[S \ {k + 1}] = h[S \ {k + 1}]
        BY <2>3, <4>2, Zenon
      <4>4. g[S] = Step(kind, h[S \ {k + 1}], s[k + 1])
        BY <2>3, <3>1, Zenon
      <4> QED BY <3>1, <4>1, <4>3, <4>4
    <3>2. CASE k + 1 \notin S
      <4>1. S \in SUBSET (1 .. k)
        BY <2>1, <3>2, TopOfFirst
      <4>2. h[S] = IF S = {} THEN b ELSE Step(kind, h[S \ {Max(S)}], s[Max(S)])
        BY <2>2, <4>1 DEF IsFold
      <4>3. S \ {Max(S)} \in SUBSET (1 .. k + 1) /\ k + 1 \notin S \ {Max(S)}
        BY <3>2
      <4>4. g[S \ {Max(S)}] = h[S \ {Max(S)}] /\ g[S] = h[S]
        BY <2>3, <3>2, <4>3, Zenon
      <4> QED BY <4>2, <4>4, Zenon
    <3> QED BY <3>1, <3>2
  <2>5. g = [S \in SUBSET (1 .. k + 1) |->
               IF S = {} THEN b ELSE Step(kind, g[S \ {Max(S)}], s[Max(S)])]
    <3>1. g = [S \in SUBSET (1 .. k + 1) |-> g[S]]
      OBVIOUS
    <3> HIDE DEF g
    <3> QED BY <2>4, <3>1
  <2> HIDE DEF g
  <2>6. IsFold(kind, g, b, s, k + 1)
    BY <2>5 DEF IsFold
  <2> QED BY <2>1, <2>6, Zenon DEF K
<1>3. K \in SUBSET Nat
  OBVIOUS
<1> HIDE DEF K
<1>4. n \in K
  BY <1>1, <1>2, <1>3, CountUp
<1> QED BY <1>4, Zenon DEF K

\* A run of one of the folds over a sequence, step by step.
IsRun(kind, f, b, s) ==
  /\ f[0] = b
  /\ \A k \in 1 .. Len(s) : f[k] = Step(kind, f[k - 1], s[k])

LEMMA FoldIsRun ==
  ASSUME NEW kind, NEW b, NEW P, NEW s \in Seq(P), NEW h, IsFold(kind, h, b, s, Len(s))
  PROVE  /\ IsRun(kind, [k \in 0 .. Len(s) |-> h[1 .. k]], b, s)
         /\ h[DOMAIN s] = [k \in 0 .. Len(s) |-> h[1 .. k]][Len(s)]
<1> DEFINE f == [k \in 0 .. Len(s) |-> h[1 .. k]]
<1>1. Len(s) \in Nat /\ DOMAIN s = 1 .. Len(s)
  OBVIOUS
<1>2. \A k \in 0 .. Len(s) : f[k] = h[1 .. k]
  OBVIOUS
<1>3. f[0] = b
  <2>1. 1 .. 0 = {} /\ {} \in SUBSET (1 .. Len(s)) /\ 0 \in 0 .. Len(s)
    BY <1>1
  <2>2. h[{}] = b
    BY <2>1 DEF IsFold
  <2> QED BY <1>2, <2>1, <2>2
<1>4. ASSUME NEW k \in 1 .. Len(s) PROVE f[k] = Step(kind, f[k - 1], s[k])
  <2>1. k - 1 \in Nat /\ (k - 1) + 1 = k /\ k \in 0 .. Len(s) /\ k - 1 \in 0 .. Len(s)
    BY <1>1
  <2>2. 1 .. k \in SUBSET (1 .. Len(s)) /\ 1 .. k # {}
    <3>1. k \in 1 .. k /\ \A j \in 1 .. k : j \in 1 .. Len(s)
      BY <1>1
    <3> QED BY <3>1
  <2>3. Max(1 .. k) = k /\ (1 .. k) \ {k} = 1 .. k - 1
    BY <2>1, TopOfFirst
  <2>4. h[1 .. k] = Step(kind, h[1 .. k - 1], s[k])
    BY <2>2, <2>3 DEF IsFold
  <2> QED BY <1>2, <2>1, <2>4
<1>5. Len(s) \in 0 .. Len(s)
  BY <1>1
<1> HIDE DEF f
<1>6. IsRun(kind, f, b, s) /\ h[DOMAIN s] = f[Len(s)]
  BY <1>1, <1>2, <1>3, <1>4, <1>5 DEF IsRun
<1> QED BY <1>6 DEF f

\* Runs that start alike and take the same steps are the same.
Alike(kind, f, g, n) ==
  /\ f[0] = g[0]
  /\ \A k \in 1 .. n : \E x : f[k] = Step(kind, f[k - 1], x) /\ g[k] = Step(kind, g[k - 1], x)

LEMMA SameSteps ==
  ASSUME NEW kind, NEW f, NEW g, NEW n \in Nat, Alike(kind, f, g, n)
  PROVE  \A k \in 0 .. n : f[k] = g[k]
<1> DEFINE K == {k \in Nat : k <= n => f[k] = g[k]}
<1>1. 0 \in K
  BY DEF Alike
<1>2. ASSUME NEW k \in K PROVE k + 1 \in K
  <2>1. SUFFICES ASSUME k + 1 <= n PROVE f[k + 1] = g[k + 1]
    BY <1>2
  <2>2. f[k] = g[k] /\ k + 1 \in 1 .. n /\ (k + 1) - 1 = k
    BY <1>2, <2>1
  <2> HIDE DEF K
  <2> QED BY <2>2 DEF Alike
<1>3. K \in SUBSET Nat
  OBVIOUS
<1>4. K = Nat
  <2> HIDE DEF K
  <2> QED BY <1>1, <1>2, <1>3, CountUp
<1> QED BY <1>4

\* What a client makes of the packets it has to read is a run.
LEMMA ReadingIsRun ==
  ASSUME NEW b, NEW P, NEW s \in Seq(P)
  PROVE  \E f : IsRun("read", f, b, s) /\ FoldLeft(Apply, b, s) = f[Len(s)]
<1> DEFINE h == CHOOSE h : h = [S \in SUBSET DOMAIN s |->
                    IF S = {} THEN b ELSE Apply(h[S \ {Max(S)}], s[Max(S)])]
<1>1. FoldLeft(Apply, b, s) = h[DOMAIN s]
  BY Zenon DEF FoldLeft, MapThenFoldSet
<1>2. \E g : g = [S \in SUBSET DOMAIN s |->
                    IF S = {} THEN b ELSE Apply(g[S \ {Max(S)}], s[Max(S)])]
  <2>1. Len(s) \in Nat /\ DOMAIN s = 1 .. Len(s)
    OBVIOUS
  <2>2. PICK g : IsFold("read", g, b, s, Len(s))
    BY <2>1, FoldExists, Zenon
  <2>3. \A x, y : Step("read", x, y) = Apply(x, y)
    BY DEF Step
  <2>4. g = [S \in SUBSET DOMAIN s |-> IF S = {} THEN b ELSE Apply(g[S \ {Max(S)}], s[Max(S)])]
    BY <2>1, <2>2, <2>3 DEF IsFold
  <2> QED BY <2>4
<1>3. h = [S \in SUBSET DOMAIN s |-> IF S = {} THEN b ELSE Apply(h[S \ {Max(S)}], s[Max(S)])]
  BY <1>2, Zenon
<1> HIDE DEF h
<1>4. IsFold("read", h, b, s, Len(s))
  <2>1. DOMAIN s = 1 .. Len(s)
    OBVIOUS
  <2>2. \A x, y : Step("read", x, y) = Apply(x, y)
    BY DEF Step
  <2> QED BY <1>3, <2>1, <2>2 DEF IsFold
<1> DEFINE f == [k \in 0 .. Len(s) |-> h[1 .. k]]
<1>5. IsRun("read", f, b, s) /\ h[DOMAIN s] = f[Len(s)]
  BY <1>4, FoldIsRun, Zenon
<1> HIDE DEF f
<1> QED BY <1>1, <1>5

\* The packets are read in order: first the first, last the last.
LEMMA ReadNothing == ASSUME NEW b PROVE FoldLeft(Apply, b, <<>>) = b
<1>1. <<>> \in Seq({}) /\ Len(<<>>) = 0
  OBVIOUS
<1>2. PICK f : IsRun("read", f, b, <<>>) /\ FoldLeft(Apply, b, <<>>) = f[Len(<<>>)]
  BY <1>1, ReadingIsRun, Zenon
<1>3. f[0] = b
  BY <1>2, Zenon DEF IsRun
<1> QED BY <1>1, <1>2, <1>3, Zenon

LEMMA ReadLast ==
  ASSUME NEW b, NEW P, NEW s \in Seq(P), NEW x
  PROVE  FoldLeft(Apply, b, Append(s, x)) = Apply(FoldLeft(Apply, b, s), x)
<1> DEFINE t == Append(s, x)
           n == Len(s)
<1>1. /\ s \in Seq(P \cup {x}) /\ t \in Seq(P \cup {x})
      /\ n \in Nat /\ Len(t) = n + 1 /\ t[n + 1] = x
      /\ \A k \in 1 .. n : t[k] = s[k]
  OBVIOUS
<1> HIDE DEF t, n
<1>2. PICK f : IsRun("read", f, b, s) /\ FoldLeft(Apply, b, s) = f[n]
  BY ReadingIsRun, Zenon DEF n
<1>3. PICK g : IsRun("read", g, b, t) /\ FoldLeft(Apply, b, t) = g[n + 1]
  BY <1>1, ReadingIsRun, Zenon
<1>4. f[0] = g[0]
  BY <1>2, <1>3, Zenon DEF IsRun
<1>5. \A k \in 1 .. n : f[k] = Step("read", f[k - 1], s[k]) /\ g[k] = Step("read", g[k - 1], s[k])
  <2> SUFFICES ASSUME NEW k \in 1 .. n
               PROVE  f[k] = Step("read", f[k - 1], s[k]) /\ g[k] = Step("read", g[k - 1], s[k])
    OBVIOUS
  <2>1. k \in 1 .. Len(t) /\ k \in 1 .. Len(s) /\ t[k] = s[k]
    BY <1>1 DEF n
  <2> QED BY <1>2, <1>3, <2>1 DEF IsRun
<1>6. f[n] = g[n]
  <2>1. Alike("read", f, g, n)
    BY <1>4, <1>5 DEF Alike
  <2>2. \A k \in 0 .. n : f[k] = g[k]
    <3>1. n \in Nat
      BY <1>1
    <3> QED BY <3>1, <2>1, SameSteps, SMT
  <2> QED BY <1>1, <2>2
<1>7. g[n + 1] = Step("read", g[n], x)
  <2>1. n + 1 \in 1 .. Len(t) /\ (n + 1) - 1 = n
    BY <1>1
  <2> QED BY <1>1, <1>3, <2>1 DEF IsRun
<1>8. g[n + 1] = Apply(f[n], x)
  BY <1>6, <1>7 DEF Step
<1> QED BY <1>2, <1>3, <1>8 DEF t

LEMMA ReadFirst ==
  ASSUME NEW b, NEW P, NEW s \in Seq(P), s # <<>>
  PROVE  FoldLeft(Apply, Apply(b, Head(s)), Tail(s)) = FoldLeft(Apply, b, s)
<1> DEFINE t == Tail(s)
           n == Len(t)
<1>1. /\ t \in Seq(P) /\ n \in Nat /\ Len(s) = n + 1 /\ Head(s) = s[1]
      /\ \A k \in 1 .. n : t[k] = s[k + 1]
  OBVIOUS
<1> HIDE DEF t, n
<1>2. PICK f : IsRun("read", f, b, s) /\ FoldLeft(Apply, b, s) = f[n + 1]
  <2>1. PICK f : IsRun("read", f, b, s) /\ FoldLeft(Apply, b, s) = f[Len(s)]
    BY ReadingIsRun, Zenon
  <2> QED BY <1>1, <2>1
<1>3. PICK g : /\ IsRun("read", g, Apply(b, Head(s)), t)
               /\ FoldLeft(Apply, Apply(b, Head(s)), t) = g[n]
  BY <1>1, ReadingIsRun, Zenon DEF n
<1> DEFINE e == [k \in 0 .. n |-> f[k + 1]]
<1>4. \A k \in 0 .. n : e[k] = f[k + 1]
  OBVIOUS
<1> HIDE DEF e
<1>5. e[0] = g[0]
  <2>1. 1 \in 1 .. Len(s) /\ 1 - 1 = 0 /\ 0 \in 0 .. n /\ 0 + 1 = 1
    BY <1>1
  <2>2. f[1] = Step("read", b, s[1])
    BY <1>2, <2>1 DEF IsRun
  <2>3. e[0] = f[1]
    BY <1>4, <2>1
  <2>4. g[0] = Apply(b, Head(s))
    BY <1>3 DEF IsRun
  <2> QED BY <1>1, <2>2, <2>3, <2>4 DEF Step
<1>6. ASSUME NEW k \in 1 .. n
      PROVE  e[k] = Step("read", e[k - 1], t[k]) /\ g[k] = Step("read", g[k - 1], t[k])
  <2>1. /\ k + 1 \in 1 .. Len(s) /\ (k + 1) - 1 = k /\ k \in 0 .. n /\ k - 1 \in 0 .. n
        /\ (k - 1) + 1 = k /\ k \in 1 .. Len(t)
    BY <1>1 DEF n
  <2>2. f[k + 1] = Step("read", f[k], s[k + 1])
    BY <1>2, <2>1 DEF IsRun
  <2>3. g[k] = Step("read", g[k - 1], t[k])
    BY <1>3, <2>1 DEF IsRun
  <2>4. e[k] = f[k + 1] /\ e[k - 1] = f[k]
    BY <1>4, <2>1
  <2> QED BY <1>1, <2>2, <2>3, <2>4
<1>7. \A k \in 0 .. n : e[k] = g[k]
  <2>1. Alike("read", e, g, n)
    BY <1>5, <1>6 DEF Alike
  <2>2. n \in Nat
    BY <1>1
  <2> QED BY <2>2, <2>1, SameSteps, SMT
<1>8. e[n] = g[n] /\ e[n] = f[n + 1]
  BY <1>1, <1>4, <1>7
<1> QED BY <1>2, <1>3, <1>8 DEF t

\* So is a sum.
LEMMA SumIsRun ==
  ASSUME NEW P, NEW s \in Seq(P)
  PROVE  \E f : IsRun("sum", f, 0, s) /\ FoldLeft(LAMBDA a, b : a + b, 0, s) = f[Len(s)]
<1> DEFINE h == CHOOSE h : h = [S \in SUBSET DOMAIN s |->
                    IF S = {} THEN 0 ELSE h[S \ {Max(S)}] + s[Max(S)]]
<1>1. FoldLeft(LAMBDA a, b : a + b, 0, s) = h[DOMAIN s]
  BY Zenon DEF FoldLeft, MapThenFoldSet
<1>2. \E g : g = [S \in SUBSET DOMAIN s |->
                    IF S = {} THEN 0 ELSE g[S \ {Max(S)}] + s[Max(S)]]
  <2>1. Len(s) \in Nat /\ DOMAIN s = 1 .. Len(s)
    OBVIOUS
  <2>2. PICK g : IsFold("sum", g, 0, s, Len(s))
    BY <2>1, FoldExists, Zenon
  <2>3. \A x, y : Step("sum", x, y) = x + y
    BY DEF Step
  <2>4. g = [S \in SUBSET DOMAIN s |-> IF S = {} THEN 0 ELSE g[S \ {Max(S)}] + s[Max(S)]]
    BY <2>1, <2>2, <2>3 DEF IsFold
  <2> QED BY <2>4
<1>3. h = [S \in SUBSET DOMAIN s |-> IF S = {} THEN 0 ELSE h[S \ {Max(S)}] + s[Max(S)]]
  BY <1>2, Zenon
<1> HIDE DEF h
<1>4. IsFold("sum", h, 0, s, Len(s))
  <2>1. DOMAIN s = 1 .. Len(s)
    OBVIOUS
  <2>2. \A x, y : Step("sum", x, y) = x + y
    BY DEF Step
  <2> QED BY <1>3, <2>1, <2>2 DEF IsFold
<1> DEFINE f == [k \in 0 .. Len(s) |-> h[1 .. k]]
<1>5. IsRun("sum", f, 0, s) /\ h[DOMAIN s] = f[Len(s)]
  BY <1>4, FoldIsRun, Zenon
<1> HIDE DEF f
<1> QED BY <1>1, <1>5

\* So is the number a numeral stands for.
LEMMA NumeralIsRun ==
  ASSUME NEW P, NEW s \in Seq(P)
  PROVE  \E f : IsRun("digits", f, 0, s) /\ FoldLeft(LAMBDA v, d : v * 10 + d, 0, s) = f[Len(s)]
<1> DEFINE h == CHOOSE h : h = [S \in SUBSET DOMAIN s |->
                    IF S = {} THEN 0 ELSE h[S \ {Max(S)}] * 10 + s[Max(S)]]
<1>1. FoldLeft(LAMBDA v, d : v * 10 + d, 0, s) = h[DOMAIN s]
  BY Zenon DEF FoldLeft, MapThenFoldSet
<1>2. \E g : g = [S \in SUBSET DOMAIN s |->
                    IF S = {} THEN 0 ELSE g[S \ {Max(S)}] * 10 + s[Max(S)]]
  <2>1. Len(s) \in Nat /\ DOMAIN s = 1 .. Len(s)
    OBVIOUS
  <2>2. PICK g : IsFold("digits", g, 0, s, Len(s))
    BY <2>1, FoldExists, Zenon
  <2>3. \A x, y : Step("digits", x, y) = x * 10 + y
    BY DEF Step
  <2>4. g = [S \in SUBSET DOMAIN s |-> IF S = {} THEN 0 ELSE g[S \ {Max(S)}] * 10 + s[Max(S)]]
    BY <2>1, <2>2, <2>3 DEF IsFold
  <2> QED BY <2>4
<1>3. h = [S \in SUBSET DOMAIN s |-> IF S = {} THEN 0 ELSE h[S \ {Max(S)}] * 10 + s[Max(S)]]
  BY <1>2, Zenon
<1> HIDE DEF h
<1>4. IsFold("digits", h, 0, s, Len(s))
  <2>1. DOMAIN s = 1 .. Len(s)
    OBVIOUS
  <2>2. \A x, y : Step("digits", x, y) = x * 10 + y
    BY DEF Step
  <2> QED BY <1>3, <2>1, <2>2 DEF IsFold
<1> DEFINE f == [k \in 0 .. Len(s) |-> h[1 .. k]]
<1>5. IsRun("digits", f, 0, s) /\ h[DOMAIN s] = f[Len(s)]
  BY <1>4, FoldIsRun, Zenon
<1> HIDE DEF f
<1> QED BY <1>1, <1>5

(***************************************************************************)
(* The game modes.                                                         *)
(***************************************************************************)

\* A mode's table has a slot for every player in the game and for every one
\* whose session was dropped.
RoomForAll == Connections + MaxLost <= Slots

\* A table holds every player of P once, and nobody else.
Lists(t, P) ==
  /\ t \in [1 .. Slots -> Nat]
  /\ \A s \in 1 .. Slots : t[s] # Free => t[s] \in P
  /\ \A r, s \in 1 .. Slots : t[r] = t[s] /\ t[r] # Free => r = s
  /\ \A id \in P : Has(t, id)

\* The ids given out, the players of the world and those in the game.
WorldIsSmall ==
  /\ lastId \in Nat
  /\ player \in [Addrs -> Nat]
  /\ \A a, b \in Addrs : player[a] = player[b] /\ player[a] # Free => a = b
  /\ InGame \subseteq present
  /\ present \subseteq 1 .. lastId
  /\ Cardinality(present \ InGame) <= MaxLost

\* The progress, and what the addresses were told of it.
ProgressIsNumbers ==
  /\ stage \in Nat /\ kills \in Nat
  /\ told \in [Addrs -> Nat \X Nat]

ModesInv ==
  /\ Lists(freeroam, present)
  /\ Lists(questers, present)
  /\ WorldIsSmall
  /\ ProgressIsNumbers
  /\ ProgressIsKnown

-----------------------------------------------------------------------------
(* Tables. *)

\* The first slot that holds id is one.
LEMMA FirstIsSlot ==
  ASSUME NEW t, NEW id, Has(t, id)
  PROVE  First(t, id) \in 1 .. Slots /\ t[First(t, id)] = id
<1> DEFINE S == {s \in 1 .. Slots : t[s] = id}
<1>1. S # {} /\ S \in SUBSET Nat
  BY DEF Has
<1>2. PICK s \in S : \A r \in S : <<r, s>> \notin LessThan
  BY <1>1, LessThanIsWellFounded, WFMin
<1>3. ASSUME NEW r \in 1 .. s - 1 PROVE t[r] # id
  <2>1. r \in 1 .. Slots /\ r < s /\ s \in Nat
    BY GameModesAssumption DEF GameModesAssumption
  <2>2. r \in S => <<r, s>> \in LessThan
    BY <2>1 DEF LessThan
  <2> QED BY <1>2, <2>1, <2>2
<1>4. \E q \in 1 .. Slots : t[q] = id /\ \A r \in 1 .. q - 1 : t[r] # id
  BY <1>2, <1>3
<1> HIDE DEF S
<1> QED BY <1>4 DEF First

\* A new player that finds a free slot is listed with the others.
LEMMA RegisterLists ==
  ASSUME NEW t, NEW P \in SUBSET Nat, NEW id \in Nat \ {Free},
         Lists(t, P), Has(t, Free), id \notin P, Free \notin P
  PROVE  Lists(Register(t, id), P \cup {id})
<1> DEFINE s == First(t, Free)
<1>1. s \in 1 .. Slots /\ t[s] = Free
  BY FirstIsSlot
<1>2. Register(t, id) = [t EXCEPT ![s] = id]
  BY DEF Register
<1> HIDE DEF s
<1>3. \A q \in 1 .. Slots : Register(t, id)[q] = IF q = s THEN id ELSE t[q]
  BY <1>1, <1>2 DEF Lists
<1>4. Register(t, id) \in [1 .. Slots -> Nat]
  BY <1>1, <1>2 DEF Lists
<1>5. \A q \in 1 .. Slots : t[q] # id
  BY DEF Lists
<1>6. \A p \in P \cup {id} : Has(Register(t, id), p)
  BY <1>1, <1>3 DEF Lists, Has
<1> QED BY <1>1, <1>3, <1>4, <1>5, <1>6 DEF Lists

\* One that leaves is listed no more.
LEMMA UnregisterLists ==
  ASSUME NEW t, NEW P \in SUBSET Nat, NEW id \in P, Lists(t, P), Free \notin P
  PROVE  Lists(Unregister(t, id), P \ {id})
<1> DEFINE s == First(t, id)
<1>1. Has(t, id)
  BY DEF Lists
<1>2. s \in 1 .. Slots /\ t[s] = id
  BY <1>1, FirstIsSlot
<1>3. Unregister(t, id) = [t EXCEPT ![s] = Free]
  BY <1>1 DEF Unregister
<1> HIDE DEF s
<1>4. \A q \in 1 .. Slots : Unregister(t, id)[q] = IF q = s THEN Free ELSE t[q]
  BY <1>2, <1>3 DEF Lists
<1>5. Unregister(t, id) \in [1 .. Slots -> Nat]
  BY <1>2, <1>3 DEF Lists, Free
<1>6. \A q \in 1 .. Slots : t[q] = id => q = s
  BY <1>2 DEF Lists
<1>7. \A p \in P \ {id} : Has(Unregister(t, id), p)
  BY <1>2, <1>4 DEF Lists, Has
<1> QED BY <1>2, <1>4, <1>5, <1>6, <1>7 DEF Lists

\* A table with more slots than players has a free one.
LEMMA RoomLeft ==
  ASSUME NEW t, NEW P, Lists(t, P), IsFiniteSet(P), Cardinality(P) < Slots
  PROVE  Has(t, Free)
<1>1. SUFFICES ASSUME ~ Has(t, Free) PROVE FALSE
  OBVIOUS
<1>2. t \in Injection(1 .. Slots, P)
  BY <1>1 DEF Lists, Has, Injection, IsInjective
<1>3. Cardinality(1 .. Slots) <= Cardinality(P)
  BY <1>2, FS_Injection
<1>4. Cardinality(1 .. Slots) = Slots
  BY FS_Interval, GameModesAssumption DEF GameModesAssumption
<1>5. Cardinality(P) \in Nat
  BY FS_CardinalityType
<1> QED BY <1>3, <1>4, <1>5, GameModesAssumption DEF GameModesAssumption

-----------------------------------------------------------------------------
(* Every step of the modes keeps the invariant. *)

LEMMA WorldIsFinite ==
  ASSUME ModesInv
  PROVE  /\ IsFiniteSet(present) /\ IsFiniteSet(InGame) /\ IsFiniteSet(present \ InGame)
         /\ present \in SUBSET Nat /\ Free \notin present
<1>1. present \subseteq 1 .. lastId /\ lastId \in Nat /\ InGame \subseteq present
  BY DEF ModesInv, WorldIsSmall
<1>2. IsFiniteSet(1 .. lastId)
  BY <1>1, FS_Interval
<1>3. /\ present \in SUBSET (1 .. lastId)
      /\ InGame \in SUBSET (1 .. lastId)
      /\ present \ InGame \in SUBSET (1 .. lastId)
  BY <1>1
<1>4. IsFiniteSet(present) /\ IsFiniteSet(InGame) /\ IsFiniteSet(present \ InGame)
  BY <1>2, <1>3, FS_Subset
<1>5. present \in SUBSET Nat /\ Free \notin present
  BY <1>1 DEF Free
<1> QED BY <1>4, <1>5

LEMMA InitModesInv == ModesInit => ModesInv
<1> SUFFICES ASSUME ModesInit PROVE ModesInv
  OBVIOUS
<1>1. InGame = {} /\ present = {}
  BY DEF ModesInit, InGame, Free
<1>2. Cardinality(present \ InGame) = 0
  BY <1>1, FS_EmptySet
<1>3. Lists(freeroam, present) /\ Lists(questers, present)
  BY <1>1 DEF ModesInit, Lists, Free
<1>4. WorldIsSmall
  <2>1. lastId = 0 /\ player = [c \in Addrs |-> Free]
    BY DEF ModesInit
  <2>2. MaxLost \in Nat
    BY GameModesAssumption DEF GameModesAssumption
  <2>3. Cardinality(present \ InGame) <= MaxLost
    BY <1>2, <2>2
  <2>4. player \in [Addrs -> Nat] /\ lastId \in Nat
    BY <2>1 DEF Free
  <2>5. \A a, b \in Addrs : player[a] = player[b] /\ player[a] # Free => a = b
    BY <2>1
  <2>6. InGame \subseteq present /\ present \subseteq 1 .. lastId
    BY <1>1
  <2> QED BY <2>3, <2>4, <2>5, <2>6 DEF WorldIsSmall
<1>5. ProgressIsNumbers /\ ProgressIsKnown
  BY DEF ModesInit, ProgressIsNumbers, ProgressIsKnown, Nothing
<1> QED BY <1>3, <1>4, <1>5 DEF ModesInv

\* handle_auth finds room in both tables for the player it makes.
LEMMA JoinModesInv ==
  ASSUME RoomForAll, ModesInv, NEW c \in Addrs, NEW length, Join(c, length)
  PROVE  ModesInv'
<1> DEFINE id == lastId + 1
           old == present \ InGame
<1>1. /\ lastId' = id /\ present' = present \cup {id}
      /\ player' = [player EXCEPT ![c] = id]
      /\ freeroam' = Register(freeroam, id) /\ questers' = Register(questers, id)
      /\ told' = [told EXCEPT ![c] = <<stage, kills>>]
      /\ UNCHANGED <<stage, kills>>
  BY DEF Join, FreeroamSpawn, QuestSpawn
<1>2. /\ Cardinality(InGame) < Connections
      /\ player[c] = Free \/ Cardinality(old) < MaxLost
  BY DEF Join, CanLose
<1>3. /\ IsFiniteSet(present) /\ IsFiniteSet(InGame) /\ IsFiniteSet(old)
      /\ present \in SUBSET Nat /\ Free \notin present
  BY WorldIsFinite
<1>4. /\ lastId \in Nat /\ player \in [Addrs -> Nat] /\ InGame \subseteq present
      /\ present \subseteq 1 .. lastId /\ Cardinality(old) <= MaxLost
      /\ Cardinality(old) \in Nat /\ Cardinality(InGame) \in Nat
  BY <1>3, FS_CardinalityType DEF ModesInv, WorldIsSmall
<1>5. Cardinality(present) < Slots
  <2>1. Cardinality(old) = Cardinality(present) - Cardinality(present \cap InGame)
    BY <1>3, FS_Difference
  <2>2. present \cap InGame = InGame
    BY <1>4
  <2>3. Cardinality(present) \in Nat
    BY <1>3, FS_CardinalityType
  <2>4. Cardinality(present) = Cardinality(old) + Cardinality(InGame)
    BY <1>4, <2>1, <2>2, <2>3
  <2> HIDE DEF old
  <2> QED BY <1>2, <1>4, <2>4, RoomForAll, GameModesAssumption DEF RoomForAll,
             GameModesAssumption
<1>6. id \in Nat \ {Free} /\ id \notin present
  BY <1>4 DEF Free
<1>7. Lists(freeroam, present)' /\ Lists(questers, present)'
  <2>1. Has(freeroam, Free) /\ Has(questers, Free)
    BY <1>3, <1>5, RoomLeft DEF ModesInv
  <2>2. Lists(Register(freeroam, id), present \cup {id}) /\ Lists(Register(questers, id), present \cup {id})
    BY <1>3, <1>6, <2>1, RegisterLists DEF ModesInv
  <2> QED BY <1>1, <2>2 DEF Lists, Has
<1>8. \A d \in Addrs : player'[d] = IF d = c THEN id ELSE player[d]
  BY <1>1, <1>4
<1>9. InGame' \subseteq InGame \cup {id} /\ InGame \subseteq InGame' \cup {player[c]}
  BY <1>4, <1>6, <1>8 DEF InGame
<1>10. present' \ InGame' \subseteq old \cup ({player[c]} \ {Free})
  <2>1. id \in InGame'
    BY <1>6, <1>8 DEF InGame
  <2> QED BY <1>1, <1>3, <1>9, <2>1
<1>11. Cardinality(present' \ InGame') <= MaxLost
  <2>1. CASE player[c] = Free
    <3>1. present' \ InGame' \in SUBSET old
      BY <1>10, <2>1
    <3>2. /\ IsFiniteSet(present' \ InGame')
          /\ Cardinality(present' \ InGame') <= Cardinality(old)
      BY <3>1, <1>3, FS_Subset
    <3>3. Cardinality(present' \ InGame') \in Nat
      BY <3>2, FS_CardinalityType
    <3> HIDE DEF old
    <3> QED BY <3>2, <3>3, <1>4, GameModesAssumption DEF GameModesAssumption
  <2>2. CASE Cardinality(old) < MaxLost
    <3>1. present' \ InGame' \in SUBSET (old \cup {player[c]})
      BY <1>10
    <3>2. /\ IsFiniteSet(old \cup {player[c]})
          /\ Cardinality(old \cup {player[c]}) <= Cardinality(old) + 1
      <4> HIDE DEF old
      <4>1. /\ IsFiniteSet(old \cup {player[c]})
            /\ Cardinality(old \cup {player[c]}) =
                 IF player[c] \in old THEN Cardinality(old) ELSE Cardinality(old) + 1
        BY <1>3, FS_AddElement
      <4> QED BY <1>4, <4>1
    <3>3. /\ IsFiniteSet(present' \ InGame')
          /\ Cardinality(present' \ InGame') <= Cardinality(old \cup {player[c]})
      BY <3>1, <3>2, FS_Subset
    <3>4. Cardinality(present' \ InGame') \in Nat /\ Cardinality(old \cup {player[c]}) \in Nat
      BY <3>2, <3>3, FS_CardinalityType
    <3> HIDE DEF old
    <3> QED BY <3>2, <3>3, <3>4, <2>2, <1>4, GameModesAssumption DEF GameModesAssumption
  <2> QED BY <1>2, <2>1, <2>2
<1>12. WorldIsSmall'
  <2>1. lastId' \in Nat /\ player' \in [Addrs -> Nat]
    BY <1>1, <1>4
  <2>3. \A a, b \in Addrs : player'[a] = player'[b] /\ player'[a] # Free => a = b
    <3>1. \A a \in Addrs : player[a] # id
      BY <1>4, <1>6 DEF InGame, Free
    <3> QED BY <1>8, <3>1 DEF ModesInv, WorldIsSmall
  <2>2. InGame' \subseteq present' /\ present' \subseteq 1 .. lastId'
    BY <1>1, <1>4, <1>9
  <2> QED BY <2>1, <2>2, <2>3, <1>11 DEF WorldIsSmall
<1>13. ProgressIsNumbers' /\ ProgressIsKnown'
  BY <1>1, <1>8 DEF ModesInv, ProgressIsNumbers, ProgressIsKnown
<1> QED BY <1>7, <1>12, <1>13 DEF ModesInv

\* A player leaves with its slots.
LEMMA LeaveModesInv ==
  ASSUME ModesInv, NEW c \in Addrs, Leave(c)
  PROVE  ModesInv'
<1> DEFINE id == player[c]
<1>1. /\ id # Free /\ present' = present \ {id}
      /\ player' = [player EXCEPT ![c] = Free]
      /\ freeroam' = Unregister(freeroam, id) /\ questers' = Unregister(questers, id)
      /\ told' = [told EXCEPT ![c] = Nothing]
      /\ UNCHANGED <<lastId, stage, kills>>
  BY DEF Leave
<1>2. /\ IsFiniteSet(present) /\ IsFiniteSet(InGame) /\ IsFiniteSet(present \ InGame)
      /\ present \in SUBSET Nat /\ Free \notin present
  BY WorldIsFinite
<1>3. /\ lastId \in Nat /\ player \in [Addrs -> Nat] /\ InGame \subseteq present
      /\ present \subseteq 1 .. lastId /\ Cardinality(present \ InGame) <= MaxLost
  BY DEF ModesInv, WorldIsSmall
<1>4. id \in present
  BY <1>1, <1>3 DEF InGame
<1>5. Lists(freeroam, present)' /\ Lists(questers, present)'
  <2>1. Lists(Unregister(freeroam, id), present \ {id}) /\ Lists(Unregister(questers, id), present \ {id})
    BY <1>2, <1>4, UnregisterLists DEF ModesInv
  <2> QED BY <1>1, <2>1 DEF Lists, Has
<1>6. \A d \in Addrs : player'[d] = IF d = c THEN Free ELSE player[d]
  BY <1>1, <1>3
<1>7. /\ InGame' \subseteq InGame \ {id}
      /\ InGame \subseteq InGame' \cup {id}
  BY <1>1, <1>3, <1>6 DEF ModesInv, WorldIsSmall, InGame
<1>8. WorldIsSmall'
  <2>1. (present \ InGame)' \in SUBSET (present \ InGame)
    BY <1>1, <1>7
  <2>2. Cardinality((present \ InGame)') <= Cardinality(present \ InGame)
    BY <2>1, <1>2, FS_Subset
  <2>3. Cardinality((present \ InGame)') \in Nat /\ Cardinality(present \ InGame) \in Nat
    BY <2>1, <1>2, FS_Subset, FS_CardinalityType
  <2>4. Cardinality((present \ InGame)') <= MaxLost
    BY <1>3, <2>2, <2>3, GameModesAssumption DEF GameModesAssumption
  <2>5. player' \in [Addrs -> Nat] /\ lastId' \in Nat
    BY <1>1, <1>3 DEF Free
  <2>6. \A a, b \in Addrs : player'[a] = player'[b] /\ player'[a] # Free => a = b
    BY <1>6 DEF ModesInv, WorldIsSmall
  <2>7. InGame' \subseteq present' /\ present' \subseteq 1 .. lastId'
    BY <1>1, <1>3, <1>7
  <2> QED BY <2>4, <2>5, <2>6, <2>7 DEF WorldIsSmall
<1>9. ProgressIsNumbers' /\ ProgressIsKnown'
  BY <1>1, <1>6 DEF ModesInv, ProgressIsNumbers, ProgressIsKnown, Nothing
<1> QED BY <1>5, <1>8, <1>9 DEF ModesInv

\* A player whose session is dropped keeps its slots.
LEMMA CullModesInv ==
  ASSUME ModesInv, NEW c \in Addrs, Cull(c)
  PROVE  ModesInv'
<1> DEFINE id == player[c]
           old == present \ InGame
<1>1. /\ id # Free /\ Cardinality(old) < MaxLost
      /\ player' = [player EXCEPT ![c] = Free]
      /\ told' = [told EXCEPT ![c] = Nothing]
      /\ UNCHANGED <<lastId, present, freeroam, questers, stage, kills>>
  BY DEF Cull, CanLose, freeroamVars, quest
<1>2. IsFiniteSet(present) /\ IsFiniteSet(old)
  BY WorldIsFinite
<1>3. /\ lastId \in Nat /\ player \in [Addrs -> Nat] /\ InGame \subseteq present
      /\ present \subseteq 1 .. lastId
  BY DEF ModesInv, WorldIsSmall
<1>4. \A d \in Addrs : player'[d] = IF d = c THEN Free ELSE player[d]
  BY <1>1, <1>3
<1>5. InGame' \subseteq InGame /\ InGame \subseteq InGame' \cup {id}
  BY <1>3, <1>4 DEF InGame
<1>6. Cardinality((present \ InGame)') <= MaxLost
  <2>1. (present \ InGame)' \in SUBSET (old \cup {id})
    BY <1>1, <1>5
  <2>2. /\ IsFiniteSet(old \cup {id})
        /\ Cardinality(old \cup {id}) = IF id \in old THEN Cardinality(old) ELSE Cardinality(old) + 1
    <3> HIDE DEF old, id
    <3> QED BY <1>2, FS_AddElement
  <2>3. Cardinality(old) \in Nat /\ Cardinality(old \cup {id}) \in Nat
    BY <1>2, <2>2, FS_CardinalityType
  <2>4. /\ IsFiniteSet((present \ InGame)')
        /\ Cardinality((present \ InGame)') <= Cardinality(old \cup {id})
    BY <2>1, <2>2, FS_Subset
  <2>5. Cardinality((present \ InGame)') \in Nat
    BY <2>4, FS_CardinalityType
  <2>6. MaxLost \in Nat
    BY GameModesAssumption DEF GameModesAssumption
  <2> HIDE DEF old, id
  <2> QED BY <1>1, <2>2, <2>3, <2>4, <2>5, <2>6
<1>7. WorldIsSmall'
  <2>1. player' \in [Addrs -> Nat] /\ lastId' \in Nat
    BY <1>1, <1>3 DEF Free
  <2>2. \A a, b \in Addrs : player'[a] = player'[b] /\ player'[a] # Free => a = b
    BY <1>4 DEF ModesInv, WorldIsSmall
  <2>3. InGame' \subseteq present' /\ present' \subseteq 1 .. lastId'
    BY <1>1, <1>3, <1>5
  <2> QED BY <1>6, <2>1, <2>2, <2>3 DEF WorldIsSmall
<1>8. ProgressIsNumbers' /\ ProgressIsKnown'
  BY <1>1, <1>4 DEF ModesInv, ProgressIsNumbers, ProgressIsKnown, Nothing
<1>9. Lists(freeroam, present)' /\ Lists(questers, present)'
  BY <1>1 DEF ModesInv, Lists, Has
<1> QED BY <1>7, <1>8, <1>9 DEF ModesInv

\* What only changes the progress, and announces it.
LEMMA AnnounceModesInv ==
  ASSUME ModesInv, UNCHANGED <<net, freeroam, questers>>,
         NEW progress \in Nat \X Nat, stage' = progress[1], kills' = progress[2],
              Announce(progress)
  PROVE  ModesInv'
<1>1. \A c \in Addrs : player[c] # Free => Has(questers, player[c])
  BY DEF ModesInv, WorldIsSmall, InGame, Lists
<1>2. /\ told' = [c \in Addrs |->
            IF player[c] # Free /\ Has(questers, player[c]) THEN progress ELSE told[c]]
      /\ UNCHANGED <<lastId, player, present, freeroam, questers>>
  BY DEF Announce, net
<1>3. progress = <<stage', kills'>>
  OBVIOUS
<1>4. ProgressIsNumbers' /\ ProgressIsKnown'
  BY <1>1, <1>2, <1>3 DEF ModesInv, ProgressIsNumbers, ProgressIsKnown
<1>5. WorldIsSmall' /\ Lists(freeroam, present)' /\ Lists(questers, present)'
  BY <1>2 DEF ModesInv, WorldIsSmall, InGame, Lists, Has
<1> QED BY <1>4, <1>5 DEF ModesInv

\* What changes neither the players nor the progress.
LEMMA OtherModesInv ==
  ASSUME ModesInv, UNCHANGED <<net, freeroam, quest, told>>
  PROVE  ModesInv'
BY DEF ModesInv, WorldIsSmall, InGame, Lists, Has, ProgressIsNumbers, ProgressIsKnown, net,
   quest

LEMMA ProgressIsPair ==
  ASSUME ModesInv
  PROVE  Progress \in Nat \X Nat
BY DEF ModesInv, ProgressIsNumbers, Progress

\* Of the deaths, only those of NPCs move the quest on.
LEMMA HitModesInv ==
  ASSUME ModesInv, NEW c \in Addrs, NEW target, NEW fatal \in BOOLEAN,
         PlayerHits(c, target, fatal)
  PROVE  ModesInv'
<1>1. UNCHANGED <<net, freeroam, questers>>
  BY DEF PlayerHits, freeroamVars
<1>2. CASE UNCHANGED <<stage, kills, told>>
  BY <1>1, <1>2, OtherModesInv DEF quest
<1>3. CASE stage' = Progress[1] /\ kills' = Progress[2] /\ Announce(Progress)
  BY <1>1, <1>3, AnnounceModesInv, ProgressIsPair
<1> QED BY <1>2, <1>3 DEF PlayerHits, QuestDeath

LEMMA ChatModesInv ==
  ASSUME ModesInv, NEW c \in Addrs, Chat(c)
  PROVE  ModesInv'
<1>1. CASE TogglePvp(c) \/ \E arg \in Arguments : SetTime(c, arg)
  BY <1>1, OtherModesInv DEF TogglePvp, SetTime
<1>2. CASE AskProgress(c)
  BY <1>2 DEF AskProgress, ModesInv, WorldIsSmall, InGame, Lists, Has, ProgressIsNumbers,
     ProgressIsKnown,
              net, freeroamVars, quest
<1>3. CASE ResetQuest(c)
  <2>1. <<0, 0>> \in Nat \X Nat
    OBVIOUS
  <2> QED BY <1>3, <2>1, AnnounceModesInv DEF ResetQuest, freeroamVars
<1> QED BY <1>1, <1>2, <1>3 DEF Chat

LEMMA NextModesInv ==
  ASSUME RoomForAll, ModesInv, [ModesNext]_modesVars
  PROVE  ModesInv'
<1>1. CASE \E c \in Addrs, length \in NameLengths : Join(c, length)
  BY <1>1, JoinModesInv
<1>2. CASE \E c \in Addrs : Leave(c) \/ Cull(c) \/ Chat(c)
  BY <1>2, LeaveModesInv, CullModesInv, ChatModesInv
<1>3. CASE \E c \in Addrs, target \in Players \cup Npcs,
     fatal \in BOOLEAN : PlayerHits(c, target, fatal)
  BY <1>3, HitModesInv
<1>4. CASE \E actor \in Players \cup Npcs, b \in BOOLEAN : ActorDead(actor, b)
  BY <1>4, OtherModesInv DEF ActorDead, freeroamVars
<1>5. CASE UNCHANGED modesVars
  BY <1>5, OtherModesInv DEF modesVars, freeroamVars
<1> QED BY <1>1, <1>2, <1>3, <1>4, <1>5 DEF ModesNext

LEMMA SpecModesInv ==
  ASSUME RoomForAll
  PROVE  ModesSpec => []ModesInv
<1>1. ModesInv /\ [ModesNext]_modesVars => ModesInv'
  BY NextModesInv
<1> QED BY <1>1, InitModesInv, PTL DEF ModesSpec

-----------------------------------------------------------------------------
(* Theorems about the game modes. *)

\* While the tables have room for everybody, every player in the game has been
\* told the progress of the quest as it stands, whoever came, went or was dropped
\* (register_player, unregister_player and notify_all of shared-quest).
THEOREM EverybodyKnowsProgress ==
  ASSUME RoomForAll
  PROVE  ModesSpec => []ProgressIsKnown
<1>1. ModesInv => ProgressIsKnown
  BY DEF ModesInv
<1> QED BY <1>1, SpecModesInv, PTL

\* While the tables have room for everybody and freeroam's switch is off, no hit
\* of a player reaches another player in the game (on_actor_hit of freeroam).
THEOREM NoFriendlyFire ==
  ASSUME RoomForAll
  PROVE  ModesSpec => FriendlyFireBlocked
<1>1. ASSUME ModesInv, ModesNext, ~ freeroamPvp PROVE ~ FriendlyFire
  <2>1. SUFFICES ASSUME NEW id \in InGame, id \in hurt' \ hurt PROVE FALSE
    BY DEF FriendlyFire
  <2>2. PICK c \in Addrs, target \in Players \cup Npcs,
       fatal \in BOOLEAN : PlayerHits(c, target, fatal)
    BY <1>1, <2>1 DEF ModesNext, Join, Leave, Cull, Chat, TogglePvp, AskProgress, ResetQuest,
       SetTime,
                      ActorDead
  <2>3. target = id /\ FreeroamAllows(target, player[c]) /\ player[c] # Free
    BY <2>1, <2>2 DEF PlayerHits, HitGate
  <2>4. player[c] \in InGame
    BY <2>3 DEF InGame
  <2>5. Has(freeroam, id) /\ Has(freeroam, player[c])
    BY <1>1, <2>1, <2>4 DEF ModesInv, WorldIsSmall, Lists
  <2> QED BY <1>1, <2>3, <2>5 DEF FreeroamAllows
<1>2. ModesInv /\ [ModesNext]_modesVars => [~ freeroamPvp => ~ FriendlyFire]_modesVars
  BY <1>1
<1> QED BY <1>2, SpecModesInv, PTL DEF ModesSpec, FriendlyFireBlocked

-----------------------------------------------------------------------------
(* The quest and the kills. *)

\* The kills before a stage, summed up stage by stage.
LEMMA BeforeIsRun ==
  \E f : /\ f[0] = 0 /\ \A k \in 1 .. Len(Targets) : f[k] = f[k - 1] + Targets[k]
         /\ AllKills = f[Len(Targets)]
         /\ \A s \in 0 .. Len(Targets) : Before(s) = f[s]
<1> DEFINE n == Len(Targets)
<1>1. Targets \in Seq(Nat \ {0}) /\ n \in Nat
  BY GameModesAssumption DEF GameModesAssumption
<1>2. PICK f : IsRun("sum", f, 0, Targets) /\ AllKills = f[n]
  BY <1>1, SumIsRun, Zenon DEF AllKills
<1>3. ASSUME NEW s \in 0 .. n PROVE Before(s) = f[s]
  <2> DEFINE t == SubSeq(Targets, 1, s)
  <2>1. /\ s \in Nat /\ t \in Seq(Nat \ {0}) /\ Len(t) = s
        /\ \A k \in 1 .. s : t[k] = Targets[k] /\ k \in 1 .. Len(Targets)
    BY <1>1
  <2> HIDE DEF t, n
  <2>2. PICK g : IsRun("sum", g, 0, t) /\ FoldLeft(LAMBDA a, b : a + b, 0, t) = g[Len(t)]
    BY <2>1, SumIsRun, Zenon
  <2>3. Alike("sum", g, f, s)
    <3>1. g[0] = f[0]
      BY <1>2, <2>2 DEF IsRun
    <3>2. ASSUME NEW k \in 1 .. s
          PROVE  /\ g[k] = Step("sum", g[k - 1], Targets[k])
                 /\ f[k] = Step("sum", f[k - 1], Targets[k])
      <4>1. g[k] = Step("sum", g[k - 1], t[k]) /\ f[k] = Step("sum", f[k - 1], Targets[k])
        BY <1>2, <2>1, <2>2, <3>2 DEF IsRun
      <4> QED BY <2>1, <4>1
    <3> QED BY <3>1, <3>2 DEF Alike
  <2>4. g[s] = f[s]
    BY <2>1, <2>3, SameSteps, SMT
  <2>5. Before(s) = g[Len(t)]
    BY <2>2, Zenon DEF Before, t
  <2> QED BY <2>1, <2>4, <2>5
<1>4. f[0] = 0 /\ \A k \in 1 .. n : f[k] = f[k - 1] + Targets[k]
  BY <1>2 DEF IsRun, Step
<1> QED BY <1>2, <1>3, <1>4

LEMMA BeforeCounts ==
  /\ Before(0) = 0 /\ AllKills \in Nat /\ Before(Len(Targets)) = AllKills
  /\ \A k \in 1 .. Len(Targets) : Before(k) = Before(k - 1) + Targets[k]
  /\ \A k \in 0 .. Len(Targets) : Before(k) \in Nat /\ Before(k) <= AllKills
<1> DEFINE n == Len(Targets)
<1>1. n \in Nat /\ \A k \in 1 .. n : Targets[k] \in Nat
  BY GameModesAssumption DEF GameModesAssumption
<1>2. PICK f : /\ f[0] = 0 /\ \A k \in 1 .. n : f[k] = f[k - 1] + Targets[k]
               /\ AllKills = f[n]
               /\ \A s \in 0 .. n : Before(s) = f[s]
  BY BeforeIsRun
<1> HIDE DEF n
<1> DEFINE K == {k \in Nat : k <= n => f[k] \in Nat /\ \A i \in 0 .. k : f[i] \in Nat /\ f[i] <= f[k]}
<1>3. 0 \in K
  BY <1>2
<1>4. ASSUME NEW k \in K PROVE k + 1 \in K
  <2>1. SUFFICES ASSUME k + 1 <= n
                 PROVE  /\ f[k + 1] \in Nat
                        /\ \A i \in 0 .. k + 1 : f[i] \in Nat /\ f[i] <= f[k + 1]
    BY <1>4
  <2>2. k \in Nat /\ f[k] \in Nat /\ \A i \in 0 .. k : f[i] \in Nat /\ f[i] <= f[k]
    BY <1>1, <1>4, <2>1
  <2>3. f[k + 1] = f[k] + Targets[k + 1] /\ Targets[k + 1] \in Nat
    <3>1. k + 1 \in 1 .. n /\ (k + 1) - 1 = k
      BY <1>1, <2>1, <2>2
    <3> QED BY <1>1, <1>2, <3>1
  <2> QED BY <2>2, <2>3
<1>5. n \in K
  <2> HIDE DEF K
  <2>1. K \in SUBSET Nat
    BY DEF K
  <2> QED BY <1>1, <1>3, <1>4, <2>1, CountUp
<1>6. f[n] \in Nat /\ \A i \in 0 .. n : f[i] \in Nat /\ f[i] <= f[n]
  BY <1>1, <1>5
<1>7. 0 \in 0 .. n /\ n \in 0 .. n
  BY <1>1
<1>8. \A k \in 1 .. n : k \in 0 .. n /\ k - 1 \in 0 .. n
  BY <1>1
<1> QED BY <1>2, <1>6, <1>7, <1>8 DEF n

\* The stage and its kills say how far the quest has come, and the NPCs killed
\* are some whole quests and as far again.
Killed(n) == \E rounds \in Nat : n = rounds * AllKills + (Before(stage) + kills)

KillsFit ==
  /\ stage \in 0 .. Len(Targets) - 1
  /\ kills \in Nat /\ kills < Targets[stage + 1]
  /\ Killed(credit)

LEMMA KillsFitIsProgress == KillsFit => ProgressIsKills
<1> SUFFICES ASSUME KillsFit PROVE ProgressIsKills
  OBVIOUS
<1> DEFINE done == Before(stage) + kills
<1>1. done \in Nat /\ AllKills \in Nat /\ done < AllKills
  <2>1. /\ stage + 1 \in 1 .. Len(Targets) /\ stage \in 0 .. Len(Targets)
        /\ stage + 1 \in 0 .. Len(Targets) /\ (stage + 1) - 1 = stage
    BY GameModesAssumption DEF KillsFit, GameModesAssumption
  <2>2. /\ Before(stage + 1) = Before(stage) + Targets[stage + 1]
        /\ Before(stage) \in Nat /\ Before(stage + 1) \in Nat /\ Before(stage + 1) <= AllKills
        /\ AllKills \in Nat
    BY <2>1, BeforeCounts
  <2>3. Targets[stage + 1] \in Nat /\ kills \in Nat /\ kills < Targets[stage + 1]
    BY <2>1, GameModesAssumption DEF KillsFit, GameModesAssumption
  <2> QED BY <2>2, <2>3
<1>2. PICK rounds \in Nat : credit = rounds * AllKills + done
  BY DEF KillsFit, Killed
<1> HIDE DEF done
<1>3. ASSUME NEW q \in Nat, NEW m \in Nat \ {0}, NEW r \in Nat, r < m
      PROVE  (q * m + r) % m = r
  BY <1>3
<1>4. AllKills \in Nat \ {0}
  BY <1>1
<1>5. (rounds * AllKills + done) % AllKills = done
  BY <1>1, <1>3, <1>4
<1> QED BY <1>2, <1>5 DEF ProgressIsKills, done

LEMMA InitKillsFit == ModesInit => KillsFit
<1> SUFFICES ASSUME ModesInit PROVE KillsFit
  OBVIOUS
<1>1. Len(Targets) \in Nat \ {0} /\ \A k \in 1 .. Len(Targets) : Targets[k] \in Nat \ {0}
  BY GameModesAssumption DEF GameModesAssumption
<1>2. stage = 0 /\ kills = 0 /\ credit = 0 /\ 0 + 1 = 1 /\ 1 \in 1 .. Len(Targets)
  BY <1>1 DEF ModesInit
<1>3. 0 * AllKills + (Before(0) + 0) = 0
  BY BeforeCounts
<1> QED BY <1>1, <1>2, <1>3 DEF KillsFit, Killed

\* One more kill.
LEMMA ProgressKillsFit ==
  ASSUME KillsFit, stage' = Progress[1], kills' = Progress[2], credit' = credit + 1
  PROVE  KillsFit'
<1>1. /\ Len(Targets) \in Nat \ {0} /\ \A k \in 1 .. Len(Targets) : Targets[k] \in Nat \ {0}
      /\ stage \in 0 .. Len(Targets) - 1 /\ stage + 1 \in 1 .. Len(Targets)
      /\ (stage + 1) - 1 = stage
  BY GameModesAssumption DEF GameModesAssumption, KillsFit
<1>2. PICK rounds \in Nat : credit = rounds * AllKills + (Before(stage) + kills)
  BY DEF KillsFit, Killed
<1>3. /\ Before(stage + 1) = Before(stage) + Targets[stage + 1]
      /\ Before(stage) \in Nat /\ AllKills \in Nat
      /\ Before(0) = 0 /\ Before(Len(Targets)) = AllKills
  <2>1. stage \in 0 .. Len(Targets)
    BY <1>1
  <2> QED BY <1>1, <2>1, BeforeCounts
<1>4. kills \in Nat /\ kills < Targets[stage + 1] /\ Targets[stage + 1] \in Nat \ {0}
  BY <1>1 DEF KillsFit
<1>5. CASE kills + 1 < Targets[stage + 1]
  <2>1. stage' = stage /\ kills' = kills + 1
    BY <1>5 DEF Progress
  <2>2. credit' = rounds * AllKills + (Before(stage) + (kills + 1))
    <3>1. rounds * AllKills \in Nat
      BY <1>3
    <3> QED BY <1>2, <1>3, <1>4, <3>1
  <2> QED BY <1>1, <1>4, <1>5, <2>1, <2>2 DEF KillsFit, Killed
<1>6. CASE kills + 1 >= Targets[stage + 1] /\ stage + 1 < Len(Targets)
  <2>1. stage' = stage + 1 /\ kills' = 0 /\ kills + 1 = Targets[stage + 1]
    BY <1>4, <1>6 DEF Progress
  <2>2. credit' = rounds * AllKills + (Before(stage + 1) + 0)
    <3> DEFINE before == rounds * AllKills
    <3>1. before \in Nat /\ credit = before + (Before(stage) + kills)
      BY <1>2, <1>3
    <3> HIDE DEF before
    <3>2. credit' = before + (Before(stage) + (kills + 1))
      BY <1>3, <1>4, <3>1
    <3>3. credit' = before + (Before(stage + 1) + 0)
      BY <1>3, <1>4, <2>1, <3>2
    <3> QED BY <3>3 DEF before
  <2>3. stage + 1 \in 0 .. Len(Targets) - 1 /\ Targets[(stage + 1) + 1] \in Nat \ {0}
    BY <1>1, <1>6
  <2> QED BY <2>1, <2>2, <2>3 DEF KillsFit, Killed
<1>7. CASE kills + 1 >= Targets[stage + 1] /\ stage + 1 = Len(Targets)
  <2>1. stage' = 0 /\ kills' = 0 /\ kills + 1 = Targets[stage + 1]
    BY <1>1, <1>4, <1>7 DEF Progress
  <2>2. credit' = (rounds + 1) * AllKills + (Before(0) + 0)
    <3>1. rounds * AllKills \in Nat /\ (rounds + 1) * AllKills = rounds * AllKills + AllKills
      BY <1>3
    <3>2. Before(stage) + kills + 1 = AllKills
      BY <1>3, <1>4, <1>7, <2>1
    <3> QED BY <1>2, <1>3, <1>4, <3>1, <3>2
  <2>3. 0 \in 0 .. Len(Targets) - 1 /\ Targets[0 + 1] \in Nat \ {0} /\ rounds + 1 \in Nat
    BY <1>1
  <2> QED BY <2>1, <2>2, <2>3 DEF KillsFit, Killed
<1> QED BY <1>1, <1>4, <1>5, <1>6, <1>7

LEMMA HitKillsFit ==
  ASSUME ModesInv, KillsFit, NEW c \in Addrs, NEW target, NEW fatal \in BOOLEAN,
         PlayerHits(c, target, fatal)
  PROVE  KillsFit'
<1>1. CASE ~ fatal
  BY <1>1 DEF PlayerHits, KillsFit, Killed
<1>2. CASE fatal /\ target \in Nat
  <2>1. target \in present
    BY <1>2, GameModesAssumption DEF PlayerHits, GameModesAssumption
  <2>2. Has(questers, target)
    BY <2>1 DEF ModesInv, Lists
  <2> QED BY <1>2, <2>2 DEF PlayerHits, QuestDeath, KillsFit, Killed
<1>3. CASE fatal /\ target \notin Nat
  <2>1. ~ Has(questers, target)
    BY <1>3 DEF ModesInv, Lists, Has
  <2>2. stage' = Progress[1] /\ kills' = Progress[2] /\ credit' = credit + 1
    BY <1>3, <2>1 DEF PlayerHits, QuestDeath
  <2> QED BY <2>2, ProgressKillsFit
<1> QED BY <1>1, <1>2, <1>3

LEMMA NextKillsFit ==
  ASSUME ModesInv, KillsFit, [ModesNext]_modesVars
  PROVE  KillsFit'
<1>1. CASE UNCHANGED <<stage, kills, credit>>
  BY <1>1 DEF KillsFit, Killed
<1>2. CASE \E c \in Addrs : ResetQuest(c)
  <2>1. stage' = 0 /\ kills' = 0 /\ credit' = 0
    BY <1>2 DEF ResetQuest
  <2>2. Len(Targets) \in Nat \ {0} /\ \A k \in 1 .. Len(Targets) : Targets[k] \in Nat \ {0}
    BY GameModesAssumption DEF GameModesAssumption
  <2>3. 0 * AllKills + (Before(0) + 0) = 0 /\ 0 + 1 = 1 /\ 1 \in 1 .. Len(Targets)
    BY <2>2, BeforeCounts
  <2> QED BY <2>1, <2>2, <2>3 DEF KillsFit, Killed
<1>3. CASE \E c \in Addrs, target \in Players \cup Npcs, fatal \in BOOLEAN :
             PlayerHits(c, target, fatal)
  BY <1>3, HitKillsFit
<1> QED BY <1>1, <1>2, <1>3
      DEF ModesNext, Join, Leave, Cull, Chat, TogglePvp, AskProgress, SetTime, ActorDead,
          quest, freeroamVars, modesVars

\* While the tables have room for everybody, the progress of the quest is the
\* number of NPCs that died of players' hits since it was reset, whatever the
\* kills each stage takes: a round of all the stages is worth the sum of them,
\* no kill is lost between two stages, and no player's death counts
\* (on_actor_death of shared-quest).
THEOREM QuestCountsKills ==
  ASSUME RoomForAll
  PROVE  ModesSpec => []ProgressIsKills
<1>1. ModesInv /\ KillsFit /\ [ModesNext]_modesVars => (ModesInv /\ KillsFit)'
  BY NextModesInv, NextKillsFit
<1>2. ModesInit => ModesInv /\ KillsFit
  BY InitModesInv, InitKillsFit
<1> QED BY <1>1, <1>2, KillsFitIsProgress, PTL DEF ModesSpec

-----------------------------------------------------------------------------
(* The types of the game modes. *)

\* The number at the head of an argument is one.
LEMMA ParsesNumber ==
  ASSUME NEW arg \in Arguments
  PROVE  ParseByte(arg) \in Nat
<1> DEFINE digits == {n \in 0 .. Len(arg) : n <= 4 /\ \A i \in 1 .. n : arg[i] # Other}
           last == CHOOSE n \in digits : \A m \in digits : m <= n
           head == SubSeq(arg, 1, last)
           value == FoldLeft(LAMBDA v, d : v * 10 + d, 0, head)
<1>1. arg \in Seq((0 .. 9) \cup {Other}) /\ Len(arg) \in Nat
  BY GameModesAssumption DEF GameModesAssumption
<1>2. last \in digits
  <2>1. digits \in SUBSET (0 .. Len(arg)) /\ 0 \in digits
    BY <1>1
  <2> HIDE DEF digits
  <2>2. \E n \in digits : \A m \in digits : n >= m
    <3>1. Max(digits) \in digits /\ \A m \in digits : Max(digits) >= m
      <4>1. digits # {}
        BY <2>1
      <4> QED BY <1>1, <2>1, <4>1, MaxOfSome
    <3> QED BY <3>1
  <2>3. \E n \in digits : \A m \in digits : m <= n
    BY <1>1, <2>1, <2>2
  <2> QED BY <2>3, Zenon
<1>3. head \in Seq(Nat)
  <2>1. /\ last \in 0 .. Len(arg)
        /\ \A i \in 1 .. last : i \in 1 .. Len(arg) /\ arg[i] \in 0 .. 9
    <3>1. last \in 0 .. Len(arg) /\ \A i \in 1 .. last : arg[i] # Other
      BY <1>2
    <3> HIDE DEF last
    <3> QED BY <1>1, <3>1
  <2> HIDE DEF last
  <2>2. /\ Len(head) \in Nat
        /\ \A i \in 1 .. Len(head) : head[i] \in Nat
        /\ head \in Seq((0 .. 9) \cup {Other})
    BY <1>1, <2>1
  <2> HIDE DEF head
  <2> QED BY <2>2
<1> HIDE DEF head
<1>4. PICK f : IsRun("digits", f, 0, head) /\ value = f[Len(head)]
  BY <1>3, NumeralIsRun, Zenon
<1> HIDE DEF value
<1> DEFINE K == {k \in Nat : k <= Len(head) => f[k] \in Nat}
<1>5. 0 \in K
  BY <1>4 DEF IsRun
<1>6. ASSUME NEW k \in K PROVE k + 1 \in K
  <2>1. SUFFICES ASSUME k + 1 <= Len(head) PROVE f[k + 1] \in Nat
    BY <1>6
  <2>2. /\ k + 1 \in 1 .. Len(head) /\ (k + 1) - 1 = k /\ f[k] \in Nat /\ head[k + 1] \in Nat
    BY <1>3, <1>6, <2>1
  <2>3. f[k + 1] = f[k] * 10 + head[k + 1]
    BY <1>4, <2>2 DEF IsRun, Step
  <2> QED BY <2>2, <2>3
<1>7. value \in Nat
  <2>1. K \in SUBSET Nat
    OBVIOUS
  <2>2. Len(head) \in K
    <3>1. Len(head) \in Nat
      BY <1>3
    <3> HIDE DEF K
    <3> QED BY <1>5, <1>6, <2>1, <3>1, CountUp
  <2> QED BY <1>3, <1>4, <2>2
<1>8. ParseByte(arg) = IF value < 255 THEN value ELSE 255
  BY Zenon DEF ParseByte, value, head
<1> QED BY <1>7, <1>8

\* No two addresses share a player.
OnePlayerEach == \A a, b \in Addrs : player[a] = player[b] /\ player[a] # Free => a = b

ModesTypes == ModesTypeOK /\ OnePlayerEach

LEMMA TargetsAreStages ==
  /\ Len(Targets) \in Nat \ {0}
  /\ \A k \in 1 .. Len(Targets) : Targets[k] \in Nat \ {0}
  /\ 0 \in 0 .. Len(Targets) - 1 /\ 0 \in 0 .. Targets[0 + 1] - 1
BY GameModesAssumption DEF GameModesAssumption

LEMMA ProgressNow ==
  ASSUME ModesTypes
  PROVE  <<stage, kills>> \in (0 .. Len(Targets) - 1) \X Nat
<1>1. stage \in 0 .. Len(Targets) - 1 /\ kills \in 0 .. Targets[stage + 1] - 1
  BY DEF ModesTypes, ModesTypeOK
<1>2. stage + 1 \in 1 .. Len(Targets)
  BY <1>1, TargetsAreStages
<1> QED BY <1>1, <1>2, TargetsAreStages

LEMMA InitModesTypes == ModesInit => ModesTypes
<1> SUFFICES ASSUME ModesInit PROVE ModesTypes
  OBVIOUS
<1>1. InGame = {}
  BY DEF ModesInit, InGame
<1>2. MaxPlayers \in Nat /\ MaxKills \in Nat
  BY GameModesAssumption DEF GameModesAssumption
<1>3. told \in [Addrs -> (0 .. Len(Targets) - 1) \X Nat] /\ OnePlayerEach
  BY TargetsAreStages DEF ModesInit, OnePlayerEach, Nothing
<1>4. stage \in 0 .. Len(Targets) - 1 /\ kills \in 0 .. Targets[stage + 1] - 1
  BY TargetsAreStages DEF ModesInit
<1>5. /\ player \in [Addrs -> 0 .. MaxPlayers] /\ lastId \in 0 .. MaxPlayers
      /\ freeroam \in [1 .. Slots -> 0 .. lastId] /\ questers \in [1 .. Slots -> 0 .. lastId]
      /\ credit \in 0 .. MaxKills
  BY <1>2 DEF ModesInit, Free
<1>6. /\ present \subseteq 1 .. lastId /\ dead \subseteq present \cup Npcs
      /\ hurt \subseteq present /\ InGame \subseteq present
      /\ serverPvp \in BOOLEAN /\ freeroamPvp \in BOOLEAN /\ hour \in 0 .. 23
  <2>1. present = {} /\ dead = {} /\ hurt = {} /\ hour = 9
    BY DEF ModesInit
  <2>2. serverPvp \in BOOLEAN /\ freeroamPvp \in BOOLEAN
    BY Zenon DEF ModesInit
  <2> QED BY <1>1, <2>1, <2>2
<1> QED BY <1>3, <1>4, <1>5, <1>6, Zenon DEF ModesTypes, ModesTypeOK

LEMMA JoinModesTypes ==
  ASSUME ModesTypes, NEW c \in Addrs, NEW length, Join(c, length)
  PROVE  ModesTypes'
<1> DEFINE id == lastId + 1
<1>1. /\ lastId \in 0 .. MaxPlayers - 1 /\ MaxPlayers \in Nat
      /\ id \in 1 .. MaxPlayers /\ lastId' = id
  BY GameModesAssumption DEF GameModesAssumption, Join, ModesTypes, ModesTypeOK
<1>2. /\ present' = present \cup {id} /\ player' = [player EXCEPT ![c] = id]
      /\ freeroam' = Register(freeroam, id) /\ questers' = Register(questers, id)
      /\ told' = [told EXCEPT ![c] = <<stage, kills>>]
      /\ UNCHANGED <<dead, serverPvp, freeroamPvp, hour, stage, kills, hurt, credit>>
  BY DEF Join, FreeroamSpawn, QuestSpawn
<1>3. /\ player \in [Addrs -> 0 .. MaxPlayers] /\ present \subseteq 1 .. lastId
      /\ \A a \in Addrs : player[a] # Free => player[a] \in present
      /\ OnePlayerEach
  BY DEF ModesTypes, ModesTypeOK, InGame
<1>4. player' \in [Addrs -> 0 .. MaxPlayers] /\ present' \subseteq 1 .. lastId'
  BY <1>1, <1>2, <1>3
<1>5. InGame' \subseteq present' /\ OnePlayerEach'
  <2>1. id \notin present
    BY <1>1, <1>3
  <2> QED BY <1>2, <1>3, <2>1 DEF InGame, OnePlayerEach, Free
<1>6. freeroam' \in [1 .. Slots -> 0 .. lastId'] /\ questers' \in [1 .. Slots -> 0 .. lastId']
  <2>1. /\ freeroam \in [1 .. Slots -> 0 .. id] /\ questers \in [1 .. Slots -> 0 .. id]
        /\ id \in 0 .. id
    BY <1>1 DEF ModesTypes, ModesTypeOK
  <2> QED BY <1>1, <1>2, <2>1 DEF Register
<1>7. told' \in [Addrs -> (0 .. Len(Targets) - 1) \X Nat]
  BY <1>2, ProgressNow DEF ModesTypes, ModesTypeOK
<1>8. dead' \subseteq present' \cup Npcs /\ hurt' \subseteq present'
  BY <1>2 DEF ModesTypes, ModesTypeOK
<1> QED BY <1>1, <1>2, <1>4, <1>5, <1>6, <1>7, <1>8 DEF ModesTypes, ModesTypeOK

LEMMA LeaveModesTypes ==
  ASSUME ModesTypes, NEW c \in Addrs, Leave(c)
  PROVE  ModesTypes'
<1>1. /\ player \in [Addrs -> 0 .. MaxPlayers] /\ present \subseteq 1 .. lastId
      /\ \A a \in Addrs : player[a] # Free => player[a] \in present
      /\ OnePlayerEach /\ lastId \in Nat /\ MaxPlayers \in Nat
  <2>1. lastId \in 0 .. MaxPlayers /\ MaxPlayers \in Nat
    BY GameModesAssumption DEF GameModesAssumption, ModesTypes, ModesTypeOK
  <2>2. InGame \subseteq present
    BY DEF ModesTypes, ModesTypeOK
  <2> QED BY <2>1, <2>2 DEF InGame, ModesTypes, ModesTypeOK
<1>2. /\ freeroam' = Unregister(freeroam, player[c]) /\ questers' = Unregister(questers, player[c])
      /\ present' = present \ {player[c]} /\ player' = [player EXCEPT ![c] = Free]
      /\ dead' = dead \ {player[c]} /\ hurt' = hurt \ {player[c]}
      /\ told' = [told EXCEPT ![c] = Nothing]
      /\ UNCHANGED <<lastId, serverPvp, freeroamPvp, hour, stage, kills, credit>>
  BY DEF Leave
<1>3. /\ player' \in [Addrs -> 0 .. MaxPlayers] /\ present' \subseteq 1 .. lastId'
      /\ InGame' \subseteq present' /\ OnePlayerEach'
  <2>1. player' \in [Addrs -> 0 .. MaxPlayers] /\ present' \subseteq 1 .. lastId'
    <3>1. Free \in 0 .. MaxPlayers
      BY <1>1 DEF Free
    <3>2. player' \in [Addrs -> 0 .. MaxPlayers]
      BY <1>1, <1>2, <3>1
    <3>3. present' \subseteq 1 .. lastId'
      BY <1>1, <1>2
    <3> QED BY <3>2, <3>3, Zenon
  <2>2. \A a \in Addrs : player'[a] # Free => a # c /\ player'[a] = player[a]
    BY <1>1, <1>2
  <2>3. \A a \in Addrs : player'[a] # Free => player'[a] \in present'
    BY <1>1, <1>2, <2>2 DEF OnePlayerEach
  <2>4. OnePlayerEach'
    BY <1>1, <2>2 DEF OnePlayerEach
  <2> QED BY <2>1, <2>3, <2>4 DEF InGame
<1>4. freeroam' \in [1 .. Slots -> 0 .. lastId'] /\ questers' \in [1 .. Slots -> 0 .. lastId']
  <2>1. freeroam \in [1 .. Slots -> 0 .. lastId] /\ questers \in [1 .. Slots -> 0 .. lastId]
    BY DEF ModesTypes, ModesTypeOK
  <2>2. Free \in 0 .. lastId /\ lastId' = lastId
    BY <1>1, <1>2 DEF Free
  <2> QED BY <1>2, <2>1, <2>2 DEF Unregister
<1>5. told' \in [Addrs -> (0 .. Len(Targets) - 1) \X Nat]
  BY <1>2, TargetsAreStages DEF ModesTypes, ModesTypeOK, Nothing
<1>6. dead' \subseteq present' \cup Npcs /\ hurt' \subseteq present'
  BY <1>2 DEF ModesTypes, ModesTypeOK
<1> QED BY <1>2, <1>3, <1>4, <1>5, <1>6 DEF ModesTypes, ModesTypeOK

LEMMA CullModesTypes ==
  ASSUME ModesTypes, NEW c \in Addrs, Cull(c)
  PROVE  ModesTypes'
<1>1. /\ player' = [player EXCEPT ![c] = Free] /\ told' = [told EXCEPT ![c] = Nothing]
      /\ UNCHANGED <<lastId, present, dead, serverPvp, freeroamVars, quest, hurt, credit>>
  BY DEF Cull
<1>2. /\ player \in [Addrs -> 0 .. MaxPlayers] /\ MaxPlayers \in Nat
      /\ InGame \subseteq present /\ OnePlayerEach
  BY GameModesAssumption DEF GameModesAssumption, ModesTypes, ModesTypeOK
<1>3. /\ player' \in [Addrs -> 0 .. MaxPlayers] /\ InGame' \subseteq InGame
      /\ OnePlayerEach'
  BY <1>1, <1>2 DEF InGame, OnePlayerEach, Free
<1>4. told' \in [Addrs -> (0 .. Len(Targets) - 1) \X Nat]
  BY <1>1, TargetsAreStages DEF ModesTypes, ModesTypeOK, Nothing
<1> QED BY <1>1, <1>2, <1>3, <1>4 DEF ModesTypes, ModesTypeOK, freeroamVars, quest

LEMMA ChatModesTypes ==
  ASSUME ModesTypes, NEW c \in Addrs, Chat(c)
  PROVE  ModesTypes'
<1>1. UNCHANGED InGame
  BY DEF Chat, TogglePvp, SetTime, AskProgress, ResetQuest, net, InGame
<1>2. CASE TogglePvp(c)
  BY <1>1, <1>2 DEF TogglePvp, ModesTypes, ModesTypeOK, OnePlayerEach, net, quest
<1>3. ASSUME NEW arg \in Arguments, SetTime(c, arg) PROVE ModesTypes'
  <2>1. hour' \in 0 .. 23
    <3>1. hour \in 0 .. 23 /\ ParseByte(arg) \in Nat
      BY ParsesNumber DEF ModesTypes, ModesTypeOK
    <3> QED BY <1>3, <3>1 DEF SetTime
  <2> QED BY <1>1, <1>3, <2>1 DEF SetTime, ModesTypes, ModesTypeOK, OnePlayerEach, net, quest
<1>4. CASE AskProgress(c)
  <2>1. told' \in [Addrs -> (0 .. Len(Targets) - 1) \X Nat]
    BY <1>4, ProgressNow DEF AskProgress, ModesTypes, ModesTypeOK
  <2> QED BY <1>1, <1>4, <2>1
          DEF AskProgress, ModesTypes, ModesTypeOK, OnePlayerEach, net, quest, freeroamVars
<1>5. CASE ResetQuest(c)
  <2>1. told' \in [Addrs -> (0 .. Len(Targets) - 1) \X Nat]
    BY <1>5, TargetsAreStages DEF ResetQuest, Announce, ModesTypes, ModesTypeOK
  <2>2. stage' = 0 /\ kills' = 0 /\ credit' = 0 /\ 0 \in 0 .. MaxKills
    BY <1>5, GameModesAssumption DEF ResetQuest, GameModesAssumption
  <2> QED BY <1>1, <1>5, <2>1, <2>2, TargetsAreStages
          DEF ResetQuest, ModesTypes, ModesTypeOK, OnePlayerEach, net, freeroamVars
<1> QED BY <1>2, <1>3, <1>4, <1>5 DEF Chat

LEMMA ProgressTypes ==
  ASSUME ModesTypes
  PROVE  /\ Progress[1] \in 0 .. Len(Targets) - 1
         /\ Progress[2] \in 0 .. Targets[Progress[1] + 1] - 1
         /\ Progress \in (0 .. Len(Targets) - 1) \X Nat
<1>1. stage \in 0 .. Len(Targets) - 1 /\ kills \in 0 .. Targets[stage + 1] - 1
  BY DEF ModesTypes, ModesTypeOK
<1>2. stage + 1 \in 1 .. Len(Targets)
  BY <1>1, TargetsAreStages
<1>3. CASE kills + 1 < Targets[stage + 1]
  BY <1>1, <1>2, <1>3, TargetsAreStages DEF Progress
<1>4. CASE ~ (kills + 1 < Targets[stage + 1]) /\ stage + 1 < Len(Targets)
  <2>1. Progress = <<stage + 1, 0>> /\ (stage + 1) + 1 \in 1 .. Len(Targets)
    BY <1>1, <1>2, <1>4, TargetsAreStages DEF Progress
  <2>2. Targets[(stage + 1) + 1] \in Nat \ {0}
    BY <2>1, TargetsAreStages
  <2> QED BY <1>1, <1>4, <2>1, <2>2, TargetsAreStages
<1>5. CASE ~ (kills + 1 < Targets[stage + 1]) /\ ~ (stage + 1 < Len(Targets))
  BY <1>5, TargetsAreStages DEF Progress
<1> QED BY <1>3, <1>4, <1>5

LEMMA HitModesTypes ==
  ASSUME ModesTypes, NEW c \in Addrs, NEW target, NEW fatal \in BOOLEAN,
         PlayerHits(c, target, fatal)
  PROVE  ModesTypes'
<1>1. /\ target \in present \cup Npcs
      /\ UNCHANGED <<net, serverPvp, freeroamVars, questers>>
      /\ UNCHANGED InGame
  BY DEF PlayerHits, net, InGame
<1>2. credit \in 0 .. MaxKills /\ credit < MaxKills /\ MaxKills \in Nat
  BY GameModesAssumption DEF GameModesAssumption, PlayerHits, ModesTypes, ModesTypeOK
<1>3. credit' \in 0 .. MaxKills
  BY <1>2 DEF PlayerHits
<1>4. dead' \subseteq present' \cup Npcs /\ hurt' \subseteq present'
  BY <1>1, GameModesAssumption DEF GameModesAssumption, PlayerHits, ModesTypes, ModesTypeOK, net
<1>5. /\ stage' \in 0 .. Len(Targets) - 1
      /\ kills' \in 0 .. Targets[stage' + 1] - 1
      /\ told' \in [Addrs -> (0 .. Len(Targets) - 1) \X Nat]
  <2>1. CASE UNCHANGED <<stage, kills, told>>
    BY <2>1 DEF ModesTypes, ModesTypeOK
  <2>2. CASE stage' = Progress[1] /\ kills' = Progress[2] /\ Announce(Progress)
    <3>1. told' \in [Addrs -> (0 .. Len(Targets) - 1) \X Nat]
      BY <2>2, ProgressTypes DEF Announce, ModesTypes, ModesTypeOK
    <3> QED BY <2>2, <3>1, ProgressTypes
  <2> QED BY <2>1, <2>2 DEF PlayerHits, QuestDeath
<1> QED BY <1>1, <1>3, <1>4, <1>5 DEF ModesTypes, ModesTypeOK, OnePlayerEach, net, freeroamVars

LEMMA DeadModesTypes ==
  ASSUME ModesTypes, NEW actor, NEW b \in BOOLEAN, ActorDead(actor, b)
  PROVE  ModesTypes'
<1>1. /\ actor \in InGame \cup Npcs
      /\ dead' = IF b THEN dead \cup {actor} ELSE dead \ {actor}
      /\ UNCHANGED <<net, serverPvp, freeroamVars, quest, told, hurt, credit>>
      /\ UNCHANGED InGame
  BY DEF ActorDead, net, InGame
<1>2. dead' \subseteq present' \cup Npcs
  BY <1>1 DEF ModesTypes, ModesTypeOK, net
<1> QED BY <1>1, <1>2 DEF ModesTypes, ModesTypeOK, OnePlayerEach, net, freeroamVars, quest

\* Whatever the players do and however many there are, the tables hold ids that
\* were given out, the dead, the hit and the players of the sessions are in the
\* world, the clock shows an hour of the day, and the stage of the quest is one
\* whose kills are not complete (the globals of freeroam and of shared-quest,
\* clamps of parse_u8 included).
THEOREM ModesTypesHold == ModesSpec => []ModesTypeOK
<1>1. ASSUME ModesTypes, [ModesNext]_modesVars PROVE ModesTypes'
  <2>1. CASE \E c \in Addrs, length \in NameLengths : Join(c, length)
    BY <1>1, <2>1, JoinModesTypes
  <2>2. CASE \E c \in Addrs : Leave(c) \/ Cull(c) \/ Chat(c)
    BY <1>1, <2>2, LeaveModesTypes, CullModesTypes, ChatModesTypes
  <2>3. CASE \E c \in Addrs, target \in Players \cup Npcs, fatal \in BOOLEAN :
               PlayerHits(c, target, fatal)
    BY <1>1, <2>3, HitModesTypes
  <2>4. CASE \E actor \in Players \cup Npcs, b \in BOOLEAN : ActorDead(actor, b)
    BY <1>1, <2>4, DeadModesTypes
  <2>5. CASE UNCHANGED modesVars
    BY <1>1, <2>5 DEF ModesTypes, ModesTypeOK, OnePlayerEach, InGame, modesVars, net,
                      freeroamVars, quest
  <2> QED BY <1>1, <2>1, <2>2, <2>3, <2>4, <2>5 DEF ModesNext
<1>2. ModesTypes => ModesTypeOK
  BY DEF ModesTypes
<1> QED BY <1>1, <1>2, InitModesTypes, PTL DEF ModesSpec

(***************************************************************************)
(* The relay.                                                              *)
(***************************************************************************)

\* The greater of two numbers is one of them.
LEMMA MaxOfTwo ==
  ASSUME NEW i \in Nat, NEW j \in Int
  PROVE  Max({i, j}) \in Nat
<1>1. \E m \in {i, j} : \A n \in {i, j} : m >= n
  <2>1. CASE i >= j
    BY <2>1
  <2>2. CASE ~ (i >= j)
    BY <2>2
  <2> QED BY <2>1, <2>2
<1>2. Max({i, j}) \in {i, j} /\ Max({i, j}) >= i
  BY <1>1 DEF Max
<1> QED BY <1>2

\* A hit costs some health, in whole points.
LEMMA DamageIsNumber ==
  ASSUME NEW hit \in Hits
  PROVE  Damage(hit) \in Nat
<1> DEFINE twice == LimbTwice(hit.limb) * CriticalTwice(hit.critical)
<1>1. hit.base \in Nat
  BY WorldRelayAssumption DEF WorldRelayAssumption
<1>2. LimbTwice(hit.limb) \in Nat /\ CriticalTwice(hit.critical) \in Nat
  BY DEF LimbTwice, CriticalTwice
<1>3. hit.base * LimbTwice(hit.limb) \in Nat
  BY <1>1, <1>2
<1>4. hit.base * LimbTwice(hit.limb) * CriticalTwice(hit.critical) \in Nat
  BY <1>2, <1>3
<1>5. (hit.base * LimbTwice(hit.limb) * CriticalTwice(hit.critical)) \div 4 \in Int
  BY <1>4
<1> QED BY <1>5, MaxOfTwo DEF Damage

\* What an entity can be.
Forms == {Absent} \cup Things \cup Plain \cup Living

\* The values of the fields besides the kind.
Valued(field, v) ==
  \/ field = "pos" /\ v \in Int
  \/ field \in {"alerted", "dead", "equipped"} /\ v \in BOOLEAN
  \/ field \in {"health", "count", "condition"} /\ v \in Nat

\* The things there are have some of the fields.
LEMMA EntityFields ==
  ASSUME NEW r \in Forms
  PROVE  DOMAIN r \subseteq Fields
BY DEF Forms, Absent, Things, Plain, NewContainer, Living, Fields

\* A thing stays what it is, whichever of its fields is written.
LEMMA WriteKeepsForm ==
  ASSUME NEW r \in Forms, NEW field \in DOMAIN r, NEW v, Valued(field, v)
  PROVE  /\ [r EXCEPT ![field] = v] \in Forms \ {Absent}
         /\ [r EXCEPT ![field] = v].kind = r.kind
         /\ r # Absent
         /\ r \in Living => [r EXCEPT ![field] = v] \in Living
<1>1. CASE r = Absent \/ r = NewContainer
  BY <1>1 DEF Absent, NewContainer, Valued
<1>2. CASE r \in [kind : {"Object"}, pos : Int]
  BY <1>2 DEF Valued, Forms, Plain, Absent, Living, Alive
<1>3. CASE r \in Things
  BY <1>3 DEF Valued, Forms, Things, Absent, Living, Alive
<1>4. CASE r \in Living
  <2>1. [r EXCEPT ![field] = v] \in Living
    BY <1>4 DEF Valued, Living
  <2>2. [r EXCEPT ![field] = v].kind = r.kind /\ r # Absent
    BY <1>4 DEF Valued, Living, Alive, Absent
  <2> QED BY <2>1, <2>2 DEF Forms, Living, Alive, Absent
<1> QED BY <1>1, <1>2, <1>3, <1>4 DEF Forms, Plain

\* What can be placed has a place, and what is alive has a life.
LEMMA KindsTell ==
  ASSUME NEW r \in Forms
  PROVE  /\ r.kind \in Placed <=> "pos" \in DOMAIN r
         /\ r.kind \in Alive <=> r \in Living
         /\ r.kind = "Item" => r \in Things
         /\ r = Absent <=> r.kind = "absent"
<1>1. CASE r = Absent \/ r = NewContainer
  BY <1>1 DEF Absent, NewContainer, Placed, Alive, Living
<1>2. CASE r \in [kind : {"Object"}, pos : Int]
  BY <1>2 DEF Placed, Alive, Living, Absent
<1>3. CASE r \in Things
  BY <1>3 DEF Things, Placed, Alive, Living, Absent
<1>4. CASE r \in Living
  BY <1>4 DEF Placed, Alive, Living, Absent
<1> QED BY <1>1, <1>2, <1>3, <1>4 DEF Forms, Plain

\* A thing that is there is put in the place of one that is there.
LEMMA WriteKeepsTypes ==
  ASSUME RelayTypeOK, NEW e \in Entities, entities[e] # Absent, NEW r \in Forms \ {Absent},
         entities' = [entities EXCEPT ![e] = r] \/ entities' = entities,
         UNCHANGED <<owner, deleted, pvp>>, handled' \in Nat,
         missed' \in [Clients -> SUBSET (Entities \X Fields)]
  PROVE  RelayTypeOK'
<1>1. CASE entities' = entities
  BY <1>1 DEF RelayTypeOK
<1>2. CASE entities' = [entities EXCEPT ![e] = r]
  <2>1. \A f \in Entities : entities'[f] = IF f = e THEN r ELSE entities[f]
    BY <1>2 DEF RelayTypeOK
  <2>2. \A f \in Entities : entities'[f] = Absent <=> entities[f] = Absent
    BY <2>1
  <2>3. entities' \in [Entities -> {Absent} \cup Things \cup Plain \cup Living]
    BY <1>2 DEF RelayTypeOK, Forms
  <2> QED BY <2>2, <2>3 DEF RelayTypeOK
<1> QED BY <1>1, <1>2

\* Whoever is hearers, what the clients missed are fields of entities.
LEMMA TellKeepsTypes ==
  ASSUME RelayTypeOK, NEW hearers, NEW e \in Entities, NEW field \in Fields, Tell(hearers, e, field)
  PROVE  missed' \in [Clients -> SUBSET (Entities \X Fields)]
BY DEF Tell, RelayTypeOK

LEMMA TakeKeepsTypes ==
  ASSUME RelayTypeOK, Take
  PROVE  handled' \in Nat
BY WorldRelayAssumption DEF Take, RelayTypeOK

LEMMA RejectedKeepsTypes ==
  ASSUME RelayTypeOK, Take, Rejected, UNCHANGED <<owner, deleted, pvp>>
  PROVE  RelayTypeOK'
BY TakeKeepsTypes DEF Rejected, RelayTypeOK

\* A field is written, if the thing has it, and some are told.
LEMMA FieldKeepsTypes ==
  ASSUME RelayTypeOK, Take, NEW e \in Entities, NEW field \in Fields, NEW v, Valued(field, v),
         \/ field \in DOMAIN entities[e] /\ entities' = [entities EXCEPT ![e][field] = v]
         \/ entities' = entities,
         NEW hearers, Tell(hearers, e, field), UNCHANGED <<owner, deleted, pvp>>
  PROVE  RelayTypeOK'
<1> DEFINE r == [entities[e] EXCEPT ![field] = v]
<1>1. handled' \in Nat /\ missed' \in [Clients -> SUBSET (Entities \X Fields)]
  BY TakeKeepsTypes, TellKeepsTypes
<1>2. CASE entities' = entities
  BY <1>1, <1>2 DEF RelayTypeOK
<1>3. CASE field \in DOMAIN entities[e] /\ entities' = [entities EXCEPT ![e][field] = v]
  <2>1. entities[e] \in Forms
    BY DEF RelayTypeOK, Forms
  <2>2. r \in Forms \ {Absent} /\ entities[e] # Absent
    BY <1>3, <2>1, WriteKeepsForm
  <2>3. entities' = [entities EXCEPT ![e] = r]
    BY <1>3
  <2> HIDE DEF r
  <2> QED BY <1>1, <2>2, <2>3, WriteKeepsTypes
<1> QED BY <1>2, <1>3

LEMMA RelayKeepsTypes ==
  ASSUME RelayTypeOK, Take, NEW p, NEW e \in Entities, NEW field \in Fields, NEW v,
         Valued(field, v), Relay(p, e, field, v), UNCHANGED <<owner, deleted, pvp>>
  PROVE  RelayTypeOK'
<1>1. \/ field \in DOMAIN entities[e] /\ entities' = [entities EXCEPT ![e][field] = v]
      \/ entities' = entities
  BY DEF Relay
<1>2. Tell(Others(p), e, field)
  BY DEF Relay
<1> QED BY <1>1, <1>2, FieldKeepsTypes

\* Every update a client sends keeps the types.
LEMMA UpdatesKeepTypes ==
  ASSUME RelayTypeOK, NEW p \in Clients, NEW e \in Entities,
         \/ \E to \in Places : UpdatePos(p, e, to)
         \/ \E to \in Doors : UpdateCell(p, e, to)
         \/ \E b \in BOOLEAN : UpdateActorState(p, e, b) \/ UpdateActorDead(p, e, b)
         \/ \E h \in Samples : UpdateActorValue(p, e, h)
         \/ \E given, b \in BOOLEAN : ActorStateDelta(p, e, given, b)
  PROVE  RelayTypeOK'
<1>1. Take /\ UNCHANGED <<owner, deleted, pvp>>
  BY DEF UpdatePos, UpdateCell, UpdateActorState, UpdateActorDead, UpdateActorValue,
     ActorStateDelta
<1>2. CASE Rejected
  BY <1>1, <1>2, RejectedKeepsTypes
<1>3. ASSUME NEW field \in {"pos", "alerted", "dead", "health"}, NEW v, Valued(field, v),
             Relay(p, e, field, v)
      PROVE  RelayTypeOK'
  BY <1>1, <1>3, RelayKeepsTypes DEF Fields
<1>4. CASE UNCHANGED <<entities, missed>>
  BY <1>1, <1>4, TakeKeepsTypes DEF RelayTypeOK
<1>5. ASSUME NEW to \in Places, UpdatePos(p, e, to) PROVE RelayTypeOK'
  <2>1. Valued("pos", to)
    BY WorldRelayAssumption DEF WorldRelayAssumption, Valued
  <2> QED BY <1>2, <1>3, <1>5, <2>1 DEF UpdatePos
<1>6. ASSUME NEW to \in Doors, UpdateCell(p, e, to) PROVE RelayTypeOK'
  <2>1. Valued("pos", to) /\ "pos" \in Fields
    BY WorldRelayAssumption DEF WorldRelayAssumption, Valued, Fields
  <2>2. entities[e].kind \in Placed => "pos" \in DOMAIN entities[e]
    BY KindsTell DEF RelayTypeOK, Forms
  <2>3. CASE ~ Rejected
    <3>1. /\ \/ "pos" \in DOMAIN entities[e] /\ entities' = [entities EXCEPT ![e]["pos"] = to]
             \/ entities' = entities
          /\ Tell({}, e, "pos")
      BY <1>6, <2>2, <2>3 DEF UpdateCell
    <3> QED BY <1>1, <2>1, <3>1, FieldKeepsTypes
  <2> QED BY <1>2, <2>3
<1>7. ASSUME NEW b \in BOOLEAN, UpdateActorState(p, e, b) \/ UpdateActorDead(p, e, b)
      PROVE  RelayTypeOK'
  <2>1. Valued("alerted", b) /\ Valued("dead", b)
    BY DEF Valued
  <2> QED BY <1>2, <1>3, <1>7, <2>1 DEF UpdateActorState, UpdateActorDead
<1>8. ASSUME NEW h \in Samples, UpdateActorValue(p, e, h) PROVE RelayTypeOK'
  <2>1. Valued("health", h)
    BY WorldRelayAssumption DEF WorldRelayAssumption, Valued
  <2> QED BY <1>2, <1>3, <1>8, <2>1 DEF UpdateActorValue
<1>9. ASSUME NEW given \in BOOLEAN, NEW b \in BOOLEAN, ActorStateDelta(p, e, given, b)
      PROVE  RelayTypeOK'
  <2>1. Valued("alerted", b)
    BY DEF Valued
  <2> QED BY <1>2, <1>3, <1>4, <1>9, <2>1 DEF ActorStateDelta
<1> QED BY <1>5, <1>6, <1>7, <1>8, <1>9

\* So does an update of an item.
LEMMA ItemKeepsTypes ==
  ASSUME RelayTypeOK, NEW p \in Clients, NEW e \in Entities, NEW silent \in BOOLEAN,
         \/ \E b \in BOOLEAN : UpdateItem(p, e, "equipped", b, silent)
         \/ \E n \in Counts : \/ UpdateItem(p, e, "count", n, silent)
                              \/ UpdateItem(p, e, "condition", n, silent)
  PROVE  RelayTypeOK'
<1>1. Take /\ UNCHANGED <<owner, deleted, pvp>>
  BY DEF UpdateItem
<1>2. PICK field, v :
        /\ field \in {"equipped", "count", "condition"}
        /\ UpdateItem(p, e, field, v, silent)
        /\ Valued(field, v)
  BY WorldRelayAssumption DEF WorldRelayAssumption, Valued
<1>3. CASE Rejected
  BY <1>1, <1>3, RejectedKeepsTypes
<1>4. CASE ~ Rejected
  <2>1. PICK hearers : /\ OwnItem(p, e) /\ entities' = [entities EXCEPT ![e][field] = v]
                       /\ Tell(hearers, e, field)
    BY <1>2, <1>4 DEF UpdateItem
  <2>2. entities[e] \in Things
    BY <2>1, KindsTell DEF OwnItem, RelayTypeOK, Forms
  <2>3. field \in DOMAIN entities[e] /\ field \in Fields
    BY <1>2, <2>2 DEF Things, Fields
  <2> QED BY <1>1, <1>2, <2>1, <2>3, FieldKeepsTypes
<1> QED BY <1>3, <1>4

\* What a client can report.
LEMMA ReportedAreForms ==
  ASSUME NEW thing \in Reported \cup {NewActor}
  PROVE  thing \in Forms \ {Absent} /\ DOMAIN thing \subseteq Fields
<1>1. thing \in Forms \ {Absent}
  <2>1. NewActor \in Living /\ NewPlayer \in Living
    BY DEF NewActor, NewPlayer, Newcomer, Living, Alive, Unset
  <2>2. \A to \in Doors : [kind |-> "Object", pos |-> to] \in Plain
    BY WorldRelayAssumption DEF WorldRelayAssumption, Plain
  <2>3. thing \in Living \cup Plain
    BY <2>1, <2>2 DEF Reported, Plain
  <2>4. \A r \in Living \cup Plain : r # Absent
    BY DEF Living, Plain, NewContainer, Alive, Absent
  <2> QED BY <2>3, <2>4 DEF Forms
<1> QED BY <1>1, EntityFields

\* So does a report, whoever the id belongs to,
LEMMA NewKeepsTypes ==
  ASSUME RelayTypeOK, NEW p \in Clients, NEW e \in Entities,
         ActorNew(p, e) \/ \E thing \in Reported : ObjectNew(p, e, thing)
  PROVE  RelayTypeOK'
<1>1. Take /\ UNCHANGED <<deleted, pvp>> /\ handled' \in Nat
  BY TakeKeepsTypes DEF ActorNew, ObjectNew
<1>2. CASE Rejected /\ UNCHANGED owner
  BY <1>1, <1>2, RejectedKeepsTypes
<1>3. ASSUME NEW thing \in Reported \cup {NewActor}, e \notin deleted, PutNew(p, e, thing),
             owner' = [owner EXCEPT ![e] = p] \/ owner' = owner
      PROVE  RelayTypeOK'
  <2>1. thing \in Forms \ {Absent} /\ DOMAIN thing \subseteq Fields
    BY ReportedAreForms
  <2>2. Unsaid(thing) \subseteq Fields
    BY <2>1 DEF Unsaid
  <2>3. missed' \in [Clients -> SUBSET (Entities \X Fields)]
    <3>1. \A S \in SUBSET Fields : {<<e, f>> : f \in S} \in SUBSET (Entities \X Fields)
      OBVIOUS
    <3> DEFINE all == {<<e, f>> : f \in DOMAIN thing}
               some == {<<e, f>> : f \in Unsaid(thing)}
    <3>2. all \in SUBSET (Entities \X Fields) /\ some \in SUBSET (Entities \X Fields)
      BY <2>1, <2>2, <3>1
    <3>3. missed' = [c \in Clients |->
            IF c = p THEN missed[c] \cup all ELSE (missed[c] \ all) \cup some]
      BY <1>3 DEF PutNew
    <3> HIDE DEF all, some
    <3> QED BY <3>2, <3>3 DEF RelayTypeOK
  <2>4. entities' = [entities EXCEPT ![e] = thing]
    BY <1>3 DEF PutNew
  <2>5. \A d \in Entities : entities'[d] = IF d = e THEN thing ELSE entities[d]
    BY <2>4 DEF RelayTypeOK
  <2>6. entities' \in [Entities -> {Absent} \cup Things \cup Plain \cup Living]
    BY <2>1, <2>4 DEF RelayTypeOK, Forms
  <2>7. owner' \in [Entities -> Clients \cup {Nobody}] /\ \A d \in Entities : d # e => owner'[d] = owner[d]
    BY <1>3 DEF RelayTypeOK
  <2>8. \A d \in Entities : owner'[d] # Nobody => entities'[d] # Absent
    BY <2>1, <2>5, <2>7 DEF RelayTypeOK
  <2>9. \A d \in deleted' : entities'[d] = Absent
    BY <1>1, <1>3, <2>5 DEF RelayTypeOK
  <2> QED BY <1>1, <2>3, <2>6, <2>7, <2>8, <2>9 DEF RelayTypeOK
<1>4. CASE ActorNew(p, e)
  BY <1>2, <1>3, <1>4 DEF ActorNew
<1>5. CASE \E thing \in Reported : ObjectNew(p, e, thing)
  BY <1>2, <1>3, <1>5 DEF ObjectNew
<1> QED BY <1>4, <1>5

\* a claim,
LEMMA ClaimKeepsTypes ==
  ASSUME RelayTypeOK, NEW p \in Clients, NEW e \in Entities, OwnershipClaim(p, e)
  PROVE  RelayTypeOK'
<1>1. handled' \in Nat /\ UNCHANGED <<entities, deleted, pvp, missed>>
  BY TakeKeepsTypes DEF OwnershipClaim
<1>2. /\ owner' \in [Entities -> Clients \cup {Nobody}]
      /\ \A d \in Entities : owner'[d] # Nobody => owner[d] # Nobody \/ entities[d] # Absent
  BY DEF OwnershipClaim, RelayTypeOK
<1> QED BY <1>1, <1>2 DEF RelayTypeOK

\* a removal and the destruction by a script,
LEMMA EraseKeepsTypes ==
  ASSUME RelayTypeOK, NEW e \in Entities, Take, Erase(e), UNCHANGED pvp,
         NEW hearers, Tell(hearers, e, "kind")
  PROVE  RelayTypeOK'
<1>1. missed' \in [Clients -> SUBSET (Entities \X Fields)] /\ handled' \in Nat
  BY TellKeepsTypes, TakeKeepsTypes DEF Fields
<1>2. entities' = [entities EXCEPT ![e] = Absent] /\ owner' = [owner EXCEPT ![e] = Nobody]
  BY DEF Erase
<1>3. \A d \in Entities : /\ entities'[d] = IF d = e THEN Absent ELSE entities[d]
                          /\ owner'[d] = IF d = e THEN Nobody ELSE owner[d]
  BY <1>2 DEF RelayTypeOK
<1>4. /\ entities' \in [Entities -> {Absent} \cup Things \cup Plain \cup Living]
      /\ owner' \in [Entities -> Clients \cup {Nobody}]
  BY <1>2 DEF RelayTypeOK
<1>5. deleted' \subseteq Entities /\ \A d \in deleted' : d = e \/ d \in deleted
  BY DEF Erase, RelayTypeOK
<1> QED BY <1>1, <1>3, <1>4, <1>5 DEF RelayTypeOK

LEMMA RemoveKeepsTypes ==
  ASSUME RelayTypeOK, NEW p \in Clients, NEW e \in Entities,
         DestroyObject(e) \/ \E silent \in BOOLEAN : ObjectRemove(p, e, silent)
  PROVE  RelayTypeOK'
<1>1. /\ Take /\ Erase(e) /\ UNCHANGED pvp
      /\ \E hearers : Tell(hearers, e, "kind")
  BY DEF ObjectRemove, DestroyObject
<1> QED BY <1>1, EraseKeepsTypes

\* an announcement,
LEMMA EnterKeepsTypes ==
  ASSUME RelayTypeOK, NEW p \in Clients, NEW e \in Entities, Enter(p, e)
  PROVE  RelayTypeOK'
<1>1. Take /\ UNCHANGED <<owner, deleted, pvp>>
  BY DEF Enter
<1>2. CASE Rejected
  BY <1>1, <1>2, RejectedKeepsTypes
<1>3. CASE ~ Rejected
  <2>1. DOMAIN entities[e] \subseteq Fields
    BY EntityFields DEF RelayTypeOK, Forms
  <2>2. {<<e, f>> : f \in Unsaid(entities[e])} \in SUBSET (Entities \X Fields)
    BY <2>1 DEF Unsaid
  <2>3. PICK left \in SUBSET (Entities \X Fields) :
          UNCHANGED entities
          /\ missed' = [missed EXCEPT ![p] = (@ \ {<<e, f>> : f \in DOMAIN entities[e]}) \cup left]
    BY <1>3, <2>2 DEF Enter
  <2>4. missed' \in [Clients -> SUBSET (Entities \X Fields)]
    BY <2>3 DEF RelayTypeOK
  <2> QED BY <1>1, <2>3, <2>4, TakeKeepsTypes DEF RelayTypeOK
<1> QED BY <1>2, <1>3

\* a hit,
LEMMA HitKeepsTypes ==
  ASSUME RelayTypeOK, NEW p \in Clients, NEW target \in Entities, NEW hit \in Hits,
         ActorHit(p, target, hit)
  PROVE  RelayTypeOK'
<1> DEFINE old == entities[target]
           left == Max({0, old.health - Damage(hit)})
           hurtThing == [old EXCEPT !["health"] = left]
           r == [hurtThing EXCEPT !["dead"] = (left = 0)]
           touched == {<<target, "health">>} \cup (IF left = 0 THEN {<<target, "dead">>} ELSE {})
<1>1. Take /\ UNCHANGED <<owner, deleted, pvp>>
  BY DEF ActorHit
<1>2. CASE Rejected
  BY <1>1, <1>2, RejectedKeepsTypes
<1>3. CASE ~ Rejected
  <2>1. /\ Hittable(p, target)
        /\ entities' = [entities EXCEPT ![target].health = left, ![target].dead = (left = 0)]
        /\ missed' = [c \in Clients |-> missed[c] \cup touched]
    BY <1>3 DEF ActorHit
  <2>2. old \in Forms /\ old \in Living
    BY <2>1, KindsTell DEF Hittable, RelayTypeOK, Forms
  <2>3. left \in Nat
    <3>1. old.health \in Nat /\ Damage(hit) \in Nat
      BY <2>2, DamageIsNumber DEF Living
    <3>2. old.health - Damage(hit) \in Int
      BY <3>1
    <3> QED BY <3>2, MaxOfTwo
  <2>4. "health" \in DOMAIN old /\ "dead" \in DOMAIN old
    BY <2>2 DEF Living
  <2> HIDE DEF left
  <2>5. hurtThing \in Forms /\ "dead" \in DOMAIN hurtThing /\ old # Absent
    BY <2>2, <2>3, <2>4, WriteKeepsForm DEF Valued
  <2>6. Valued("dead", left = 0)
    BY DEF Valued
  <2> HIDE DEF hurtThing
  <2>7. r \in Forms \ {Absent}
    BY <2>5, <2>6, WriteKeepsForm
  <2>8. entities' = [entities EXCEPT ![target] = r]
    BY <2>1, <2>2 DEF hurtThing, RelayTypeOK
  <2>9. missed' \in [Clients -> SUBSET (Entities \X Fields)]
    BY <2>1, <2>2 DEF RelayTypeOK, Fields
  <2> HIDE DEF r, old
  <2> QED BY <1>1, <2>5, <2>7, <2>8, <2>9, TakeKeepsTypes, WriteKeepsTypes DEF old
<1> QED BY <1>2, <1>3

\* and a script's kill and revival.
LEMMA ScriptKeepsTypes ==
  ASSUME RelayTypeOK, NEW e \in Entities, KillActor(e) \/ ResurrectActor(e)
  PROVE  RelayTypeOK'
<1>1. Take /\ UNCHANGED <<owner, deleted, pvp>> /\ "dead" \in Fields
  BY DEF KillActor, ResurrectActor, Fields
<1>2. entities[e].kind = "Actor" => "dead" \in DOMAIN entities[e]
  <2>1. entities[e].kind = "Actor" => entities[e] \in Living
    BY KindsTell DEF RelayTypeOK, Forms, Alive
  <2> QED BY <2>1 DEF Living
<1>3. PICK b \in BOOLEAN : /\ \/ "dead" \in DOMAIN entities[e] /\ entities' = [entities EXCEPT ![e]["dead"] = b]
                             \/ entities' = entities
                          /\ \E hearers : Tell(hearers, e, "dead")
  BY <1>2 DEF KillActor, ResurrectActor
<1>4. Valued("dead", b)
  BY DEF Valued
<1> QED BY <1>1, <1>3, <1>4, FieldKeepsTypes

LEMMA InitRelayTypeOK == RelayInit => RelayTypeOK
<1> SUFFICES ASSUME RelayInit PROVE RelayTypeOK
  OBVIOUS
<1>1. PICK npc \in {Absent} \cup {[NewActor EXCEPT !.health = h] : h \in Samples \ {Unset}} :
        entities = [e \in Entities |->
          IF e \in Clients THEN NewPlayer ELSE IF e = Item THEN NewItem ELSE npc]
  BY DEF RelayInit
<1>2. NewPlayer \in Living /\ NewItem \in Things
  BY DEF NewPlayer, Newcomer, NewItem, Living, Things, Alive, Unset
<1>3. npc \in {Absent} \cup Living
  <2>1. \A h \in Samples : h \in Nat
    BY WorldRelayAssumption DEF WorldRelayAssumption
  <2>2. NewActor \in Living
    BY DEF NewActor, Newcomer, Living, Alive, Unset
  <2>3. \A h \in Samples : [NewActor EXCEPT !.health = h] \in Living
    BY <2>1, <2>2 DEF Living
  <2> QED BY <2>3
<1>4. Npc \in Entities
  BY DEF Entities
<1>5. entities \in [Entities -> {Absent} \cup Things \cup Plain \cup Living]
  BY <1>1, <1>2, <1>3
<1>6. DOMAIN NewActor \subseteq Fields
  BY DEF NewActor, Newcomer, Fields
<1>7. missed \in [Clients -> SUBSET (Entities \X Fields)]
  BY <1>4, <1>6 DEF RelayInit
<1>8. /\ owner \in [Entities -> Clients \cup {Nobody}]
      /\ \A e \in Entities : owner[e] # Nobody => entities[e] # Absent
  BY WorldRelayAssumption DEF RelayInit, WorldRelayAssumption
<1> QED BY <1>5, <1>7, <1>8 DEF RelayInit, RelayTypeOK

LEMMA NextRelayTypeOK ==
  ASSUME RelayTypeOK, [RelayNext]_relayVars
  PROVE  RelayTypeOK'
<1>1. ASSUME NEW p \in Clients, NEW e \in Entities, Report(p, e) PROVE RelayTypeOK'
  BY <1>1, UpdatesKeepTypes, ItemKeepsTypes, NewKeepsTypes, ClaimKeepsTypes, RemoveKeepsTypes,
     EnterKeepsTypes, HitKeepsTypes DEF Report
<1>2. ASSUME NEW p \in Clients, Read(p) PROVE RelayTypeOK'
  BY <1>2 DEF Read, relayServer, RelayTypeOK
<1>3. ASSUME NEW e \in Entities, Script(e) PROVE RelayTypeOK'
  <2>1. Holder \in Clients
    BY WorldRelayAssumption DEF WorldRelayAssumption
  <2> QED BY <1>3, <2>1, ScriptKeepsTypes, RemoveKeepsTypes DEF Script
<1>4. CASE UNCHANGED relayVars
  BY <1>4 DEF relayVars, relayServer, RelayTypeOK
<1> QED BY <1>1, <1>2, <1>3, <1>4 DEF RelayNext, Handle

-----------------------------------------------------------------------------
(* Theorems about the relay. *)

\* Whatever clients and scripts send, of whosever ids, an entity is one of the
\* kinds with the fields of its kind, and what was removed is gone and granted
\* to nobody (remove and set_owner of world/registry.rs, and the reports that
\* may come after).
THEOREM RelayTypesHold == RelaySpec => []RelayTypeOK
BY InitRelayTypeOK, NextRelayTypeOK, PTL DEF RelaySpec

\* What a client sends of an entity touches no other.
LEMMA ReportTouchesOne ==
  ASSUME RelayTypeOK, NEW q \in Clients, NEW e \in Entities, Report(q, e),
         NEW d \in Entities, d # e
  PROVE  entities'[d] = entities[d]
<1>1. DOMAIN entities = Entities
  BY DEF RelayTypeOK
<1>2. CASE \/ \E to \in Places : UpdatePos(q, e, to)
           \/ \E b \in BOOLEAN : UpdateActorState(q, e, b) \/ UpdateActorDead(q, e, b)
           \/ \E h \in Samples : UpdateActorValue(q, e, h)
           \/ \E given, b \in BOOLEAN : ActorStateDelta(q, e, given, b)
  <2>1. entities' = entities \/ \E field, v : entities' = [entities EXCEPT ![e][field] = v]
    BY <1>2 DEF UpdatePos, UpdateActorState, UpdateActorDead, UpdateActorValue, ActorStateDelta,
                Relay, Rejected
  <2> QED BY <1>1, <2>1
<1>3. CASE \E to \in Doors : UpdateCell(q, e, to)
  BY <1>1, <1>3 DEF UpdateCell, Rejected
<1>4. CASE \E field, v, silent : UpdateItem(q, e, field, v, silent)
  BY <1>1, <1>4 DEF UpdateItem, Rejected
<1>5. CASE ActorNew(q, e) \/ \E thing \in Reported : ObjectNew(q, e, thing)
  BY <1>1, <1>5 DEF ActorNew, ObjectNew, PutNew, Rejected
<1>6. CASE \E silent \in BOOLEAN : ObjectRemove(q, e, silent)
  BY <1>1, <1>6 DEF ObjectRemove, Erase
<1>7. CASE Enter(q, e) \/ OwnershipClaim(q, e)
  BY <1>7 DEF Enter, OwnershipClaim, Rejected
<1>8. CASE \E hit \in Hits : ActorHit(q, e, hit)
  BY <1>1, <1>8 DEF ActorHit, Rejected
<1> QED BY <1>2, <1>3, <1>4, <1>5, <1>6, <1>7, <1>8 DEF Report

\* With PvP off no update and no hit of a client changes the entity of another
\* player, unless the server granted it that entity: only a report or a removal
\* of its id can (owned, can_mutate and the rule of combat.rs; handle_actor_new,
\* handle_object_new and handle_object_remove do not ask).
THEOREM PlayersKeepToThemselves == RelaySpec => OnlyOwnHands
<1>1. ASSUME RelayTypeOK, NEW p \in Clients, NEW q \in Clients, ~ pvp, p # q, owner[p] # q,
             entities[p].kind = "Player", entities[q].kind = "Player",
             entities'[p] # entities[p], Handle(q)
      PROVE  Replaces(q, p)
  <2>1. p \in Entities
    BY DEF Entities
  <2>2. Report(q, p)
    BY <1>1, <2>1, ReportTouchesOne DEF Handle
  <2>3. ~ Rejected /\ entities' # entities
    BY <1>1 DEF Rejected
  <2>4. ~ Owned(q, p) /\ ~ OwnItem(q, p) /\ ~ PvpAllows(q, p)
    BY <1>1 DEF Owned, OwnItem, PvpAllows
  <2>5. /\ ~ \E to \in Places : UpdatePos(q, p, to)
        /\ ~ \E to \in Doors : UpdateCell(q, p, to)
        /\ ~ \E b \in BOOLEAN : UpdateActorState(q, p, b) \/ UpdateActorDead(q, p, b)
        /\ ~ \E h \in Samples : UpdateActorValue(q, p, h)
        /\ ~ \E given, b \in BOOLEAN : ActorStateDelta(q, p, given, b)
    BY <2>3, <2>4 DEF UpdatePos, UpdateCell, UpdateActorState, UpdateActorDead,
                      UpdateActorValue, ActorStateDelta
  <2>6. /\ ~ \E field, v, silent : UpdateItem(q, p, field, v, silent)
        /\ ~ \E hit \in Hits : ActorHit(q, p, hit)
        /\ ~ OwnershipClaim(q, p) /\ ~ Enter(q, p)
    BY <2>3, <2>4 DEF UpdateItem, ActorHit, OwnershipClaim, Enter
  <2> QED BY <2>2, <2>5, <2>6 DEF Report, Replaces
<1>2. RelayTypeOK /\ [RelayNext]_relayVars => [OwnHands]_relayVars
  BY <1>1 DEF OwnHands
<1> QED BY <1>2, RelayTypesHold, PTL DEF RelaySpec, OnlyOwnHands

-----------------------------------------------------------------------------
(* The copies the clients keep. *)

\* What a client shows of the entities, against what they are, but for what
\* it missed.
Fits(shown, things, lost) ==
  \A e \in Entities : \A f \in DOMAIN shown[e] \cap DOMAIN things[e] :
    <<e, f>> \notin lost => shown[e][f] = things[e][f]

CopiesAreWhole ==
  /\ DOMAIN unread = Clients /\ DOMAIN copy = Clients
  /\ \A c \in Clients : \E P : unread[c] \in Seq(P)
  /\ \A c \in Clients : DOMAIN Ahead(c) = Entities

RelayInv == RelayTypeOK /\ CopiesAreWhole /\ OthersAgree

LEMMA AgreeIsFit == OthersAgree <=> \A c \in Clients : Fits(Ahead(c), entities, missed[c])
BY Zenon DEF OthersAgree, Fits

\* A field is written, and the client is told or goes by what it had.
LEMMA WrittenFits ==
  ASSUME NEW shown, DOMAIN shown = Entities, NEW things, NEW others, NEW lost,
         Fits(shown, things, lost), NEW e \in Entities, NEW field, NEW v,
         \A d \in Entities \ {e} : others[d] = things[d],
         DOMAIN others[e] = DOMAIN things[e],
         \A f \in DOMAIN things[e] \ {field} : others[e][f] = things[e][f],
         field \in DOMAIN things[e] => others[e][field] = v
  PROVE  /\ Fits(Apply(shown, Update(e, field, v)), others, lost \ {<<e, field>>})
         /\ Fits(shown, others, lost \cup {<<e, field>>})
<1> DEFINE news == Apply(shown, Update(e, field, v))
<1>1. /\ \A d \in Entities \ {e} : news[d] = shown[d]
      /\ DOMAIN news[e] = DOMAIN shown[e]
      /\ \A f \in DOMAIN shown[e] \ {field} : news[e][f] = shown[e][f]
      /\ field \in DOMAIN shown[e] => news[e][field] = v
  BY DEF Apply, Update, Keeps
<1> HIDE DEF news
<1>2. Fits(news, others, lost \ {<<e, field>>})
  <2> SUFFICES ASSUME NEW d \in Entities, NEW f \in DOMAIN news[d] \cap DOMAIN others[d],
                      <<d, f>> \notin lost \ {<<e, field>>}
               PROVE  news[d][f] = others[d][f]
    BY Zenon DEF Fits
  <2>1. CASE d # e
    BY <1>1, <2>1 DEF Fits
  <2>2. CASE d = e /\ f = field
    BY <1>1, <2>2
  <2>3. CASE d = e /\ f # field
    BY <1>1, <2>3 DEF Fits
  <2> QED BY <2>1, <2>2, <2>3
<1>3. Fits(shown, others, lost \cup {<<e, field>>})
  <2> SUFFICES ASSUME NEW d \in Entities, NEW f \in DOMAIN shown[d] \cap DOMAIN others[d],
                      <<d, f>> \notin lost \cup {<<e, field>>}
               PROVE  shown[d][f] = others[d][f]
    BY Zenon DEF Fits
  <2>1. CASE d # e
    BY <2>1 DEF Fits
  <2>2. CASE d = e
    BY <2>2 DEF Fits
  <2> QED BY <2>1, <2>2
<1> QED BY <1>2, <1>3 DEF news

\* An update of a field the entity has not, or that was missed already, changes
\* nothing the copies agree on.
LEMMA OtherFieldFits ==
  ASSUME NEW shown, DOMAIN shown = Entities, NEW things, NEW lost,
         Fits(shown, things, lost), NEW e \in Entities, NEW field, NEW v,
         field \notin DOMAIN things[e] \/ <<e, field>> \in lost
  PROVE  Fits(Apply(shown, Update(e, field, v)), things, lost)
<1> DEFINE news == Apply(shown, Update(e, field, v))
<1>1. /\ \A d \in Entities \ {e} : news[d] = shown[d]
      /\ DOMAIN news[e] = DOMAIN shown[e]
      /\ \A f \in DOMAIN shown[e] \ {field} : news[e][f] = shown[e][f]
  BY DEF Apply, Update, Keeps
<1> HIDE DEF news
<1>2. Fits(news, things, lost)
  <2> SUFFICES ASSUME NEW d \in Entities, NEW f \in DOMAIN news[d] \cap DOMAIN things[d],
                      <<d, f>> \notin lost
               PROVE  news[d][f] = things[d][f]
    BY Zenon DEF Fits
  <2>1. CASE d # e
    BY <1>1, <2>1 DEF Fits
  <2>2. CASE d = e
    BY <1>1, <2>2 DEF Fits
  <2> QED BY <2>1, <2>2
<1> QED BY <1>2 DEF news

\* Packets are about entities, and what a client shows has all of them.
LEMMA ApplyKeepsDomain ==
  ASSUME NEW known, NEW packet
  PROVE  DOMAIN Apply(known, packet) = DOMAIN known
BY DEF Apply

\* What a packet adds to what the clients will show.
LEMMA BroadcastAdds ==
  ASSUME CopiesAreWhole, NEW targets, NEW packet, Broadcast(targets, packet), UNCHANGED copy
  PROVE  /\ CopiesAreWhole'
         /\ \A c \in Clients :
              Ahead(c)' = IF c \in targets THEN Apply(Ahead(c), packet) ELSE Ahead(c)
<1>1. ASSUME NEW c \in Clients
      PROVE  /\ Ahead(c)' = IF c \in targets THEN Apply(Ahead(c), packet) ELSE Ahead(c)
             /\ \E P : unread'[c] \in Seq(P)
  <2>1. PICK P : unread[c] \in Seq(P)
    BY DEF CopiesAreWhole
  <2>2. CASE c \in targets
    <3>1. unread'[c] = Append(unread[c], packet) /\ copy'[c] = copy[c]
      BY <2>2 DEF Broadcast
    <3>2. unread'[c] \in Seq(P \cup {packet})
      BY <2>1, <3>1
    <3>3. FoldLeft(Apply, copy[c], Append(unread[c], packet))
            = Apply(FoldLeft(Apply, copy[c], unread[c]), packet)
      BY <2>1, ReadLast
    <3> QED BY <2>2, <3>1, <3>2, <3>3 DEF Ahead
  <2>3. CASE c \notin targets
    <3>1. unread'[c] = unread[c] /\ copy'[c] = copy[c]
      BY <2>3 DEF Broadcast
    <3> QED BY <2>1, <2>3, <3>1 DEF Ahead
  <2> QED BY <2>2, <2>3
<1>2. DOMAIN unread' = Clients /\ DOMAIN copy' = Clients
  BY DEF Broadcast, CopiesAreWhole
<1>3. \A c \in Clients : DOMAIN Ahead(c)' = Entities
  BY <1>1, ApplyKeepsDomain DEF CopiesAreWhole
<1> QED BY <1>1, <1>2, <1>3 DEF CopiesAreWhole

\* The entity e has v in its field, if it has the field, and all else is as it was.
Written(e, field, v) ==
  /\ \A d \in Entities \ {e} : entities'[d] = entities[d]
  /\ DOMAIN entities'[e] = DOMAIN entities[e]
  /\ \A f \in DOMAIN entities[e] \ {field} : entities'[e][f] = entities[e][f]
  /\ field \in DOMAIN entities[e] => entities'[e][field] = v

LEMMA AssignedIsWritten ==
  ASSUME RelayTypeOK, NEW e \in Entities, NEW field, NEW v,
         \/ entities' = [entities EXCEPT ![e][field] = v]
         \/ field \notin DOMAIN entities[e] /\ entities' = entities
  PROVE  Written(e, field, v)
<1>1. DOMAIN entities = Entities
  BY DEF RelayTypeOK
<1> QED BY <1>1 DEF Written

LEMMA StillWhole ==
  ASSUME CopiesAreWhole, UNCHANGED <<unread, copy>>
  PROVE  CopiesAreWhole' /\ \A c \in Clients : Ahead(c)' = Ahead(c)
<1>1. \A c \in Clients : Ahead(c)' = Ahead(c)
  BY DEF Ahead
<1> QED BY <1>1 DEF CopiesAreWhole

\* A change that is told of in a packet about it.
LEMMA ToldAgree ==
  ASSUME RelayInv, UNCHANGED copy, NEW e \in Entities, NEW field, NEW v, NEW hearers,
         Written(e, field, v), Broadcast(hearers, Update(e, field, v)), Tell(hearers, e, field)
  PROVE  CopiesAreWhole' /\ OthersAgree'
<1>1. /\ CopiesAreWhole'
      /\ \A c \in Clients :
           Ahead(c)' = IF c \in hearers THEN Apply(Ahead(c), Update(e, field, v)) ELSE Ahead(c)
  BY BroadcastAdds DEF RelayInv
<1>2. ASSUME NEW c \in Clients PROVE Fits(Ahead(c)', entities', missed'[c])
  <2>1. DOMAIN Ahead(c) = Entities /\ Fits(Ahead(c), entities, missed[c])
    BY AgreeIsFit DEF RelayInv, CopiesAreWhole
  <2>2. /\ Fits(Apply(Ahead(c), Update(e, field, v)), entities', missed[c] \ {<<e, field>>})
        /\ Fits(Ahead(c), entities', missed[c] \cup {<<e, field>>})
    BY <2>1, WrittenFits DEF Written
  <2>3. missed'[c] = IF c \in hearers THEN missed[c] \ {<<e, field>>} ELSE missed[c] \cup {<<e, field>>}
    BY DEF Tell
  <2> QED BY <1>1, <2>2, <2>3, Zenon
<1> QED BY <1>1, <1>2, Zenon DEF OthersAgree, Fits

\* A change nobody is told of, whatever packets go out that no copy reads.
LEMMA UntoldAgree ==
  ASSUME RelayInv, NEW e \in Entities, NEW field, NEW v, Written(e, field, v), Tell({}, e, field),
         \A c \in Clients : Fits(Ahead(c), entities', missed'[c]) => Fits(Ahead(c)', entities', missed'[c])
  PROVE  OthersAgree'
<1>1. ASSUME NEW c \in Clients PROVE Fits(Ahead(c)', entities', missed'[c])
  <2>1. DOMAIN Ahead(c) = Entities /\ Fits(Ahead(c), entities, missed[c])
    BY AgreeIsFit DEF RelayInv, CopiesAreWhole
  <2>2. Fits(Ahead(c), entities', missed[c] \cup {<<e, field>>})
    BY <2>1, WrittenFits DEF Written
  <2>3. missed'[c] = missed[c] \cup {<<e, field>>}
    BY DEF Tell
  <2> QED BY <2>2, <2>3
<1> QED BY <1>1, Zenon DEF OthersAgree, Fits

\* A packet about a field the entity has not, or that was missed already.
LEMMA ForeignAgree ==
  ASSUME CopiesAreWhole, UNCHANGED copy, NEW e \in Entities, NEW field, NEW v, NEW hearers,
         Broadcast(hearers, Update(e, field, v))
  PROVE  /\ CopiesAreWhole'
         /\ \A c \in Clients : \A lost :
              /\ field \notin DOMAIN entities'[e] \/ <<e, field>> \in lost
              /\ Fits(Ahead(c), entities', lost)
              => Fits(Ahead(c)', entities', lost)
<1>1. /\ CopiesAreWhole'
      /\ \A c \in Clients :
           Ahead(c)' = IF c \in hearers THEN Apply(Ahead(c), Update(e, field, v)) ELSE Ahead(c)
  BY BroadcastAdds
<1>2. ASSUME NEW c \in Clients, NEW lost, Fits(Ahead(c), entities', lost),
             field \notin DOMAIN entities'[e] \/ <<e, field>> \in lost
      PROVE  Fits(Ahead(c)', entities', lost)
  <2>1. DOMAIN Ahead(c) = Entities
    BY DEF CopiesAreWhole
  <2>2. Fits(Apply(Ahead(c), Update(e, field, v)), entities', lost)
    BY <1>2, <2>1, OtherFieldFits
  <2> QED BY <1>1, <1>2, <2>2, Zenon
<1> QED BY <1>1, <1>2

LEMMA RelayAgree ==
  ASSUME RelayInv, UNCHANGED copy, NEW p, NEW e \in Entities, NEW field, NEW v,
         Relay(p, e, field, v)
  PROVE  CopiesAreWhole' /\ OthersAgree'
<1>1. Written(e, field, v)
  BY AssignedIsWritten DEF Relay, RelayInv
<1> QED BY <1>1, ToldAgree DEF Relay

LEMMA NothingAgree ==
  ASSUME RelayInv, UNCHANGED <<entities, unread, copy, missed>>
  PROVE  CopiesAreWhole' /\ OthersAgree'
<1>1. CopiesAreWhole' /\ \A c \in Clients : Ahead(c)' = Ahead(c)
  BY StillWhole DEF RelayInv
<1>2. \A c \in Clients : Fits(Ahead(c)', entities', missed'[c])
  BY <1>1, AgreeIsFit DEF RelayInv
<1> QED BY <1>1, <1>2, Zenon DEF OthersAgree, Fits

\* The fields of an entity after a step are of those there are.
LEMMA NextFields ==
  ASSUME RelayTypeOK', NEW e \in Entities
  PROVE  /\ DOMAIN entities'[e] \subseteq Fields
         /\ \A x \in {"cell", "idle", "damaged", "deathExt", "container"} :
              x \notin DOMAIN entities'[e]
<1>1. entities'[e] \in Forms
  BY DEF RelayTypeOK, Forms
<1> QED BY <1>1, EntityFields DEF Fields

LEMMA UpdatesAgree ==
  ASSUME RelayInv, RelayTypeOK', NEW p \in Clients, NEW e \in Entities,
         \/ \E to \in Places : UpdatePos(p, e, to)
         \/ \E to \in Doors : UpdateCell(p, e, to)
         \/ \E b \in BOOLEAN : UpdateActorState(p, e, b) \/ UpdateActorDead(p, e, b)
         \/ \E h \in Samples : UpdateActorValue(p, e, h)
         \/ \E given, b \in BOOLEAN : ActorStateDelta(p, e, given, b)
  PROVE  CopiesAreWhole' /\ OthersAgree'
<1>1. UNCHANGED copy
  BY DEF Take, UpdatePos, UpdateCell, UpdateActorState, UpdateActorDead, UpdateActorValue,
         ActorStateDelta
<1>2. CASE Rejected
  BY <1>1, <1>2, NothingAgree DEF Rejected
<1>3. CASE \E field, v : Relay(p, e, field, v)
  BY <1>1, <1>3, RelayAgree
<1>4. ASSUME NEW to \in Doors, UpdateCell(p, e, to), ~ Rejected
      PROVE  CopiesAreWhole' /\ OthersAgree'
  <2>1. /\ \/ entities' = [entities EXCEPT ![e]["pos"] = to]
           \/ "pos" \notin DOMAIN entities[e] /\ entities' = entities
        /\ Broadcast(Others(p), Update(e, "cell", to))
        /\ Tell({}, e, "pos")
    <3>1. entities[e].kind \in Placed <=> "pos" \in DOMAIN entities[e]
      BY KindsTell DEF RelayInv, RelayTypeOK, Forms
    <3> QED BY <1>4, <3>1 DEF UpdateCell
  <2>2. Written(e, "pos", to)
    BY <1>1, <2>1, AssignedIsWritten DEF RelayInv
  <2>3. /\ CopiesAreWhole'
        /\ \A c \in Clients : \A lost :
             Fits(Ahead(c), entities', lost) => Fits(Ahead(c)', entities', lost)
    BY <1>1, <2>1, NextFields, ForeignAgree DEF RelayInv
  <2> QED BY <1>1, <2>1, <2>2, <2>3, UntoldAgree
<1>5. ASSUME UNCHANGED <<entities, missed>>, Broadcast(Others(p), Update(e, "idle", 0))
      PROVE  CopiesAreWhole' /\ OthersAgree'
  <2>1. /\ CopiesAreWhole'
        /\ \A c \in Clients : \A lost :
             Fits(Ahead(c), entities', lost) => Fits(Ahead(c)', entities', lost)
    BY <1>1, <1>5, NextFields, ForeignAgree DEF RelayInv
  <2>2. \A c \in Clients : Fits(Ahead(c)', entities', missed'[c])
    BY <1>5, <2>1, AgreeIsFit DEF RelayInv
  <2> QED BY <2>1, <2>2, Zenon DEF OthersAgree, Fits
<1>6. \/ Rejected
      \/ \E field, v : Relay(p, e, field, v)
      \/ \E to \in Doors : UpdateCell(p, e, to)
      \/ UNCHANGED <<entities, missed>> /\ Broadcast(Others(p), Update(e, "idle", 0))
  BY Zenon DEF UpdatePos, UpdateActorState, UpdateActorDead, UpdateActorValue, ActorStateDelta
<1> QED BY <1>2, <1>3, <1>4, <1>5, <1>6, Zenon

LEMMA ItemAgree ==
  ASSUME RelayInv, NEW p \in Clients, NEW e \in Entities, NEW field, NEW v, NEW silent,
         UpdateItem(p, e, field, v, silent)
  PROVE  CopiesAreWhole' /\ OthersAgree'
<1>1. UNCHANGED copy
  BY DEF Take, UpdateItem
<1>2. CASE Rejected
  BY <1>1, <1>2, NothingAgree DEF Rejected
<1>3. CASE ~ Rejected
  <2> DEFINE hearers == IF silent THEN {p} ELSE Others(p)
  <2>1. /\ entities' = [entities EXCEPT ![e][field] = v]
        /\ Broadcast(hearers, Update(e, field, v))
        /\ Tell(hearers, e, field)
    BY <1>3 DEF UpdateItem
  <2> HIDE DEF hearers
  <2>2. Written(e, field, v)
    BY <1>1, <2>1, AssignedIsWritten DEF RelayInv
  <2> QED BY <1>1, <2>1, <2>2, ToldAgree
<1> QED BY <1>2, <1>3

LEMMA ScriptAgree ==
  ASSUME RelayInv, NEW e \in Entities, KillActor(e) \/ ResurrectActor(e)
  PROVE  CopiesAreWhole' /\ OthersAgree'
<1>1. CASE KillActor(e)
  <2>1. /\ entities' = [entities EXCEPT ![e].dead = TRUE] /\ Tell({}, e, "dead")
        /\ UNCHANGED <<unread, copy>>
    BY <1>1 DEF KillActor, Take
  <2>2. Written(e, "dead", TRUE)
    BY <2>1, AssignedIsWritten DEF RelayInv
  <2>3. CopiesAreWhole' /\ \A c \in Clients : Ahead(c)' = Ahead(c)
    BY <2>1, StillWhole DEF RelayInv
  <2>4. \A c \in Clients : Fits(Ahead(c), entities', missed'[c]) => Fits(Ahead(c)', entities', missed'[c])
    BY <2>3
  <2> QED BY <2>1, <2>2, <2>3, <2>4, UntoldAgree
<1>2. CASE ResurrectActor(e) /\ entities[e].kind # "Actor"
  <2>1. /\ UNCHANGED <<entities, copy>> /\ Tell({}, e, "dead")
        /\ Broadcast(Clients, Update(e, "dead", FALSE))
    BY <1>2 DEF ResurrectActor, Take
  <2>2. Written(e, "dead", entities[e]["dead"])
    BY <2>1 DEF Written
  <2>3. \A c \in Clients : <<e, "dead">> \in missed'[c]
    BY <2>1 DEF Tell
  <2>4. /\ CopiesAreWhole'
        /\ \A c \in Clients :
             Fits(Ahead(c), entities', missed'[c]) => Fits(Ahead(c)', entities', missed'[c])
    BY <2>1, <2>3, ForeignAgree DEF RelayInv
  <2> QED BY <2>1, <2>2, <2>4, UntoldAgree
<1>3. CASE ResurrectActor(e) /\ entities[e].kind = "Actor"
  <2>1. /\ entities' = [entities EXCEPT ![e].dead = FALSE] /\ Tell(Clients, e, "dead")
        /\ Broadcast(Clients, Update(e, "dead", FALSE)) /\ UNCHANGED copy
    BY <1>3 DEF ResurrectActor, Take
  <2>2. Written(e, "dead", FALSE)
    BY <2>1, AssignedIsWritten DEF RelayInv
  <2> QED BY <2>1, <2>2, ToldAgree
<1> QED BY <1>1, <1>2, <1>3

\* A thing is replaced: whoever is told shows the new one, as far as it can.
LEMMA ReplacedFits ==
  ASSUME NEW shown, DOMAIN shown = Entities, NEW things, NEW others, NEW lost, NEW lost2,
         Fits(shown, things, lost), NEW e \in Entities, NEW thing,
         \A d \in Entities \ {e} : others[d] = things[d],
         \A d \in Entities \ {e} : \A f : <<d, f>> \in lost => <<d, f>> \in lost2,
         \A f \in DOMAIN thing \cap DOMAIN others[e] : <<e, f>> \notin lost2 => thing[f] = others[e][f]
  PROVE  Fits([shown EXCEPT ![e] = thing], others, lost2)
<1> DEFINE news == [shown EXCEPT ![e] = thing]
<1>1. news[e] = thing /\ \A d \in Entities \ {e} : news[d] = shown[d]
  OBVIOUS
<1> HIDE DEF news
<1>2. Fits(news, others, lost2)
  <2> SUFFICES ASSUME NEW d \in Entities, NEW f \in DOMAIN news[d] \cap DOMAIN others[d],
                      <<d, f>> \notin lost2
               PROVE  news[d][f] = others[d][f]
    BY Zenon DEF Fits
  <2>1. CASE d # e
    BY <1>1, <2>1 DEF Fits
  <2>2. CASE d = e
    BY <1>1, <2>2
  <2> QED BY <2>1, <2>2
<1> QED BY <1>2 DEF news

\* Whoever is not told must have missed what it shows otherwise.
LEMMA HiddenFits ==
  ASSUME NEW shown, NEW things, NEW others, NEW lost, NEW lost2,
         Fits(shown, things, lost), NEW e \in Entities,
         \A d \in Entities \ {e} : others[d] = things[d],
         \A d \in Entities \ {e} : \A f : <<d, f>> \in lost => <<d, f>> \in lost2,
         \A f \in DOMAIN others[e] : <<e, f>> \in lost2
  PROVE  Fits(shown, others, lost2)
<1> SUFFICES ASSUME NEW d \in Entities, NEW f \in DOMAIN shown[d] \cap DOMAIN others[d],
                    <<d, f>> \notin lost2
             PROVE  shown[d][f] = others[d][f]
  BY Zenon DEF Fits
<1>1. CASE d # e
  BY <1>1 DEF Fits
<1>2. CASE d = e
  BY <1>2
<1> QED BY <1>1, <1>2

LEMMA RemoveAgree ==
  ASSUME RelayInv, NEW e \in Entities, Erase(e), UNCHANGED copy, NEW hearers,
         \/ hearers = {} /\ UNCHANGED unread
         \/ Broadcast(hearers, Gone(e)),
         Tell(hearers, e, "kind")
  PROVE  CopiesAreWhole' /\ OthersAgree'
<1>1. entities'[e] = Absent /\ \A d \in Entities \ {e} : entities'[d] = entities[d]
  BY DEF Erase, RelayInv, RelayTypeOK
<1>2. DOMAIN Absent = {"kind"}
  BY DEF Absent
<1>3. ASSUME NEW c \in Clients
      PROVE  /\ Fits([Ahead(c) EXCEPT ![e] = Absent], entities', missed[c] \ {<<e, "kind">>})
             /\ Fits(Ahead(c), entities', missed[c] \cup {<<e, "kind">>})
  <2>1. DOMAIN Ahead(c) = Entities /\ Fits(Ahead(c), entities, missed[c])
    BY AgreeIsFit DEF RelayInv, CopiesAreWhole
  <2>2. Fits([Ahead(c) EXCEPT ![e] = Absent], entities', missed[c] \ {<<e, "kind">>})
    BY <1>1, <2>1, ReplacedFits
  <2>3. Fits(Ahead(c), entities', missed[c] \cup {<<e, "kind">>})
    BY <1>1, <1>2, <2>1, HiddenFits
  <2> QED BY <2>2, <2>3
<1>4. /\ CopiesAreWhole'
      /\ \A c \in Clients : Ahead(c)' = IF c \in hearers THEN Apply(Ahead(c), Gone(e)) ELSE Ahead(c)
  <2>1. CASE hearers = {} /\ UNCHANGED unread
    BY <2>1, StillWhole DEF RelayInv
  <2>2. CASE Broadcast(hearers, Gone(e))
    BY <2>2, BroadcastAdds DEF RelayInv
  <2> QED BY <2>1, <2>2
<1>5. \A known : Apply(known, Gone(e)) = [known EXCEPT ![e] = Absent]
  BY DEF Apply, Gone
<1>6. \A c \in Clients : missed'[c] =
        IF c \in hearers THEN missed[c] \ {<<e, "kind">>} ELSE missed[c] \cup {<<e, "kind">>}
  BY DEF Tell
<1>7. ASSUME NEW c \in Clients PROVE Fits(Ahead(c)', entities', missed'[c])
  BY <1>3, <1>4, <1>5, <1>6
<1> QED BY <1>4, <1>7, Zenon DEF OthersAgree, Fits

\* What an announcement leaves out is what it does not say.
LEMMA AnnouncedFits ==
  ASSUME NEW r, NEW f \in DOMAIN CopyOf(r) \cap DOMAIN r, f \notin Unsaid(r)
  PROVE  CopyOf(r)[f] = r[f]
BY DEF Unsaid

\* Of a container nothing is said that it has.
LEMMA ContainersUnsaid ==
  ASSUME NEW r \in Forms, r.kind = "Container"
  PROVE  DOMAIN r = {"kind"} /\ Unsaid(r) = {"kind"}
<1>1. r = [kind |-> "Container"]
  BY DEF Forms, Absent, Things, Plain, NewContainer, Living, Alive
<1>2. CopyOf(r) = [kind |-> "Object", pos |-> 0]
  BY <1>1 DEF CopyOf
<1> QED BY <1>1, <1>2 DEF Unsaid

LEMMA NewAgree ==
  ASSUME RelayInv, RelayTypeOK', NEW p \in Clients, NEW e \in Entities, NEW thing \in Forms,
         PutNew(p, e, thing), UNCHANGED copy
  PROVE  CopiesAreWhole' /\ OthersAgree'
<1> DEFINE all == {<<e, f>> : f \in DOMAIN thing}
           some == {<<e, f>> : f \in Unsaid(thing)}
<1>1. entities'[e] = thing /\ \A d \in Entities \ {e} : entities'[d] = entities[d]
  BY DEF PutNew, RelayInv, RelayTypeOK
<1>2. /\ CopiesAreWhole'
      /\ \A c \in Clients :
           Ahead(c)' = IF c \in Others(p) THEN Apply(Ahead(c), ReportOf(e, thing)) ELSE Ahead(c)
  BY BroadcastAdds DEF PutNew, RelayInv
<1>3. ASSUME NEW c \in Clients PROVE Fits(Ahead(c)', entities', missed'[c])
  <2>1. DOMAIN Ahead(c) = Entities /\ Fits(Ahead(c), entities, missed[c])
    BY AgreeIsFit DEF RelayInv, CopiesAreWhole
  <2>2. missed'[c] = IF c = p THEN missed[c] \cup all ELSE (missed[c] \ all) \cup some
    BY DEF PutNew
  <2>3. \A d \in Entities \ {e} : \A f : <<d, f>> \in missed[c] => <<d, f>> \in missed'[c]
    BY <2>2
  <2>4. CASE c = p
    <3>1. \A f \in DOMAIN entities'[e] : <<e, f>> \in missed'[c]
      BY <1>1, <2>2, <2>4
    <3>2. Fits(Ahead(c), entities', missed'[c])
      BY <1>1, <2>1, <2>3, <3>1, HiddenFits
    <3> QED BY <1>2, <2>4, <3>2 DEF Others
  <2>5. CASE c # p /\ thing.kind = "Container"
    <3>1. \A f \in DOMAIN entities'[e] : <<e, f>> \in missed'[c]
      BY <1>1, <2>2, <2>5, ContainersUnsaid
    <3>2. Fits(Ahead(c), entities', missed'[c])
      BY <1>1, <2>1, <2>3, <3>1, HiddenFits
    <3>3. Ahead(c)' = Apply(Ahead(c), Update(e, "container", 0))
      BY <1>2, <2>5 DEF Others, ReportOf
    <3>4. "container" \notin DOMAIN entities'[e]
      BY NextFields
    <3> QED BY <2>1, <3>2, <3>3, <3>4, OtherFieldFits
  <2>6. CASE c # p /\ thing.kind # "Container"
    <3>1. Ahead(c)' = [Ahead(c) EXCEPT ![e] = CopyOf(thing)]
      BY <1>2, <2>6 DEF Others, ReportOf, New, Apply
    <3>2. \A f \in DOMAIN CopyOf(thing) \cap DOMAIN entities'[e] :
            <<e, f>> \notin missed'[c] => CopyOf(thing)[f] = entities'[e][f]
      BY <1>1, <2>2, <2>6, AnnouncedFits
    <3> HIDE DEF all, some
    <3>3. Fits([Ahead(c) EXCEPT ![e] = CopyOf(thing)], entities', missed'[c])
      BY <1>1, <2>1, <2>3, <3>2, ReplacedFits
    <3> QED BY <3>1, <3>3
  <2> QED BY <2>4, <2>5, <2>6
<1> QED BY <1>2, <1>3, Zenon DEF OthersAgree, Fits

LEMMA EnterAgree ==
  ASSUME RelayInv, NEW p \in Clients, NEW e \in Entities, Enter(p, e)
  PROVE  CopiesAreWhole' /\ OthersAgree'
<1>1. UNCHANGED copy /\ DOMAIN entities = Entities
  BY DEF Take, Enter, RelayInv, RelayTypeOK
<1>2. CASE Rejected
  BY <1>1, <1>2, NothingAgree DEF Rejected
<1>3. CASE ~ Rejected
  <2> DEFINE r == entities[e]
             gap == {<<e, f>> : f \in Unsaid(r)}
  <2>1. /\ Broadcast({p}, New(e, r)) /\ UNCHANGED entities
        /\ missed' = [missed EXCEPT ![p] = (@ \ {<<e, f>> : f \in DOMAIN r}) \cup gap]
    BY <1>3 DEF Enter
  <2>2. /\ CopiesAreWhole'
        /\ \A c \in Clients : Ahead(c)' = IF c \in {p} THEN Apply(Ahead(c), New(e, r)) ELSE Ahead(c)
    BY <1>1, <2>1, BroadcastAdds DEF RelayInv
  <2>4. DOMAIN missed = Clients
    BY DEF RelayInv, RelayTypeOK
  <2>5. ASSUME NEW c \in Clients PROVE Fits(Ahead(c)', entities', missed'[c])
    <3>1. DOMAIN Ahead(c) = Entities /\ Fits(Ahead(c), entities, missed[c])
      BY AgreeIsFit DEF RelayInv, CopiesAreWhole
    <3>2. CASE c # p
      <4>1. Ahead(c)' = Ahead(c) /\ missed'[c] = missed[c]
        BY <2>1, <2>2, <2>4, <3>2
      <4> QED BY <2>1, <3>1, <4>1
    <3>3. CASE c = p
      <4>1. missed'[c] = (missed[c] \ {<<e, f>> : f \in DOMAIN r}) \cup gap
        BY <2>1, <2>4, <3>3
      <4>2. \A f \in DOMAIN CopyOf(r) \cap DOMAIN r :
              <<e, f>> \notin missed'[c] => CopyOf(r)[f] = r[f]
        BY <4>1, AnnouncedFits
      <4>3. Ahead(c)' = [Ahead(c) EXCEPT ![e] = CopyOf(r)]
        BY <2>2, <3>3 DEF Apply, New
      <4> DEFINE lost2 == missed'[c]
      <4>4. \A d \in Entities \ {e} : \A f : <<d, f>> \in missed[c] => <<d, f>> \in lost2
        BY <4>1
      <4> HIDE DEF gap, lost2
      <4>5. \A f \in DOMAIN CopyOf(r) \cap DOMAIN entities[e] :
              <<e, f>> \notin lost2 => CopyOf(r)[f] = entities[e][f]
        BY <4>2 DEF lost2
      <4> HIDE DEF r
      <4>6. Fits([Ahead(c) EXCEPT ![e] = CopyOf(r)], entities, lost2)
        BY <3>1, <4>4, <4>5, ReplacedFits
      <4> QED BY <2>1, <4>3, <4>6 DEF lost2
    <3> QED BY <3>2, <3>3
  <2> QED BY <2>2, <2>5, Zenon DEF OthersAgree, Fits
<1> QED BY <1>2, <1>3

\* A claim changes who may write an entity, and nothing of it.
LEMMA ClaimAgree ==
  ASSUME RelayInv, NEW p \in Clients, NEW e \in Entities, OwnershipClaim(p, e)
  PROVE  CopiesAreWhole' /\ OthersAgree'
BY NothingAgree DEF OwnershipClaim, Take

LEMMA OneMore ==
  ASSUME NEW P, NEW s \in Seq(P), NEW x, NEW y
  PROVE  /\ s \o (<<x>> \o <<>>) = Append(s, x)
         /\ s \o (<<x>> \o <<y>>) = Append(Append(s, x), y)
         /\ Append(s, x) \in Seq(P \cup {x}) /\ Append(Append(s, x), y) \in Seq(P \cup {x, y})
<1> DEFINE Q == P \cup {x, y}
<1>1. s \in Seq(Q) /\ s \in Seq(P \cup {x}) /\ x \in Q /\ y \in Q /\ <<x>> \in Seq(Q) /\ <<y>> \in Seq(Q)
  OBVIOUS
<1> HIDE DEF Q
<1>2. Append(s, x) = s \o <<x>> /\ Append(s, x) \in Seq(Q)
  BY <1>1, AppendIsConcat, AppendProperties
<1>3. Append(Append(s, x), y) = (s \o <<x>>) \o <<y>> /\ Append(Append(s, x), y) \in Seq(Q)
  BY <1>1, <1>2, AppendIsConcat, AppendProperties
<1>4. (s \o <<x>>) \o <<y>> = s \o (<<x>> \o <<y>>)
  BY <1>1, ConcatAssociative
<1>5. <<x>> \o <<>> = <<x>>
  BY <1>1, ConcatEmptySeq
<1>6. Append(s, x) \in Seq(P \cup {x})
  BY <1>1, AppendProperties
<1> QED BY <1>2, <1>3, <1>4, <1>5, <1>6 DEF Q

\* A hit is told of in packets no copy reads.
LEMMA HitAgree ==
  ASSUME RelayInv, RelayTypeOK', NEW p \in Clients, NEW target \in Entities,
         NEW hit \in Hits, ActorHit(p, target, hit)
  PROVE  CopiesAreWhole' /\ OthersAgree'
<1>1. UNCHANGED copy /\ DOMAIN entities = Entities /\ DOMAIN missed = Clients
  BY DEF Entities, Take, ActorHit, RelayInv, RelayTypeOK
<1>2. CASE Rejected
  BY <1>1, <1>2, NothingAgree DEF Rejected
<1>3. CASE ~ Rejected
  <2> DEFINE left == Max({0, entities[target].health - Damage(hit)})
             fatal == left = 0
             x == Update(target, "damaged", Damage(hit))
             y == Update(target, "deathExt", hit.limb = 1)
             ahead(c) == IF c = p THEN Ahead(c)
                         ELSE IF fatal THEN Apply(Apply(Ahead(c), x), y) ELSE Apply(Ahead(c), x)
  <2>1. /\ entities' = [entities EXCEPT ![target].health = left, ![target].dead = fatal]
        /\ unread' = [c \in Clients |-> IF c = p THEN unread[c]
                        ELSE unread[c] \o (<<x>> \o (IF fatal THEN <<y>> ELSE <<>>))]
        /\ missed' = [c \in Clients |->
             missed[c] \cup ({<<target, "health">>} \cup (IF fatal THEN {<<target, "dead">>} ELSE {}))]
        /\ Hittable(p, target)
    BY <1>3, Zenon DEF ActorHit
  <2>2. entities[target] \in Living /\ entities[target].dead = FALSE
    <3>1. entities[target].kind \in Alive /\ ~ entities[target].dead
      BY <2>1 DEF Hittable
    <3>2. entities[target] \in Living
      BY <3>1, KindsTell DEF RelayInv, RelayTypeOK, Forms
    <3> QED BY <3>1, <3>2 DEF Living
  <2> HIDE DEF left
  <2>3. /\ \A d \in Entities \ {target} : entities'[d] = entities[d]
        /\ DOMAIN entities'[target] = DOMAIN entities[target]
        /\ \A f \in DOMAIN entities[target] \ {"health"} :
             f # "dead" \/ ~ fatal => entities'[target][f] = entities[target][f]
    BY <1>1, <2>1, <2>2 DEF Living
  <2>4. ASSUME NEW c \in Clients
        PROVE  Ahead(c)' = ahead(c) /\ \E P : unread'[c] \in Seq(P)
    <3>1. PICK P : unread[c] \in Seq(P)
      BY DEF RelayInv, CopiesAreWhole
    <3>2. copy'[c] = copy[c]
      BY <1>1
    <3> HIDE DEF x, y, fatal
    <3>3. CASE c = p
      <4>1. unread'[c] = unread[c]
        BY <2>1, <3>3
      <4> QED BY <3>1, <3>2, <3>3, <4>1 DEF Ahead
    <3>4. CASE c # p /\ ~ fatal
      <4>1. unread'[c] = Append(unread[c], x)
        BY <2>1, <3>1, <3>4, OneMore
      <4>2. FoldLeft(Apply, copy[c], Append(unread[c], x)) = Apply(FoldLeft(Apply, copy[c], unread[c]), x)
        BY <3>1, ReadLast
      <4>3. unread'[c] \in Seq(P \cup {x})
        BY <3>1, <4>1, OneMore
      <4> QED BY <3>2, <3>4, <4>1, <4>2, <4>3 DEF Ahead
    <3>5. CASE c # p /\ fatal
      <4>1. unread'[c] = Append(Append(unread[c], x), y)
        BY <2>1, <3>1, <3>5, OneMore
      <4>2. FoldLeft(Apply, copy[c], Append(unread[c], x)) = Apply(FoldLeft(Apply, copy[c], unread[c]), x)
        BY <3>1, ReadLast
      <4>3. Append(unread[c], x) \in Seq(P \cup {x})
        BY <3>1, OneMore
      <4>4. FoldLeft(Apply, copy[c], Append(Append(unread[c], x), y))
              = Apply(FoldLeft(Apply, copy[c], Append(unread[c], x)), y)
        BY <4>3, ReadLast
      <4>5. unread'[c] \in Seq(P \cup {x, y})
        BY <3>1, <4>1, OneMore
      <4> QED BY <3>2, <3>5, <4>1, <4>2, <4>4, <4>5 DEF Ahead
    <3> QED BY <3>3, <3>4, <3>5
  <2>5. ASSUME NEW c \in Clients
        PROVE  Fits(Ahead(c)', entities', missed'[c]) /\ DOMAIN Ahead(c)' = Entities
    <3>1. DOMAIN Ahead(c) = Entities /\ Fits(Ahead(c), entities, missed[c])
      BY AgreeIsFit DEF RelayInv, CopiesAreWhole
    <3>2. /\ <<target, "health">> \in missed'[c] /\ missed[c] \subseteq missed'[c]
          /\ fatal => <<target, "dead">> \in missed'[c]
      BY <2>1
    <3>3. Fits(Ahead(c), entities', missed'[c])
      <4> SUFFICES ASSUME NEW d \in Entities, NEW f \in DOMAIN Ahead(c)[d] \cap DOMAIN entities'[d],
                          <<d, f>> \notin missed'[c]
                   PROVE  Ahead(c)[d][f] = entities'[d][f]
        BY Zenon DEF Fits
      <4> HIDE DEF fatal
      <4>1. CASE d # target
        BY <2>3, <3>1, <3>2, <4>1 DEF Fits
      <4>2. CASE d = target
        <5>1. entities'[d][f] = entities[d][f]
          BY <2>3, <3>2, <4>2
        <5> QED BY <2>3, <3>1, <3>2, <4>2, <5>1 DEF Fits
      <4> QED BY <4>1, <4>2
    <3>4. "damaged" \notin DOMAIN entities'[target] /\ "deathExt" \notin DOMAIN entities'[target]
      BY <1>1, NextFields
    <3>5. Fits(Apply(Ahead(c), x), entities', missed'[c]) /\ DOMAIN Apply(Ahead(c), x) = Entities
      BY <1>1, <3>1, <3>3, <3>4, OtherFieldFits, ApplyKeepsDomain
    <3>6. /\ Fits(Apply(Apply(Ahead(c), x), y), entities', missed'[c])
          /\ DOMAIN Apply(Apply(Ahead(c), x), y) = Entities
      BY <1>1, <3>4, <3>5, OtherFieldFits, ApplyKeepsDomain
    <3> HIDE DEF x, y, fatal
    <3> QED BY <2>4, <3>1, <3>3, <3>5, <3>6
  <2>6. CopiesAreWhole'
    <3>1. DOMAIN unread' = Clients /\ DOMAIN copy' = Clients
      BY <1>1, <2>1 DEF RelayInv, CopiesAreWhole
    <3> HIDE DEF ahead
    <3> QED BY <2>4, <2>5, <3>1, Zenon DEF CopiesAreWhole
  <2> QED BY <2>5, <2>6, Zenon DEF OthersAgree, Fits
<1> QED BY <1>2, <1>3

\* Reading changes nothing in what will be shown.
LEMMA ReadAgree ==
  ASSUME RelayInv, NEW c \in Clients, Read(c)
  PROVE  CopiesAreWhole' /\ OthersAgree'
<1>1. ASSUME NEW d \in Clients
      PROVE  Ahead(d)' = Ahead(d) /\ \E P : unread'[d] \in Seq(P)
  <2>1. PICK P : unread[d] \in Seq(P)
    BY DEF RelayInv, CopiesAreWhole
  <2>2. DOMAIN unread = Clients /\ DOMAIN copy = Clients
    BY DEF RelayInv, CopiesAreWhole
  <2>3. CASE d # c
    <3>1. unread'[d] = unread[d] /\ copy'[d] = copy[d]
      BY <2>2, <2>3 DEF Read
    <3> QED BY <2>1, <3>1 DEF Ahead
  <2>4. CASE d = c
    <3>1. /\ unread[d] # <<>> /\ unread'[d] = Tail(unread[d])
          /\ copy'[d] = Apply(copy[d], Head(unread[d]))
      BY <2>2, <2>4 DEF Read
    <3>2. FoldLeft(Apply, Apply(copy[d], Head(unread[d])), Tail(unread[d]))
            = FoldLeft(Apply, copy[d], unread[d])
      BY <2>1, <3>1, ReadFirst
    <3>3. unread'[d] \in Seq(P)
      BY <2>1, <3>1
    <3> QED BY <3>1, <3>2, <3>3 DEF Ahead
  <2> QED BY <2>3, <2>4
<1>2. DOMAIN unread' = Clients /\ DOMAIN copy' = Clients /\ UNCHANGED <<entities, missed>>
  BY DEF Read, relayServer, RelayInv, CopiesAreWhole
<1>3. CopiesAreWhole'
  BY <1>1, <1>2 DEF CopiesAreWhole, RelayInv
<1>4. \A d \in Clients : Fits(Ahead(d)', entities', missed'[d])
  BY <1>1, <1>2, AgreeIsFit DEF RelayInv
<1> QED BY <1>3, <1>4, Zenon DEF OthersAgree, Fits

LEMMA InitRelayInv == RelayInit => RelayInv
<1> SUFFICES ASSUME RelayInit PROVE RelayInv
  OBVIOUS
<1>1. RelayTypeOK
  BY InitRelayTypeOK
<1>2. ASSUME NEW c \in Clients
      PROVE  Ahead(c) = [e \in Entities |-> IF e = Npc /\ owner[Npc] = c THEN Absent ELSE CopyOf(entities[e])]
  <2>1. Ahead(c) = copy[c]
    BY ReadNothing DEF RelayInit, Ahead
  <2> QED BY <2>1 DEF RelayInit
<1>3. CopiesAreWhole
  <2>1. \A c \in Clients : unread[c] \in Seq({})
    BY DEF RelayInit
  <2>2. DOMAIN unread = Clients /\ DOMAIN copy = Clients
    BY DEF RelayInit
  <2> QED BY <1>2, <2>1, <2>2 DEF CopiesAreWhole
<1>4. ASSUME NEW c \in Clients, NEW e \in Entities, NEW f \in DOMAIN Ahead(c)[e] \cap DOMAIN entities[e],
             <<e, f>> \notin missed[c]
      PROVE  Ahead(c)[e][f] = entities[e][f]
  <2>1. PICK npc \in {Absent} \cup {[NewActor EXCEPT !.health = h] : h \in Samples \ {Unset}} :
          entities = [d \in Entities |->
            IF d \in Clients THEN NewPlayer ELSE IF d = Item THEN NewItem ELSE npc]
    BY DEF RelayInit
  <2>2. CASE e \in Clients
    <3>1. entities[e] = NewPlayer
      BY <2>1, <2>2
    <3>2. Ahead(c)[e] = CopyOf(NewPlayer)
      BY <1>2, <2>2, <3>1, WorldRelayAssumption DEF WorldRelayAssumption
    <3>3. CopyOf(NewPlayer) = [kind |-> "Player", pos |-> 0]
      BY DEF CopyOf, NewPlayer, Newcomer
    <3> QED BY <3>1, <3>2, <3>3 DEF NewPlayer, Newcomer
  <2>3. CASE e = Item
    <3>1. entities[e] = NewItem
      BY <2>1, <2>3, WorldRelayAssumption DEF WorldRelayAssumption
    <3>2. Ahead(c)[e] = CopyOf(NewItem)
      BY <1>2, <2>3, <3>1, WorldRelayAssumption DEF WorldRelayAssumption
    <3>3. CopyOf(NewItem) = NewItem
      BY DEF CopyOf, NewItem
    <3> QED BY <3>1, <3>2, <3>3
  <2>4. CASE e = Npc
    <3>1. entities[e] = npc
      BY <2>1, <2>4, WorldRelayAssumption DEF WorldRelayAssumption
    <3>2. CASE npc = Absent
      <4>1. CopyOf(Absent) = Absent
        BY DEF CopyOf, Absent
      <4> QED BY <1>2, <2>4, <3>1, <3>2, <4>1
    <3>3. CASE npc # Absent
      <4>1. PICK h \in Samples \ {Unset} : npc = [NewActor EXCEPT !.health = h]
        BY <2>1, <3>3
      <4>2. npc = [kind |-> "Actor", pos |-> 0, dead |-> FALSE, alerted |-> FALSE, health |-> h]
        BY <4>1 DEF NewActor, Newcomer
      <4>3. missed[c] = IF owner[Npc] = c THEN {<<Npc, g>> : g \in DOMAIN NewActor} ELSE {}
        BY <2>4, <3>1, <3>3 DEF RelayInit
      <4>4. DOMAIN NewActor = DOMAIN npc
        BY <4>1
      <4>5. owner[Npc] # c
        <5>1. f \in DOMAIN NewActor /\ <<Npc, f>> \notin missed[c]
          BY <1>4, <2>4, <3>1, <4>4
        <5> QED BY <4>3, <5>1
      <4>6. CopyOf(npc) = npc
        BY <4>2 DEF CopyOf
      <4> QED BY <1>2, <2>4, <3>1, <4>5, <4>6
    <3> QED BY <3>2, <3>3
  <2> QED BY <2>2, <2>3, <2>4 DEF Entities
<1>5. OthersAgree
  BY <1>4, Zenon DEF OthersAgree
<1> QED BY <1>1, <1>3, <1>5 DEF RelayInv

LEMMA NextRelayInv ==
  ASSUME RelayInv, [RelayNext]_relayVars
  PROVE  RelayInv'
<1>1. RelayTypeOK'
  BY NextRelayTypeOK DEF RelayInv
<1>2. ASSUME NEW p \in Clients, NEW e \in Entities, Report(p, e)
      PROVE  CopiesAreWhole' /\ OthersAgree'
  <2>1. CASE \/ \E to \in Places : UpdatePos(p, e, to)
             \/ \E to \in Doors : UpdateCell(p, e, to)
             \/ \E b \in BOOLEAN : UpdateActorState(p, e, b) \/ UpdateActorDead(p, e, b)
             \/ \E h \in Samples : UpdateActorValue(p, e, h)
             \/ \E given, b \in BOOLEAN : ActorStateDelta(p, e, given, b)
    BY <1>1, <2>1, UpdatesAgree
  <2>2. CASE \E field, v, silent : UpdateItem(p, e, field, v, silent)
    BY <2>2, ItemAgree
  <2>3. CASE ActorNew(p, e) \/ \E thing \in Reported : ObjectNew(p, e, thing)
    <3>1. UNCHANGED copy
      BY <2>3 DEF ActorNew, ObjectNew, Take
    <3>2. CASE Rejected
      BY <3>1, <3>2, NothingAgree DEF Rejected
    <3>3. CASE ~ Rejected
      <4>1. PICK thing \in Reported \cup {NewActor} : PutNew(p, e, thing)
        BY <2>3, <3>3 DEF ActorNew, ObjectNew
      <4>2. thing \in Forms
        BY ReportedAreForms
      <4> QED BY <1>1, <3>1, <4>1, <4>2, NewAgree
    <3> QED BY <3>2, <3>3
  <2>4. CASE \E silent \in BOOLEAN : ObjectRemove(p, e, silent)
    <3>1. PICK silent \in BOOLEAN : ObjectRemove(p, e, silent)
      BY <2>4
    <3> DEFINE hearers == IF silent THEN {} ELSE Others(p)
    <3>2. /\ Erase(e) /\ UNCHANGED copy /\ Tell(hearers, e, "kind")
          /\ \/ hearers = {} /\ UNCHANGED unread
             \/ Broadcast(hearers, Gone(e))
      BY <3>1 DEF ObjectRemove, Take
    <3> HIDE DEF hearers
    <3> QED BY <3>2, RemoveAgree
  <2>5. CASE Enter(p, e)
    BY <2>5, EnterAgree
  <2>6. CASE \E hit \in Hits : ActorHit(p, e, hit)
    BY <1>1, <2>6, HitAgree
  <2>7. CASE OwnershipClaim(p, e)
    BY <2>7, ClaimAgree
  <2> QED BY <1>2, <2>1, <2>2, <2>3, <2>4, <2>5, <2>6, <2>7, Zenon DEF Report
<1>3. ASSUME NEW p \in Clients, Read(p) PROVE CopiesAreWhole' /\ OthersAgree'
  BY <1>3, ReadAgree
<1>4. ASSUME NEW e \in Entities, Script(e) PROVE CopiesAreWhole' /\ OthersAgree'
  <2>1. CASE DestroyObject(e)
    <3>1. Erase(e) /\ UNCHANGED <<copy, unread>> /\ Tell({}, e, "kind")
      BY <2>1 DEF DestroyObject, Take
    <3> QED BY <3>1, RemoveAgree
  <2> QED BY <1>4, <2>1, ScriptAgree DEF Script
<1>5. ASSUME UNCHANGED relayVars PROVE CopiesAreWhole' /\ OthersAgree'
  BY <1>5, NothingAgree DEF relayVars, relayServer
<1> QED BY <1>1, <1>2, <1>3, <1>4, <1>5 DEF RelayNext, RelayInv, Handle

\* Once a client has read what it was sent it shows every field as the server
\* has it, except those whose last change no packet told it of (the handlers of
\* updates, hits and removals, their relays, and apply_packet of the client).
THEOREM CopiesFollow == RelaySpec => []OthersAgree
<1>1. RelayInv => OthersAgree
  BY DEF RelayInv
<1> QED BY <1>1, InitRelayInv, NextRelayInv, PTL DEF RelaySpec
=============================================================================
