--------------------------- MODULE UpSelectProofs ---------------------------
(***************************************************************************)
(* What the daemon's policies choose, for every list of chunks, path, plan *)
(* and application file: the loops of the functions AppUpClientDaemonGNDC  *)
(* are folds over the list, and what is true of them is proved by          *)
(* induction over its prefixes.                                            *)
(***************************************************************************)
EXTENDS UpSelect, WellFoundedInduction, TLAPS

-----------------------------------------------------------------------------
(* Folds.                                                                  *)

(* A set of natural numbers has a least one, a bounded one has a greatest. *)
LEMMA Least ==
    ASSUME NEW T \in SUBSET Nat, T # {}
    PROVE  \E x \in T : \A y \in T : x <= y
<1>1. IsWellFoundedOn(OpToRel(<, Nat), Nat)
  BY NatLessThanWellFounded
<1>2. PICK x \in T : \A y \in T : ~ (<<y, x>> \in OpToRel(<, Nat))
  BY <1>1, WFMin
<1>3. \A y \in T : ~(y < x)
  BY <1>2 DEF OpToRel
<1> QED
  BY <1>3

LEMMA Greatest ==
    ASSUME NEW n \in Nat, NEW s \in SUBSET (1 .. n), s # {}
    PROVE  Max(s) \in s /\ \A x \in s : x <= Max(s)
<1> DEFINE T == {n - x : x \in s}
<1>1. T \in SUBSET Nat /\ T # {}
  <2>1. \A x \in s : n - x \in Nat
    OBVIOUS
  <2>2. PICK x \in s : TRUE
    OBVIOUS
  <2>3. n - x \in T
    OBVIOUS
  <2> QED
    BY <2>1, <2>3, Zenon
<1>2. PICK t \in T : \A y \in T : t <= y
  BY <1>1, Least
<1>3. PICK m \in s : t = n - m
  OBVIOUS
<1>4. \A x \in s : m >= x
  <2> TAKE x \in s
  <2>1. n - m <= n - x
    BY <1>2, <1>3
  <2> QED
    BY <2>1
<1>5. Max(s) \in s /\ \A x \in s : Max(s) >= x
  BY <1>4 DEF Max
<1> QED
  BY <1>5

LEMMA GreatestTo ==
    ASSUME NEW n \in Nat, NEW k \in 1 .. n
    PROVE  Max(1 .. k) = k /\ (1 .. k) \ {k} = 1 .. (k - 1)
<1>1. 1 .. k \in SUBSET (1 .. n) /\ 1 .. k # {}
  OBVIOUS
<1>2. Max(1 .. k) \in 1 .. k /\ \A x \in 1 .. k : x <= Max(1 .. k)
  BY <1>1, Greatest, Zenon
<1>4. k \in 1 .. k
  OBVIOUS
<1>3. (1 .. k) \ {k} = 1 .. (k - 1)
  <2>1. \A x : x \in (1 .. k) \ {k} <=> x \in 1 .. (k - 1)
    OBVIOUS
  <2> QED
    BY <2>1, Zenon
<1>5. Max(1 .. k) = k
  BY <1>2, <1>4
<1> QED
  BY <1>3, <1>5

(* There is a function like the one MapThenFoldSet is defined by.           *)
Folds(g, k, base, step) ==
    g = [s \in SUBSET (1 .. k) |->
           IF s = {} THEN base ELSE step[Max(s)][g[s \ {Max(s)}]]]

LEMMA FoldExists ==
    ASSUME NEW n \in Nat, NEW V, NEW base \in V, NEW step \in [1 .. n -> [V -> V]]
    PROVE  \E g \in [SUBSET (1 .. n) -> V] : Folds(g, n, base, step)
<1> DEFINE P(k) == \E g \in [SUBSET (1 .. k) -> V] : Folds(g, k, base, step)
           T == {k \in 0 .. n : ~P(k)}
<1>1. P(0)
  <2> DEFINE g == [s \in SUBSET (1 .. 0) |-> base]
  <2>1. \A s \in SUBSET (1 .. 0) : s = {}
    OBVIOUS
  <2>2. g \in [SUBSET (1 .. 0) -> V]
    OBVIOUS
  <2>3. g = [s \in SUBSET (1 .. 0) |->
               IF s = {} THEN base ELSE step[Max(s)][g[s \ {Max(s)}]]]
    BY <2>1
  <2> QED
    BY <2>2, <2>3 DEF Folds
<1>2. ASSUME NEW k \in 1 .. n, P(k - 1)
      PROVE  P(k)
  <2>1. PICK g \in [SUBSET (1 .. (k - 1)) -> V] : Folds(g, k - 1, base, step)
    BY <1>2
  <2> DEFINE Step(s) == IF s = {} THEN base ELSE step[Max(s)][g[s \ {Max(s)}]]
             h == [s \in SUBSET (1 .. k) |-> Step(s)]
  <2>2. ASSUME NEW s \in SUBSET (1 .. k), s # {}
        PROVE  /\ Max(s) \in 1 .. n
               /\ s \ {Max(s)} \in SUBSET (1 .. (k - 1))
    <3>0. k \in Nat
      OBVIOUS
    <3>1. Max(s) \in s /\ \A x \in s : x <= Max(s)
      BY <2>2, <3>0, Greatest, Zenon
    <3> DEFINE m == Max(s)
    <3>2. m \in s /\ \A x \in s : x <= m
      BY <3>1
    <3> HIDE DEF m
    <3>3. \A x \in s \ {m} : x \in 1 .. (k - 1)
      BY <3>2
    <3>4. m \in 1 .. n
      BY <3>2
    <3> QED
      BY <3>3, <3>4, Zenon DEF m
  <2>3. \A s \in SUBSET (1 .. k) : Step(s) \in V
    <3> TAKE s \in SUBSET (1 .. k)
    <3>1. CASE s = {}
      BY <3>1
    <3>2. CASE s # {}
      <4>1. g[s \ {Max(s)}] \in V
        BY <2>2, <3>2
      <4>2. step[Max(s)] \in [V -> V]
        BY <2>2, <3>2
      <4> QED
        BY <3>2, <4>1, <4>2
    <3> QED
      BY <3>1, <3>2
  <2>4. h \in [SUBSET (1 .. k) -> V]
    BY <2>3
  <2>5. \A s \in SUBSET (1 .. (k - 1)) : s \in SUBSET (1 .. k) /\ h[s] = g[s]
    <3> TAKE s \in SUBSET (1 .. (k - 1))
    <3>1. s \in SUBSET (1 .. k)
      OBVIOUS
    <3>2. g[s] = Step(s)
      BY <2>1 DEF Folds
    <3> QED
      BY <3>1, <3>2
  <2>6. \A s \in SUBSET (1 .. k) :
          h[s] = IF s = {} THEN base ELSE step[Max(s)][h[s \ {Max(s)}]]
    <3> TAKE s \in SUBSET (1 .. k)
    <3>1. CASE s = {}
      BY <3>1
    <3>2. CASE s # {}
      <4>1. h[s \ {Max(s)}] = g[s \ {Max(s)}]
        BY <2>2, <2>5, <3>2
      <4>2. h[s] = step[Max(s)][g[s \ {Max(s)}]]
        BY <3>2
      <4> QED
        BY <3>2, <4>1, <4>2
    <3> QED
      BY <3>1, <3>2
  <2> HIDE DEF h
  <2>7. h = [s \in SUBSET (1 .. k) |->
               IF s = {} THEN base ELSE step[Max(s)][h[s \ {Max(s)}]]]
    BY <2>4, <2>6
  <2> QED
    BY <2>4, <2>7 DEF Folds
<1> HIDE DEF P
<1>3. ASSUME T # {}
      PROVE  FALSE
  <2>0. T \in SUBSET Nat
    OBVIOUS
  <2>1. PICK k \in T : \A y \in T : k <= y
    BY <1>3, <2>0, Least, Zenon
  <2>2. k # 0
    BY <1>1
  <2>3. P(k - 1)
    BY <2>1, <2>2
  <2> QED
    BY <1>2, <2>1, <2>2, <2>3
<1>4. P(n)
  BY <1>3
<1> QED
  BY <1>4 DEF P

(* Induction over the prefixes of a list.                                   *)
LEMMA UpTo ==
    ASSUME NEW n \in Nat, NEW B \in SUBSET (0 .. n), 0 \in B,
           \A i \in 1 .. n : i - 1 \in B => i \in B
    PROVE  n \in B
<1> DEFINE T == (0 .. n) \ B
<1>1. T \in SUBSET Nat
  OBVIOUS
<1>2. ASSUME T # {}
      PROVE  FALSE
  <2>1. PICK k \in T : \A y \in T : k <= y
    BY <1>1, <1>2, Least, Zenon
  <2>2. k \in 1 .. n /\ k - 1 \in 0 .. n /\ ~(k <= k - 1)
    OBVIOUS
  <2>3. k - 1 \in B
    BY <2>1, <2>2
  <2> QED
    BY <2>2, <2>3
<1>3. n \in 0 .. n
  OBVIOUS
<1> QED
  BY <1>2, <1>3

(* The loops: after the first k chunks, the one chosen is best[k].          *)
Urgently(best, ls, n, C) ==
    /\ best[0] = Nothing
    /\ \A k \in 1 .. n :
         best[k] = IF ls[k] \in C /\ (best[k - 1].id < 1 \/ Urgent(ls[k], best[k - 1]))
                   THEN ls[k] ELSE best[k - 1]
    /\ MostUrgent(ls, C) = best[n].id

LEMMA MostUrgentLoop ==
    ASSUME NEW ls, NEW n \in Nat, DOMAIN ls = 1 .. n, NEW C
    PROVE  \E best : Urgently(best, ls, n, C)
<1> DEFINE Choice(c, b) == IF c \in C /\ (b.id < 1 \/ Urgent(c, b)) THEN c ELSE b
           V == {Nothing} \cup {ls[k] : k \in 1 .. n}
           step == [k \in 1 .. n |-> [b \in V |-> Choice(ls[k], b)]]
           Is(g) == g = [s \in SUBSET DOMAIN ls |->
                           IF s = {} THEN Nothing
                           ELSE Choice(ls[Max(s)], g[s \ {Max(s)}])]
           it == CHOOSE g : Is(g)
<1>1. MostUrgent(ls, C) = it[DOMAIN ls].id
  BY Zenon DEF MostUrgent, FoldLeft, MapThenFoldSet
<1>2. \E g : Is(g)
  <2>1. \A k \in 1 .. n, b \in V : Choice(ls[k], b) \in V
    OBVIOUS
  <2>2. step \in [1 .. n -> [V -> V]]
    BY <2>1
  <2>3. Nothing \in V
    OBVIOUS
  <2> HIDE DEF step, V
  <2>4. PICK g \in [SUBSET (1 .. n) -> V] : Folds(g, n, Nothing, step)
    BY <2>2, <2>3, FoldExists, Zenon
  <2>5. g = [s \in SUBSET (1 .. n) |->
               IF s = {} THEN Nothing ELSE step[Max(s)][g[s \ {Max(s)}]]]
    BY <2>4, Zenon DEF Folds
  <2>6. ASSUME NEW s \in SUBSET (1 .. n), s # {}
        PROVE  step[Max(s)][g[s \ {Max(s)}]] = Choice(ls[Max(s)], g[s \ {Max(s)}])
    <3>1. Max(s) \in s
      BY <2>6, Greatest, Zenon
    <3>2. g[s \ {Max(s)}] \in V
      BY <2>4, Zenon
    <3> HIDE DEF Choice
    <3> QED
      BY <3>1, <3>2, Zenon DEF step
  <2> HIDE DEF Choice
  <2>7. g = [s \in SUBSET (1 .. n) |->
               IF s = {} THEN Nothing ELSE Choice(ls[Max(s)], g[s \ {Max(s)}])]
    BY <2>4, <2>5, <2>6, Zenon
  <2>8. Is(g)
    BY <2>7, Zenon
  <2> QED
    BY <2>8, Zenon
<1> HIDE DEF Choice
<1>3. Is(it)
  BY <1>2, Zenon
<1> HIDE DEF it
<1> DEFINE best == [k \in 0 .. n |-> it[1 .. k]]
<1>4. best[0] = Nothing
  <2>1. 1 .. 0 = {} /\ 0 \in 0 .. n
    OBVIOUS
  <2> QED
    BY <1>3, <2>1, Zenon
<1>5. ASSUME NEW k \in 1 .. n
      PROVE  best[k] = Choice(ls[k], best[k - 1])
  <2>1. 1 .. k \in SUBSET (1 .. n) /\ 1 .. k # {} /\ k \in 0 .. n /\ k - 1 \in 0 .. n
    <3>1. k \in 1 .. k /\ k \in 0 .. n /\ k - 1 \in 0 .. n
      OBVIOUS
    <3>2. \A x \in 1 .. k : x \in 1 .. n
      OBVIOUS
    <3> QED
      BY <3>1, <3>2, Zenon
  <2>2. Max(1 .. k) = k /\ (1 .. k) \ {k} = 1 .. (k - 1)
    BY GreatestTo
  <2>3. it[1 .. k] = Choice(ls[k], it[1 .. (k - 1)])
    BY <1>3, <2>1, <2>2, Zenon
  <2> QED
    BY <2>1, <2>3, Zenon
<1>6. best[n] = it[DOMAIN ls]
  <2>1. n \in 0 .. n
    OBVIOUS
  <2> QED
    BY <2>1, Zenon
<1> HIDE DEF best
<1>7. /\ best[0] = Nothing
      /\ \A k \in 1 .. n : best[k] = Choice(ls[k], best[k - 1])
      /\ MostUrgent(ls, C) = best[n].id
  BY <1>1, <1>4, <1>5, <1>6, Zenon
<1> QED
  BY <1>7, Zenon DEF Choice, Urgently

Preferred(ls, j, r, c, best) ==
    /\ c \in Fitting(ls, j, r)
    /\ \/ best.id < 1
       \/ Meets(c, r)
       \/ c.priority > best.priority
       \/ c.priority = best.priority /\ Smaller(c, best)

Opportunely(best, ls, n, j, r) ==
    /\ best[0] = Nothing
    /\ \A k \in 1 .. n :
         best[k] = IF Preferred(ls, j, r, ls[k], best[k - 1]) THEN ls[k] ELSE best[k - 1]
    /\ Opportune(ls, j, r) = best[n].id

LEMMA OpportuneLoop ==
    ASSUME NEW ls, NEW n \in Nat, DOMAIN ls = 1 .. n, NEW j, NEW r
    PROVE  \E best : Opportunely(best, ls, n, j, r)
<1> DEFINE Choice(c, b) == IF Preferred(ls, j, r, c, b) THEN c ELSE b
           V == {Nothing} \cup {ls[k] : k \in 1 .. n}
           step == [k \in 1 .. n |-> [b \in V |-> Choice(ls[k], b)]]
           Is(g) == g = [s \in SUBSET DOMAIN ls |->
                           IF s = {} THEN Nothing
                           ELSE Choice(ls[Max(s)], g[s \ {Max(s)}])]
           it == CHOOSE g : Is(g)
<1>1. Opportune(ls, j, r) = it[DOMAIN ls].id
  BY Zenon DEF Opportune, Preferred, FoldLeft, MapThenFoldSet
<1>2. \E g : Is(g)
  <2>1. \A k \in 1 .. n, b \in V : Choice(ls[k], b) \in V
    OBVIOUS
  <2>2. step \in [1 .. n -> [V -> V]]
    BY <2>1
  <2>3. Nothing \in V
    OBVIOUS
  <2> HIDE DEF step, V
  <2>4. PICK g \in [SUBSET (1 .. n) -> V] : Folds(g, n, Nothing, step)
    BY <2>2, <2>3, FoldExists, Zenon
  <2>5. g = [s \in SUBSET (1 .. n) |->
               IF s = {} THEN Nothing ELSE step[Max(s)][g[s \ {Max(s)}]]]
    BY <2>4, Zenon DEF Folds
  <2>6. ASSUME NEW s \in SUBSET (1 .. n), s # {}
        PROVE  step[Max(s)][g[s \ {Max(s)}]] = Choice(ls[Max(s)], g[s \ {Max(s)}])
    <3>1. Max(s) \in s
      BY <2>6, Greatest, Zenon
    <3>2. g[s \ {Max(s)}] \in V
      BY <2>4, Zenon
    <3> HIDE DEF Choice
    <3> QED
      BY <3>1, <3>2, Zenon DEF step
  <2> HIDE DEF Choice
  <2>7. g = [s \in SUBSET (1 .. n) |->
               IF s = {} THEN Nothing ELSE Choice(ls[Max(s)], g[s \ {Max(s)}])]
    BY <2>4, <2>5, <2>6, Zenon
  <2>8. Is(g)
    BY <2>7, Zenon
  <2> QED
    BY <2>8, Zenon
<1> HIDE DEF Choice
<1>3. Is(it)
  BY <1>2, Zenon
<1> HIDE DEF it
<1> DEFINE best == [k \in 0 .. n |-> it[1 .. k]]
<1>4. best[0] = Nothing
  <2>1. 1 .. 0 = {} /\ 0 \in 0 .. n
    OBVIOUS
  <2> QED
    BY <1>3, <2>1, Zenon
<1>5. ASSUME NEW k \in 1 .. n
      PROVE  best[k] = Choice(ls[k], best[k - 1])
  <2>1. 1 .. k \in SUBSET (1 .. n) /\ 1 .. k # {} /\ k \in 0 .. n /\ k - 1 \in 0 .. n
    <3>1. k \in 1 .. k /\ k \in 0 .. n /\ k - 1 \in 0 .. n
      OBVIOUS
    <3>2. \A x \in 1 .. k : x \in 1 .. n
      OBVIOUS
    <3> QED
      BY <3>1, <3>2, Zenon
  <2>2. Max(1 .. k) = k /\ (1 .. k) \ {k} = 1 .. (k - 1)
    BY GreatestTo
  <2>3. it[1 .. k] = Choice(ls[k], it[1 .. (k - 1)])
    BY <1>3, <2>1, <2>2, Zenon
  <2> QED
    BY <2>1, <2>3, Zenon
<1>6. best[n] = it[DOMAIN ls]
  <2>1. n \in 0 .. n
    OBVIOUS
  <2> QED
    BY <2>1, Zenon
<1> HIDE DEF best
<1>7. /\ best[0] = Nothing
      /\ \A k \in 1 .. n : best[k] = Choice(ls[k], best[k - 1])
      /\ Opportune(ls, j, r) = best[n].id
  BY <1>1, <1>4, <1>5, <1>6, Zenon
<1> QED
  BY <1>7, Zenon DEF Choice, Opportunely

-----------------------------------------------------------------------------
(* What the loops choose.                                                   *)

Items == [id : Chunk, size : Int, deadline : Int, priority : Int,
          dirty : SUBSET {"work", "finish"}]

LEMMA ItemIs ==
    ASSUME NEW c \in Items
    PROVE  /\ c.id \in Chunk /\ c.id \in Int /\ c.id >= 1 /\ c.id # None /\ c # Nothing
           /\ c.priority \in Int /\ c.size \in Int
<1>1. c.id \in Chunk /\ c.priority \in Int /\ c.size \in Int
  BY DEF Items
<1>2. c.id \in Int /\ c.id >= 1
  BY <1>1, SelectAssumption DEF SelectAssumption
<1>3. Nothing.id = -1
  BY DEF Nothing, None
<1> QED
  BY <1>1, <1>2, <1>3 DEF None

(* Of the list's chunks in C one is chosen, if there is any.                *)
LEMMA MostUrgentIs ==
    ASSUME NEW ls \in Seq(Items), NEW C \in SUBSET ToSet(ls)
    PROVE  IF C = {} THEN MostUrgent(ls, C) = None
           ELSE \E c \in C : MostUrgent(ls, C) = c.id
<1> DEFINE n == Len(ls)
<1>1. n \in Nat /\ DOMAIN ls = 1 .. n
  OBVIOUS
<1> HIDE DEF n
<1>2. PICK best : Urgently(best, ls, n, C)
  BY <1>1, MostUrgentLoop
<1> DEFINE Good(k) == \/ best[k] = Nothing /\ \A i \in 1 .. k : ls[i] \notin C
                      \/ best[k] \in C
           B == {k \in 0 .. n : Good(k)}
<1>3. 0 \in B
  BY <1>1, <1>2 DEF Urgently
<1>4. \A k \in 1 .. n : k - 1 \in B => k \in B
  <2> SUFFICES ASSUME NEW k \in 1 .. n, Good(k - 1)
               PROVE  Good(k)
    BY <1>1
  <2>1. k \in 1 .. n /\ Nothing.id = -1
    BY DEF Nothing, None
  <2>2. CASE ls[k] \notin C
    <3>1. best[k] = best[k - 1]
      BY <1>2, <2>2 DEF Urgently
    <3>2. \A i \in 1 .. k : i = k \/ i \in 1 .. (k - 1)
      BY <1>1
    <3> QED
      BY <2>2, <3>1, <3>2
  <2>3. CASE ls[k] \in C
    <3>1. best[k] = ls[k] \/ (best[k] = best[k - 1] /\ ~(best[k - 1].id < 1))
      <4> DEFINE p == best[k - 1].id < 1 \/ Urgent(ls[k], best[k - 1])
      <4>1. best[k] = IF ls[k] \in C /\ p THEN ls[k] ELSE best[k - 1]
        BY <1>2, Zenon DEF Urgently
      <4>2. best[k - 1].id < 1 => p
        OBVIOUS
      <4> HIDE DEF p
      <4>3. CASE p
        BY <2>3, <4>1, <4>3, Zenon
      <4>4. CASE ~p
        <5>1. best[k] = best[k - 1]
          BY <4>1, <4>4, Zenon
        <5> QED
          BY <4>2, <4>4, <5>1, Zenon
      <4> QED
        BY <4>3, <4>4, Zenon
    <3>2. best[k - 1] = Nothing => best[k - 1].id < 1
      BY <2>1
    <3> QED
      BY <2>3, <3>1, <3>2
  <2> QED
    BY <2>2, <2>3
<1>5. n \in B
  <2>1. B \in SUBSET (0 .. n)
    OBVIOUS
  <2> HIDE DEF B
  <2> QED
    BY <1>1, <1>3, <1>4, <2>1, UpTo, Zenon
<1>6. Good(n)
  BY <1>5
<1>7. C # {} => \E i \in 1 .. n : ls[i] \in C
  BY <1>1 DEF ToSet
<1>8. CASE C = {}
  BY <1>2, <1>6, <1>8 DEF Nothing, Urgently
<1>9. CASE C # {}
  BY <1>2, <1>6, <1>7, <1>9 DEF Urgently
<1> QED
  BY <1>8, <1>9

(* As in LastInTimeWins: d is less preferred than c.                        *)
Worse(d, c) == \/ d.priority < c.priority
               \/ d.priority = c.priority /\ d.size > c.size

LEMMA WorseOrder ==
    ASSUME NEW a \in Items, NEW b \in Items, NEW c \in Items
    PROVE  /\ ~Worse(a, a)
           /\ Worse(a, b) /\ Worse(b, c) => Worse(a, c)
           /\ ~Worse(a, b) /\ Worse(a, c) => Worse(b, c)
<1>1. /\ a.priority \in Int /\ b.priority \in Int /\ c.priority \in Int
      /\ a.size \in Int /\ b.size \in Int /\ c.size \in Int
  BY DEF Items
<1> QED
  BY <1>1 DEF Worse

(* What Opportune chooses: see LastInTimeWins.                              *)
OpportuneIn(ls, j, r, fit, id) ==
    LET inTime == {i \in fit : Meets(ls[i], r)}
        from == {i \in fit : \A k \in inTime : k <= i}
    IN \E i \in from :
         /\ id = ls[i].id
         /\ \A k \in from : IF k < i THEN Worse(ls[k], ls[i]) ELSE ~Worse(ls[i], ls[k])

LEMMA OpportuneIs ==
    ASSUME NEW ls \in Seq(Items), NEW j, NEW r,
           NEW fit, fit = {i \in DOMAIN ls : ls[i] \in Fitting(ls, j, r)}
    PROVE  IF fit = {} THEN Opportune(ls, j, r) = None
           ELSE OpportuneIn(ls, j, r, fit, Opportune(ls, j, r))
<1> DEFINE n == Len(ls)
<1>1. n \in Nat /\ DOMAIN ls = 1 .. n /\ \A i \in 1 .. n : ls[i] \in Items
  OBVIOUS
<1> HIDE DEF n
<1>2. PICK best : Opportunely(best, ls, n, j, r)
  BY <1>1, OpportuneLoop
<1>3. fit \in SUBSET (1 .. n) /\ \A i \in 1 .. n : i \in fit <=> ls[i] \in Fitting(ls, j, r)
  BY <1>1
<1> DEFINE inTime == {i \in fit : Meets(ls[i], r)}
           From(k, m) == k \in fit /\ k <= m /\ \A l \in inTime : l <= m => l <= k
           Best(i, m) ==
             /\ From(i, m) /\ best[m] = ls[i]
             /\ \A k \in fit : From(k, m) =>
                  IF k < i THEN Worse(ls[k], ls[i]) ELSE ~Worse(ls[i], ls[k])
           Good(m) == \/ best[m] = Nothing /\ \A i \in fit : ~(i <= m)
                      \/ \E i \in fit : Best(i, m)
           B == {m \in 0 .. n : Good(m)}
<1>4. 0 \in B
  BY <1>1, <1>2, <1>3 DEF Opportunely
<1>5. \A m \in 1 .. n : m - 1 \in B => m \in B
  <2> SUFFICES ASSUME NEW m \in 1 .. n, Good(m - 1)
               PROVE  Good(m)
    BY <1>1
  <2>1. m \in Int /\ m - 1 \in 0 .. n /\ Nothing.id < 1 /\ \A i \in fit : i \in Int
    BY <1>1, <1>3 DEF Nothing, None
  <2>2. \A i \in Int : i <= m <=> i = m \/ i <= m - 1
    OBVIOUS
  <2> DEFINE c == ls[m]
             b == best[m - 1]
             p == Preferred(ls, j, r, c, b)
  <2>3. best[m] = IF p THEN c ELSE b
    BY <1>2, Zenon DEF Opportunely
  <2>4. m \in fit <=> c \in Fitting(ls, j, r)
    BY <1>3
  <2>5. m \in inTime <=> m \in fit /\ Meets(c, r)
    OBVIOUS
  <2>6. CASE m \notin fit
    <3>1. best[m] = b
      BY <2>3, <2>4, <2>6, Zenon DEF Preferred
    <3>2. \A k \in fit : k <= m <=> k <= m - 1
      BY <2>1, <2>2, <2>6
    <3>3. \A k \in fit : From(k, m) <=> From(k, m - 1)
      BY <3>2
    <3> QED
      BY <3>1, <3>2, <3>3
  <2>7. ASSUME m \in fit, best[m] = c, \A k \in fit : From(k, m) => k = m
        PROVE  Good(m)
    <3>1. From(m, m)
      BY <1>3, <2>1, <2>7
    <3>2. ~Worse(c, c) /\ ~(m < m)
      BY <1>1, <2>1, WorseOrder
    <3> QED
      BY <2>7, <3>1, <3>2
  <2>8. CASE m \in fit /\ b = Nothing /\ \A i \in fit : ~(i <= m - 1)
    <3>1. p
      BY <2>1, <2>4, <2>8, Zenon DEF Preferred
    <3>2. \A k \in fit : From(k, m) => k = m
      BY <2>1, <2>2, <2>8
    <3> QED
      BY <2>3, <2>7, <2>8, <3>1, <3>2
  <2>9. CASE m \in fit /\ m \in inTime
    <3>1. p
      BY <2>4, <2>5, <2>9, Zenon DEF Preferred
    <3>2. \A k \in fit : From(k, m) => k = m
      BY <2>1, <2>9
    <3> QED
      BY <2>3, <2>7, <2>9, <3>1, <3>2
  <2>10. ASSUME NEW i \in fit, Best(i, m - 1), m \in fit, m \notin inTime
         PROVE  Good(m)
    <3>1. /\ \A l \in inTime : l <= m <=> l <= m - 1
          /\ b = ls[i] /\ i < m /\ i \in 1 .. n
      BY <1>3, <2>1, <2>2, <2>10
    <3>2. \A k \in fit : From(k, m) <=> From(k, m - 1) \/ k = m
      <4> TAKE k \in fit
      <4>1. k = m => From(k, m)
        BY <2>1, <3>1
      <4>2. k # m => (k <= m <=> k <= m - 1)
        BY <2>1, <2>2
      <4> QED
        BY <2>1, <3>1, <4>1, <4>2
    <3>3. /\ b.id >= 1 /\ b.id \in Int /\ b \in Items /\ c \in Items
          /\ b.priority \in Int /\ c.priority \in Int /\ b.size \in Int /\ c.size \in Int
      BY <1>1, <3>1, ItemIs
    <3>4. p <=> Worse(b, c)
      BY <2>4, <2>5, <2>10, <3>3 DEF Preferred, Worse, Smaller
    <3>5. CASE Worse(b, c)
      <4>1. best[m] = c
        BY <2>3, <3>4, <3>5
      <4>2. \A k \in fit : From(k, m) =>
              IF k < m THEN Worse(ls[k], c) ELSE ~Worse(c, ls[k])
        <5> SUFFICES ASSUME NEW k \in fit, From(k, m)
                     PROVE  IF k < m THEN Worse(ls[k], c) ELSE ~Worse(c, ls[k])
          OBVIOUS
        <5>1. CASE k = m
          BY <2>1, <3>3, <5>1, WorseOrder
        <5>2. CASE k # m
          <6>1. From(k, m - 1) /\ ls[k] \in Items
            BY <1>1, <1>3, <3>2, <5>2
          <6>2. Worse(ls[k], b) \/ ~Worse(b, ls[k])
            BY <2>10, <3>1, <6>1
          <6>3. Worse(ls[k], c)
            BY <3>3, <3>5, <6>1, <6>2, WorseOrder
          <6>4. k < m
            BY <2>1, <6>1
          <6> QED
            BY <6>3, <6>4
        <5> QED
          BY <5>1, <5>2
      <4>3. Best(m, m)
        BY <2>10, <3>2, <4>1, <4>2
      <4> QED
        BY <2>10, <4>3
    <3>6. CASE ~Worse(b, c)
      <4>1. best[m] = ls[i]
        BY <2>3, <3>1, <3>4, <3>6
      <4>2. \A k \in fit : From(k, m) =>
              IF k < i THEN Worse(ls[k], ls[i]) ELSE ~Worse(ls[i], ls[k])
        <5> SUFFICES ASSUME NEW k \in fit, From(k, m)
                     PROVE  IF k < i THEN Worse(ls[k], ls[i]) ELSE ~Worse(ls[i], ls[k])
          OBVIOUS
        <5>1. CASE k = m
          <6>1. ~(k < i)
            BY <2>1, <3>1, <5>1
          <6> QED
            BY <3>1, <3>6, <5>1, <6>1
        <5>2. CASE k # m
          BY <2>10, <3>2, <5>2
        <5> QED
          BY <5>1, <5>2
      <4>3. Best(i, m)
        BY <2>10, <3>2, <4>1, <4>2
      <4> QED
        BY <4>3
    <3> QED
      BY <3>5, <3>6
  <2> QED
    BY <2>6, <2>8, <2>9, <2>10
<1>6. n \in B
  <2>1. B \in SUBSET (0 .. n)
    OBVIOUS
  <2> HIDE DEF B
  <2> QED
    BY <1>1, <1>4, <1>5, <2>1, UpTo, Zenon
<1>7. Good(n)
  BY <1>6
<1>8. \A k \in fit : k <= n
  BY <1>1, <1>3
<1>9. CASE fit = {}
  <2>1. best[n] = Nothing
    BY <1>7, <1>9
  <2> QED
    BY <1>2, <1>9, <2>1 DEF Opportunely, Nothing
<1>10. CASE fit # {}
  <2>1. PICK i \in fit : Best(i, n)
    BY <1>7, <1>8, <1>10
  <2>2. Opportune(ls, j, r) = ls[i].id
    BY <1>2, <2>1 DEF Opportunely
  <2>3. \A k \in fit : From(k, n) <=> \A l \in inTime : l <= k
    BY <1>8
  <2> QED
    BY <1>10, <2>1, <2>2, <2>3 DEF OpportuneIn
<1> QED
  BY <1>9, <1>10

-----------------------------------------------------------------------------
(* The inductive invariant: an identifier is that of one chunk, wherever it *)
(* is, and the policy is one of the five.                                   *)

Listed(ls) ==
    /\ ls \in Seq(Items)
    /\ \A i, k \in DOMAIN ls : ls[i].id = ls[k].id => i = k

Apart == \A i, k \in DOMAIN lines : i # k => Offers(lines[i]) \cap Offers(lines[k]) = {}

ComingSound ==
    /\ coming \subseteq Items
    /\ \A c, e \in coming : c.id = e.id => c = e
    /\ \A c \in coming, i \in DOMAIN lines : c.id \notin Offers(lines[i])
    /\ \A c \in coming, i \in DOMAIN dataChunks : c.id # dataChunks[i].id

FivePolicies == {"OPPORTUNITY", "STRICT_PLAN", "TIMELINE", "ADAPTIVE_GP", "CONTROL_TH"}
PolicySound ==
    /\ policy \in FivePolicies \cup {""}
    /\ test \in BOOLEAN /\ (test => policy = "STRICT_PLAN")
    /\ run = "on" => policy # ""

IInv ==
    /\ lines \in Seq(Statements) /\ Apart
    /\ ComingSound
    /\ Listed(dataChunks) /\ (run = "reading" => dataChunks = << >>)
    /\ PolicySound
    /\ joinedAId \in Ap \cup {None}

(* ms is the list ls with other bits.                                       *)
Same(ls, ms) ==
    /\ ms \in Seq(Items) /\ DOMAIN ms = DOMAIN ls
    /\ \A i \in DOMAIN ls : ms[i].id = ls[i].id

LEMMA SameListed ==
    ASSUME NEW ls, NEW ms, Listed(ls), Same(ls, ms)
    PROVE  Listed(ms)
BY DEF Listed, Same

LEMMA BitsKeep ==
    ASSUME NEW ls, Listed(ls), NEW f, DOMAIN f = DOMAIN ls,
           \A i \in DOMAIN ls : f[i] \in SUBSET {"work", "finish"}
    PROVE  Same(ls, [i \in DOMAIN ls |-> [ls[i] EXCEPT !.dirty = f[i]]])
<1>1. ls \in Seq(Items) /\ Len(ls) \in Nat /\ DOMAIN ls = 1 .. Len(ls)
  BY DEF Listed
<1>2. ASSUME NEW i \in DOMAIN ls
      PROVE  /\ [ls[i] EXCEPT !.dirty = f[i]] \in Items
             /\ [ls[i] EXCEPT !.dirty = f[i]].id = ls[i].id
  <2>1. ls[i] \in Items
    BY <1>1
  <2> QED
    BY <2>1 DEF Items
<1> DEFINE ms == [i \in 1 .. Len(ls) |-> [ls[i] EXCEPT !.dirty = f[i]]]
<1>3. ms \in Seq(Items)
  BY <1>1, <1>2
<1>4. \A i \in DOMAIN ls : ms[i].id = ls[i].id
  BY <1>1, <1>2
<1>5. DOMAIN ms = DOMAIN ls
  BY <1>1
<1>6. ms = [i \in DOMAIN ls |-> [ls[i] EXCEPT !.dirty = f[i]]]
  BY <1>1
<1> HIDE DEF ms
<1> QED
  BY <1>3, <1>4, <1>5, <1>6 DEF Same

LEMMA ListedKeeps ==
    ASSUME NEW ls, Listed(ls)
    PROVE  Same(ls, ls)
BY DEF Listed, Same

LEMMA RedirtyKeeps ==
    ASSUME NEW ls, Listed(ls), NEW id, NEW reset,
           NEW set \in SUBSET {"work", "finish"}
    PROVE  Same(ls, Redirty(ls, id, reset, set))
<1> DEFINE f == [i \in DOMAIN ls |->
                   IF ls[i].id = id THEN (ls[i].dirty \ reset) \cup set ELSE ls[i].dirty]
<1>1. \A i \in DOMAIN ls : ls[i] \in Items
  BY DEF Listed
<1>2. \A i \in DOMAIN ls : ls[i].dirty \in SUBSET {"work", "finish"}
  BY <1>1 DEF Items
<1>3. \A i \in DOMAIN ls : f[i] \in SUBSET {"work", "finish"}
  BY <1>2
<1>4. Same(ls, [i \in DOMAIN ls |-> [ls[i] EXCEPT !.dirty = f[i]]])
  <2>1. DOMAIN f = DOMAIN ls
    OBVIOUS
  <2> HIDE DEF f
  <2> QED
    BY <1>3, <2>1, BitsKeep
<1>5. ASSUME NEW i \in DOMAIN ls
      PROVE  [ls[i] EXCEPT !.dirty = f[i]] =
               IF ls[i].id = id THEN [ls[i] EXCEPT !.dirty = (@ \ reset) \cup set] ELSE ls[i]
  <2>1. ls[i] \in Items
    BY <1>1
  <2>2. CASE ls[i].id = id
    BY <2>2
  <2>3. CASE ls[i].id # id
    BY <2>1, <2>3 DEF Items
  <2> QED
    BY <2>2, <2>3
<1> HIDE DEF f
<1>6. Redirty(ls, id, reset, set) = [i \in DOMAIN ls |-> [ls[i] EXCEPT !.dirty = f[i]]]
  BY <1>5, Zenon DEF Redirty
<1> QED
  BY <1>4, <1>6

LEMMA CompAtAKeeps ==
    ASSUME NEW ls, Listed(ls), NEW j, NEW done, NEW fails, CompAtA(ls, j, done, fails)
    PROVE  Same(ls, dataChunks') /\ run' = run
<1> DEFINE f == [i \in DOMAIN ls |-> ls[i].dirty \ {"work"}]
<1>1. \A i \in DOMAIN ls : ls[i] \in Items
  BY DEF Listed
<1>2. \A i \in DOMAIN ls : f[i] \in SUBSET {"work", "finish"}
  BY <1>1 DEF Items
<1>3. Same(ls, [i \in DOMAIN ls |-> [ls[i] EXCEPT !.dirty = f[i]]])
  <2>1. DOMAIN f = DOMAIN ls
    OBVIOUS
  <2> HIDE DEF f
  <2> QED
    BY <1>2, <2>1, BitsKeep
<1>4. dataChunks' = [i \in DOMAIN ls |-> [ls[i] EXCEPT !.dirty = @ \ {"work"}]]
  BY Zenon DEF CompAtA
<1>5. dataChunks' = [i \in DOMAIN ls |-> [ls[i] EXCEPT !.dirty = f[i]]]
  BY <1>4
<1> QED
  BY <1>3, <1>5 DEF CompAtA

LEMMA SendNextKeeps ==
    ASSUME NEW ls, Listed(ls), NEW j, NEW r, NEW done, SendNext(ls, j, r, done)
    PROVE  Same(ls, dataChunks') /\ run' \in {run, "crash"}
<1>1. CASE run' = "crash" /\ dataChunks' = ls
  BY <1>1, ListedKeeps
<1>2. CASE \E id \in GetNextDataChunk(ls, j, r) :
             dataChunks' = Redirty(ls, id, {}, {"work"}) /\ run' = run
  BY <1>2, RedirtyKeeps
<1>3. CASE CompAtA(ls, j, done, FALSE)
  BY <1>3, CompAtAKeeps
<1> QED
  BY <1>1, <1>2, <1>3 DEF SendNext

(* What a handler of the daemon does to what the invariant is about.        *)
Handles ==
    /\ UNCHANGED <<lines, policy, test>>
    /\ run' \in {run, "crash"}
    /\ joinedAId' \in Ap \cup {None, joinedAId}
    /\ \/ coming' = coming /\ Same(dataChunks, dataChunks')
       \/ \E c \in coming :
            /\ coming' = coming \ {c}
            /\ dataChunks' = <<[c EXCEPT !.dirty = {}]>> \o dataChunks

LEMMA EachHandles ==
    ASSUME IInv, run = "on", Next
    PROVE  Handles
<1>0. /\ run # "reading" /\ Listed(dataChunks) /\ Same(dataChunks, dataChunks)
      /\ UNCHANGED <<lines, policy, test>>
  BY ListedKeeps DEF IInv, Next, ReadStatement
<1>1. ASSUME NEW a \in Ap, JoinCompleted(a)
      PROVE  Handles
  <2>1. coming' = coming /\ joinedAId' = a
    BY <1>1 DEF JoinCompleted
  <2>2. CASE dataChunks' = dataChunks /\ run' = run
    BY <1>0, <2>1, <2>2 DEF Handles
  <2>3. CASE SendNext(dataChunks, a, currentRate', FALSE)
    BY <1>0, <2>1, <2>3, SendNextKeeps DEF Handles
  <2> QED
    BY <1>1, <2>2, <2>3 DEF JoinCompleted
<1>2. ASSUME NEW c \in coming, ChunkReceived(c)
      PROVE  Handles
  BY <1>0, <1>2 DEF ChunkReceived, Handles, session
<1>3. ASSUME Delivered
      PROVE  Handles
  <2> DEFINE ls == Redirty(dataChunks, sending, {}, {"finish"})
  <2>1. coming' = coming /\ joinedAId' = joinedAId
    BY <1>3 DEF Delivered
  <2>2. Same(dataChunks, ls) /\ Listed(ls)
    BY <1>0, RedirtyKeeps, SameListed
  <2>3. CompAtA(ls, joinedAId, TRUE, FALSE) \/ SendNext(ls, joinedAId, currentRate', TRUE)
    BY <1>3, Zenon DEF Delivered
  <2> HIDE DEF ls
  <2>4. Same(ls, dataChunks') /\ run' \in {run, "crash"}
    BY <2>2, <2>3, CompAtAKeeps, SendNextKeeps
  <2>5. Same(dataChunks, dataChunks')
    BY <2>2, <2>4 DEF Same
  <2> QED
    BY <1>0, <2>1, <2>4, <2>5 DEF Handles
<1>4. ASSUME ConnectionFailed
      PROVE  Handles
  <2> DEFINE ls == Redirty(dataChunks, sending, {"work"}, {})
  <2>1. coming' = coming /\ joinedAId' = joinedAId
    BY <1>4 DEF ConnectionFailed
  <2>2. Same(dataChunks, ls) /\ Listed(ls)
    BY <1>0, RedirtyKeeps, SameListed
  <2>3. CASE dataChunks' = dataChunks /\ run' = run
    BY <1>0, <2>1, <2>3 DEF Handles
  <2>4. CASE SendNext(ls, joinedAId, currentRate, uploaded)
    <3>1. Same(ls, dataChunks') /\ run' \in {run, "crash"}
      BY <2>2, <2>4, SendNextKeeps
    <3>2. Same(dataChunks, dataChunks')
      BY <2>2, <3>1 DEF Same
    <3> QED
      BY <1>0, <2>1, <3>1, <3>2 DEF Handles
  <2>5. CASE CompAtA(dataChunks, joinedAId, uploaded, TRUE)
    BY <1>0, <2>1, <2>5, CompAtAKeeps DEF Handles
  <2> HIDE DEF ls
  <2>6. \/ dataChunks' = dataChunks /\ run' = run
        \/ SendNext(ls, joinedAId, currentRate, uploaded)
        \/ CompAtA(dataChunks, joinedAId, uploaded, TRUE)
    BY <1>4 DEF ConnectionFailed, ls
  <2> QED
    BY <2>3, <2>4, <2>5, <2>6
<1>5. ASSUME Arrive
      PROVE  Handles
  BY <1>0, <1>5, SendNextKeeps DEF Arrive, Handles
<1>6. ASSUME LeaveStop \/ Tick
      PROVE  Handles
  BY <1>0, <1>6 DEF LeaveStop, Tick, Handles, session
<1> QED
  BY <1>0, <1>1, <1>2, <1>3, <1>4, <1>5, <1>6 DEF Next, ReadStatement

LEMMA HandlesKeeps ==
    ASSUME IInv, run = "on", Handles
    PROVE  IInv'
<1>1. lines' = lines /\ policy' = policy /\ test' = test /\ run' # "reading"
  BY DEF Handles
<1>2. lines' \in Seq(Statements) /\ Apart'
  BY <1>1 DEF IInv, Apart
<1>3. PolicySound'
  BY <1>1 DEF IInv, PolicySound
<1>4. joinedAId' \in Ap \cup {None}
  BY DEF IInv, Handles
<1>5. ComingSound' /\ Listed(dataChunks')
  <2>1. CASE coming' = coming /\ Same(dataChunks, dataChunks')
    <3>1. Listed(dataChunks')
      BY <2>1, SameListed DEF IInv
    <3>2. DOMAIN dataChunks' = DOMAIN dataChunks
          /\ \A i \in DOMAIN dataChunks : dataChunks'[i].id = dataChunks[i].id
      BY <2>1 DEF Same
    <3>3. ComingSound'
      BY <1>1, <2>1, <3>2 DEF IInv, ComingSound
    <3> QED
      BY <3>1, <3>3
  <2>2. ASSUME NEW c \in coming, coming' = coming \ {c},
               dataChunks' = <<[c EXCEPT !.dirty = {}]>> \o dataChunks
        PROVE  ComingSound' /\ Listed(dataChunks')
    <3> DEFINE d == [c EXCEPT !.dirty = {}]
               n == Len(dataChunks)
    <3>1. c \in Items
      BY DEF IInv, ComingSound
    <3>2. d \in Items /\ d.id = c.id
      BY <3>1 DEF Items
    <3>3. dataChunks \in Seq(Items) /\ n \in Nat /\ DOMAIN dataChunks = 1 .. n
      BY DEF IInv, Listed
    <3>4. dataChunks' = <<d>> \o dataChunks
      BY <2>2
    <3> HIDE DEF d
    <3>5. /\ dataChunks' \in Seq(Items) /\ DOMAIN dataChunks' = 1 .. (n + 1)
          /\ dataChunks'[1] = d
          /\ \A i \in 2 .. n + 1 : dataChunks'[i] = dataChunks[i - 1]
      BY <3>2, <3>3, <3>4
    <3> HIDE DEF n
    <3>6. \A i \in 2 .. n + 1 : i - 1 \in DOMAIN dataChunks
      BY <3>3
    <3>7. \A i \in 1 .. n + 1 : i = 1 \/ i \in 2 .. n + 1
      BY <3>3
    <3>8. \A i \in 2 .. n + 1 : dataChunks'[i].id # c.id
      BY <3>5, <3>6 DEF IInv, ComingSound
    <3>9. Listed(dataChunks')
      <4>1. ASSUME NEW i \in 2 .. n + 1, NEW k \in 2 .. n + 1,
                   dataChunks'[i].id = dataChunks'[k].id
            PROVE  i = k
        <5>1. i - 1 = k - 1
          BY <3>5, <3>6, <4>1 DEF IInv, Listed
        <5> QED
          BY <5>1
      <4> QED
        BY <3>2, <3>5, <3>7, <3>8, <4>1 DEF Listed
    <3>10. ComingSound'
      <4>1. \A e \in coming' : e \in coming /\ e # c
        BY <2>2
      <4>2. coming' \subseteq Items
        BY <4>1 DEF IInv, ComingSound
      <4>3. \A e, f \in coming' : e.id = f.id => e = f
        BY <4>1 DEF IInv, ComingSound
      <4>4. \A e \in coming', i \in DOMAIN lines' : e.id \notin Offers(lines'[i])
        BY <1>1, <4>1 DEF IInv, ComingSound
      <4>5. \A e \in coming', i \in DOMAIN dataChunks' : e.id # dataChunks'[i].id
        <5> TAKE e \in coming', i \in DOMAIN dataChunks'
        <5>1. CASE i = 1
          BY <3>2, <3>5, <4>1, <5>1 DEF IInv, ComingSound
        <5>2. CASE i \in 2 .. n + 1
          BY <3>5, <3>6, <4>1, <5>2 DEF IInv, ComingSound
        <5> QED
          BY <3>5, <3>7, <5>1, <5>2
      <4> QED
        BY <4>2, <4>3, <4>4, <4>5 DEF ComingSound
    <3> QED
      BY <3>9, <3>10
  <2> QED
    BY <2>1, <2>2 DEF Handles
<1> QED
  BY <1>1, <1>2, <1>3, <1>4, <1>5 DEF IInv

(* The chunks a data site starts with.                                      *)
LEMMA Drawn ==
    ASSUME NEW s \in Statements, s.type = "DATA", s.words \in {1, 4},
           NEW S \in DrawChunks({d \in s.lines : ValidLine(d)})
    PROVE  /\ S \subseteq Items
           /\ \A c \in S : c.id \in Offers(s)
           /\ \A c, e \in S : c.id = e.id => c = e
<1> DEFINE ds == {d \in s.lines : ValidLine(d)}
<1>1. ds \subseteq [id : Int, size : Int, deadline : Int, priority : Int]
  BY FileAssumption DEF FileAssumption
<1>2. {d.id : d \in ds} = Offers(s) /\ Offers(s) \subseteq Chunk
  BY FileAssumption DEF FileAssumption, Offers
<1> HIDE DEF ds
<1>3. /\ \A c \in S : \E d \in ds : c \in ChunksOf(d)
      /\ \A c, e \in S : c.id = e.id => c = e
  <2>1. S \in DrawChunks(ds)
    BY DEF ds
  <2>2. /\ S \subseteq UNION {ChunksOf(d) : d \in ds}
        /\ \A c, e \in S : c.id = e.id => c = e
    BY <2>1 DEF DrawChunks
  <2>3. ASSUME NEW c \in S
        PROVE  \E d \in ds : c \in ChunksOf(d)
    BY <2>2, Zenon
  <2> QED
    BY <2>2, <2>3, Zenon
<1>4. ASSUME NEW c \in S
      PROVE  c \in Items /\ c.id \in Offers(s)
  <2>1. PICK d \in ds : c \in ChunksOf(d)
    BY <1>3
  <2>2. d \in [id : Int, size : Int, deadline : Int, priority : Int]
    BY <1>1
  <2>3. PICK size \in Sizes(d.size) :
          c = [id |-> d.id, size |-> size, deadline |-> d.deadline,
               priority |-> Raised(d.priority), dirty |-> {}]
    BY <2>1 DEF ChunksOf
  <2>4. size \in Int
    BY <2>2 DEF Sizes
  <2>5. Raised(d.priority) \in Int
    BY <2>2 DEF Raised
  <2>6. d.id \in Offers(s) /\ d.id \in Chunk /\ d.deadline \in Int
    BY <1>2, <2>2
  <2> QED
    BY <2>3, <2>4, <2>5, <2>6 DEF Items
<1> QED
  BY <1>3, <1>4

LEMMA ReadingKeeps ==
    ASSUME IInv, ReadStatement
    PROVE  IInv'
<1>1. run = "reading" /\ UNCHANGED <<dataChunks, session, now>> /\ dataChunks = << >>
  BY DEF IInv, ReadStatement
<1>2. Listed(dataChunks') /\ dataChunks' = << >> /\ joinedAId' \in Ap \cup {None}
  BY <1>1 DEF IInv, session
<1>3. CASE lines = << >>
  <2>1. /\ run' = IF policy = "" THEN "idle" ELSE "on"
        /\ UNCHANGED <<lines, apps, coming, policy, test, specs>>
    BY <1>3 DEF ReadStatement
  <2>2. run' = "on" => policy # ""
    BY <2>1
  <2>3. PolicySound'
    BY <2>1, <2>2 DEF IInv, PolicySound
  <2>4. ComingSound' /\ lines' \in Seq(Statements) /\ Apart'
    BY <1>1, <2>1 DEF IInv, ComingSound, Apart
  <2> QED
    BY <1>2, <2>3, <2>4 DEF IInv
<1>4. CASE lines # << >>
  <2> DEFINE s == Head(lines)
             n == Len(lines)
  <2>1. lines \in Seq(Statements) /\ n \in Nat /\ n > 0 /\ DOMAIN lines = 1 .. n
    BY <1>4 DEF IInv
  <2>10. /\ lines' = Tail(lines)
         /\ StartCloud(s) \/ StartMdc(s) \/ StartDataSite(s) \/ Unknown(s)
    BY <1>4, Zenon DEF ReadStatement
  <2>2. /\ s \in Statements /\ s = lines[1]
        /\ lines' = Tail(lines)
        /\ StartCloud(s) \/ StartMdc(s) \/ StartDataSite(s) \/ Unknown(s)
    <3>1. s \in Statements /\ s = lines[1]
      BY <1>4, <2>1
    <3> HIDE DEF s
    <3> QED
      BY <2>10, <3>1
  <2>3. /\ lines' \in Seq(Statements) /\ DOMAIN lines' = 1 .. (n - 1)
        /\ \A i \in 1 .. (n - 1) : lines'[i] = lines[i + 1]
    BY <1>4, <2>1, <2>2
  <2> HIDE DEF s, n
  <2>4. \A i \in 1 .. (n - 1) : i + 1 \in DOMAIN lines /\ i + 1 # 1 /\ 1 \in DOMAIN lines
    BY <2>1
  <2>5. Apart'
    <3>1. \A i, k \in 1 .. (n - 1) : i + 1 = k + 1 => i = k
      BY <2>1
    <3> QED
      BY <2>3, <2>4, <3>1 DEF IInv, Apart
  <2>6. \A i \in 1 .. (n - 1) : Offers(s) \cap Offers(lines'[i]) = {}
    BY <2>2, <2>3, <2>4 DEF IInv, Apart
  <2>7. \A c \in coming, i \in 1 .. (n - 1) : c.id \notin Offers(lines'[i])
    BY <2>3, <2>4 DEF IInv, ComingSound
  <2>8. PolicySound'
    <3>1. CASE UNCHANGED <<policy, test>> /\ run' \in {run, "error", "assert"}
      BY <1>1, <3>1 DEF IInv, PolicySound
    <3>2. CASE /\ PolicyOf(s) # "" /\ policy' = PolicyOf(s) /\ run' = run
               /\ test' = (policy' = "STRICT_PLAN" /\ s.plan = NoFile)
      <4>1. policy' \in FivePolicies \cup {""}
        BY <3>2 DEF PolicyOf, FivePolicies
      <4> QED
        BY <1>1, <3>2, <4>1 DEF PolicySound
    <3> QED
      BY <2>2, <3>1, <3>2 DEF StartCloud, StartMdc, StartDataSite, Unknown, Fail, Accepted,
                              PolicyAccepted
  <2>9. ComingSound'
    <3>1. CASE coming' = coming
      BY <1>1, <2>3, <2>7, <3>1 DEF IInv, ComingSound
    <3>2. CASE /\ s.type = "DATA" /\ s.words \in {1, 4}
               /\ \E S \in DrawChunks({d \in s.lines : ValidLine(d)}) : coming' = coming \cup S
      <4>1. PICK S \in DrawChunks({d \in s.lines : ValidLine(d)}) : coming' = coming \cup S
        BY <3>2
      <4>2. /\ S \subseteq Items
            /\ \A c \in S : c.id \in Offers(s)
            /\ \A c, e \in S : c.id = e.id => c = e
        BY <2>2, <3>2, <4>1, Drawn
      <4>3. \A c \in coming : c.id \notin Offers(s)
        BY <2>1, <2>2 DEF IInv, ComingSound
      <4>4. \A c, e \in coming' : c.id = e.id => c = e
        BY <4>1, <4>2, <4>3 DEF IInv, ComingSound
      <4>5. \A c \in coming', i \in 1 .. (n - 1) : c.id \notin Offers(lines'[i])
        BY <2>6, <2>7, <4>1, <4>2
      <4>6. DOMAIN dataChunks' = {}
        BY <1>2
      <4>7. coming' \subseteq Items
        BY <4>1, <4>2 DEF IInv, ComingSound
      <4> QED
        BY <2>3, <4>4, <4>5, <4>6, <4>7 DEF ComingSound
    <3> QED
      BY <2>2, <3>1, <3>2 DEF StartCloud, StartMdc, StartDataSite, Unknown, Fail
  <2> QED
    BY <1>2, <2>3, <2>5, <2>8, <2>9 DEF IInv
<1> QED
  BY <1>3, <1>4

(* The invariant holds in every state.                                      *)
THEOREM SelectInvariant == Spec => []IInv
<1>1. Init => IInv
  <2> SUFFICES ASSUME Init
               PROVE  IInv
    OBVIOUS
  <2>1. lines \in Seq(Statements) /\ Apart
    BY FileAssumption DEF Init, FileAssumption, Apart
  <2>2. ComingSound /\ Listed(dataChunks) /\ dataChunks = << >>
    <3>1. coming = {} /\ dataChunks = << >>
      BY DEF Init
    <3>2. DOMAIN dataChunks = {} /\ dataChunks \in Seq(Items)
      BY <3>1
    <3> QED
      BY <3>1, <3>2 DEF ComingSound, Listed
  <2>3. PolicySound
    BY DEF Init, PolicySound
  <2>4. joinedAId \in Ap \cup {None}
    BY DEF Init
  <2> QED
    BY <2>1, <2>2, <2>3, <2>4 DEF IInv
<1>2. IInv /\ [Next]_vars => IInv'
  <2> SUFFICES ASSUME IInv, [Next]_vars
               PROVE  IInv'
    OBVIOUS
  <2>1. CASE ReadStatement
    BY <2>1, ReadingKeeps
  <2>2. CASE Next /\ run = "on"
    BY <2>2, EachHandles, HandlesKeeps
  <2>3. CASE UNCHANGED vars
    BY <2>3 DEF vars, session, IInv, Apart, ComingSound, PolicySound
  <2> QED
    BY <2>1, <2>2, <2>3 DEF Next
<1> QED
  BY <1>1, <1>2, PTL DEF Spec

-----------------------------------------------------------------------------
(* UpDaemon's choice, in the terms of this module.                          *)

Undones == {c \in ToSet(dataChunks) : Undone(c)}
Here(j) == {c \in ToSet(dataChunks) : PlannedFor(c, j)}
Ids(S) == {c.id : c \in S}

LEMMA ListIs ==
    ASSUME IInv
    PROVE  /\ ToSet(dataChunks) \subseteq Items /\ dataChunks \in Seq(Items)
           /\ \A c, e \in ToSet(dataChunks) : c.id = e.id => c = e
           /\ \A c \in ToSet(dataChunks) : c.id \in Chunk
<1>1. Listed(dataChunks)
  BY DEF IInv
<1>2. \A c \in ToSet(dataChunks) : \E i \in DOMAIN dataChunks : c = dataChunks[i]
  BY DEF ToSet
<1>3. \A i \in DOMAIN dataChunks : dataChunks[i] \in Items
  BY <1>1 DEF Listed
<1>4. \A c \in ToSet(dataChunks) : c \in Items /\ c.id \in Chunk
  BY <1>2, <1>3 DEF Items
<1>5. \A c, e \in ToSet(dataChunks) : c.id = e.id => c = e
  BY <1>1, <1>2 DEF Listed
<1> QED
  BY <1>1, <1>4, <1>5 DEF Listed

LEMMA BitsOf ==
    ASSUME IInv, NEW c \in ToSet(dataChunks)
    PROVE  DirtyBits[c.id] = c.dirty
<1>1. c.id \in Chunk /\ \A e \in ToSet(dataChunks) : e.id = c.id => e = c
  BY ListIs
<1>2. {e \in ToSet(dataChunks) : e.id = c.id} = {c}
  BY <1>1
<1>3. UNION {e.dirty : e \in {c}} = c.dirty
  OBVIOUS
<1> QED
  BY <1>1, <1>2, <1>3 DEF DirtyBits

LEMMA CleanIs ==
    ASSUME IInv
    PROVE  D!Clean(DirtyBits) = Ids(Undones)
BY BitsOf DEF D!Clean, Ids, Undones, Undone

LEMMA AtLastIs ==
    ASSUME NEW j \in Ap
    PROVE  D!AtLastA(j) <=> j = LastA
<1> DEFINE n == Len(PathAps)
           stops == {i \in DOMAIN PathAps : PathAps[i] > 0}
<1>1. /\ n \in Nat /\ DOMAIN PathAps = 1 .. n
      /\ \A i \in 1 .. n : PathAps[i] \in Ap \cup {0}
  BY SelectAssumption DEF SelectAssumption
<1>2. j \in Nat /\ j > 0 /\ 0 \notin Ap /\ Ap \subseteq Nat
  BY SelectAssumption DEF SelectAssumption
<1> HIDE DEF n
<1>3. \A i \in 1 .. n : i \in stops <=> PathAps[i] \in Ap
  <2> TAKE i \in 1 .. n
  <2>1. i \in stops <=> PathAps[i] > 0
    BY <1>1
  <2>2. PathAps[i] \in Ap => PathAps[i] > 0
    BY SelectAssumption DEF SelectAssumption
  <2> QED
    BY <1>1, <2>1, <2>2
<1>4. D!AtLastA(j) <=>
        \E i \in 1 .. n : PathAps[i] = j /\ \A k \in 1 .. n : k > i => PathAps[k] \notin Ap
  <2>1. \A i \in 1 .. n :
          /\ j \in ({PathAps[i]} \ {0}) \cap Ap <=> PathAps[i] = j
          /\ ({PathAps[i]} \ {0}) \cap Ap = {} <=> PathAps[i] \notin Ap
    BY <1>1, <1>2
  <2>2. D!AtLastA(j) <=>
          \E i \in 1 .. n : /\ j \in ({PathAps[i]} \ {0}) \cap Ap
                            /\ \A k \in 1 .. n : k > i => ({PathAps[k]} \ {0}) \cap Ap = {}
    BY <1>1 DEF D!AtLastA, D!Stop, n
  <2> QED
    BY <2>1, <2>2
<1>5. stops \in SUBSET (1 .. n)
  BY <1>1
<1>6. LastA = IF stops = {} THEN 0 ELSE PathAps[Max(stops)]
  BY DEF LastA
<1> HIDE DEF stops
<1>7. CASE stops = {}
  BY <1>2, <1>3, <1>4, <1>6, <1>7
<1>8. CASE stops # {}
  <2>1. Max(stops) \in stops /\ \A x \in stops : x <= Max(stops)
    BY <1>1, <1>5, <1>8, Greatest, Zenon
  <2>2. LastA = PathAps[Max(stops)]
    BY <1>6, <1>8
  <2> DEFINE m == Max(stops)
  <2>3. m \in 1 .. n /\ m \in stops /\ \A k \in 1 .. n : k > m => PathAps[k] \notin Ap
    <3>1. m \in 1 .. n /\ m \in stops
      BY <1>5, <2>1
    <3>2. \A x \in stops : x <= m
      BY <2>1
    <3> HIDE DEF m
    <3>3. ASSUME NEW k \in 1 .. n, k > m
          PROVE  PathAps[k] \notin Ap
      <4>1. k \notin stops
        BY <3>1, <3>2, <3>3
      <4> QED
        BY <1>3, <4>1
    <3> QED
      BY <3>1, <3>3
  <2> HIDE DEF m
  <2>4. \A i \in 1 .. n :
          PathAps[i] = j /\ (\A k \in 1 .. n : k > i => PathAps[k] \notin Ap) => i = m
    <3> TAKE i \in 1 .. n
    <3>1. HAVE PathAps[i] = j /\ \A k \in 1 .. n : k > i => PathAps[k] \notin Ap
    <3>2. PathAps[m] \in Ap
      BY <1>3, <2>3
    <3>3. ~(m > i) /\ ~(i > m)
      BY <2>3, <3>1, <3>2
    <3> QED
      BY <2>3, <3>3
  <2>5. LastA = PathAps[m]
    BY <2>2 DEF m
  <2> QED
    BY <1>4, <2>3, <2>4, <2>5
<1> QED
  BY <1>7, <1>8

LEMMA GetNextIs ==
    ASSUME IInv, run = "on", NEW j \in Ap \cup {None}
    PROVE  LET clean == Ids(Undones)
               some == IF policy \in {"TIMELINE", "ADAPTIVE_GP"} /\ Left(dataChunks, j)
                       THEN Ids(Undones \cap Here(j)) ELSE clean
           IN /\ test => None \in D!GetNext(j, DirtyBits)
              /\ policy = "OPPORTUNITY" =>
                   D!OrNone(clean) \subseteq D!GetNext(j, DirtyBits)
              /\ policy = "STRICT_PLAN" /\ ~test =>
                   D!OrNone(Ids(Undones \cap Here(j))) \subseteq D!GetNext(j, DirtyBits)
              /\ policy \in {"TIMELINE", "ADAPTIVE_GP", "CONTROL_TH"} =>
                   IF j = None THEN None \in D!GetNext(j, DirtyBits)
                   ELSE IF j = LastA THEN D!OrNone(clean) \subseteq D!GetNext(j, DirtyBits)
                   ELSE some \cup {None} \subseteq D!GetNext(j, DirtyBits)
<1> DEFINE L == ToSet(dataChunks)
           planned == {c \in {c.id : c \in L} : j # None /\ Plan[c] = j}
           left == {c \in planned : "finish" \notin DirtyBits[c]}
           clean == Ids(Undones)
           dsome == IF AssumedPolicy = "TIMELINE" /\ left # {} THEN clean \cap planned ELSE clean
<1>1. D!GetNext(j, DirtyBits) =
        CASE AssumedPolicy = "TEST"        -> {None}
          [] AssumedPolicy = "EVERYTHING"  -> D!OrNone(clean)
          [] AssumedPolicy = "STRICT_PLAN" -> D!OrNone(clean \cap planned)
          [] OTHER -> IF j = None THEN {None}
                      ELSE IF D!AtLastA(j) THEN D!OrNone(clean) ELSE dsome \cup {None}
  BY CleanIs, Zenon DEF D!GetNext
<1>2. j # None <=> j > 0
  BY SelectAssumption DEF SelectAssumption, None
<1>3. ASSUME ~test
      PROVE  /\ clean \cap planned = Ids(Undones \cap Here(j))
             /\ left # {} <=> Left(dataChunks, j)
  <2>1. \A c \in L : PlannedFor(c, j) <=> c.id \in planned
    BY <1>2, <1>3 DEF PlannedFor
  <2>2. clean \cap planned = Ids(Undones \cap Here(j))
    BY <2>1 DEF Ids, Undones, Here
  <2>3. left # {} <=> \E c \in L : PlannedFor(c, j) /\ "finish" \notin c.dirty
    BY <2>1, BitsOf
  <2>4. Left(dataChunks, j) <=> \E c \in L : PlannedFor(c, j) /\ "finish" \notin c.dirty
    BY DEF Left, ToSet
  <2> QED
    BY <2>2, <2>3, <2>4
<1>4. policy \in FivePolicies /\ test \in BOOLEAN /\ (test => policy = "STRICT_PLAN")
  BY DEF IInv, PolicySound
<1> HIDE DEF planned, left, clean
<1>5. test => D!GetNext(j, DirtyBits) = {None}
  BY <1>1 DEF AssumedPolicy
<1>6. policy = "OPPORTUNITY" => D!GetNext(j, DirtyBits) = D!OrNone(clean)
  BY <1>1, <1>4 DEF AssumedPolicy
<1>7. policy = "STRICT_PLAN" /\ ~test => D!GetNext(j, DirtyBits) = D!OrNone(clean \cap planned)
  BY <1>1 DEF AssumedPolicy
<1>8. policy \in {"TIMELINE", "ADAPTIVE_GP", "CONTROL_TH"} =>
        /\ ~test
        /\ D!GetNext(j, DirtyBits) =
             IF j = None THEN {None}
             ELSE IF D!AtLastA(j) THEN D!OrNone(clean) ELSE dsome \cup {None}
        /\ AssumedPolicy = "TIMELINE" <=> policy \in {"TIMELINE", "ADAPTIVE_GP"}
  BY <1>1, <1>4 DEF AssumedPolicy
<1>9. j # None => (D!AtLastA(j) <=> j = LastA)
  BY AtLastIs
<1> DEFINE some == IF policy \in {"TIMELINE", "ADAPTIVE_GP"} /\ Left(dataChunks, j)
                   THEN Ids(Undones \cap Here(j)) ELSE clean
<1>10. policy \in {"TIMELINE", "ADAPTIVE_GP", "CONTROL_TH"} => dsome = some
  BY <1>3, <1>8
<1> HIDE DEF dsome, some
<1>11. policy \in {"TIMELINE", "ADAPTIVE_GP", "CONTROL_TH"} =>
         IF j = None THEN None \in D!GetNext(j, DirtyBits)
         ELSE IF j = LastA THEN D!OrNone(clean) \subseteq D!GetNext(j, DirtyBits)
         ELSE some \cup {None} \subseteq D!GetNext(j, DirtyBits)
  BY <1>8, <1>9, <1>10
<1>12. policy = "STRICT_PLAN" /\ ~test =>
         D!OrNone(Ids(Undones \cap Here(j))) \subseteq D!GetNext(j, DirtyBits)
  BY <1>3, <1>7
<1> QED
  BY <1>5, <1>6, <1>11, <1>12, Zenon DEF clean, some

LEMMA MostUrgentAmong ==
    ASSUME IInv, NEW C \in SUBSET ToSet(dataChunks)
    PROVE  LET id == MostUrgent(dataChunks, C) IN
           /\ id \in D!OrNone(Ids(C))
           /\ id # None => id \in Ids(C)
<1>1. dataChunks \in Seq(Items)
  BY ListIs
<1>2. IF C = {} THEN MostUrgent(dataChunks, C) = None
      ELSE \E c \in C : MostUrgent(dataChunks, C) = c.id
  BY <1>1, MostUrgentIs
<1> QED
  BY <1>2 DEF D!OrNone, Ids

LEMMA EverythingAmong ==
    ASSUME IInv
    PROVE  GNDCEverything(dataChunks) \in D!OrNone(Ids(Undones))
<1>1. GNDCEverything(dataChunks) = MostUrgent(dataChunks, Undones)
  BY DEF GNDCEverything, Undones
<1>2. Undones \in SUBSET ToSet(dataChunks)
  BY DEF Undones
<1> QED
  BY <1>1, <1>2, MostUrgentAmong

(* GNDCTimeline, with any grace period, so GNDCAdaptiveGP too.              *)
LEMMA TimelineAmong ==
    ASSUME IInv, NEW j \in Ap, NEW r, NEW grace
    PROVE  LET x == GNDCTimeline(dataChunks, j, r, grace) IN
           IF j = LastA THEN x \in D!OrNone(Ids(Undones))
           ELSE x = None \/ x \in IF Left(dataChunks, j) THEN Ids(Undones \cap Here(j))
                                  ELSE Ids(Undones)
<1> DEFINE ls == dataChunks
           planned == PlannedInTime(ls, j, r, grace)
           y == IF Left(ls, j) THEN None ELSE Opportune(ls, j, r)
           x == GNDCTimeline(ls, j, r, grace)
<1>1. j > 0 /\ ~(j < 1)
  BY SelectAssumption DEF SelectAssumption
<1>2. planned = None \/ planned \in Ids(Undones \cap Here(j))
  <2> DEFINE C == {c \in ToSet(ls) : /\ PlannedFor(c, j) /\ Undone(c)
                                     /\ ~Exceeds(c, r, EstCompTime(j) + grace)}
  <2>1. planned = MostUrgent(ls, C)
    BY Zenon DEF PlannedInTime
  <2>2. C \in SUBSET ToSet(ls) /\ C \subseteq Undones \cap Here(j)
    BY DEF Undones, Here
  <2> HIDE DEF C
  <2>3. planned # None => planned \in Ids(C)
    BY <2>1, <2>2, MostUrgentAmong
  <2> QED
    BY <2>2, <2>3 DEF Ids
<1>3. Ids(Undones \cap Here(j)) \subseteq Ids(Undones)
  BY DEF Ids
<1>4. Opportune(ls, j, r) = None \/ Opportune(ls, j, r) \in Ids(Undones)
  <2> DEFINE fit == {i \in DOMAIN ls : ls[i] \in Fitting(ls, j, r)}
  <2>1. IF fit = {} THEN Opportune(ls, j, r) = None
        ELSE OpportuneIn(ls, j, r, fit, Opportune(ls, j, r))
    BY ListIs, OpportuneIs
  <2>2. \A i \in fit : ls[i] \in Undones
    BY DEF Fitting, Undones
  <2> HIDE DEF fit
  <2>3. fit # {} => \E i \in fit : Opportune(ls, j, r) = ls[i].id
    BY <2>1 DEF OpportuneIn
  <2> QED
    BY <2>1, <2>2, <2>3 DEF Ids
<1>5. planned # None => x = planned
  BY <1>1, Zenon DEF GNDCTimeline
<1>6. planned = None => x = OrAllAtLast(ls, j, y)
  BY <1>1, Zenon DEF GNDCTimeline
<1> HIDE DEF x, planned
<1>7. y = None \/ (~Left(ls, j) /\ y \in Ids(Undones))
  BY <1>4
<1> HIDE DEF y
<1>8. OrAllAtLast(ls, j, y) = IF y = None /\ j = LastA THEN GNDCEverything(ls) ELSE y
  BY DEF OrAllAtLast
<1>9. \A z \in Ids(Undones) : z \in D!OrNone(Ids(Undones))
  BY DEF D!OrNone
<1>10. CASE planned # None
  <2>1. x \in Ids(Undones \cap Here(j))
    BY <1>2, <1>5, <1>10
  <2> QED
    BY <1>3, <1>9, <2>1 DEF x
<1>11. CASE planned = None /\ y # None
  <2>1. x = y
    BY <1>6, <1>8, <1>11
  <2> QED
    BY <1>7, <1>9, <1>11, <2>1 DEF x
<1>12. CASE planned = None /\ y = None
  <2>1. x = IF j = LastA THEN GNDCEverything(ls) ELSE None
    BY <1>6, <1>8, <1>12
  <2> QED
    BY <2>1, EverythingAmong DEF x
<1> QED
  BY <1>10, <1>11, <1>12

LEMMA ControlThAmong ==
    ASSUME IInv, NEW j \in Ap, NEW x \in GNDCControlTh(dataChunks, j)
    PROVE  IF j = LastA THEN x \in D!OrNone(Ids(Undones))
           ELSE x \in Ids(Undones) \cup {None}
<1>1. ~(j < 1)
  BY SelectAssumption DEF SelectAssumption
<1>2. x \in Ids(Undones) \cup {OrAllAtLast(dataChunks, j, None)}
  BY <1>1 DEF GNDCControlTh, Ids, Undones
<1>3. OrAllAtLast(dataChunks, j, None) =
        IF j = LastA THEN GNDCEverything(dataChunks) ELSE None
  BY DEF OrAllAtLast
<1> QED
  BY <1>2, <1>3, EverythingAmong DEF D!OrNone

LEMMA ChoiceHolds ==
    ASSUME IInv
    PROVE  ChoiceAsAssumed
<1> SUFFICES ASSUME run = "on",
                    NEW x \in GetNextDataChunk(dataChunks, joinedAId, currentRate)
             PROVE  x \in D!GetNext(joinedAId, DirtyBits)
  BY DEF ChoiceAsAssumed
<1> DEFINE j == joinedAId
           r == currentRate
           some == IF policy \in {"TIMELINE", "ADAPTIVE_GP"} /\ Left(dataChunks, j)
                   THEN Ids(Undones \cap Here(j)) ELSE Ids(Undones)
<1>1. j \in Ap \cup {None} /\ policy \in FivePolicies /\ test \in BOOLEAN
      /\ (test => policy = "STRICT_PLAN")
  BY DEF IInv, PolicySound
<1>2. /\ test => None \in D!GetNext(j, DirtyBits)
      /\ policy = "OPPORTUNITY" =>
           D!OrNone(Ids(Undones)) \subseteq D!GetNext(j, DirtyBits)
      /\ policy = "STRICT_PLAN" /\ ~test =>
           D!OrNone(Ids(Undones \cap Here(j))) \subseteq D!GetNext(j, DirtyBits)
      /\ policy \in {"TIMELINE", "ADAPTIVE_GP", "CONTROL_TH"} =>
           IF j = None THEN None \in D!GetNext(j, DirtyBits)
           ELSE IF j = LastA THEN D!OrNone(Ids(Undones)) \subseteq D!GetNext(j, DirtyBits)
           ELSE some \cup {None} \subseteq D!GetNext(j, DirtyBits)
  BY <1>1, GetNextIs, Zenon
<1>3. j = None => j < 1 /\ ~(j > 0)
  BY DEF None
<1>4. CASE policy = "OPPORTUNITY"
  <2>1. x = GNDCEverything(dataChunks)
    BY <1>4 DEF GetNextDataChunk
  <2> QED
    BY <1>2, <1>4, <2>1, EverythingAmong
<1>5. CASE policy = "STRICT_PLAN"
  <2> DEFINE C == Undones \cap Here(j)
  <2>1. x = GNDCStrictPlan(dataChunks, j)
    BY <1>5 DEF GetNextDataChunk
  <2>2. {c \in ToSet(dataChunks) : PlannedFor(c, j) /\ Undone(c)} = C
    BY DEF Undones, Here
  <2>3. C \in SUBSET ToSet(dataChunks)
    BY DEF Undones
  <2>4. x = MostUrgent(dataChunks, C)
    BY <2>1, <2>2 DEF GNDCStrictPlan
  <2>5. test => C = {}
    BY DEF Here, PlannedFor
  <2> HIDE DEF C
  <2>6. x \in D!OrNone(Ids(C))
    BY <2>3, <2>4, MostUrgentAmong
  <2>7. C = {} => x = None
    BY <2>6 DEF Ids, D!OrNone
  <2> QED
    BY <1>1, <1>2, <1>5, <2>5, <2>6, <2>7 DEF C
<1>6. CASE policy = "TIMELINE" \/ policy = "ADAPTIVE_GP"
  <2>1. PICK grace : x = GNDCTimeline(dataChunks, j, r, grace)
    <3>1. x = GNDCTimeline(dataChunks, j, r, Grace) \/ x = GNDCAdaptiveGP(dataChunks, j, r)
      BY <1>6 DEF GetNextDataChunk
    <3> QED
      BY <3>1, Zenon DEF GNDCAdaptiveGP
  <2>2. CASE j = None
    <3>1. x = None
      BY <1>3, <2>1, <2>2, Zenon DEF GNDCTimeline
    <3> QED
      BY <1>2, <1>6, <2>2, <3>1
  <2>3. CASE j # None
    <3>1. IF j = LastA THEN x \in D!OrNone(Ids(Undones))
          ELSE x = None \/ x \in IF Left(dataChunks, j) THEN Ids(Undones \cap Here(j))
                                 ELSE Ids(Undones)
      BY <1>1, <2>1, <2>3, TimelineAmong, Zenon
    <3> QED
      BY <1>2, <1>6, <2>3, <3>1
  <2> QED
    BY <2>2, <2>3
<1>7. CASE policy = "CONTROL_TH"
  <2>1. x \in GNDCControlTh(dataChunks, j)
    BY <1>7 DEF GetNextDataChunk
  <2>2. CASE j = None
    <3>1. x = None
      BY <1>3, <2>1, <2>2 DEF GNDCControlTh
    <3> QED
      BY <1>2, <1>7, <2>2, <3>1
  <2>3. CASE j # None
    <3>1. IF j = LastA THEN x \in D!OrNone(Ids(Undones)) ELSE x \in Ids(Undones) \cup {None}
      BY <1>1, <2>1, <2>3, ControlThAmong, Zenon
    <3> QED
      BY <1>2, <1>7, <2>3, <3>1
  <2> QED
    BY <2>2, <2>3
<1> QED
  BY <1>1, <1>4, <1>5, <1>6, <1>7 DEF FivePolicies

(* Whatever a policy of the code chooses, for every list, plan, path and     *)
(* policy, is a choice UpDaemon allows in the same state.                    *)
THEOREM ChoiceAlways == Spec => []ChoiceAsAssumed
<1>1. IInv => ChoiceAsAssumed
  BY ChoiceHolds
<1> QED
  BY <1>1, SelectInvariant, PTL

LEMMA LastInTimeHolds ==
    ASSUME IInv
    PROVE  LastInTimeWins
<1> DEFINE ls == dataChunks
           j == joinedAId
           r == currentRate
           fit == {i \in DOMAIN ls : ls[i] \in Fitting(ls, j, r)}
           inTime == {i \in fit : Meets(ls[i], r)}
           from == {i \in fit : \A k \in inTime : k <= i}
<1> SUFFICES ASSUME policy \in {"TIMELINE", "ADAPTIVE_GP"}, j # None, ~Left(ls, j), fit # {}
             PROVE  \E i \in from :
                      /\ GetNextDataChunk(ls, j, r) = {ls[i].id}
                      /\ \A k \in from : IF k < i THEN Worse(ls[k], ls[i])
                                         ELSE ~Worse(ls[i], ls[k])
  BY Zenon DEF LastInTimeWins, Worse
<1>1. j \in Ap /\ j > 0 /\ ~(j < 1)
  BY SelectAssumption DEF IInv, SelectAssumption
<1>2. ls \in Seq(Items)
  BY ListIs
<1>3. OpportuneIn(ls, j, r, fit, Opportune(ls, j, r))
  BY <1>2, OpportuneIs
<1>4. PICK i \in from :
        /\ Opportune(ls, j, r) = ls[i].id
        /\ \A k \in from : IF k < i THEN Worse(ls[k], ls[i]) ELSE ~Worse(ls[i], ls[k])
  BY <1>3, Zenon DEF OpportuneIn
<1>5. ls[i].id # None
  <2>1. i \in DOMAIN ls
    OBVIOUS
  <2>2. ls[i] \in Items
    BY <1>2, <2>1
  <2> QED
    BY <2>2, ItemIs
<1>6. \A grace : PlannedInTime(ls, j, r, grace) = None
  <2> TAKE grace
  <2> DEFINE C == {c \in ToSet(ls) : /\ PlannedFor(c, j) /\ Undone(c)
                                     /\ ~Exceeds(c, r, EstCompTime(j) + grace)}
  <2>1. C = {}
    <3>1. \A c \in ToSet(ls) : ~(PlannedFor(c, j) /\ Undone(c))
      BY DEF Left, ToSet, Undone
    <3> QED
      BY <3>1
  <2>2. PlannedInTime(ls, j, r, grace) = MostUrgent(ls, C)
    BY Zenon DEF PlannedInTime
  <2>3. C \in SUBSET ToSet(ls)
    OBVIOUS
  <2> HIDE DEF C
  <2> QED
    BY <1>2, <2>1, <2>2, <2>3, MostUrgentIs
<1>7. \A grace : GNDCTimeline(ls, j, r, grace) = Opportune(ls, j, r)
  <2> TAKE grace
  <2>1. GNDCTimeline(ls, j, r, grace) = OrAllAtLast(ls, j, Opportune(ls, j, r))
    BY <1>1, <1>6, Zenon DEF GNDCTimeline
  <2> QED
    BY <1>4, <1>5, <2>1 DEF OrAllAtLast
<1>8. GetNextDataChunk(ls, j, r) = {Opportune(ls, j, r)}
  BY <1>7 DEF GetNextDataChunk, GNDCAdaptiveGP
<1> QED
  BY <1>4, <1>8

(* When nothing planned for the access point is left, TIMELINE and           *)
(* ADAPTIVE_GP choose of the chunks that fit from the last one in time on,   *)
(* the first one of highest priority and then smallest size.                 *)
THEOREM LastInTimeAlways == Spec => []LastInTimeWins
<1>1. IInv => LastInTimeWins
  BY LastInTimeHolds
<1> QED
  BY <1>1, SelectInvariant, PTL
=============================================================================
