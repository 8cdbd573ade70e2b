------------------------------ MODULE SfsProofs ------------------------------
(***************************************************************************)
(* Theorems about Sfs, for every set of disks, sound or damaged, and paths *)
(* and every size of a block.                                              *)
(***************************************************************************)
EXTENDS Sfs, WellFoundedInduction, FiniteSetTheorems, TLAPS

\* Nothing is copied before the object is found, and every object has a size.
IInv ==
  /\ TypeOK /\ NeverBeyond
  /\ pc \in {"create", "chain"} => image = <<>>
  /\ pc = "create" => k = 1

-----------------------------------------------------------------------------
(* Numbers.                                                                *)

\* A set of natural numbers has a least one.
LEMMA LeastExists ==
  ASSUME NEW S \in SUBSET Nat, S # {}
  PROVE  Least(S) \in S /\ \A y \in S : Least(S) <= y
  <1> DEFINE R == OpToRel(<, Nat)
  <1>1. IsWellFoundedOn(R, Nat)
    BY NatLessThanWellFounded
  <1>2. \A x, y \in Nat : x < y => <<x, y>> \in R
    BY DEF OpToRel
  <1>3. S \subseteq Nat
    OBVIOUS
  <1> HIDE DEF R
  <1>4. PICK x \in S : \A y \in S : ~(<<y, x>> \in R)
    BY <1>1, <1>3, WFMin
  <1>5. \A y \in S : x \in Nat /\ y \in Nat /\ ~(y < x)
    BY <1>2, <1>3, <1>4
  <1>6. \A y \in S : x <= y
    BY <1>5
  <1>7. QED
    BY <1>6 DEF Least

\* A set of places in a sequence has a greatest one.
LEMMA GreatestExists ==
  ASSUME NEW n \in Nat, NEW S \in SUBSET (1 .. n), S # {}
  PROVE  Greatest(S) \in S
  <1> DEFINE T == {n - x : x \in S}
  <1>1. T \in SUBSET Nat /\ T # {}
    <2>1. \A x \in S : x \in 1 .. n /\ n - x \in Nat
      OBVIOUS
    <2>2. PICK x \in S : TRUE
      OBVIOUS
    <2>3. n - x \in T
      BY <2>2
    <2>4. \A t \in T : t \in Nat
      BY <2>1
    <2>5. QED
      BY <2>3, <2>4
  <1>2. Least(T) \in T /\ \A y \in T : Least(T) <= y
    BY <1>1, LeastExists
  <1>3. PICK x \in S : Least(T) = n - x
    BY <1>2
  <1>4. \A y \in S : x \in 1 .. n /\ y \in 1 .. n /\ n - x <= n - y
    BY <1>2, <1>3
  <1>5. \A y \in S : y <= x
    BY <1>4
  <1>6. QED
    BY <1>5 DEF Greatest

LEMMA ElementType ==
  ASSUME NEW S, NEW s \in Seq(S), NEW x \in DOMAIN s
  PROVE  s[x] \in S
  OBVIOUS

LEMMA ConcatType ==
  ASSUME NEW S, NEW s \in Seq(S), NEW t \in Seq(S)
  PROVE  s \o t \in Seq(S) /\ Len(s \o t) = Len(s) + Len(t)
  OBVIOUS

\* From 0 on, one after the other, every natural number is reached.
LEMMA Counting ==
  ASSUME NEW S, 0 \in S, \A n \in Nat : n \in S => n + 1 \in S
  PROVE  Nat \subseteq S
  <1> DEFINE T == Nat \ S
  <1>1. SUFFICES ASSUME T # {} PROVE FALSE
    OBVIOUS
  <1>2. T \in SUBSET Nat
    OBVIOUS
  <1>3. Least(T) \in T /\ \A y \in T : Least(T) <= y
    BY <1>1, <1>2, LeastExists
  <1>4. PICK x : x = Least(T)
    OBVIOUS
  <1>5. x \in Nat /\ x \notin S /\ x # 0 /\ \A y \in T : x <= y
    BY <1>3, <1>4
  <1>6. x - 1 \in Nat /\ x - 1 \in T /\ x - 1 + 1 = x
    BY <1>5
  <1>7. QED
    BY <1>5, <1>6

-----------------------------------------------------------------------------
(* What can be reached.                                                    *)

Stages(d, S, step, m, r) ==
  r = [n \in 0 .. m |->
         IF n = 0 THEN S
         ELSE r[n - 1] \cup UNION {step[b] : b \in r[n - 1] \cap DOMAIN d}]

LEMMA StagesExist ==
  ASSUME NEW d, NEW S, NEW step, NEW m \in Nat
  PROVE  \E r : Stages(d, S, step, m, r)
  <1> DEFINE T == {n \in Nat : \E r : Stages(d, S, step, n, r)}
  <1>1. 0 \in T
    <2> DEFINE r == [n \in 0 .. 0 |-> S]
    <2>1. Stages(d, S, step, 0, r)
      BY DEF Stages
    <2>2. QED
      BY <2>1
  <1>2. ASSUME NEW n \in Nat, n \in T PROVE n + 1 \in T
    <2>1. PICK r : Stages(d, S, step, n, r)
      BY <1>2
    <2> DEFINE q == [j \in 0 .. (n + 1) |->
                       IF j <= n THEN r[j]
                       ELSE r[n] \cup UNION {step[b] : b \in r[n] \cap DOMAIN d}]
    <2>2. ASSUME NEW j \in 0 .. (n + 1)
          PROVE  q[j] = IF j = 0 THEN S
                        ELSE q[j - 1] \cup UNION {step[b] : b \in q[j - 1] \cap DOMAIN d}
      <3>1. CASE j = 0
        BY <2>1, <3>1 DEF Stages
      <3>2. CASE j # 0 /\ j <= n
        <4>1. j - 1 \in 0 .. n /\ j \in 0 .. n /\ j - 1 \in 0 .. (n + 1) /\ j - 1 <= n
          BY <3>2
        <4>2. r[j] = r[j - 1] \cup UNION {step[b] : b \in r[j - 1] \cap DOMAIN d}
          BY <2>1, <3>2, <4>1 DEF Stages
        <4>3. q[j] = r[j] /\ q[j - 1] = r[j - 1]
          BY <3>2, <4>1
        <4> HIDE DEF q
        <4>4. QED
          BY <3>2, <4>2, <4>3
      <3>3. CASE j = n + 1
        <4>1. j - 1 = n /\ n \in 0 .. (n + 1) /\ n <= n /\ ~(j <= n) /\ j # 0
          BY <3>3
        <4>2. q[n] = r[n]
          BY <4>1
        <4>3. q[j] = r[n] \cup UNION {step[b] : b \in r[n] \cap DOMAIN d}
          BY <4>1
        <4> HIDE DEF q
        <4>4. QED
          BY <4>1, <4>2, <4>3
      <3>4. QED
        BY <3>1, <3>2, <3>3
    <2>3. q = [j \in 0 .. (n + 1) |-> q[j]]
      OBVIOUS
    <2> HIDE DEF q
    <2>4. Stages(d, S, step, n + 1, q)
      BY <2>2, <2>3 DEF Stages
    <2>5. QED
      BY <2>4
  <1> HIDE DEF T
  <1>3. m \in T
    BY <1>1, <1>2, Counting
  <1>4. QED
    BY <1>3 DEF T

LEMMA ReachedIsStage ==
  ASSUME NEW d, NEW S, NEW step, Cardinality(DOMAIN d) \in Nat
  PROVE  \E r : /\ Stages(d, S, step, Cardinality(DOMAIN d), r)
                /\ Reached(d, S, step) = r[Cardinality(DOMAIN d)]
  <1>1. PICK q : Stages(d, S, step, Cardinality(DOMAIN d), q)
    BY StagesExist
  <1> DEFINE r == CHOOSE r : Stages(d, S, step, Cardinality(DOMAIN d), r)
  <1>2. Stages(d, S, step, Cardinality(DOMAIN d), r)
    BY <1>1
  <1>3. Reached(d, S, step) = r[Cardinality(DOMAIN d)]
    BY DEF Reached, Stages
  <1>4. QED
    BY <1>2, <1>3

\* Closed under the steps, as far as there are blocks.
Closed(d, step, C) == \A b \in C \cap DOMAIN d : step[b] \subseteq C

LEMMA StageTurn ==
  ASSUME NEW d, NEW S, NEW step, NEW m \in Nat, NEW r, Stages(d, S, step, m, r)
  PROVE  /\ r[0] = S
         /\ \A n \in Nat : n + 1 <= m =>
              r[n + 1] = r[n] \cup UNION {step[b] : b \in r[n] \cap DOMAIN d}
  <1>0. \A n \in 0 .. m :
          r[n] = IF n = 0 THEN S
                 ELSE r[n - 1] \cup UNION {step[b] : b \in r[n - 1] \cap DOMAIN d}
    BY DEF Stages
  <1>1. 0 \in 0 .. m /\ r[0] = S
    <2>1. 0 \in 0 .. m
      OBVIOUS
    <2>2. QED
      BY <1>0, <2>1
  <1>2. ASSUME NEW n \in Nat, n + 1 <= m
        PROVE  r[n + 1] = r[n] \cup UNION {step[b] : b \in r[n] \cap DOMAIN d}
    <2>1. n + 1 \in 0 .. m /\ n + 1 # 0 /\ (n + 1) - 1 = n
      BY <1>2
    <2>2. QED
      BY <1>0, <2>1
  <1>3. QED
    BY <1>1, <1>2

\* What is reached is in every set that is closed.
LEMMA ReachedLeast ==
  ASSUME NEW d, NEW S, NEW step, NEW C, Cardinality(DOMAIN d) \in Nat,
         S \subseteq C, Closed(d, step, C)
  PROVE  Reached(d, S, step) \subseteq C
  <1> DEFINE N == Cardinality(DOMAIN d)
  <1>1. PICK r : Stages(d, S, step, N, r) /\ Reached(d, S, step) = r[N]
    BY ReachedIsStage
  <1> HIDE DEF N
  <1>2. N \in Nat
    BY DEF N
  <1>7. /\ r[0] = S
        /\ \A n \in Nat : n + 1 <= N =>
             r[n + 1] = r[n] \cup UNION {step[b] : b \in r[n] \cap DOMAIN d}
    <2>1. N \in Nat /\ Stages(d, S, step, N, r)
      BY <1>1, <1>2
    <2>2. QED
      BY ONLY <2>1, StageTurn
  <1> DEFINE T == {n \in Nat : n <= N => r[n] \subseteq C}
  <1>3. 0 \in T
    BY <1>7
  <1>4. ASSUME NEW n \in Nat, n \in T PROVE n + 1 \in T
    <2>1. SUFFICES ASSUME n + 1 <= N PROVE r[n + 1] \subseteq C
      OBVIOUS
    <2>2. r[n] \subseteq C
      BY <1>2, <1>4, <2>1
    <2>3. r[n + 1] = r[n] \cup UNION {step[b] : b \in r[n] \cap DOMAIN d}
      BY <1>7, <2>1
    <2>4. QED
      BY <2>2, <2>3 DEF Closed
  <1> HIDE DEF T
  <1>5. N \in T
    BY <1>2, <1>3, <1>4, Counting
  <1>6. QED
    BY <1>1, <1>2, <1>5 DEF T

\* A disk has not so many blocks that the search ends before it is done.
LEMMA ReachedClosed ==
  ASSUME NEW d, NEW S, NEW step, IsFiniteSet(DOMAIN d)
  PROVE  /\ S \subseteq Reached(d, S, step)
         /\ Closed(d, step, Reached(d, S, step))
  <1> DEFINE N == Cardinality(DOMAIN d)
             In(R) == R \cap DOMAIN d
  <1>1. N \in Nat
    BY FS_CardinalityType
  <1>2. PICK r : Stages(d, S, step, N, r) /\ Reached(d, S, step) = r[N]
    BY <1>1, ReachedIsStage
  <1>11. /\ r[0] = S
         /\ \A n \in Nat : n + 1 <= N =>
              r[n + 1] = r[n] \cup UNION {step[b] : b \in r[n] \cap DOMAIN d}
    <2> HIDE DEF N
    <2>1. N \in Nat /\ Stages(d, S, step, N, r)
      BY <1>1, <1>2
    <2>2. QED
      BY ONLY <2>1, StageTurn
  <1> DEFINE T == {n \in Nat : n <= N =>
                     /\ S \subseteq r[n]
                     /\ Closed(d, step, r[n]) \/ Cardinality(In(r[n])) >= n + 1}
  <1>3. \A R : IsFiniteSet(In(R)) /\ Cardinality(In(R)) \in Nat
               /\ Cardinality(In(R)) <= Cardinality(DOMAIN d)
    BY FS_Subset, FS_CardinalityType
  <1> HIDE DEF N
  <1>4. ASSUME NEW R, ~Closed(d, step, R)
        PROVE  \E b \in In(R) : ~(step[b] \subseteq R)
    BY <1>4 DEF Closed
  <1>5. 0 \in T
    <2>1. r[0] = S
      BY <1>11
    <2>2. ASSUME ~Closed(d, step, S) PROVE Cardinality(In(S)) >= 1
      <3>1. In(S) # {}
        BY <1>4, <2>2
      <3>2. Cardinality(In(S)) # 0
        BY <1>3, <3>1, FS_EmptySet
      <3>3. QED
        BY <1>3, <3>2
    <2> HIDE DEF In
    <2>3. QED
      BY <2>1, <2>2
  <1>6. ASSUME NEW n \in Nat, n \in T PROVE n + 1 \in T
    <2>1. SUFFICES ASSUME n + 1 <= N
                   PROVE  /\ S \subseteq r[n + 1]
                          /\ \/ Closed(d, step, r[n + 1])
                             \/ Cardinality(In(r[n + 1])) >= n + 1 + 1
      OBVIOUS
    <2>2. /\ S \subseteq r[n]
          /\ Closed(d, step, r[n]) \/ Cardinality(In(r[n])) >= n + 1
      BY <1>1, <1>6, <2>1
    <2>3. r[n + 1] = r[n] \cup UNION {step[b] : b \in r[n] \cap DOMAIN d}
      BY <1>11, <2>1
    <2>4. CASE Closed(d, step, r[n])
      <3>1. r[n + 1] = r[n]
        BY <2>3, <2>4 DEF Closed
      <3>2. QED
        BY <2>2, <2>4, <3>1
    <2>5. CASE Cardinality(In(r[n])) >= n + 1 /\ ~Closed(d, step, r[n + 1])
      <3>1. PICK b \in In(r[n + 1]) : ~(step[b] \subseteq r[n + 1])
        BY <1>4, <2>5
      <3>2. b \notin In(r[n])
        BY <2>3, <3>1
      <3>3. In(r[n]) \cup {b} \subseteq In(r[n + 1])
        BY <2>3, <3>1
      <3>4. PICK A : A = In(r[n])
        OBVIOUS
      <3>5. PICK B : B = In(r[n + 1])
        OBVIOUS
      <3>6. /\ IsFiniteSet(A) /\ IsFiniteSet(B) /\ b \notin A /\ A \cup {b} \subseteq B
            /\ Cardinality(A) \in Nat /\ Cardinality(B) \in Nat
        BY <1>3, <3>2, <3>3, <3>4, <3>5
      <3>7. Cardinality(A \cup {b}) = Cardinality(A) + 1
        BY <3>6, FS_AddElement
      <3>8. Cardinality(A \cup {b}) <= Cardinality(B)
        BY <3>6, FS_Subset
      <3>9. Cardinality(B) >= n + 1 + 1
        BY <2>5, <3>4, <3>6, <3>7, <3>8
      <3>10. QED
        BY <2>2, <2>3, <3>5, <3>9
    <2>6. CASE Closed(d, step, r[n + 1])
      BY <2>2, <2>3, <2>6
    <2>7. QED
      BY <2>2, <2>4, <2>5, <2>6
  <1> HIDE DEF T
  <1>7. N \in T
    BY <1>1, <1>5, <1>6, Counting
  <1>8. S \subseteq r[N] /\ (Closed(d, step, r[N]) \/ Cardinality(In(r[N])) >= N + 1)
    BY <1>1, <1>7 DEF T
  <1>9. Cardinality(In(r[N])) \in Nat /\ Cardinality(In(r[N])) <= N
    BY <1>3 DEF N
  <1>10. QED
    BY <1>1, <1>2, <1>8, <1>9

\* From one block: the block itself, and what is reached from its steps.
LEMMA ReachedFrom ==
  ASSUME NEW d, NEW step, NEW b, IsFiniteSet(DOMAIN d)
  PROVE  /\ Reached(d, {}, step) = {}
         /\ b \in DOMAIN d =>
              Reached(d, {b}, step) \subseteq {b} \cup Reached(d, step[b], step)
         /\ b \notin DOMAIN d => Reached(d, {b}, step) = {b}
  <1>1. Cardinality(DOMAIN d) \in Nat
    BY FS_CardinalityType
  <1>2. Closed(d, step, {})
    BY DEF Closed
  <1>3. Reached(d, {}, step) = {}
    BY <1>1, <1>2, ReachedLeast
  <1>4. ASSUME b \in DOMAIN d
        PROVE  Reached(d, {b}, step) \subseteq {b} \cup Reached(d, step[b], step)
    <2> DEFINE R == Reached(d, step[b], step)
    <2>1. step[b] \subseteq R /\ Closed(d, step, R)
      BY ReachedClosed
    <2> HIDE DEF R
    <2>2. Closed(d, step, {b} \cup R)
      BY <2>1 DEF Closed
    <2>3. Reached(d, {b}, step) \subseteq {b} \cup R
      BY <1>1, <2>2, ReachedLeast
    <2>4. QED
      BY <2>3 DEF R
  <1>5. ASSUME b \notin DOMAIN d PROVE Reached(d, {b}, step) = {b}
    <2>1. Closed(d, step, {b})
      BY <1>5 DEF Closed
    <2>2. QED
      BY <1>1, <2>1, ReachedLeast, ReachedClosed
  <1>6. QED
    BY <1>3, <1>4, <1>5

-----------------------------------------------------------------------------
(* What a path stands for, and what the extents spell.                     *)

MeantTo(d, p, m, f) ==
  f = [n \in 0 .. m |->
         IF n = 0 THEN {RootObject(d)}
         ELSE {o \in UNION {Listed(d, c) : c \in f[n - 1]} :
                 Same(o.name, p[n]) /\ (n < Len(p) => o.dir)}]

LEMMA MeantExists ==
  ASSUME NEW d, NEW p, NEW m \in Nat
  PROVE  \E f : MeantTo(d, p, m, f)
  <1> DEFINE Turn(M, n) == {o \in UNION {Listed(d, c) : c \in M} :
                              Same(o.name, p[n]) /\ (n < Len(p) => o.dir)}
             T == {n \in Nat : \E f : f = [j \in 0 .. n |->
                     IF j = 0 THEN {RootObject(d)} ELSE Turn(f[j - 1], j)]}
  <1> HIDE DEF Turn
  <1>1. 0 \in T
    <2> DEFINE f == [j \in 0 .. 0 |-> {RootObject(d)}]
    <2>1. f = [j \in 0 .. 0 |-> IF j = 0 THEN {RootObject(d)} ELSE Turn(f[j - 1], j)]
      OBVIOUS
    <2>2. QED
      BY <2>1
  <1>2. ASSUME NEW n \in Nat, n \in T PROVE n + 1 \in T
    <2>1. PICK f : f = [j \in 0 .. n |->
                          IF j = 0 THEN {RootObject(d)} ELSE Turn(f[j - 1], j)]
      BY <1>2
    <2> DEFINE q == [j \in 0 .. (n + 1) |-> IF j <= n THEN f[j] ELSE Turn(f[n], j)]
    <2>2. ASSUME NEW j \in 0 .. (n + 1)
          PROVE  q[j] = IF j = 0 THEN {RootObject(d)} ELSE Turn(q[j - 1], j)
      <3>1. CASE j = 0
        BY <2>1, <3>1
      <3>2. CASE j # 0 /\ j <= n
        <4>1. j - 1 \in 0 .. n /\ j \in 0 .. n /\ j - 1 \in 0 .. (n + 1) /\ j - 1 <= n
          BY <3>2
        <4>2. f[j] = Turn(f[j - 1], j)
          BY <2>1, <3>2, <4>1
        <4>3. q[j] = f[j] /\ q[j - 1] = f[j - 1]
          BY <3>2, <4>1
        <4> HIDE DEF q
        <4>4. QED
          BY <3>2, <4>2, <4>3
      <3>3. CASE j = n + 1
        <4>1. j - 1 = n /\ n \in 0 .. (n + 1) /\ n <= n /\ ~(j <= n) /\ j # 0
          BY <3>3
        <4>2. q[n] = f[n]
          BY <4>1
        <4>3. q[j] = Turn(f[n], j)
          BY <4>1
        <4> HIDE DEF q
        <4>4. QED
          BY <4>1, <4>2, <4>3
      <3>4. QED
        BY <3>1, <3>2, <3>3
    <2>3. q = [j \in 0 .. (n + 1) |-> q[j]]
      OBVIOUS
    <2> HIDE DEF q
    <2>4. q = [j \in 0 .. (n + 1) |->
                 IF j = 0 THEN {RootObject(d)} ELSE Turn(q[j - 1], j)]
      BY <2>2, <2>3
    <2>5. QED
      BY <2>4
  <1> HIDE DEF T
  <1>3. m \in T
    BY <1>1, <1>2, Counting
  <1>4. QED
    BY <1>3 DEF T, Turn, MeantTo

\* Each element of the path, by the directories the one before stands for.
LEMMA MeantTurn ==
  ASSUME NEW d, NEW p, Len(p) \in Nat
  PROVE  /\ Meant(d, p)[0] = {RootObject(d)}
         /\ \A n \in 1 .. Len(p) : Meant(d, p)[n] =
              {o \in UNION {Listed(d, c) : c \in Meant(d, p)[n - 1]} :
                 Same(o.name, p[n]) /\ (n < Len(p) => o.dir)}
  <1>1. PICK q : MeantTo(d, p, Len(p), q)
    BY MeantExists
  <1>2. Meant(d, p) = CHOOSE f : MeantTo(d, p, Len(p), f)
    BY DEF Meant, MeantTo
  <1>3. MeantTo(d, p, Len(p), Meant(d, p))
    BY <1>1, <1>2
  <1>4. PICK f : f = Meant(d, p)
    OBVIOUS
  <1>5. \A n \in 0 .. Len(p) :
          f[n] = IF n = 0 THEN {RootObject(d)}
                 ELSE {o \in UNION {Listed(d, c) : c \in f[n - 1]} :
                         Same(o.name, p[n]) /\ (n < Len(p) => o.dir)}
    BY <1>3, <1>4 DEF MeantTo
  <1>6. f[0] = {RootObject(d)}
    <2>1. 0 \in 0 .. Len(p)
      OBVIOUS
    <2>2. QED
      BY <1>5, <2>1
  <1>7. ASSUME NEW n \in 1 .. Len(p)
        PROVE  f[n] = {o \in UNION {Listed(d, c) : c \in f[n - 1]} :
                         Same(o.name, p[n]) /\ (n < Len(p) => o.dir)}
    <2>1. n \in 0 .. Len(p) /\ n # 0
      OBVIOUS
    <2>2. QED
      BY <1>5, <2>1
  <1>8. QED
    BY <1>4, <1>6, <1>7

Spelling(d, m, f) ==
  f = [n \in 0 .. m |-> [c \in Nat |-> [l \in Nat |->
        IF l = 0 THEN {<<>>}
        ELSE IF n = 0 \/ c = 0 THEN {}
        ELSE UNION {{Given(e, l) \o rest :
                       rest \in f[n - 1][e.next][l - Len(Given(e, l))]} :
                    e \in {x \in Extents(d) : x.key = c /\ Readable(d, x)}}]]]

\* What n extents spell, from block c on.
Spelled(d) == CHOOSE f : Spelling(d, Cardinality(DOMAIN d), f)

LEMMA SpellingExists ==
  ASSUME NEW d, NEW m \in Nat
  PROVE  \E f : Spelling(d, m, f)
  <1> DEFINE First == [c \in Nat |-> [l \in Nat |-> IF l = 0 THEN {<<>>} ELSE {}]]
             Turn(g) == [c \in Nat |-> [l \in Nat |->
               IF l = 0 THEN {<<>>}
               ELSE IF c = 0 THEN {}
               ELSE UNION {{Given(e, l) \o rest :
                              rest \in g[e.next][l - Len(Given(e, l))]} :
                           e \in {x \in Extents(d) : x.key = c /\ Readable(d, x)}}]]
             T == {n \in Nat : \E f : f = [j \in 0 .. n |->
                     IF j = 0 THEN First ELSE Turn(f[j - 1])]}
  <1> HIDE DEF First, Turn
  <1>1. 0 \in T
    <2> DEFINE f == [j \in 0 .. 0 |-> First]
    <2>1. f = [j \in 0 .. 0 |-> IF j = 0 THEN First ELSE Turn(f[j - 1])]
      OBVIOUS
    <2>2. QED
      BY <2>1
  <1>2. ASSUME NEW n \in Nat, n \in T PROVE n + 1 \in T
    <2>1. PICK f : f = [j \in 0 .. n |-> IF j = 0 THEN First ELSE Turn(f[j - 1])]
      BY <1>2
    <2> DEFINE q == [j \in 0 .. (n + 1) |-> IF j <= n THEN f[j] ELSE Turn(f[n])]
    <2>2. ASSUME NEW j \in 0 .. (n + 1)
          PROVE  q[j] = IF j = 0 THEN First ELSE Turn(q[j - 1])
      <3>1. CASE j = 0
        BY <2>1, <3>1
      <3>2. CASE j # 0 /\ j <= n
        <4>1. j - 1 \in 0 .. n /\ j \in 0 .. n /\ j - 1 \in 0 .. (n + 1) /\ j - 1 <= n
          BY <3>2
        <4>2. f[j] = Turn(f[j - 1])
          BY <2>1, <3>2, <4>1
        <4>3. q[j] = f[j] /\ q[j - 1] = f[j - 1]
          BY <3>2, <4>1
        <4> HIDE DEF q
        <4>4. QED
          BY <3>2, <4>2, <4>3
      <3>3. CASE j = n + 1
        <4>1. j - 1 = n /\ n \in 0 .. (n + 1) /\ n <= n /\ ~(j <= n) /\ j # 0
          BY <3>3
        <4>2. q[n] = f[n]
          BY <4>1
        <4>3. q[j] = Turn(f[n])
          BY <4>1
        <4> HIDE DEF q
        <4>4. QED
          BY <4>1, <4>2, <4>3
      <3>4. QED
        BY <3>1, <3>2, <3>3
    <2>3. q = [j \in 0 .. (n + 1) |-> q[j]]
      OBVIOUS
    <2> HIDE DEF q
    <2>4. q = [j \in 0 .. (n + 1) |-> IF j = 0 THEN First ELSE Turn(q[j - 1])]
      BY <2>2, <2>3
    <2>5. QED
      BY <2>4
  <1> HIDE DEF T
  <1>3. m \in T
    BY <1>1, <1>2, Counting
  <1>4. PICK f : f = [j \in 0 .. m |-> IF j = 0 THEN First ELSE Turn(f[j - 1])]
    BY <1>3 DEF T
  <1> DEFINE U(n, c, l) ==
        IF l = 0 THEN {<<>>}
        ELSE IF n = 0 \/ c = 0 THEN {}
        ELSE UNION {{Given(e, l) \o rest :
                       rest \in f[n - 1][e.next][l - Len(Given(e, l))]} :
                    e \in {x \in Extents(d) : x.key = c /\ Readable(d, x)}}
  <1>5. ASSUME NEW n \in 0 .. m PROVE f[n] = [c \in Nat |-> [l \in Nat |-> U(n, c, l)]]
    <2>1. CASE n = 0
      <3>1. f[n] = First
        BY <1>4, <2>1
      <3>2. \A c, l \in Nat : U(n, c, l) = IF l = 0 THEN {<<>>} ELSE {}
        BY <2>1
      <3> HIDE DEF U
      <3>3. QED
        BY <3>1, <3>2 DEF First
    <2>2. CASE n # 0
      <3>1. f[n] = Turn(f[n - 1])
        BY <1>4, <2>2
      <3>2. QED
        BY <2>2, <3>1 DEF Turn
    <2>3. QED
      BY <2>1, <2>2
  <1>6. f = [n \in 0 .. m |-> f[n]]
    BY <1>4
  <1>7. f = [n \in 0 .. m |-> [c \in Nat |-> [l \in Nat |-> U(n, c, l)]]]
    <2> HIDE DEF U
    <2>1. QED
      BY <1>5, <1>6
  <1>8. Spelling(d, m, f)
    BY <1>7 DEF Spelling
  <1>9. QED
    BY <1>8

SpelledBy(d, n, c, l) ==
  IF l = 0 THEN {<<>>}
  ELSE IF n = 0 \/ c = 0 THEN {}
  ELSE UNION {{Given(e, l) \o rest :
                 rest \in Spelled(d)[n - 1][e.next][l - Len(Given(e, l))]} :
              e \in {x \in Extents(d) : x.key = c /\ Readable(d, x)}}

LEMMA SpelledTurn ==
  ASSUME NEW d, Cardinality(DOMAIN d) \in Nat,
         NEW n \in 0 .. Cardinality(DOMAIN d), NEW c \in Nat, NEW l \in Nat
  PROVE  Spelled(d)[n][c][l] = SpelledBy(d, n, c, l)
  <1>1. PICK q : Spelling(d, Cardinality(DOMAIN d), q)
    BY SpellingExists
  <1>2. Spelling(d, Cardinality(DOMAIN d), Spelled(d))
    BY <1>1 DEF Spelled
  <1>3. PICK f : f = Spelled(d)
    OBVIOUS
  <1> DEFINE U(j, x, y) ==
        IF y = 0 THEN {<<>>}
        ELSE IF j = 0 \/ x = 0 THEN {}
        ELSE UNION {{Given(e, y) \o rest :
                       rest \in f[j - 1][e.next][y - Len(Given(e, y))]} :
                    e \in {z \in Extents(d) : z.key = x /\ Readable(d, z)}}
  <1>4. f = [j \in 0 .. Cardinality(DOMAIN d) |->
               [x \in Nat |-> [y \in Nat |-> U(j, x, y)]]]
    <2>1. Spelling(d, Cardinality(DOMAIN d), f)
      BY <1>2, <1>3
    <2>2. QED
      BY ONLY <2>1 DEF Spelling
  <1>5. f[n][c][l] = U(n, c, l)
    <2> HIDE DEF U
    <2>1. f[n] = [x \in Nat |-> [y \in Nat |-> U(n, x, y)]]
      BY <1>4
    <2>2. QED
      BY <2>1
  <1>6. U(n, c, l) = SpelledBy(d, n, c, l)
    BY <1>3 DEF SpelledBy
  <1>7. QED
    BY <1>3, <1>5, <1>6

LEMMA BytesAreSpelled ==
  ASSUME NEW d, NEW b, NEW left
  PROVE  Bytes(d, b, left) = Spelled(d)[Cardinality(DOMAIN d)][b][left]
  BY DEF Bytes, Spelled, Spelling

-----------------------------------------------------------------------------
(* What the disk holds.                                                    *)

LEMMA DiskType ==
  ASSUME TypeOK
  PROVE  /\ \A b \in DOMAIN disk : b \in Nat /\ disk[b] \in Contents
         /\ path \in Seq(Names) /\ path # <<>> /\ Len(path) \in Nat \ {0}
  BY DiskAssumption, PathAssumption DEF TypeOK

LEMMA HeldType ==
  ASSUME TypeOK, NEW b
  PROVE  /\ Holds(b, "SRB") => disk[b] \in RootBlock
         /\ Holds(b, "SOC") => disk[b] \in Container
         /\ Holds(b, "leaf") => disk[b] \in Leaf
         /\ Holds(b, "branch") => disk[b] \in Branch
  <1> SUFFICES ASSUME b \in DOMAIN disk
               PROVE  /\ disk[b].id = "SRB" => disk[b] \in RootBlock
                      /\ disk[b].id = "SOC" => disk[b] \in Container
                      /\ disk[b].id = "leaf" => disk[b] \in Leaf
                      /\ disk[b].id = "branch" => disk[b] \in Branch
    BY DEF Holds, Is
  <1>1. disk[b] \in Contents
    BY DiskType
  <1>2. QED
    BY <1>1 DEF Contents, RootBlock, Container, Leaf, Branch, Other

LEMMA LoadedType ==
  ASSUME TypeOK, NEW b
  PROVE  Loaded(b, buffer) \in DOMAIN disk \cup {NoBlock}
  BY DEF Loaded, TypeOK

LEMMA DiskFinite ==
  ASSUME TypeOK
  PROVE  IsFiniteSet(DOMAIN disk) /\ Cardinality(DOMAIN disk) \in Nat
  <1>1. IsFiniteSet(DOMAIN disk)
    BY DiskAssumption DEF TypeOK
  <1>2. QED
    BY <1>1, FS_CardinalityType

-----------------------------------------------------------------------------
(* The tree.                                                               *)

Under(d, p, e) ==
  \E q \in Pages(d, p) : Is(d, q, "leaf") /\ e \in ToSet(d[q].nodes)

TreeSound(t) == \A p \in Pages(disk, t) : PageSound(disk, p)

LEMMA PageItself ==
  ASSUME TypeOK, NEW p
  PROVE  p \in Pages(disk, p)
  BY DiskFinite, ReachedClosed DEF Pages

\* The pages below a page are the page and those below its children.
LEMMA PagesOfLeaf ==
  ASSUME TypeOK, NEW p, Is(disk, p, "leaf")
  PROVE  Pages(disk, p) = {p}
  <1>1. p \in DOMAIN disk /\ Children(disk)[p] = {}
    BY DEF Is, Children
  <1>2. Reached(disk, {p}, Children(disk)) \subseteq {p} \cup Reached(disk, {}, Children(disk))
    BY <1>1, DiskFinite, ReachedFrom
  <1>3. Reached(disk, {}, Children(disk)) = {}
    BY DiskFinite, ReachedFrom
  <1>4. QED
    BY <1>2, <1>3, PageItself DEF Pages

LEMMA PagesOfBranch ==
  ASSUME TypeOK, NEW p, Is(disk, p, "branch")
  PROVE  /\ Pages(disk, p) \subseteq
              {p} \cup UNION {Pages(disk, c) : c \in Children(disk)[p]}
         /\ \A c \in Children(disk)[p] : Pages(disk, c) \subseteq Pages(disk, p)
  <1> DEFINE step == Children(disk)
             All == UNION {Pages(disk, c) : c \in step[p]}
  <1>1. p \in DOMAIN disk
    BY DEF Is
  <1>2. \A c : /\ c \in Pages(disk, c)
               /\ Closed(disk, step, Pages(disk, c))
    BY DiskFinite, ReachedClosed DEF Pages
  <1>3. Cardinality(DOMAIN disk) \in Nat
    BY DiskFinite
  <1> HIDE DEF step
  <1>4. Closed(disk, step, {p} \cup All)
    BY <1>2 DEF Closed
  <1>5. Reached(disk, {p}, step) \subseteq {p} \cup All
    BY <1>3, <1>4, ReachedLeast
  <1>6. ASSUME NEW c \in step[p] PROVE Pages(disk, c) \subseteq Pages(disk, p)
    <2>1. c \in Pages(disk, p)
      BY <1>1, <1>2 DEF Closed
    <2>2. Reached(disk, {c}, step) \subseteq Pages(disk, p)
      BY <1>2, <1>3, <2>1, ReachedLeast
    <2>3. QED
      BY <2>2 DEF Pages, step
  <1>7. QED
    BY <1>5, <1>6 DEF Pages, step

LEMMA GreatestIs ==
  ASSUME NEW n \in Nat, NEW S \in SUBSET (1 .. n), NEW x \in S, \A y \in S : y <= x
  PROVE  Greatest(S) = x
  <1>1. Greatest(S) \in S /\ \A y \in S : y <= Greatest(S)
    BY DEF Greatest
  <1>2. PICK g : g = Greatest(S)
    OBVIOUS
  <1>3. g \in 1 .. n /\ x \in 1 .. n /\ g <= x /\ x <= g
    BY <1>1, <1>2
  <1>4. QED
    BY <1>2, <1>3

LEMMA NodesType ==
  ASSUME TypeOK, NEW p
  PROVE  /\ Is(disk, p, "leaf") =>
              disk[p].nodes \in Seq([key : Nat, next : Nat, blocks : Nat])
         /\ Is(disk, p, "branch") => disk[p].nodes \in Seq([key : Nat, data : Nat])
  BY HeldType DEF Holds, Leaf, Branch

\* In a leaf that is sound the last node whose key is not above a key there is
\* the node of that key.
LEMMA LeafPlace ==
  ASSUME TypeOK, NEW p, Is(disk, p, "leaf"), PageSound(disk, p), NEW e, Under(disk, p, e)
  PROVE  LET S == {x \in DOMAIN disk[p].nodes : disk[p].nodes[x].key <= e.key}
         IN  S # {} /\ disk[p].nodes[Greatest(S)] = e
  <1> DEFINE s == disk[p].nodes
             S == {x \in DOMAIN s : s[x].key <= e.key}
  <1>1. e \in ToSet(s)
    BY PagesOfLeaf DEF Under
  <1>2. PICK x \in DOMAIN s : s[x] = e
    BY <1>1 DEF ToSet
  <1>3. s \in Seq([key : Nat, next : Nat, blocks : Nat])
    BY NodesType
  <1>4. \A y, z \in DOMAIN s : y < z => s[y].key < s[z].key
    BY DEF PageSound
  <1> HIDE DEF s
  <1>5. ASSUME NEW y \in DOMAIN s PROVE s[y].key \in Nat
    <2>1. s[y] \in [key : Nat, next : Nat, blocks : Nat]
      BY <1>3, ElementType
    <2>2. QED
      BY <2>1
  <1>6. DOMAIN s = 1 .. Len(s) /\ Len(s) \in Nat
    BY <1>3
  <1>7. x \in S
    BY <1>2, <1>5
  <1>8. \A y \in S : y <= x
    BY <1>2, <1>4, <1>5, <1>6
  <1>9. S \in SUBSET (1 .. Len(s))
    BY <1>6
  <1> HIDE DEF S
  <1>10. Greatest(S) = x
    BY <1>6, <1>7, <1>8, <1>9, GreatestIs
  <1>11. QED
    BY <1>2, <1>7, <1>10 DEF S, s

\* In a branch it is the node the key lies under.
LEMMA BranchPlace ==
  ASSUME TypeOK, NEW p, Is(disk, p, "branch"), PageSound(disk, p), NEW e, Under(disk, p, e)
  PROVE  LET S == {x \in DOMAIN disk[p].nodes : disk[p].nodes[x].key <= e.key}
         IN  /\ S # {}
             /\ disk[p].nodes[Greatest(S)].data \in Children(disk)[p]
             /\ Under(disk, disk[p].nodes[Greatest(S)].data, e)
  <1> DEFINE s == disk[p].nodes
             S == {x \in DOMAIN s : s[x].key <= e.key}
  <1>1. Children(disk)[p] = {s[x].data : x \in DOMAIN s}
    BY DEF Is, Children, ToSet
  <1>2. PICK q \in Pages(disk, p) : Is(disk, q, "leaf") /\ e \in ToSet(disk[q].nodes)
    BY DEF Under
  <1>3. q # p
    BY <1>2 DEF Is
  <1>4. PICK c \in Children(disk)[p] : q \in Pages(disk, c)
    BY <1>2, <1>3, PagesOfBranch
  <1>5. PICK x \in DOMAIN s : s[x].data = c
    BY <1>1, <1>4
  <1>6. s \in Seq([key : Nat, data : Nat])
    BY NodesType
  <1>7. /\ s[x].key <= e.key
        /\ x < Len(s) => e.key < s[x + 1].key
    BY <1>2, <1>4, <1>5 DEF PageSound, Is
  <1>8. \A y, z \in DOMAIN s : y < z => s[y].key < s[z].key
    BY DEF PageSound
  <1>9. e.key \in Nat
    <2>1. disk[q].nodes \in Seq([key : Nat, next : Nat, blocks : Nat])
      BY <1>2, NodesType
    <2>2. PICK y \in DOMAIN disk[q].nodes : disk[q].nodes[y] = e
      BY <1>2 DEF ToSet
    <2>3. e \in [key : Nat, next : Nat, blocks : Nat]
      BY <2>1, <2>2, ElementType
    <2>4. QED
      BY <2>3
  <1> HIDE DEF s
  <1>10. ASSUME NEW y \in DOMAIN s PROVE s[y].key \in Nat
    <2>1. s[y] \in [key : Nat, data : Nat]
      BY <1>6, ElementType
    <2>2. QED
      BY <2>1
  <1>11. DOMAIN s = 1 .. Len(s) /\ Len(s) \in Nat
    BY <1>6
  <1>12. x \in S
    BY <1>5, <1>7
  <1>13. \A y \in S : y <= x
    <2>1. SUFFICES ASSUME NEW y \in S, x < y PROVE FALSE
      BY <1>11, <1>12
    <2>2. x + 1 \in DOMAIN s /\ x < Len(s) /\ x + 1 <= y
      BY <1>11, <2>1
    <2>3. s[x + 1].key <= s[y].key
      BY <1>8, <1>10, <1>11, <2>1, <2>2
    <2>4. s[x + 1].key \in Nat /\ s[y].key \in Nat /\ s[y].key <= e.key
      BY <1>10, <2>1, <2>2
    <2>5. QED
      BY <1>7, <1>9, <2>2, <2>3, <2>4
  <1>14. S \in SUBSET (1 .. Len(s))
    BY <1>11
  <1> HIDE DEF S
  <1>15. Greatest(S) = x
    BY <1>11, <1>12, <1>13, <1>14, GreatestIs
  <1>16. Under(disk, c, e)
    BY <1>2, <1>4 DEF Under
  <1>17. QED
    BY <1>4, <1>5, <1>12, <1>15, <1>16 DEF S, s

\* No key is in a sound tree twice.
LEMMA KeyOnce ==
  ASSUME TypeOK, NEW t, TreeSound(t), NEW e, NEW f, Under(disk, t, e), Under(disk, t, f),
         e.key = f.key
  PROVE  e = f
  <1> DEFINE Bad == {p \in Pages(disk, t) : Under(disk, p, e) /\ Under(disk, p, f)}
             Sizes == {Cardinality(Pages(disk, p)) : p \in Bad}
  <1>0. SUFFICES ASSUME e # f PROVE FALSE
    OBVIOUS
  <1>1. \A p \in Pages(disk, t) :
          /\ PageSound(disk, p) /\ p \in DOMAIN disk
          /\ Is(disk, p, "leaf") \/ Is(disk, p, "branch")
    BY DEF TreeSound, PageSound, Is
  <1>2. Closed(disk, Children(disk), Pages(disk, t))
    BY DiskFinite, ReachedClosed DEF Pages
  <1>3. ASSUME NEW p \in Pages(disk, t)
        PROVE  /\ Pages(disk, p) \subseteq Pages(disk, t)
               /\ IsFiniteSet(Pages(disk, p)) /\ Cardinality(Pages(disk, p)) \in Nat
    <2>1. Reached(disk, {p}, Children(disk)) \subseteq Pages(disk, t)
      BY <1>2, DiskFinite, ReachedLeast
    <2>2. Pages(disk, p) \subseteq Pages(disk, t)
      BY <2>1 DEF Pages
    <2>3. Pages(disk, p) \subseteq DOMAIN disk
      BY <1>1, <2>2
    <2>4. QED
      BY <2>2, <2>3, DiskFinite, FS_Subset, FS_CardinalityType
  <1>4. t \in Bad
    BY PageItself
  <1>5. Sizes \in SUBSET Nat /\ Sizes # {}
    BY <1>3, <1>4
  <1>6. Least(Sizes) \in Sizes /\ \A y \in Sizes : Least(Sizes) <= y
    <2> HIDE DEF Sizes
    <2>1. QED
      BY <1>5, LeastExists
  <1>7. PICK p \in Bad : \A q \in Bad : Cardinality(Pages(disk, p)) <= Cardinality(Pages(disk, q))
    BY <1>6
  <1>8. CASE Is(disk, p, "leaf")
    <2> DEFINE S(key) == {x \in DOMAIN disk[p].nodes : disk[p].nodes[x].key <= key}
    <2>1. disk[p].nodes[Greatest(S(e.key))] = e
      BY <1>1, <1>7, <1>8, LeafPlace
    <2>2. disk[p].nodes[Greatest(S(f.key))] = f
      BY <1>1, <1>7, <1>8, LeafPlace
    <2> HIDE DEF S
    <2>3. QED
      BY <1>0, <2>1, <2>2
  <1>9. CASE Is(disk, p, "branch")
    <2> DEFINE S == {x \in DOMAIN disk[p].nodes : disk[p].nodes[x].key <= e.key}
               c == disk[p].nodes[Greatest(S)].data
    <2>1. c \in Children(disk)[p] /\ Under(disk, c, e) /\ Under(disk, c, f)
      BY <1>1, <1>7, <1>9, BranchPlace
    <2> HIDE DEF c
    <2>2. c \in Pages(disk, t)
      BY <1>1, <1>2, <1>7, <2>1 DEF Closed
    <2>3. c \in Bad
      BY <2>1, <2>2
    <2>4. p \notin Pages(disk, c) /\ Pages(disk, c) \subseteq Pages(disk, p)
      BY <1>1, <1>7, <1>9, <2>1, PagesOfBranch DEF PageSound
    <2>5. PICK A, B : A = Pages(disk, c) /\ B = Pages(disk, p)
      OBVIOUS
    <2>6. /\ IsFiniteSet(A) /\ IsFiniteSet(B) /\ A \subseteq B /\ p \notin A /\ p \in B
          /\ Cardinality(A) \in Nat /\ Cardinality(B) \in Nat
      BY <1>3, <1>7, <2>2, <2>4, <2>5, PageItself
    <2>7. Cardinality(A \cup {p}) = Cardinality(A) + 1
      BY <2>6, FS_AddElement
    <2>8. A \cup {p} \subseteq B /\ Cardinality(A \cup {p}) <= Cardinality(B)
      BY <2>6, FS_Subset
    <2>9. Cardinality(B) <= Cardinality(A)
      BY <1>7, <2>3, <2>5
    <2>10. QED
      BY <2>6, <2>7, <2>8, <2>9
  <1>10. QED
    BY <1>1, <1>7, <1>8, <1>9

-----------------------------------------------------------------------------
(* The bytes.                                                              *)

Nodes == [key : Nat, next : Nat, blocks : Nat]
Blocks(d) == Cardinality(DOMAIN d)
Here(e, l) == IF l < e.blocks * BlockSize THEN l ELSE e.blocks * BlockSize

LEMMA ExtentType ==
  ASSUME TypeOK, NEW e \in Extents(disk)
  PROVE  e \in Nodes /\ Under(disk, disk[0].tree, e)
  <1>1. PICK p \in Pages(disk, disk[0].tree) :
          Is(disk, p, "leaf") /\ e \in ToSet(disk[p].nodes)
    BY DEF Extents
  <1>2. disk[p].nodes \in Seq(Nodes)
    BY <1>1, NodesType DEF Nodes
  <1>3. PICK x \in DOMAIN disk[p].nodes : disk[p].nodes[x] = e
    BY <1>1 DEF ToSet
  <1>4. e \in Nodes
    BY <1>2, <1>3, ElementType
  <1>5. QED
    BY <1>1, <1>4 DEF Under

LEMMA Product ==
  ASSUME NEW x \in Nat
  PROVE  x * BlockSize \in Nat
  BY SizeAssumption

\* A number of bytes is some whole blocks and less than one more.
LEMMA Division ==
  ASSUME NEW x \in Nat
  PROVE  x \div BlockSize \in Nat /\ x % BlockSize \in 0 .. (BlockSize - 1)
  BY SizeAssumption, SMT

LEMMA GivenType ==
  ASSUME NEW e \in Nodes, NEW l \in Nat
  PROVE  /\ Given(e, l) \in Seq(Byte) /\ Len(Given(e, l)) = Here(e, l)
         /\ Here(e, l) \in Nat /\ l - Here(e, l) \in Nat
         /\ \A x \in 1 .. Here(e, l) :
              Given(e, l)[x] = <<e.key + ((x - 1) \div BlockSize),
                                 ((x - 1) % BlockSize) + 1>>
  <1>1. e.key \in Nat /\ e.blocks * BlockSize \in Nat
    BY Product DEF Nodes
  <1>2. Here(e, l) \in Nat /\ l - Here(e, l) \in Nat
    BY <1>1 DEF Here
  <1> DEFINE b(x) == <<e.key + ((x - 1) \div BlockSize), ((x - 1) % BlockSize) + 1>>
  <1>3. Given(e, l) = [x \in 1 .. Here(e, l) |-> b(x)]
    BY DEF Given, Here
  <1>4. ASSUME NEW x \in 1 .. Here(e, l) PROVE b(x) \in Byte
    <2>1. x - 1 \in Nat
      BY <1>2
    <2>2. (x - 1) \div BlockSize \in Nat /\ (x - 1) % BlockSize \in 0 .. (BlockSize - 1)
      BY <2>1, Division
    <2>3. e.key + ((x - 1) \div BlockSize) \in Nat
      BY <1>1, <2>2
    <2>4. ((x - 1) % BlockSize) + 1 \in 1 .. BlockSize
      BY <2>2, SizeAssumption
    <2>5. QED
      BY <2>3, <2>4 DEF Byte
  <1> HIDE DEF b
  <1>5. Given(e, l) \in Seq(Byte) /\ Len(Given(e, l)) = Here(e, l)
    BY <1>2, <1>3, <1>4
  <1>6. \A x \in 1 .. Here(e, l) : Given(e, l)[x] = b(x)
    BY <1>3
  <1>7. QED
    BY <1>2, <1>5, <1>6 DEF b

LEMMA NothingSpelled ==
  ASSUME TypeOK, NEW n \in 0 .. Blocks(disk), NEW c \in Nat
  PROVE  Spelled(disk)[n][c][0] = {<<>>}
  <1>1. Cardinality(DOMAIN disk) \in Nat /\ n \in 0 .. Cardinality(DOMAIN disk) /\ 0 \in Nat
    BY DiskFinite DEF Blocks
  <1>2. Spelled(disk)[n][c][0] = SpelledBy(disk, n, c, 0)
    BY ONLY <1>1, c \in Nat, SpelledTurn
  <1>3. QED
    BY <1>2 DEF SpelledBy

\* One extent and the rest.
Opens(n, c, l, w, e) ==
  /\ e \in Extents(disk) /\ e.key = c /\ Readable(disk, e)
  /\ \E rest \in Spelled(disk)[n - 1][e.next][l - Here(e, l)] :
       w = Given(e, l) \o rest

LEMMA SpelledFirst ==
  ASSUME TypeOK, NEW n \in 0 .. Blocks(disk), NEW c \in Nat, NEW l \in Nat,
         NEW w \in Spelled(disk)[n][c][l], l # 0
  PROVE  /\ n # 0 /\ c # 0
         /\ \E e : Opens(n, c, l, w, e)
  <1> DEFINE Onward(e) == {Given(e, l) \o rest :
                             rest \in Spelled(disk)[n - 1][e.next][l - Len(Given(e, l))]}
             Fit == {x \in Extents(disk) : x.key = c /\ Readable(disk, x)}
  <1>1. Spelled(disk)[n][c][l] =
          IF n = 0 \/ c = 0 THEN {} ELSE UNION {Onward(e) : e \in Fit}
    <2>1. Cardinality(DOMAIN disk) \in Nat /\ n \in 0 .. Cardinality(DOMAIN disk)
      BY DiskFinite DEF Blocks
    <2>2. Spelled(disk)[n][c][l] = SpelledBy(disk, n, c, l)
      BY ONLY <2>1, c \in Nat, l \in Nat, SpelledTurn
    <2>4. SpelledBy(disk, n, c, l) =
            IF l = 0 THEN {<<>>}
            ELSE IF n = 0 \/ c = 0 THEN {} ELSE UNION {Onward(e) : e \in Fit}
      BY DEF SpelledBy
    <2> HIDE DEF Onward, Fit
    <2>3. QED
      BY <2>2, <2>4
  <1>2. n # 0 /\ c # 0 /\ w \in UNION {Onward(e) : e \in Fit}
    BY <1>1
  <1>3. PICK e \in Fit : w \in Onward(e)
    <2> HIDE DEF Onward, Fit
    <2>1. QED
      BY <1>2
  <1>4. Len(Given(e, l)) = Here(e, l)
    BY ExtentType, GivenType
  <1>5. PICK rest \in Spelled(disk)[n - 1][e.next][l - Here(e, l)] :
          w = Given(e, l) \o rest
    BY <1>3, <1>4
  <1>6. QED
    BY <1>2, <1>3, <1>5 DEF Opens

LEMMA SpelledType ==
  ASSUME TypeOK, NEW n \in 0 .. Blocks(disk), NEW c \in Nat, NEW l \in Nat,
         NEW w \in Spelled(disk)[n][c][l]
  PROVE  w \in Seq(Byte) /\ Len(w) = l
  <1> DEFINE Typed(j) == \A x, y \in Nat : \A v \in Spelled(disk)[j][x][y] :
                           v \in Seq(Byte) /\ Len(v) = y
             T == {j \in Nat : j <= Blocks(disk) => Typed(j)}
  <1>0. Blocks(disk) \in Nat
    BY DiskFinite DEF Blocks
  <1>1. ASSUME NEW j \in 0 .. Blocks(disk), NEW x \in Nat, NEW v \in Spelled(disk)[j][x][0]
        PROVE  v \in Seq(Byte) /\ Len(v) = 0
    <2>1. Spelled(disk)[j][x][0] = {<<>>}
      BY NothingSpelled
    <2>2. QED
      BY <2>1
  <1>2. 0 \in T
    <2>1. SUFFICES ASSUME NEW x \in Nat, NEW y \in Nat, NEW v \in Spelled(disk)[0][x][y]
                   PROVE  v \in Seq(Byte) /\ Len(v) = y
      OBVIOUS
    <2>2. 0 \in 0 .. Blocks(disk)
      BY <1>0
    <2>3. y = 0
      BY <2>2, SpelledFirst
    <2>4. QED
      BY <1>1, <2>2, <2>3
  <1>3. ASSUME NEW j \in Nat, j \in T PROVE j + 1 \in T
    <2>1. SUFFICES ASSUME j + 1 <= Blocks(disk), NEW x \in Nat, NEW y \in Nat,
                          NEW v \in Spelled(disk)[j + 1][x][y], y # 0
                   PROVE  v \in Seq(Byte) /\ Len(v) = y
      BY <1>0, <1>1
    <2>2. j + 1 \in 0 .. Blocks(disk) /\ (j + 1) - 1 = j /\ Typed(j)
      BY <1>0, <1>3, <2>1
    <2> HIDE DEF T
    <2>3. PICK e : Opens(j + 1, x, y, v, e)
      BY <2>1, <2>2, SpelledFirst
    <2>4. /\ e \in Extents(disk)
          /\ \E rest \in Spelled(disk)[j][e.next][y - Here(e, y)] : v = Given(e, y) \o rest
      BY <2>2, <2>3 DEF Opens
    <2>10. PICK rest \in Spelled(disk)[j][e.next][y - Here(e, y)] :
             v = Given(e, y) \o rest
      BY <2>4
    <2>5. e \in Nodes /\ e.next \in Nat
      BY <2>4, ExtentType DEF Nodes
    <2>6. /\ Given(e, y) \in Seq(Byte) /\ Len(Given(e, y)) = Here(e, y)
          /\ Here(e, y) \in Nat /\ y - Here(e, y) \in Nat
      BY <2>5, GivenType
    <2>7. rest \in Seq(Byte) /\ Len(rest) = y - Here(e, y)
      BY <2>2, <2>10, <2>5, <2>6
    <2> HIDE DEF Typed
    <2>8. v \in Seq(Byte) /\ Len(v) = Here(e, y) + (y - Here(e, y))
      BY <2>10, <2>6, <2>7, ConcatType
    <2>9. QED
      BY <2>6, <2>8
  <1> HIDE DEF T, Typed
  <1>4. n \in T
    BY <1>0, <1>2, <1>3, Counting
  <1>5. QED
    BY <1>0, <1>4 DEF T, Typed

\* As no key is there twice, the extents spell one thing.
LEMMA SpelledOnce ==
  ASSUME TypeOK, TreeSound(disk[0].tree),
         NEW n \in 0 .. Blocks(disk), NEW c \in Nat, NEW l \in Nat
  PROVE  AtMostOne(Spelled(disk)[n][c][l])
  <1> DEFINE One(j) == \A x, y \in Nat : AtMostOne(Spelled(disk)[j][x][y])
             T == {j \in Nat : j <= Blocks(disk) => One(j)}
  <1>0. Blocks(disk) \in Nat
    BY DiskFinite DEF Blocks
  <1>1. ASSUME NEW j \in 0 .. Blocks(disk), NEW x \in Nat
        PROVE  AtMostOne(Spelled(disk)[j][x][0])
    <2>1. Spelled(disk)[j][x][0] = {<<>>}
      BY NothingSpelled
    <2>2. QED
      BY <2>1 DEF AtMostOne
  <1>2. 0 \in T
    <2>1. SUFFICES ASSUME NEW x \in Nat, NEW y \in Nat, y # 0
                   PROVE  AtMostOne(Spelled(disk)[0][x][y])
      BY <1>0, <1>1
    <2>2. 0 \in 0 .. Blocks(disk)
      BY <1>0
    <2>3. \A v \in Spelled(disk)[0][x][y] : FALSE
      BY <2>1, <2>2, SpelledFirst
    <2>4. QED
      BY <2>3 DEF AtMostOne
  <1>3. ASSUME NEW j \in Nat, j \in T PROVE j + 1 \in T
    <2>1. SUFFICES ASSUME j + 1 <= Blocks(disk), NEW x \in Nat, NEW y \in Nat, y # 0,
                          NEW v \in Spelled(disk)[j + 1][x][y],
                          NEW w \in Spelled(disk)[j + 1][x][y]
                   PROVE  v = w
      BY <1>0, <1>1 DEF AtMostOne
    <2>2. j + 1 \in 0 .. Blocks(disk) /\ (j + 1) - 1 = j /\ One(j)
      BY <1>0, <1>3, <2>1
    <2> HIDE DEF T
    <2>3. PICK e : Opens(j + 1, x, y, v, e)
      BY <2>1, <2>2, SpelledFirst
    <2>4. PICK f : Opens(j + 1, x, y, w, f)
      BY <2>1, <2>2, SpelledFirst
    <2>5. e = f
      BY <2>3, <2>4, ExtentType, KeyOnce DEF Opens
    <2>6. e.next \in Nat /\ y - Here(e, y) \in Nat
      BY <2>3, ExtentType, GivenType DEF Nodes, Opens
    <2>7. AtMostOne(Spelled(disk)[j][e.next][y - Here(e, y)])
      BY <2>2, <2>6
    <2> HIDE DEF One
    <2>8. PICK r \in Spelled(disk)[j][e.next][y - Here(e, y)] : v = Given(e, y) \o r
      BY <2>2, <2>3 DEF Opens
    <2>9. PICK t \in Spelled(disk)[j][e.next][y - Here(e, y)] : w = Given(e, y) \o t
      BY <2>2, <2>4, <2>5 DEF Opens
    <2>10. r = t
      BY <2>7, <2>8, <2>9 DEF AtMostOne
    <2>11. QED
      BY <2>8, <2>9, <2>10
  <1> HIDE DEF T, One
  <1>4. n \in T
    BY <1>0, <1>2, <1>3, Counting
  <1>5. QED
    BY <1>0, <1>4 DEF T, One

-----------------------------------------------------------------------------
(* What the search of a sound disk has found out.                          *)

FitsIn(d, p, j, b) ==
  \E x \in DOMAIN d[b].objects :
    Same(d[b].objects[x].name, p[j]) /\ (j < Len(p) => d[b].objects[x].dir)

\* Of the containers of the directory, those that do not lie ahead have no
\* object for element j of the path.
Searching(d, p, j, c) ==
  \E o \in Meant(d, p)[j - 1] :
    /\ c = 0 \/ c \in Chain(d, o)
    /\ \A b \in Chain(d, o) :
         b \in Reached(d, {c} \ {0}, Follow(d)) \/ ~FitsIn(d, p, j, b)

Begun(w, img, s) == Len(w) = s /\ \A x \in 1 .. Len(img) : img[x] = w[x]

\* From place b on the content w is what n extents spell from block c on.
Ahead(d, s, w, b, n, c) ==
  \E r \in Spelled(d)[n][c][s - b] : \A x \in 1 .. (s - b) : w[b + x] = r[x]

Awaited(d, W, img, s, c) ==
  \E w \in W :
    /\ Begun(w, img, s)
    /\ \E n \in 0 .. Blocks(d) : Ahead(d, s, w, Len(img), n, c)

\* Blocks of the extent at c are copied from place b on, and j of them are.
Copying(d, W, img, s, c, x, j) ==
  \E w \in W : \E e \in Extents(d) : \E b \in 0 .. s : \E n \in 0 .. Blocks(d) :
    /\ Begun(w, img, s)
    /\ e.key = c /\ Readable(d, e) /\ x.next = e.next /\ x.blocks = e.blocks
    /\ Len(img) = b + (IF j * BlockSize < s - b THEN j * BlockSize ELSE s - b)
    /\ \A y \in 1 .. Here(e, s - b) : w[b + y] = Given(e, s - b)[y]
    /\ Ahead(d, s, w, b + Here(e, s - b), n, e.next)

History == sound = Sound(disk, path) /\ wanted = Content(disk, path)

LoadInv ==
  /\ IInv /\ History
  /\ sound => \/ pc \in {"create", "done"}
              \/ pc = "chain" /\ Searching(disk, path, k, next)
              \/ pc \in {"extent", "tree"} /\ Awaited(disk, wanted, image, size, next)
              \/ pc = "copy" /\ Copying(disk, wanted, image, size, next, extent, i)
  /\ sound /\ pc # "create" => tree = disk[0].tree
  /\ sound /\ pc = "tree" =>
       /\ next # 0 /\ readed < size /\ at \in Pages(disk, tree)
       /\ \A e \in Extents(disk) : e.key = next => Under(disk, at, e)

-----------------------------------------------------------------------------
(* The chain of containers.                                                *)

LEMMA SoundDisk ==
  ASSUME TypeOK, History, sound
  PROVE  /\ Mounts(disk) /\ TreeSound(disk[0].tree)
         /\ \A n \in 0 .. Len(path) :
              /\ AtMostOne(Meant(disk, path)[n])
              /\ n < Len(path) =>
                   \A o \in Meant(disk, path)[n] : DirectorySound(disk, o)
         /\ \A o \in Meant(disk, path)[Len(path)] : Bytes(disk, o.data, o.size) # {}
  BY DEF History, Sound, TreeSound

LEMMA ListedType ==
  ASSUME TypeOK, NEW c, NEW o \in Listed(disk, c)
  PROVE  o \in Object
  <1>1. PICK b \in Chain(disk, c) : Is(disk, b, "SOC") /\ o \in ToSet(disk[b].objects)
    BY DEF Listed
  <1>2. disk[b].objects \in Seq(Object)
    BY <1>1, HeldType DEF Holds, Container
  <1>3. PICK x \in DOMAIN disk[b].objects : disk[b].objects[x] = o
    BY <1>1 DEF ToSet
  <1>4. QED
    BY <1>2, <1>3, ElementType

LEMMA MeantNext ==
  ASSUME TypeOK, NEW n \in 1 .. Len(path)
  PROVE  /\ \A o \in Meant(disk, path)[n] :
              \E c \in Meant(disk, path)[n - 1] : \E b \in Chain(disk, c) :
                Is(disk, b, "SOC") /\ FitsIn(disk, path, n, b)
         /\ \A c \in Meant(disk, path)[n - 1] : \A b \in Chain(disk, c) :
              Is(disk, b, "SOC") => \A x \in DOMAIN disk[b].objects :
                 LET o == disk[b].objects[x]
                 IN  Same(o.name, path[n]) /\ (n < Len(path) => o.dir)
                       => o \in Meant(disk, path)[n]
         /\ \A o \in Meant(disk, path)[n] : o \in Object
  <1>1. Len(path) \in Nat
    BY DiskType
  <1>2. PICK m : m = Meant(disk, path)
    OBVIOUS
  <1> DEFINE Good(o) == Same(o.name, path[n]) /\ (n < Len(path) => o.dir)
  <1>3. m[n] = {o \in UNION {Listed(disk, c) : c \in m[n - 1]} : Good(o)}
    BY <1>1, <1>2, MeantTurn
  <1> HIDE DEF Good
  <1>4. ASSUME NEW o \in m[n]
        PROVE  /\ o \in Object
               /\ \E c \in m[n - 1] : \E b \in Chain(disk, c) :
                    Is(disk, b, "SOC") /\ FitsIn(disk, path, n, b)
    <2>1. Good(o) /\ \E c \in m[n - 1] : o \in Listed(disk, c)
      BY <1>3
    <2>2. PICK c \in m[n - 1] : o \in Listed(disk, c)
      BY <2>1
    <2>3. PICK b \in Chain(disk, c) : Is(disk, b, "SOC") /\ o \in ToSet(disk[b].objects)
      BY <2>2 DEF Listed
    <2>4. PICK x \in DOMAIN disk[b].objects : disk[b].objects[x] = o
      BY <2>3 DEF ToSet
    <2>5. FitsIn(disk, path, n, b)
      BY <2>1, <2>4 DEF Good, FitsIn
    <2>6. QED
      BY <2>2, <2>3, <2>5, ListedType
  <1>5. ASSUME NEW c \in m[n - 1], NEW b \in Chain(disk, c), Is(disk, b, "SOC"),
               NEW x \in DOMAIN disk[b].objects, Good(disk[b].objects[x])
        PROVE  disk[b].objects[x] \in m[n]
    <2>1. disk[b].objects[x] \in Listed(disk, c)
      BY <1>5 DEF Listed, ToSet
    <2>2. QED
      BY <1>3, <1>5, <2>1
  <1>6. QED
    BY <1>2, <1>4, <1>5 DEF Good

\* A directory that has just been come to.
LEMMA SearchBegins ==
  ASSUME TypeOK, NEW j, NEW o \in Meant(disk, path)[j - 1]
  PROVE  Searching(disk, path, j, o.size)
  <1>1. o.size = 0 \/ o.size \in Chain(disk, o)
    BY DiskFinite, ReachedClosed DEF Chain
  <1>2. QED
    BY <1>1 DEF Searching, Chain

\* A container of a sound directory can be read and is one.
LEMMA ContainerSound ==
  ASSUME TypeOK, History, sound, NEW j \in 1 .. Len(path),
         NEW o \in Meant(disk, path)[j - 1], NEW b \in Chain(disk, o)
  PROVE  Is(disk, b, "SOC") /\ ~disk[b].zero
  <1>1. j - 1 \in 0 .. Len(path) /\ j - 1 < Len(path)
    BY DiskType
  <1>2. DirectorySound(disk, o)
    BY <1>1, SoundDisk
  <1>3. QED
    BY <1>2 DEF DirectorySound

LEMMA SearchGoesOn ==
  ASSUME TypeOK, History, sound, NEW j \in 1 .. Len(path), NEW c, c # 0,
         Searching(disk, path, j, c), ~FitsIn(disk, path, j, c)
  PROVE  Is(disk, c, "SOC") /\ ~disk[c].zero /\ Searching(disk, path, j, disk[c].next)
  <1>1. PICK o \in Meant(disk, path)[j - 1] :
          /\ c \in Chain(disk, o)
          /\ \A b \in Chain(disk, o) :
               b \in Reached(disk, {c}, Follow(disk)) \/ ~FitsIn(disk, path, j, b)
    <2>1. {c} \ {0} = {c}
      OBVIOUS
    <2>2. QED
      BY <2>1 DEF Searching
  <1>2. Is(disk, c, "SOC") /\ ~disk[c].zero
    BY <1>1, ContainerSound
  <1>3. c \in DOMAIN disk /\ Follow(disk)[c] = {disk[c].next} \ {0}
    BY <1>2 DEF Is, Follow
  <1>4. disk[c].next = 0 \/ disk[c].next \in Chain(disk, o)
    BY <1>1, <1>3, DiskFinite, ReachedClosed DEF Chain, Closed
  <1>5. Reached(disk, {c}, Follow(disk)) \subseteq
          {c} \cup Reached(disk, {disk[c].next} \ {0}, Follow(disk))
    BY <1>3, DiskFinite, ReachedFrom
  <1>6. \A b \in Chain(disk, o) :
          \/ b \in Reached(disk, {disk[c].next} \ {0}, Follow(disk))
          \/ ~FitsIn(disk, path, j, b)
    BY <1>1, <1>5
  <1>7. QED
    BY <1>2, <1>4, <1>6 DEF Searching

\* At the end of a chain nothing is left that the path could stand for.
LEMMA SearchIsOver ==
  ASSUME TypeOK, History, sound, NEW j \in 1 .. Len(path),
         Searching(disk, path, j, 0)
  PROVE  wanted = {}
  <1>1. PICK o \in Meant(disk, path)[j - 1] :
          \A b \in Chain(disk, o) :
            \/ b \in Reached(disk, {0} \ {0}, Follow(disk))
            \/ ~FitsIn(disk, path, j, b)
    BY DEF Searching
  <1>2. {0} \ {0} = {} /\ Reached(disk, {}, Follow(disk)) = {}
    BY DiskFinite, ReachedFrom
  <1>3. \A b \in Chain(disk, o) : ~FitsIn(disk, path, j, b)
    BY <1>1, <1>2
  <1>4. Len(path) \in Nat /\ j \in Nat /\ j - 1 \in 0 .. Len(path)
    BY DiskType
  <1>5. AtMostOne(Meant(disk, path)[j - 1])
    BY <1>4, SoundDisk
  <1>6. \A c \in Meant(disk, path)[j - 1] : c = o
    BY <1>5 DEF AtMostOne
  <1>7. Meant(disk, path)[j] = {}
    BY <1>3, <1>6, MeantNext
  <1> DEFINE T == {n \in Nat : j + n <= Len(path) => Meant(disk, path)[j + n] = {}}
  <1>8. 0 \in T
    BY <1>4, <1>7
  <1>9. ASSUME NEW n \in Nat, n \in T PROVE n + 1 \in T
    <2>1. SUFFICES ASSUME j + (n + 1) <= Len(path)
                   PROVE  Meant(disk, path)[j + (n + 1)] = {}
      OBVIOUS
    <2>2. PICK y \in 1 .. Len(path) : y = j + (n + 1) /\ y - 1 = j + n
      BY <1>4, <2>1
    <2>3. Meant(disk, path)[y - 1] = {}
      BY <1>4, <1>9, <2>1, <2>2
    <2> HIDE DEF T
    <2>4. Meant(disk, path)[y] = {}
      BY <2>3, MeantNext
    <2>5. QED
      BY <2>2, <2>4
  <1> HIDE DEF T
  <1>10. Len(path) - j \in Nat /\ j + (Len(path) - j) = Len(path)
    BY <1>4
  <1>11. Len(path) - j \in T
    BY <1>8, <1>9, <1>10, Counting
  <1>12. Meant(disk, path)[Len(path)] = {}
    BY <1>4, <1>10, <1>11 DEF T
  <1>13. QED
    BY <1>12 DEF History, Content

-----------------------------------------------------------------------------
(* Steps.                                                                  *)

LEMMA InitOK == Init => IInv
  <1> SUFFICES ASSUME Init PROVE IInv
    OBVIOUS
  <1>1. PICK l \in Loads : disk = l.disk /\ path = l.path
    BY DEF Init
  <1>2. path \in Seq(Names) /\ path # <<>>
    BY <1>1, PathAssumption
  <1>3. Len(path) \in Nat \ {0}
    BY <1>2
  <1>4. image \in Seq(Byte) /\ readed = 0
    BY DEF Init, readed
  <1>5. TypeOK
    BY <1>1, <1>3, <1>4 DEF Init, TypeOK, Extent
  <1>6. QED
    BY <1>4, <1>5 DEF Init, IInv, NeverBeyond

LEMMA CreateOK == ASSUME IInv, Create PROVE IInv'
  <1> USE DEF Create
  <1>1. disk[0] \in RootBlock /\ disk[disk[0].root] \in Container
    BY HeldType DEF IInv, Mounts, Holds
  <1>2. tree' \in Nat
    BY <1>1 DEF RootBlock
  <1>3. RootObject(disk).size \in Nat
    <2>1. disk[disk[0].root].objects \in Seq(Object)
      BY <1>1 DEF Container
    <2>2. CASE disk[disk[0].root].objects # <<>>
      <3>1. disk[disk[0].root].objects[1] \in Object
        BY <2>1, <2>2
      <3>2. QED
        BY <2>2, <3>1 DEF RootObject, Object
    <2>3. CASE disk[disk[0].root].objects = <<>>
      BY <2>3 DEF RootObject
    <2>4. QED
      BY <2>2, <2>3
  <1>4. k \in 1 .. Len(path)
    BY DiskType DEF IInv
  <1>5. TypeOK'
    BY <1>2, <1>3, <1>4 DEF IInv, TypeOK, config
  <1>6. QED
    BY <1>5 DEF IInv, NeverBeyond, readed

LEMMA CreateFailsOK == ASSUME IInv, CreateFails PROVE IInv'
  <1> USE DEF CreateFails
  <1>1. TypeOK'
    BY DEF IInv, TypeOK, config
  <1>2. readed' = 0
    BY DEF IInv, readed
  <1>3. QED
    BY <1>1, <1>2 DEF IInv, TypeOK, NeverBeyond, readed, NoFile

\* The first object that fits is the next directory, or the file.
LEMMA SearchContainerOK == ASSUME IInv, SearchContainer PROVE IInv'
  <1> DEFINE b == Loaded(next, buffer)
             found == {x \in DOMAIN disk[b].objects : Fits(disk[b].objects[x])}
             o == disk[b].objects[Least(found)]
  <1>1. /\ pc = "chain" /\ Holds(b, "SOC")
        /\ UNCHANGED <<config, tree, at, extent, i, image, result>>
        /\ \/ found = {} /\ buffer' = b /\ next' = disk[b].next
                /\ UNCHANGED <<pc, k, size>>
           \/ /\ found # {} /\ buffer' = NoBlock /\ k' = k + 1
              /\ IF k < Len(path)
                 THEN next' = o.size /\ UNCHANGED <<pc, size>>
                 ELSE next' = o.data /\ size' = o.size /\ pc' = "extent"
    BY DEF SearchContainer
  <1>2. /\ b \in DOMAIN disk \cup {NoBlock}
        /\ disk[b].objects \in Seq(Object) /\ disk[b].next \in Nat
    BY <1>1, HeldType, LoadedType DEF IInv, Container
  <1>3. found # {} => o \in Object
    <2> SUFFICES ASSUME found # {} PROVE o \in Object
      OBVIOUS
    <2>1. found \subseteq DOMAIN disk[b].objects
      OBVIOUS
    <2> HIDE DEF found
    <2>2. found \in SUBSET Nat
      BY <1>2, <2>1
    <2>3. Least(found) \in DOMAIN disk[b].objects
      BY <2>1, <2>2, LeastExists
    <2>4. QED
      BY <1>2, <2>3
  <1> HIDE DEF b, found, o
  <1>4. image' = <<>> /\ readed' = 0 /\ readed = 0
    BY <1>1 DEF IInv, readed
  <1>5. k \in Nat /\ k >= 1 /\ k <= Len(path) /\ Len(path) \in Nat
    BY <1>1, DiskType DEF IInv, TypeOK
  <1>6. CASE found = {}
    <2>1. TypeOK'
      BY <1>1, <1>2, <1>6 DEF IInv, TypeOK, config
    <2>2. QED
      BY <1>1, <1>6, <2>1 DEF IInv, NeverBeyond, readed
  <1>7. CASE found # {}
    <2>1. o.size \in Nat /\ o.data \in Nat
      BY <1>3, <1>7 DEF Object
    <2>2. next' \in Nat /\ size' \in Nat /\ pc' \in {"chain", "extent"}
      BY <1>1, <1>7, <2>1 DEF IInv, TypeOK
    <2>3. k' \in 1 .. (Len(path) + 1) /\ (pc' = "chain" => k' <= Len(path))
      BY <1>1, <1>5, <1>7
    <2>4. TypeOK'
      BY <1>1, <1>7, <2>2, <2>3 DEF IInv, TypeOK, config
    <2>5. NeverBeyond'
      <3>1. readed' <= size'
        BY <1>4, <2>2
      <3>2. result' <= readed'
        BY <1>1, <1>4 DEF IInv, NeverBeyond
      <3>3. QED
        BY <3>1, <3>2 DEF NeverBeyond
    <2>6. QED
      BY <1>4, <2>2, <2>4, <2>5 DEF IInv
  <1>8. QED
    BY <1>6, <1>7

LEMMA SearchEndsOK == ASSUME IInv, SearchEnds PROVE IInv'
  <1>1. /\ pc' = "done" /\ result' = NoFile
        /\ UNCHANGED <<config, tree, k, next, buffer, size, at, extent, i, image>>
    BY DEF SearchEnds
  <1>2. TypeOK'
    BY <1>1 DEF IInv, TypeOK, config
  <1>3. readed' = readed /\ readed \in Nat
    BY <1>1 DEF IInv, TypeOK, readed
  <1>4. QED
    BY <1>1, <1>2, <1>3 DEF IInv, NeverBeyond, NoFile

LEMMA FileEndsOK == ASSUME IInv, FileEnds PROVE IInv'
  <1> USE DEF FileEnds
  <1>1. readed' = readed /\ readed \in Nat
    BY DEF IInv, TypeOK, readed
  <1>2. TypeOK'
    BY <1>1 DEF IInv, TypeOK, config
  <1>3. QED
    BY <1>1, <1>2 DEF IInv, NeverBeyond

LEMMA NextExtentOK == ASSUME IInv, NextExtent PROVE IInv'
  <1> USE DEF NextExtent
  <1>1. TypeOK'
    BY DEF IInv, TypeOK, config
  <1>2. QED
    BY <1>1 DEF IInv, NeverBeyond, readed

\* The extent taken is one of a node, or a stray one.
LEMMA TakeOK ==
  ASSUME IInv, pc = "tree", NEW e \in Extent, Take(e),
         UNCHANGED <<config, tree, k, next, buffer, size, image, result>>
  PROVE  IInv'
  <1> USE DEF Take
  <1>1. e.blocks \in Nat
    BY DEF Extent
  <1>2. TypeOK'
    BY <1>1 DEF IInv, TypeOK, config
  <1>3. QED
    BY <1>2 DEF IInv, NeverBeyond, readed

\* A page that can be searched has a greatest node below the key.
LEMMA BelowType ==
  ASSUME TypeOK, Searchable(at)
  PROVE  Greatest(Below(at)) \in DOMAIN disk[at].nodes
  <1>1. /\ Below(at) # {} /\ Below(at) \subseteq DOMAIN disk[at].nodes
        /\ Holds(at, "leaf") \/ Holds(at, "branch")
    BY DEF Searchable, Below
  <1>2. DOMAIN disk[at].nodes = 1 .. Len(disk[at].nodes) /\ Len(disk[at].nodes) \in Nat
    <2>1. CASE Holds(at, "leaf")
      <3>1. disk[at].nodes \in Seq([key : Nat, next : Nat, blocks : Nat])
        BY <2>1, HeldType DEF Leaf
      <3>2. QED
        BY <3>1
    <2>2. CASE Holds(at, "branch")
      <3>1. disk[at].nodes \in Seq([key : Nat, data : Nat])
        BY <2>2, HeldType DEF Branch
      <3>2. QED
        BY <3>1
    <2>3. QED
      BY <1>1, <2>1, <2>2
  <1>3. QED
    BY <1>1, <1>2, GreatestExists

LEMMA SearchLeafOK == ASSUME IInv, SearchLeaf PROVE IInv'
  <1> DEFINE n == disk[at].nodes[Greatest(Below(at))]
             e == [next |-> n.next, blocks |-> n.blocks]
  <1>1. /\ pc = "tree" /\ Holds(at, "leaf") /\ Searchable(at) /\ Take(e)
        /\ UNCHANGED <<config, tree, k, next, buffer, size, image, result>>
    BY DEF SearchLeaf
  <1>2. disk[at].nodes \in Seq([key : Nat, next : Nat, blocks : Nat])
    BY <1>1, HeldType DEF IInv, Leaf
  <1>3. Greatest(Below(at)) \in DOMAIN disk[at].nodes
    BY <1>1, BelowType DEF IInv
  <1>4. n \in [key : Nat, next : Nat, blocks : Nat]
    BY <1>2, <1>3, ElementType
  <1>5. e \in Extent
    BY <1>4 DEF Extent
  <1> HIDE DEF e
  <1>6. QED
    BY <1>1, <1>5, TakeOK

LEMMA SearchBranchOK == ASSUME IInv, SearchBranch PROVE IInv'
  <1> USE DEF SearchBranch
  <1>1. disk[at].nodes \in Seq([key : Nat, data : Nat])
    BY HeldType DEF IInv, Branch
  <1>2. Greatest(Below(at)) \in DOMAIN disk[at].nodes
    BY BelowType DEF IInv
  <1>3. disk[at].nodes[Greatest(Below(at))] \in [key : Nat, data : Nat]
    BY <1>1, <1>2, ElementType
  <1>4. at' \in Nat
    BY <1>3
  <1>5. TypeOK'
    BY <1>4 DEF IInv, TypeOK, config
  <1>6. QED
    BY <1>5 DEF IInv, NeverBeyond, readed

LEMMA SearchStraysOK == ASSUME IInv, SearchStrays PROVE IInv'
  <1>1. /\ pc = "tree"
        /\ UNCHANGED <<config, tree, k, next, buffer, size, image, result>>
        /\ \/ \E e \in Strays : Take(e)
           \/ at' \in DOMAIN disk /\ UNCHANGED <<pc, extent, i>>
    BY DEF SearchStrays
  <1>2. CASE \E e \in Strays : Take(e)
    BY <1>1, <1>2, TakeOK, SizeAssumption
  <1>3. CASE at' \in DOMAIN disk /\ UNCHANGED <<pc, extent, i>>
    <2>1. at' \in Nat
      BY <1>3, DiskType DEF IInv
    <2>2. TypeOK'
      BY <1>1, <1>3, <2>1 DEF IInv, TypeOK, config
    <2>3. QED
      BY <1>1, <1>3, <2>2 DEF IInv, NeverBeyond, readed
  <1>4. QED
    BY <1>1, <1>2, <1>3

\* A block adds no more than what the file still lacks.
LEMMA CopyBlockOK == ASSUME IInv, CopyBlock PROVE IInv'
  <1> USE DEF CopyBlock
  <1> DEFINE bytes == [x \in 1 .. ToCopy |-> <<buffer', x>>]
  <1>1. readed \in Nat /\ size \in Nat /\ readed <= size /\ result <= readed
    BY DEF IInv, TypeOK, NeverBeyond, readed
  <1>2. ToCopy \in Nat /\ ToCopy <= BlockSize /\ readed + ToCopy <= size
    BY <1>1, SizeAssumption DEF ToCopy
  <1>3. buffer' \in DOMAIN disk \cup {NoBlock} /\ buffer' \in Nat \cup {NoBlock}
    BY LoadedType, DiskType DEF IInv
  <1>4. \A x \in 1 .. ToCopy : <<buffer', x>> \in Byte
    <2>1. \A x \in 1 .. ToCopy : x \in 1 .. BlockSize
      BY <1>2, SizeAssumption
    <2>2. QED
      BY <1>3, <2>1 DEF Byte
  <1>5. bytes \in Seq(Byte) /\ Len(bytes) = ToCopy
    BY <1>2, <1>4
  <1>6. image \in Seq(Byte) /\ image' = image \o bytes
    BY DEF IInv, TypeOK
  <1> HIDE DEF bytes
  <1>7. image' \in Seq(Byte) /\ readed' = readed + ToCopy
    BY <1>5, <1>6, ConcatType DEF readed
  <1>8. i' \in Nat /\ i' <= extent.blocks
    BY DEF More, IInv, TypeOK, Extent
  <1>9. TypeOK'
    BY <1>3, <1>7, <1>8 DEF IInv, TypeOK, config
  <1>10. NeverBeyond'
    <2>1. result \in Int /\ result' = result /\ size' = size
      BY DEF IInv, TypeOK, NoFile
    <2>2. QED
      BY <1>1, <1>2, <1>7, <2>1 DEF NeverBeyond
  <1>11. QED
    BY <1>9, <1>10 DEF IInv

LEMMA ExtentEndsOK == ASSUME IInv, ExtentEnds PROVE IInv'
  <1> USE DEF ExtentEnds
  <1>1. next' \in Nat
    BY DEF IInv, TypeOK, Extent
  <1>2. TypeOK'
    BY <1>1 DEF IInv, TypeOK, config
  <1>3. QED
    BY <1>2 DEF IInv, NeverBeyond, readed

LEMMA StepOK == IInv /\ [Next]_vars => IInv'
  <1>1. ASSUME IInv, UNCHANGED vars PROVE IInv'
    BY <1>1 DEF vars, config, IInv, TypeOK, NeverBeyond, readed
  <1>2. QED
    BY <1>1, CreateOK, CreateFailsOK, SearchContainerOK, SearchEndsOK, FileEndsOK,
       NextExtentOK, SearchLeafOK, SearchBranchOK, SearchStraysOK, CopyBlockOK,
       ExtentEndsOK DEF Next

THEOREM Inductive == Spec => []IInv
  BY InitOK, StepOK, PTL DEF Spec

\* The driver's numbers keep their ranges on every disk.
THEOREM TypeCorrect == Spec => []TypeOK
  <1>1. IInv => TypeOK
    BY DEF IInv
  <1>2. QED
    BY <1>1, Inductive, PTL

\* On every disk, damaged ones and nodes read from nowhere included,
\* sfs_loadfile() puts no more in the buffer than the size of the object.
THEOREM BufferIsBounded == Spec => []NeverBeyond
  <1>1. IInv => NeverBeyond
    BY DEF IInv
  <1>2. QED
    BY <1>1, Inductive, PTL
-----------------------------------------------------------------------------
(* The promise of load_file() on a sound disk.                             *)

LEMMA WantedOnce ==
  ASSUME TypeOK, History, sound
  PROVE  AtMostOne(wanted) /\ \A w \in wanted : w \in Seq(Byte)
  <1> DEFINE L == Len(path)
             M == Meant(disk, path)[L]
  <1>1. L \in Nat \ {0} /\ L \in 0 .. L
    BY DiskType
  <1>2. AtMostOne(M) /\ Mounts(disk) /\ TreeSound(disk[0].tree)
    BY <1>1, SoundDisk
  <1>3. wanted = UNION {Bytes(disk, o.data, o.size) : o \in M}
    BY <1>2 DEF History, Content
  <1>4. ASSUME NEW o \in M PROVE o.data \in Nat /\ o.size \in Nat
    <2>1. L \in 1 .. Len(path)
      BY <1>1
    <2>2. o \in Object
      BY <2>1, MeantNext
    <2>3. QED
      BY <2>2 DEF Object
  <1>5. Blocks(disk) \in 0 .. Blocks(disk)
    BY DiskFinite DEF Blocks
  <1> HIDE DEF M, L
  <1>6. ASSUME NEW o \in M
        PROVE  /\ AtMostOne(Bytes(disk, o.data, o.size))
               /\ \A w \in Bytes(disk, o.data, o.size) : w \in Seq(Byte)
    <2>1. Bytes(disk, o.data, o.size) = Spelled(disk)[Blocks(disk)][o.data][o.size]
      BY BytesAreSpelled DEF Blocks
    <2>2. QED
      BY <1>2, <1>4, <1>5, <2>1, SpelledOnce, SpelledType
  <1>7. AtMostOne(wanted)
    <2>1. SUFFICES ASSUME NEW v \in wanted, NEW w \in wanted PROVE v = w
      BY DEF AtMostOne
    <2>2. PICK o \in M : v \in Bytes(disk, o.data, o.size)
      BY <1>3
    <2>3. PICK u \in M : w \in Bytes(disk, u.data, u.size)
      BY <1>3
    <2>4. o = u
      BY <1>2 DEF AtMostOne
    <2>5. QED
      BY <1>6, <2>2, <2>3, <2>4 DEF AtMostOne
  <1>8. QED
    BY <1>3, <1>6, <1>7

LEMMA LoadInit == Init => LoadInv
  BY InitOK DEF Init, LoadInv, History

LEMMA CreateLoad == ASSUME LoadInv, Create PROVE LoadInv'
  <1>1. IInv' /\ TypeOK
    BY CreateOK DEF LoadInv, IInv
  <1>2. /\ UNCHANGED <<disk, path, sound, wanted>> /\ pc' = "chain" /\ k = 1 /\ k' = k
        /\ tree' = disk[0].tree /\ next' = RootObject(disk).size
    BY DEF Create, config, LoadInv, IInv
  <1>3. Searching(disk, path, 1, RootObject(disk).size)
    <2>1. Len(path) \in Nat
      BY <1>1, DiskType
    <2>2. PICK m : m = Meant(disk, path)
      OBVIOUS
    <2>3. m[0] = {RootObject(disk)}
      BY <2>1, <2>2, MeantTurn
    <2>4. RootObject(disk) \in Meant(disk, path)[1 - 1]
      BY <2>2, <2>3
    <2>5. QED
      BY <1>1, <2>4, SearchBegins
  <1>4. Searching(disk', path', k', next')
    BY <1>2, <1>3
  <1>5. QED
    BY <1>1, <1>2, <1>4 DEF LoadInv, History

LEMMA CreateFailsLoad ==
  ASSUME LoadInv, CreateFails
  PROVE  LoadInv' /\ ~sound
  <1>1. IInv' /\ TypeOK /\ History
    BY CreateFailsOK DEF LoadInv, IInv
  <1>2. UNCHANGED <<disk, path, sound, wanted>> /\ pc' = "done" /\ ~Mounts(disk)
    BY DEF CreateFails, config
  <1>3. ~sound
    BY <1>1, <1>2, SoundDisk
  <1>4. QED
    BY <1>1, <1>2, <1>3 DEF LoadInv, History

\* The file found is the one that is wanted, from its first byte on.
LEMMA FileBegins ==
  ASSUME TypeOK, History, sound, NEW o \in Meant(disk, path)[Len(path)]
  PROVE  Awaited(disk, wanted, <<>>, o.size, o.data)
  <1>1. Len(path) \in 1 .. Len(path) /\ Mounts(disk)
    BY DiskType, SoundDisk
  <1>2. o \in Object /\ o.size \in Nat /\ o.data \in Nat
    BY <1>1, MeantNext DEF Object
  <1>3. PICK w \in Bytes(disk, o.data, o.size) : TRUE
    BY SoundDisk
  <1>4. w \in wanted
    BY <1>1, <1>3 DEF History, Content
  <1>5. Blocks(disk) \in 0 .. Blocks(disk)
    BY DiskFinite DEF Blocks
  <1>6. w \in Spelled(disk)[Blocks(disk)][o.data][o.size]
    BY <1>3, BytesAreSpelled DEF Blocks
  <1>7. Len(w) = o.size
    BY <1>2, <1>5, <1>6, SpelledType
  <1>8. Len(<<>>) = 0 /\ o.size - 0 = o.size /\ \A x \in 1 .. o.size : 0 + x = x
    BY <1>2
  <1>9. Ahead(disk, o.size, w, Len(<<>>), Blocks(disk), o.data)
    BY <1>6, <1>8 DEF Ahead
  <1>10. Begun(w, <<>>, o.size)
    BY <1>7, <1>8 DEF Begun
  <1>11. QED
    BY <1>4, <1>5, <1>9, <1>10 DEF Awaited

LEMMA SearchContainerLoad ==
  ASSUME LoadInv, SearchContainer
  PROVE  LoadInv'
  <1> DEFINE b == Loaded(next, buffer)
             found == {x \in DOMAIN disk[b].objects : Fits(disk[b].objects[x])}
             o == disk[b].objects[Least(found)]
  <1>1. IInv' /\ IInv /\ TypeOK /\ History
    BY SearchContainerOK DEF LoadInv, IInv
  <1>2. /\ pc = "chain" /\ next # 0
        /\ UNCHANGED <<disk, path, sound, wanted, tree, image>>
        /\ \/ found = {} /\ next' = disk[b].next /\ UNCHANGED <<pc, k, size>>
           \/ /\ found # {} /\ k' = k + 1
              /\ IF k < Len(path)
                 THEN next' = o.size /\ UNCHANGED <<pc, size>>
                 ELSE next' = o.data /\ size' = o.size /\ pc' = "extent"
    BY DEF SearchContainer, config
  <1> HIDE DEF found, o
  <1>3. CASE ~sound
    BY <1>1, <1>2, <1>3 DEF LoadInv, History
  <1>4. CASE sound
    <2>1. Searching(disk, path, k, next) /\ tree = disk[0].tree
      BY <1>2, <1>4 DEF LoadInv
    <2>2. k \in 1 .. Len(path) /\ Len(path) \in Nat
      BY <1>1, <1>2, DiskType DEF TypeOK
    <2>3. PICK c \in Meant(disk, path)[k - 1] : next \in Chain(disk, c)
      BY <1>2, <2>1 DEF Searching
    <2>4. Is(disk, next, "SOC")
      BY <1>1, <1>4, <2>2, <2>3, ContainerSound
    <2>5. b = next
      BY <2>4 DEF Is, Loaded
    <2>6. found # {} <=> FitsIn(disk, path, k, next)
      BY <2>5 DEF found, FitsIn, Fits
    <2>7. CASE found = {}
      <3>1. Searching(disk, path, k, disk[next].next)
        BY <1>1, <1>2, <1>4, <2>1, <2>2, <2>6, <2>7, SearchGoesOn
      <3>2. Searching(disk', path', k', next') /\ pc' = "chain"
        BY <1>2, <2>5, <2>7, <3>1
      <3>3. QED
        BY <1>1, <1>2, <2>1, <3>2 DEF LoadInv, History
    <2>8. CASE found # {}
      <3>1. Least(found) \in found
        <4>1. disk[next].objects \in Seq(Object)
          BY <1>1, <2>4, HeldType DEF Holds, Container
        <4>2. found \subseteq DOMAIN disk[next].objects
          BY <2>5 DEF found
        <4>3. found \in SUBSET Nat
          BY <4>1, <4>2
        <4>4. QED
          BY <2>8, <4>3, LeastExists
      <3>2. Least(found) \in DOMAIN disk[next].objects /\ Fits(o) /\ o = disk[next].objects[Least(found)]
        BY <2>5, <3>1 DEF found, o
      <3>3. o \in Meant(disk, path)[k]
        BY <1>1, <2>2, <2>3, <2>4, <3>2, MeantNext DEF Fits
      <3>4. CASE k < Len(path)
        <4>1. k' = k + 1 /\ next' = o.size /\ pc' = "chain"
          BY <1>2, <2>8, <3>4
        <4>2. (k + 1) - 1 = k
          BY <2>2
        <4>3. o \in Meant(disk, path)[(k + 1) - 1]
          BY <3>3, <4>2
        <4>4. Searching(disk, path, k + 1, o.size)
          BY <1>1, <4>3, SearchBegins
        <4>5. Searching(disk', path', k', next')
          BY <1>2, <4>1, <4>4
        <4>6. QED
          BY <1>1, <1>2, <2>1, <4>1, <4>5 DEF LoadInv, History
      <3>5. CASE ~(k < Len(path))
        <4>1. next' = o.data /\ size' = o.size /\ pc' = "extent" /\ image' = <<>>
          BY <1>1, <1>2, <2>8, <3>5 DEF IInv
        <4>2. k = Len(path)
          BY <2>2, <3>5
        <4>3. Awaited(disk, wanted, <<>>, o.size, o.data)
          BY <1>1, <1>4, <3>3, <4>2, FileBegins
        <4>4. Awaited(disk', wanted', image', size', next')
          BY <1>2, <4>1, <4>3
        <4>5. QED
          BY <1>1, <1>2, <2>1, <4>1, <4>4 DEF LoadInv, History
      <3>6. QED
        BY <3>4, <3>5
    <2>9. QED
      BY <2>7, <2>8
  <1>5. QED
    BY <1>3, <1>4

LEMMA SearchEndsLoad ==
  ASSUME LoadInv, SearchEnds
  PROVE  LoadInv' /\ (sound => wanted = {})
  <1> DEFINE b == Loaded(next, buffer)
  <1>1. IInv' /\ TypeOK /\ History
    BY SearchEndsOK DEF LoadInv, IInv
  <1>2. /\ pc = "chain" /\ pc' = "done"
        /\ next = 0 \/ Refused(b) \/ ~Holds(b, "SOC")
        /\ UNCHANGED <<disk, path, sound, wanted, tree>>
    BY DEF SearchEnds, config
  <1>3. ASSUME sound PROVE wanted = {}
    <2>1. Searching(disk, path, k, next)
      BY <1>2, <1>3 DEF LoadInv
    <2>2. k \in 1 .. Len(path)
      BY <1>1, <1>2, DiskType DEF TypeOK
    <2>3. CASE next = 0
      BY <1>1, <1>3, <2>1, <2>2, <2>3, SearchIsOver
    <2>4. CASE next # 0
      <3>1. PICK c \in Meant(disk, path)[k - 1] : next \in Chain(disk, c)
        BY <2>1, <2>4 DEF Searching
      <3>2. Is(disk, next, "SOC") /\ ~disk[next].zero
        BY <1>1, <1>3, <2>2, <3>1, ContainerSound
      <3>3. b = next
        BY <3>2 DEF Is, Loaded
      <3>4. QED
        BY <1>2, <2>4, <3>2, <3>3 DEF Refused, Holds
    <2>5. QED
      BY <2>3, <2>4
  <1>4. sound' /\ pc' # "create" => tree' = disk'[0].tree
    BY <1>2 DEF LoadInv
  <1>5. QED
    BY <1>1, <1>2, <1>3, <1>4 DEF LoadInv, History

LEMMA PrefixOf ==
  ASSUME NEW S, NEW s \in Seq(S), NEW t \in Seq(S), Len(s) <= Len(t),
         \A x \in 1 .. Len(s) : s[x] = t[x]
  PROVE  IsPrefix(s, t)
  <1>1. Len(s) \in Nat /\ Len(t) \in Nat
    OBVIOUS
  <1>2. SubSeq(s, 1, Len(s)) = [x \in 1 .. Len(s) |-> s[x]]
    OBVIOUS
  <1>3. SubSeq(t, 1, Len(s)) = [x \in 1 .. Len(s) |-> t[x]]
    BY <1>1
  <1>4. QED
    BY <1>2, <1>3 DEF IsPrefix

LEMMA FileEndsLoad ==
  ASSUME LoadInv, FileEnds
  PROVE  LoadInv' /\ (sound => \E w \in wanted : image = w /\ result' = Len(w))
  <1>1. IInv' /\ IInv /\ TypeOK /\ History
    BY FileEndsOK DEF LoadInv, IInv
  <1>2. /\ pc = "extent" /\ pc' = "done" /\ (next = 0 \/ readed >= size)
        /\ result' = readed /\ UNCHANGED <<disk, path, sound, wanted, tree>>
    BY DEF FileEnds, config
  <1>3. ASSUME sound PROVE \E w \in wanted : image = w /\ result' = Len(w)
    <2>1. Awaited(disk, wanted, image, size, next)
      BY <1>2, <1>3 DEF LoadInv
    <2>2. PICK w \in wanted :
            /\ Begun(w, image, size)
            /\ \E n \in 0 .. Blocks(disk) : Ahead(disk, size, w, readed, n, next)
      BY <2>1 DEF Awaited, readed
    <2>3. PICK n \in 0 .. Blocks(disk) : Ahead(disk, size, w, readed, n, next)
      BY <2>2
    <2>4. PICK r \in Spelled(disk)[n][next][size - readed] : TRUE
      BY <2>3 DEF Ahead
    <2>5. readed \in Nat /\ size \in Nat /\ next \in Nat /\ readed <= size
      BY <1>1 DEF IInv, TypeOK, NeverBeyond, readed
    <2>6. readed = size
      <3>1. SUFFICES ASSUME readed < size PROVE FALSE
        BY <2>5
      <3>2. size - readed \in Nat /\ size - readed # 0 /\ next = 0
        BY <1>2, <2>5, <3>1
      <3>3. QED
        BY <1>1, <2>4, <3>2, SpelledFirst
    <2>7. w \in Seq(Byte) /\ image \in Seq(Byte)
      BY <1>1, <1>3, WantedOnce DEF TypeOK
    <2>8. Len(w) = Len(image) /\ \A x \in 1 .. Len(image) : image[x] = w[x]
      BY <2>2, <2>6 DEF Begun, readed
    <2>9. image = w
      BY <2>7, <2>8
    <2>10. QED
      BY <1>2, <2>8, <2>9 DEF readed
  <1>4. QED
    BY <1>1, <1>2, <1>3 DEF LoadInv, History

LEMMA NextExtentLoad == ASSUME LoadInv, NextExtent PROVE LoadInv'
  <1>1. IInv' /\ IInv /\ TypeOK /\ History
    BY NextExtentOK DEF LoadInv, IInv
  <1>2. /\ pc = "extent" /\ pc' = "tree" /\ at' = tree /\ next # 0 /\ readed < size
        /\ UNCHANGED <<disk, path, sound, wanted, tree, next, size, image>>
    BY DEF NextExtent, config
  <1>3. CASE ~sound
    BY <1>1, <1>2, <1>3 DEF LoadInv, History
  <1>4. CASE sound
    <2>1. tree = disk[0].tree /\ Awaited(disk, wanted, image, size, next)
      BY <1>2, <1>4 DEF LoadInv
    <2>2. tree \in Pages(disk, tree)
      BY <1>1, PageItself
    <2>3. \A e \in Extents(disk) : Under(disk, tree, e)
      BY <1>1, <2>1, ExtentType
    <2>4. Awaited(disk', wanted', image', size', next')
      BY <1>2, <2>1
    <2>5. /\ next' # 0 /\ readed' < size' /\ at' \in Pages(disk', tree')
          /\ \A e \in Extents(disk') : e.key = next' => Under(disk', at', e)
      BY <1>2, <2>2, <2>3 DEF readed
    <2>6. QED
      BY <1>1, <1>2, <2>1, <2>4, <2>5 DEF LoadInv, History
  <1>5. QED
    BY <1>3, <1>4

\* e, which lies under the page searched, is where r, the rest of w, starts.
StartsUnder(w, n, r, e) ==
  /\ Begun(w, image, size) /\ n # 0
  /\ r \in Spelled(disk)[n][next][size - readed]
  /\ \A x \in 1 .. (size - readed) : w[readed + x] = r[x]
  /\ Opens(n, next, size - readed, r, e)
  /\ Under(disk, at, e) /\ PageSound(disk, at)

\* While the tree is searched the extent looked for lies under the page.
LEMMA PageHolds ==
  ASSUME LoadInv, sound, pc = "tree"
  PROVE  \E w \in wanted : \E n \in 0 .. Blocks(disk) : \E r, e : StartsUnder(w, n, r, e)
  <1>1. IInv /\ TypeOK /\ History
    BY DEF LoadInv, IInv
  <1>2. /\ tree = disk[0].tree /\ Awaited(disk, wanted, image, size, next)
        /\ next # 0 /\ readed < size /\ at \in Pages(disk, tree)
        /\ \A e \in Extents(disk) : e.key = next => Under(disk, at, e)
    BY DEF LoadInv
  <1>3. PICK w \in wanted :
          /\ Begun(w, image, size)
          /\ \E n \in 0 .. Blocks(disk) : Ahead(disk, size, w, readed, n, next)
    BY <1>2 DEF Awaited, readed
  <1>4. PICK n \in 0 .. Blocks(disk) : Ahead(disk, size, w, readed, n, next)
    BY <1>3
  <1>5. PICK r \in Spelled(disk)[n][next][size - readed] :
          \A x \in 1 .. (size - readed) : w[readed + x] = r[x]
    BY <1>4 DEF Ahead
  <1>6. next \in Nat /\ size - readed \in Nat /\ size - readed # 0
    BY <1>1, <1>2 DEF TypeOK, readed
  <1>7. n # 0 /\ \E e : Opens(n, next, size - readed, r, e)
    BY <1>1, <1>5, <1>6, SpelledFirst
  <1>8. PICK e : Opens(n, next, size - readed, r, e)
    BY <1>7
  <1>9. Under(disk, at, e)
    BY <1>2, <1>8 DEF Opens
  <1>10. PageSound(disk, at)
    BY <1>1, <1>2, SoundDisk DEF TreeSound
  <1>11. QED
    BY <1>3, <1>5, <1>7, <1>8, <1>9, <1>10 DEF StartsUnder

LEMMA SearchLeafLoad == ASSUME LoadInv, SearchLeaf PROVE LoadInv'
  <1>1. IInv' /\ IInv /\ TypeOK /\ History
    BY SearchLeafOK DEF LoadInv, IInv
  <1> DEFINE node == disk[at].nodes[Greatest(Below(at))]
  <1>2. /\ pc = "tree" /\ Holds(at, "leaf") /\ pc' = "copy" /\ i' = 0
        /\ extent' = [next |-> node.next, blocks |-> node.blocks]
        /\ UNCHANGED <<disk, path, sound, wanted, tree, next, size, image>>
    BY DEF SearchLeaf, Take, config
  <1> HIDE DEF node
  <1>3. CASE ~sound
    BY <1>1, <1>2, <1>3 DEF LoadInv, History
  <1>4. CASE sound
    <2>0a. PICK w \in wanted : \E n \in 0 .. Blocks(disk) : \E r, e : StartsUnder(w, n, r, e)
      BY <1>2, <1>4, PageHolds
    <2>0b. PICK n \in 0 .. Blocks(disk) : \E r, e : StartsUnder(w, n, r, e)
      BY <2>0a
    <2>0c. PICK r, e : StartsUnder(w, n, r, e)
      BY <2>0b
    <2>1. /\ Begun(w, image, size) /\ n # 0
          /\ r \in Spelled(disk)[n][next][size - readed]
          /\ \A x \in 1 .. (size - readed) : w[readed + x] = r[x]
          /\ Opens(n, next, size - readed, r, e)
          /\ Under(disk, at, e) /\ PageSound(disk, at)
      BY <2>0c DEF StartsUnder
    <2>2. e \in Extents(disk) /\ e.key = next /\ Readable(disk, e) /\ e \in Nodes
      BY <1>1, <2>1, ExtentType DEF Opens
    <2>3. node = e
      <3>1. Below(at) = {x \in DOMAIN disk[at].nodes : disk[at].nodes[x].key <= e.key}
        BY <2>2 DEF Below
      <3>2. Is(disk, at, "leaf")
        BY <1>2 DEF Holds
      <3> DEFINE S == {x \in DOMAIN disk[at].nodes : disk[at].nodes[x].key <= e.key}
      <3>3. disk[at].nodes[Greatest(S)] = e
        BY <1>1, <2>1, <3>2, LeafPlace
      <3> HIDE DEF S
      <3>4. Below(at) = S
        BY <3>1 DEF S
      <3>5. QED
        BY <3>3, <3>4 DEF node
    <2> DEFINE l == size - readed
    <2>4. readed \in Nat /\ size \in Nat /\ readed < size /\ l \in Nat /\ readed + l = size
      BY <1>1, <1>2, <1>4 DEF TypeOK, readed, LoadInv
    <2>5. PICK rest \in Spelled(disk)[n - 1][e.next][l - Here(e, l)] :
            r = Given(e, l) \o rest
      BY <2>1 DEF Opens
    <2>6. /\ Given(e, l) \in Seq(Byte) /\ Len(Given(e, l)) = Here(e, l)
          /\ Here(e, l) \in Nat /\ l - Here(e, l) \in Nat
      BY <2>2, <2>4, GivenType
    <2>7. n - 1 \in 0 .. Blocks(disk) /\ e.next \in Nat
      BY <1>1, <2>1, <2>2, DiskFinite DEF Blocks, Nodes
    <2>8. rest \in Seq(Byte) /\ Len(rest) = l - Here(e, l)
      BY <1>1, <2>5, <2>6, <2>7, SpelledType
    <2> HIDE DEF l
    <2>9. /\ \A x \in 1 .. Here(e, l) : r[x] = Given(e, l)[x]
          /\ \A x \in 1 .. (l - Here(e, l)) : r[Here(e, l) + x] = rest[x]
      BY <2>5, <2>6, <2>8
    <2>10. \A x \in 1 .. Here(e, l) : w[readed + x] = Given(e, l)[x]
      <3>1. TAKE x \in 1 .. Here(e, l)
      <3>2. x \in 1 .. l
        BY <2>4, <2>6
      <3>3. QED
        BY <2>1, <2>9, <3>2 DEF l
    <2>11. Ahead(disk, size, w, readed + Here(e, l), n - 1, e.next)
      <3>1. size - (readed + Here(e, l)) = l - Here(e, l)
        BY <2>4, <2>6
      <3>2. ASSUME NEW x \in 1 .. (l - Here(e, l))
            PROVE  w[(readed + Here(e, l)) + x] = rest[x]
        <4>1. Here(e, l) + x \in 1 .. l /\ (readed + Here(e, l)) + x = readed + (Here(e, l) + x)
          BY <2>4, <2>6
        <4>2. QED
          BY <2>1, <2>9, <4>1 DEF l
      <3>3. QED
        BY <2>5, <3>1, <3>2 DEF Ahead
    <2>12. Copying(disk, wanted, image, size, next, extent', 0)
      <3>1. extent'.next = e.next /\ extent'.blocks = e.blocks
        BY <1>2, <2>3
      <3>2. readed \in 0 .. size
        BY <2>4
      <3>3. 0 * BlockSize = 0
        BY SizeAssumption
      <3>4. Len(image) = readed + (IF 0 * BlockSize < size - readed
                                   THEN 0 * BlockSize ELSE size - readed)
        BY <2>4, <3>3 DEF readed
      <3>5. QED
        BY <2>1, <2>2, <2>7, <2>10, <2>11, <3>1, <3>2, <3>4 DEF Copying, l
    <2>13. Copying(disk', wanted', image', size', next', extent', i')
      BY <1>2, <2>12
    <2>14. tree' = disk'[0].tree
      BY <1>2, <1>4 DEF LoadInv
    <2>15. QED
      BY <1>1, <1>2, <2>13, <2>14 DEF LoadInv, History
  <1>5. QED
    BY <1>3, <1>4

LEMMA SearchBranchLoad == ASSUME LoadInv, SearchBranch PROVE LoadInv'
  <1>1. IInv' /\ IInv /\ TypeOK /\ History
    BY SearchBranchOK DEF LoadInv, IInv
  <1> DEFINE child == disk[at].nodes[Greatest(Below(at))].data
  <1>2. /\ pc = "tree" /\ Holds(at, "branch") /\ pc' = pc /\ at' = child
        /\ UNCHANGED <<disk, path, sound, wanted, tree, next, size, image>>
    BY DEF SearchBranch, config
  <1> HIDE DEF child
  <1>3. CASE ~sound
    BY <1>1, <1>2, <1>3 DEF LoadInv, History
  <1>4. CASE sound
    <2>1. /\ tree = disk[0].tree /\ Awaited(disk, wanted, image, size, next)
          /\ next # 0 /\ readed < size /\ at \in Pages(disk, tree)
          /\ \A e \in Extents(disk) : e.key = next => Under(disk, at, e)
      BY <1>2, <1>4 DEF LoadInv
    <2>2. PageSound(disk, at) /\ Is(disk, at, "branch")
      BY <1>1, <1>2, <1>4, <2>1, SoundDisk DEF TreeSound, Holds
    <2>3. ASSUME NEW e, Under(disk, at, e), e.key = next
          PROVE  child \in Children(disk)[at] /\ Under(disk, child, e)
      <3>1. Below(at) = {x \in DOMAIN disk[at].nodes : disk[at].nodes[x].key <= e.key}
        BY <2>3 DEF Below
      <3>2. QED
        BY <1>1, <2>2, <2>3, <3>1, BranchPlace DEF child
    <2>4. \E e : Under(disk, at, e) /\ e.key = next
      BY <1>2, <1>4, PageHolds DEF StartsUnder, Opens
    <2>5. child \in Children(disk)[at]
      BY <2>3, <2>4
    <2>6. Closed(disk, Children(disk), Pages(disk, tree))
      BY <1>1, DiskFinite, ReachedClosed DEF Pages
    <2>7. at \in DOMAIN disk
      BY <2>2 DEF Is
    <2>8. child \in Pages(disk, tree)
      BY <2>1, <2>5, <2>6, <2>7 DEF Closed
    <2>9. \A e \in Extents(disk) : e.key = next => Under(disk, child, e)
      BY <2>1, <2>3
    <2>10. /\ next' # 0 /\ readed' < size' /\ at' \in Pages(disk', tree')
           /\ \A e \in Extents(disk') : e.key = next' => Under(disk', at', e)
      BY <1>2, <2>1, <2>8, <2>9 DEF readed
    <2>11. Awaited(disk', wanted', image', size', next')
      BY <1>2, <2>1
    <2>12. tree' = disk'[0].tree
      BY <1>2, <2>1
    <2>13. QED
      BY <1>1, <1>2, <2>10, <2>11, <2>12 DEF LoadInv, History
  <1>5. QED
    BY <1>3, <1>4

\* The search of a sound tree never leaves it.
LEMMA SearchStraysLoad ==
  ASSUME LoadInv, SearchStrays
  PROVE  LoadInv' /\ ~sound
  <1>1. IInv' /\ IInv /\ TypeOK /\ History
    BY SearchStraysOK DEF LoadInv, IInv
  <1>2. /\ pc = "tree" /\ ~Searchable(at)
        /\ UNCHANGED <<disk, path, sound, wanted>>
    BY DEF SearchStrays, config
  <1>3. ASSUME sound PROVE FALSE
    <2>1. PICK e : Under(disk, at, e) /\ e.key = next /\ PageSound(disk, at)
      BY <1>2, <1>3, PageHolds DEF StartsUnder, Opens
    <2>2. Below(at) = {x \in DOMAIN disk[at].nodes : disk[at].nodes[x].key <= e.key}
      BY <2>1 DEF Below
    <2>3. Is(disk, at, "leaf") \/ Is(disk, at, "branch")
      BY <2>1 DEF PageSound
    <2>4. Below(at) # {}
      <3> DEFINE S == {x \in DOMAIN disk[at].nodes : disk[at].nodes[x].key <= e.key}
      <3>1. CASE Is(disk, at, "leaf")
        <4>1. S # {}
          BY <1>1, <2>1, <3>1, LeafPlace
        <4>2. QED
          BY <2>2, <4>1
      <3>2. CASE Is(disk, at, "branch")
        <4>1. S # {}
          BY <1>1, <2>1, <3>2, BranchPlace
        <4>2. QED
          BY <2>2, <4>1
      <3>3. QED
        BY <2>3, <3>1, <3>2
    <2>5. ~Refused(at)
      BY <2>1, <2>3 DEF PageSound, Refused, Holds, Is
    <2>6. QED
      BY <1>2, <2>3, <2>4, <2>5 DEF Searchable, Holds
  <1>4. QED
    BY <1>1, <1>2, <1>3 DEF LoadInv, History

\* The place of byte x of the j-th block.
LEMMA PlaceOf ==
  ASSUME NEW j \in Nat, NEW x \in 1 .. BlockSize
  PROVE  /\ (j * BlockSize + x - 1) \div BlockSize = j
         /\ (j * BlockSize + x - 1) % BlockSize = x - 1
  BY SizeAssumption, SMT

LEMMA WholeBlocks ==
  ASSUME NEW j \in Nat, NEW m \in Nat, j + 1 <= m
  PROVE  /\ (j + 1) * BlockSize = j * BlockSize + BlockSize
         /\ (j + 1) * BlockSize <= m * BlockSize
         /\ j * BlockSize \in Nat /\ m * BlockSize \in Nat
  BY SizeAssumption, SMT

\* A block of the extent: the next bytes of the file, if any are left.
LEMMA CopyBlockLoad ==
  ASSUME LoadInv, CopyBlock
  PROVE  /\ LoadInv'
         /\ sound => \E w \in wanted : IsPrefix(image, image') /\ IsPrefix(image', w)
  <1>1. IInv' /\ IInv /\ TypeOK /\ History
    BY CopyBlockOK DEF LoadInv, IInv
  <1>2. /\ pc = "copy" /\ pc' = pc /\ i < extent.blocks /\ i' = i + 1
        /\ buffer' = Loaded(next + i, buffer)
        /\ image' = image \o [x \in 1 .. ToCopy |-> <<buffer', x>>]
        /\ UNCHANGED <<disk, path, sound, wanted, tree, next, size, extent>>
    BY DEF CopyBlock, More, config
  <1>3. CASE ~sound
    BY <1>1, <1>2, <1>3 DEF LoadInv, History
  <1>4. CASE sound
    <2>1. Copying(disk, wanted, image, size, next, extent, i)
      BY <1>2, <1>4 DEF LoadInv
    <2>2. PICK w \in wanted, e \in Extents(disk), b \in 0 .. size, n \in 0 .. Blocks(disk) :
            /\ Begun(w, image, size)
            /\ e.key = next /\ Readable(disk, e)
            /\ extent.next = e.next /\ extent.blocks = e.blocks
            /\ Len(image) = b + (IF i * BlockSize < size - b THEN i * BlockSize ELSE size - b)
            /\ \A y \in 1 .. Here(e, size - b) : w[b + y] = Given(e, size - b)[y]
            /\ Ahead(disk, size, w, b + Here(e, size - b), n, e.next)
      BY <2>1 DEF Copying
    <2>3. e \in Nodes /\ e.key \in Nat /\ e.blocks \in Nat
      BY <1>1, ExtentType DEF Nodes
    <2>4. /\ i \in Nat /\ size \in Nat /\ next \in Nat /\ i + 1 <= e.blocks
          /\ BlockSize \in Nat \ {0} /\ b \in Nat /\ size - b \in Nat
      <3>1. i \in Nat /\ size \in Nat /\ next \in Nat /\ BlockSize \in Nat \ {0}
        BY <1>1, SizeAssumption DEF TypeOK
      <3>2. e.blocks \in Nat /\ i < e.blocks
        BY <1>2, <2>2, <2>3
      <3>3. b \in 0 .. size
        BY <2>2
      <3>4. QED
        BY ONLY <3>1, <3>2, <3>3
    <2>5. buffer' = next + i
      <3>1. next + i \in e.key .. (e.key + e.blocks - 1)
        BY <2>2, <2>3, <2>4
      <3>2. QED
        BY <1>2, <2>2, <3>1 DEF Readable, Loaded
    <2> DEFINE done == i * BlockSize
               l == size - b
    <2>6. /\ done \in Nat /\ (i + 1) * BlockSize = done + BlockSize
          /\ done + BlockSize <= e.blocks * BlockSize /\ e.blocks * BlockSize \in Nat
      BY <2>3, <2>4, WholeBlocks
    <2>7. Len(image) = b + (IF done < l THEN done ELSE l) /\ Len(image) \in Nat
      BY <1>1, <2>2 DEF TypeOK
    <2>8. /\ ToCopy = IF size - Len(image) >= BlockSize THEN BlockSize
                      ELSE size - Len(image)
      BY DEF ToCopy, readed
    <2>9. /\ l \in Nat /\ size = b + l
      BY <2>4
    <2> HIDE DEF done, l
    <2>10. /\ ToCopy \in 0 .. BlockSize
           /\ Len(image) + ToCopy = b + (IF done + BlockSize < l THEN done + BlockSize ELSE l)
      BY <2>4, <2>6, <2>7, <2>8, <2>9
    <2> DEFINE bytes == [x \in 1 .. ToCopy |-> <<buffer', x>>]
    <2>11. /\ bytes \in Seq(Byte) /\ Len(bytes) = ToCopy
           /\ \A x \in 1 .. ToCopy : bytes[x] = <<next + i, x>>
      <3>1. ToCopy \in Nat /\ \A x \in 1 .. ToCopy : x \in 1 .. BlockSize
        BY <2>4, <2>10
      <3>2. \A x \in 1 .. ToCopy : <<buffer', x>> \in Byte
        BY <2>4, <2>5, <3>1 DEF Byte
      <3>3. QED
        BY <2>5, <3>1, <3>2
    <2>12. image' = image \o bytes
      BY <1>2
    <2> HIDE DEF bytes
    <2>13. /\ image \in Seq(Byte) /\ image' \in Seq(Byte)
           /\ Len(image') = Len(image) + ToCopy
           /\ \A x \in 1 .. Len(image) : image'[x] = image[x]
           /\ \A x \in 1 .. ToCopy : image'[Len(image) + x] = <<next + i, x>>
      <3>1. image \in Seq(Byte)
        BY <1>1 DEF TypeOK
      <3>2. PICK s, t : s = image /\ t = bytes
        OBVIOUS
      <3>3. /\ s \in Seq(Byte) /\ t \in Seq(Byte) /\ image' = s \o t
            /\ Len(s) \in Nat /\ Len(t) = ToCopy /\ ToCopy \in Nat
        BY <2>10, <2>11, <2>12, <3>1, <3>2
      <3>4. /\ s \o t \in Seq(Byte) /\ Len(s \o t) = Len(s) + Len(t)
            /\ \A x \in 1 .. Len(s) : (s \o t)[x] = s[x]
            /\ \A x \in 1 .. Len(t) : (s \o t)[Len(s) + x] = t[x]
        BY <3>3
      <3>5. QED
        BY <2>11, <3>2, <3>3, <3>4
    <2>14. ASSUME NEW x \in 1 .. ToCopy
           PROVE  w[Len(image) + x] = <<next + i, x>>
      <3>1. ToCopy # 0 /\ done < l /\ Len(image) = b + done
        BY <2>4, <2>6, <2>7, <2>8, <2>9, <2>10
      <3>2. PICK y \in Nat : y = done + x
        BY <2>6, <2>10
      <3>3. y \in 1 .. Here(e, l)
        BY <2>4, <2>6, <2>7, <2>9, <2>10, <3>1, <3>2 DEF Here
      <3>4. w[b + y] = Given(e, l)[y]
        BY <2>2, <3>3 DEF l
      <3>5. Given(e, l)[y] = <<e.key + ((y - 1) \div BlockSize), ((y - 1) % BlockSize) + 1>>
        BY <2>3, <2>9, <3>3, GivenType
      <3>6. x \in 1 .. BlockSize /\ y - 1 = i * BlockSize + x - 1
        BY <2>4, <2>6, <2>10, <3>2 DEF done
      <3>7. (y - 1) \div BlockSize = i /\ (y - 1) % BlockSize = x - 1
        BY <2>4, <3>6, PlaceOf
      <3>8. Given(e, l)[y] = <<next + i, x>>
        BY <2>2, <3>5, <3>6, <3>7
      <3>9. Len(image) + x = b + y
        BY <2>4, <2>6, <3>1, <3>2, <3>6
      <3>10. QED
        BY <3>4, <3>8, <3>9
    <2>15. Begun(w, image', size)
      <3>1. ASSUME NEW x \in 1 .. Len(image') PROVE image'[x] = w[x]
        <4>1. CASE x \in 1 .. Len(image)
          BY <2>2, <2>13, <4>1 DEF Begun
        <4>2. CASE x \notin 1 .. Len(image)
          <5>1. x - Len(image) \in 1 .. ToCopy /\ Len(image) + (x - Len(image)) = x
            BY <2>7, <2>10, <2>13, <4>2
          <5>2. QED
            BY <2>13, <2>14, <5>1
        <4>3. QED
          BY <4>1, <4>2
      <3>2. QED
        BY <2>2, <3>1 DEF Begun
    <2>16. Copying(disk, wanted, image', size, next, extent, i + 1)
      <3>1. Len(image') = b + (IF (i + 1) * BlockSize < size - b
                               THEN (i + 1) * BlockSize ELSE size - b)
        BY <2>6, <2>10, <2>13 DEF l
      <3>2. QED
        BY <2>2, <2>15, <3>1 DEF Copying
    <2>17. Copying(disk', wanted', image', size', next', extent', i')
      BY <1>2, <2>16
    <2>18. tree' = disk'[0].tree
      BY <1>2, <1>4 DEF LoadInv
    <2>19. LoadInv'
      BY <1>1, <1>2, <2>17, <2>18 DEF LoadInv, History
    <2>20. w \in Seq(Byte) /\ Len(w) = size
      BY <1>1, <1>4, <2>2, WantedOnce DEF Begun
    <2>21. Len(image) <= Len(image') /\ Len(image') <= Len(w)
      BY <2>4, <2>6, <2>7, <2>9, <2>10, <2>13, <2>20
    <2>22. IsPrefix(image, image')
      BY <2>13, <2>21, PrefixOf
    <2>23. IsPrefix(image', w)
      BY <2>13, <2>15, <2>20, <2>21, PrefixOf DEF Begun
    <2>24. QED
      BY <2>2, <2>19, <2>22, <2>23
  <1>5. QED
    BY <1>3, <1>4

LEMMA ExtentEndsLoad == ASSUME LoadInv, ExtentEnds PROVE LoadInv'
  <1>1. IInv' /\ IInv /\ TypeOK /\ History
    BY ExtentEndsOK DEF LoadInv, IInv
  <1>2. /\ pc = "copy" /\ pc' = "extent" /\ ~(i < extent.blocks) /\ next' = extent.next
        /\ UNCHANGED <<disk, path, sound, wanted, tree, size, image>>
    BY DEF ExtentEnds, More, config
  <1>3. CASE ~sound
    BY <1>1, <1>2, <1>3 DEF LoadInv, History
  <1>4. CASE sound
    <2>1. Copying(disk, wanted, image, size, next, extent, i)
      BY <1>2, <1>4 DEF LoadInv
    <2>2. PICK w \in wanted, e \in Extents(disk), b \in 0 .. size, n \in 0 .. Blocks(disk) :
            /\ Begun(w, image, size)
            /\ extent.next = e.next /\ extent.blocks = e.blocks
            /\ Len(image) = b + (IF i * BlockSize < size - b THEN i * BlockSize ELSE size - b)
            /\ Ahead(disk, size, w, b + Here(e, size - b), n, e.next)
      BY <2>1 DEF Copying
    <2>3. e.blocks \in Nat /\ e.blocks * BlockSize \in Nat
      BY <1>1, ExtentType, Product DEF Nodes
    <2>4. i = e.blocks
      BY <1>1, <1>2, <2>2, <2>3 DEF TypeOK
    <2>5. Len(image) = b + Here(e, size - b)
      <3>1. i * BlockSize = e.blocks * BlockSize /\ size - b \in Nat
        BY <1>1, <2>4 DEF TypeOK
      <3>2. QED
        BY <2>2, <2>3, <3>1 DEF Here
    <2>6. Awaited(disk, wanted, image, size, e.next)
      BY <2>2, <2>5 DEF Awaited
    <2>7. Awaited(disk', wanted', image', size', next')
      BY <1>2, <2>2, <2>6
    <2>8. tree' = disk'[0].tree
      BY <1>2, <1>4 DEF LoadInv
    <2>9. QED
      BY <1>1, <1>2, <2>7, <2>8 DEF LoadInv, History
  <1>5. QED
    BY <1>3, <1>4

LEMMA LoadStep == LoadInv /\ [Next]_vars => LoadInv'
  <1>1. ASSUME LoadInv, UNCHANGED vars PROVE LoadInv'
    <2>1. IInv'
      BY <1>1, StepOK DEF LoadInv
    <2>2. QED
      BY <1>1, <2>1 DEF vars, config, LoadInv, History, readed
  <1>2. QED
    BY <1>1, CreateLoad, CreateFailsLoad, SearchContainerLoad, SearchEndsLoad,
       FileEndsLoad, NextExtentLoad, SearchLeafLoad, SearchBranchLoad,
       SearchStraysLoad, CopyBlockLoad, ExtentEndsLoad DEF Next

THEOREM LoadInductive == Spec => []LoadInv
  BY LoadInit, LoadStep, PTL DEF Spec

\* Where a load is, for LoadFile.
Phase == CASE ~sound -> "broken"
           [] sound /\ pc \in {"create", "done"} -> "idle"
           [] OTHER -> "loading"

PhaseIs ==
  /\ ~sound => Phase = "broken"
  /\ sound /\ pc \in {"create", "done"} => Phase = "idle"
  /\ sound /\ pc \notin {"create", "done"} => Phase = "loading"

LEMMA PhaseOK == sound \in BOOLEAN => PhaseIs
  BY DEF Phase, PhaseIs

LEMMA PromiseInit == Init => Promise!Init
  <1> SUFFICES ASSUME Init PROVE Promise!Init
    OBVIOUS
  <1>1. LoadInv /\ TypeOK /\ History
    BY LoadInit DEF LoadInv, IInv
  <1>2. Phase \in {"idle", "broken"} /\ (Phase = "idle" => sound)
    BY <1>1, PhaseOK DEF PhaseIs, Init, History, Sound, Mounts
  <1>3. sound => Promise!AtMostOne(wanted)
    BY <1>1, WantedOnce DEF AtMostOne, Promise!AtMostOne
  <1>4. image = <<>> /\ result = 0
    BY DEF Init
  <1>5. QED
    BY <1>2, <1>3, <1>4 DEF Promise!Init, Phase

\* Each step of the driver is one of LoadFile, or changes nothing of it.
LEMMA PromiseStep ==
  ASSUME LoadInv, LoadInv', [Next]_vars
  PROVE  [Promise!Next]_(Promise!vars)
  <1>1. /\ TypeOK /\ TypeOK' /\ IInv /\ History /\ History'
        /\ sound \in BOOLEAN /\ sound' \in BOOLEAN
    BY DEF LoadInv, IInv, History, Sound, Mounts
  <1>6. PhaseIs
    BY <1>1, PhaseOK
  <1>7. PhaseIs'
    BY <1>1 DEF Phase, PhaseIs
  <1>2. sound' = sound /\ wanted' = wanted
    BY DEF Next, vars, config, Create, CreateFails, SearchContainer, SearchEnds,
           FileEnds, NextExtent, SearchLeaf, SearchBranch, SearchStrays, CopyBlock,
           ExtentEnds
  <1>3. CASE ~sound
    <2>1. Phase' = "broken"
      BY <1>2, <1>3, <1>7 DEF PhaseIs
    <2>2. QED
      BY <2>1 DEF Promise!Next, Promise!Break, Phase
  <1>4. CASE sound
    <2>1. AtMostOne(wanted)
      BY <1>1, <1>4, WantedOnce
    <2>2. CASE Create
      <3>1. pc = "create" /\ pc' = "chain" /\ image' = <<>> /\ result' = result
        BY <1>1, <2>2 DEF Create, IInv
      <3>2. Phase = "idle" /\ Phase' = "loading"
        BY <1>2, <1>4, <1>6, <1>7, <3>1 DEF PhaseIs
      <3>3. Promise!Ask
        BY <1>2, <2>1, <3>1, <3>2
           DEF Promise!Ask, Promise!AtMostOne, AtMostOne, Phase
      <3>4. QED
        BY <3>3 DEF Promise!Next
    <2>3. CASE CreateFails
      BY <1>4, <2>3, CreateFailsLoad
    <2>4. CASE SearchEnds
      <3>1. /\ pc = "chain" /\ pc' = "done" /\ result' = NoFile /\ image' = image
            /\ wanted = {}
        BY <1>4, <2>4, SearchEndsLoad DEF SearchEnds
      <3>2. Phase = "loading" /\ Phase' = "idle"
        BY <1>2, <1>4, <1>6, <1>7, <3>1 DEF PhaseIs
      <3>3. Promise!Finish
        BY <1>2, <3>1, <3>2 DEF Promise!Finish, Phase
      <3>4. QED
        BY <3>3 DEF Promise!Next
    <2>5. CASE FileEnds
      <3>1. /\ pc = "extent" /\ pc' = "done" /\ image' = image
            /\ \E w \in wanted : image = w /\ result' = Len(w)
        BY <1>4, <2>5, FileEndsLoad DEF FileEnds
      <3>2. Phase = "loading" /\ Phase' = "idle"
        BY <1>2, <1>4, <1>6, <1>7, <3>1 DEF PhaseIs
      <3>3. Promise!Finish
        BY <1>2, <3>1, <3>2 DEF Promise!Finish, Phase
      <3>4. QED
        BY <3>3 DEF Promise!Next
    <2>6. CASE CopyBlock
      <3>1. /\ pc = "copy" /\ pc' = pc /\ result' = result
            /\ \E w \in wanted : IsPrefix(image, image') /\ IsPrefix(image', w)
        BY <1>4, <2>6, CopyBlockLoad DEF CopyBlock
      <3>2. Phase = "loading" /\ Phase' = "loading"
        BY <1>2, <1>4, <1>6, <1>7, <3>1 DEF PhaseIs
      <3>3. Promise!Copy
        BY <1>2, <3>1, <3>2 DEF Promise!Copy, Promise!IsPrefix, IsPrefix, Phase
      <3>4. QED
        BY <3>3 DEF Promise!Next
    <2>7. CASE SearchContainer \/ NextExtent \/ SearchLeaf \/ SearchBranch \/ ExtentEnds
      <3>1. /\ pc \notin {"create", "done"} /\ pc' \notin {"create", "done"}
            /\ image' = image /\ result' = result
        BY <1>1, <2>7 DEF SearchContainer, NextExtent, SearchLeaf, SearchBranch,
                          ExtentEnds, Take
      <3>2. Phase = "loading" /\ Phase' = "loading"
        BY <1>2, <1>4, <1>6, <1>7, <3>1 DEF PhaseIs
      <3>3. QED
        BY <1>2, <3>1, <3>2 DEF Promise!vars, Phase
    <2>8. CASE SearchStrays
      BY <1>4, <2>8, SearchStraysLoad
    <2>9. CASE UNCHANGED vars
      BY <2>9 DEF vars, config, Promise!vars
    <2>10. QED
      BY <2>2, <2>3, <2>4, <2>5, <2>6, <2>7, <2>8, <2>9 DEF Next
  <1>5. QED
    BY <1>1, <1>3, <1>4

\* sfs_loadfile() keeps the promise of load_file() on every disk that is whole
\* as far as the path needs it, however its directories, its tree and the
\* extents of the file are spread.
THEOREM KeepsPromise == Spec => LoadsFile
  <1>1. LoadInv /\ LoadInv' /\ [Next]_vars => [Promise!Next]_(Promise!vars)
    BY PromiseStep
  <1>2. QED
    BY <1>1, PromiseInit, LoadInductive, PTL DEF Spec, LoadsFile, Promise!Spec

-----------------------------------------------------------------------------
(* The safety half of Returns: a measure of the steps a load has left.     *)

\* Of two sets of blocks the one that lacks a block of the other.
LEMMA FewerBlocks ==
  ASSUME TypeOK, NEW A, NEW B, B \subseteq A
  PROVE  /\ Blocks(disk) \in Nat
         /\ Cardinality(A \cap DOMAIN disk) \in 0 .. Blocks(disk)
         /\ Cardinality(B \cap DOMAIN disk) \in 0 .. Blocks(disk)
         /\ \A b \in A \cap DOMAIN disk : b \notin B =>
              Cardinality(B \cap DOMAIN disk) < Cardinality(A \cap DOMAIN disk)
  <1>1. PICK D, X, Y : D = DOMAIN disk /\ X = A \cap D /\ Y = B \cap D
    OBVIOUS
  <1>2. IsFiniteSet(D) /\ X \subseteq D /\ Y \subseteq X /\ Y \subseteq D
    BY <1>1, DiskFinite
  <1>3. /\ IsFiniteSet(X) /\ IsFiniteSet(Y)
        /\ Cardinality(X) <= Cardinality(D) /\ Cardinality(Y) <= Cardinality(D)
        /\ Cardinality(X) \in Nat /\ Cardinality(Y) \in Nat /\ Cardinality(D) \in Nat
    BY ONLY <1>2, FS_Subset, FS_CardinalityType
  <1>4. ASSUME NEW b \in X, b \notin Y PROVE Cardinality(Y) < Cardinality(X)
    <2>1. Y \subseteq X /\ Y # X
      BY <1>2, <1>4
    <2>2. Cardinality(Y) <= Cardinality(X) /\ (Cardinality(X) = Cardinality(Y) => X = Y)
      BY ONLY <1>3, <2>1, FS_Subset
    <2>3. QED
      BY ONLY <1>3, <2>1, <2>2
  <1>5. \A b \in A \cap DOMAIN disk : b \notin B => b \in X /\ b \notin Y
    BY <1>1
  <1>6. QED
    BY <1>1, <1>3, <1>4, <1>5 DEF Blocks

\* The containers from c on, and the pages below p.
FromHere(d, c) == Reached(d, {c} \ {0}, Follow(d))
Reading(d, c) == Cardinality(FromHere(d, c) \cap DOMAIN d)
Paging(d, p)  == Cardinality(Pages(d, p) \cap DOMAIN d)

\* How many extents, at least, give l bytes from block c on.
Spells(d, c, l) == {n \in 0 .. Blocks(d) : Spelled(d)[n][c][l] # {}}
ToGo(d, c, l)   == Least(Spells(d, c, l))

\* Of l bytes still to come those that are left after extent x, of which j
\* blocks have been copied.
Rest(l, x, j) ==
  IF l < (x.blocks - j) * BlockSize THEN 0 ELSE l - (x.blocks - j) * BlockSize

Turn(d)  == 2 * Blocks(d) + 4
Whole(d) == Blocks(d) * Turn(d) + 2

\* An upper bound of the steps left: containers for every element of the path,
\* then pages and blocks for every extent.
Left ==
  CASE pc = "done"   -> 0
    [] pc \in {"create", "chain"} ->
         Whole(disk) + (Len(path) - k) * (Blocks(disk) + 1)
           + (IF pc = "create" THEN Blocks(disk) + 1 ELSE Reading(disk, next))
    [] pc = "extent" -> ToGo(disk, next, size - readed) * Turn(disk) + 1
    [] pc = "tree"   -> (ToGo(disk, next, size - readed) - 1) * Turn(disk)
                          + Blocks(disk) + 3 + Paging(disk, at)
    [] OTHER         -> ToGo(disk, extent.next, Rest(size - readed, extent, i))
                          * Turn(disk) + 2 + (extent.blocks - i)

\* While an extent is copied, what follows it can be had.
RestInv ==
  sound /\ pc = "copy" =>
    Spells(disk, extent.next, Rest(size - readed, extent, i)) # {}

LEMMA ToGoIs ==
  ASSUME TypeOK, NEW c, NEW l, NEW n \in Spells(disk, c, l)
  PROVE  /\ Blocks(disk) \in Nat /\ n \in 0 .. Blocks(disk)
         /\ ToGo(disk, c, l) \in Spells(disk, c, l)
         /\ ToGo(disk, c, l) \in 0 .. Blocks(disk) /\ ToGo(disk, c, l) <= n
  <1>0. Blocks(disk) \in Nat
    BY DiskFinite DEF Blocks
  <1>1. PICK S : S = Spells(disk, c, l)
    OBVIOUS
  <1>2. S \subseteq 0 .. Blocks(disk) /\ n \in S
    BY <1>1 DEF Spells
  <1>3. S \in SUBSET Nat /\ S # {}
    BY ONLY <1>0, <1>2
  <1>4. Least(S) \in S /\ Least(S) <= n
    BY ONLY <1>2, <1>3, LeastExists
  <1>5. QED
    BY <1>0, <1>1, <1>2, <1>4 DEF ToGo

LEMMA ProductGrows ==
  ASSUME NEW a \in Nat, NEW b \in Nat, NEW c \in Nat, a <= b
  PROVE  /\ a * c \in Nat /\ b * c \in Nat /\ a * c <= b * c
         /\ (a + 1) * c = a * c + c
  BY SMT

\* What follows an extent can be had from the extents left but one.
LEMMA LeafLeads ==
  ASSUME LoadInv, sound, SearchLeaf, NEW n \in Spells(disk, next, size - readed)
  PROVE  /\ n # 0 /\ n - 1 \in Spells(disk, extent'.next, Rest(size - readed, extent', 0))
         /\ extent'.blocks \in 0 .. Blocks(disk)
  <1>1. TypeOK /\ IInv /\ History
    BY DEF LoadInv, IInv
  <1> DEFINE node == disk[at].nodes[Greatest(Below(at))]
  <1>2. /\ pc = "tree" /\ Is(disk, at, "leaf")
        /\ extent' = [next |-> node.next, blocks |-> node.blocks]
    BY DEF SearchLeaf, Take, Holds
  <1> HIDE DEF node
  <1>3. /\ tree = disk[0].tree /\ next # 0 /\ readed < size /\ at \in Pages(disk, tree)
        /\ \A e \in Extents(disk) : e.key = next => Under(disk, at, e)
    BY <1>2 DEF LoadInv
  <1> DEFINE l == size - readed
  <1>4. l \in Nat /\ l # 0 /\ next \in Nat
    BY <1>1, <1>3 DEF TypeOK, readed
  <1>5. n \in 0 .. Blocks(disk) /\ Blocks(disk) \in Nat /\ \E r : r \in Spelled(disk)[n][next][l]
    BY <1>1, DiskFinite DEF Spells, Blocks
  <1>6. PICK r : r \in Spelled(disk)[n][next][l]
    BY <1>5
  <1> HIDE DEF l
  <1>7. n # 0 /\ \E e : Opens(n, next, l, r, e)
    BY <1>1, <1>4, <1>5, <1>6, SpelledFirst
  <1>8. PICK e : Opens(n, next, l, r, e)
    BY <1>7
  <1>9. e \in Extents(disk) /\ e.key = next /\ Readable(disk, e) /\ e \in Nodes
    BY <1>1, <1>8, ExtentType DEF Opens
  <1>10. node = e
    <2>1. Under(disk, at, e) /\ PageSound(disk, at)
      BY <1>1, <1>3, <1>9, SoundDisk DEF TreeSound
    <2> DEFINE S == {x \in DOMAIN disk[at].nodes : disk[at].nodes[x].key <= e.key}
    <2>2. disk[at].nodes[Greatest(S)] = e
      BY <1>1, <1>2, <2>1, LeafPlace
    <2>3. Below(at) = S
      BY <1>9 DEF Below
    <2> HIDE DEF S
    <2>4. QED
      BY <2>2, <2>3 DEF node
  <1>11. extent'.next = e.next /\ extent'.blocks = e.blocks
    BY <1>2, <1>10
  <1>12. e.key \in Nat /\ e.blocks \in Nat /\ e.blocks * BlockSize \in Nat
    BY <1>9, Product DEF Nodes
  <1>13. Rest(l, extent', 0) = l - Here(e, l)
    <2>1. extent'.blocks - 0 = e.blocks
      BY <1>11, <1>12
    <2>2. PICK m \in Nat : m = e.blocks * BlockSize
      BY <1>12
    <2>3. Rest(l, extent', 0) = IF l < m THEN 0 ELSE l - m
      BY <2>1, <2>2 DEF Rest
    <2>4. Here(e, l) = IF l < m THEN l ELSE m
      BY <2>2 DEF Here
    <2>5. QED
      BY ONLY <1>4, <2>2, <2>3, <2>4
  <1>14. Spelled(disk)[n - 1][e.next][l - Here(e, l)] # {}
    BY <1>8 DEF Opens
  <1>15. n - 1 \in 0 .. Blocks(disk)
    BY ONLY <1>5, <1>7
  <1>16. e.blocks <= Blocks(disk)
    <2> DEFINE I == e.key .. (e.key + e.blocks - 1)
    <2>1. IsFiniteSet(DOMAIN disk) /\ I \subseteq DOMAIN disk
      BY <1>1, <1>9, DiskFinite DEF Readable
    <2>2. Cardinality(I) <= Cardinality(DOMAIN disk)
      BY <2>1, FS_Subset
    <2>3. e.key + e.blocks - 1 \in Int /\ e.key \in Int
      BY <1>12
    <2>4. Cardinality(I) = IF e.key > e.key + e.blocks - 1 THEN 0
                           ELSE (e.key + e.blocks - 1) - e.key + 1
      BY <2>3, FS_Interval
    <2>5. Cardinality(I) = e.blocks
      BY <1>12, <2>4
    <2>6. QED
      BY <2>2, <2>5 DEF Blocks
  <1>17. Rest(size - readed, extent', 0) = Rest(l, extent', 0)
    BY DEF l
  <1>18. n - 1 \in Spells(disk, extent'.next, Rest(l, extent', 0))
    BY <1>11, <1>13, <1>14, <1>15 DEF Spells
  <1>19. QED
    BY <1>5, <1>7, <1>11, <1>12, <1>16, <1>17, <1>18

\* Bytes of a block put behind others.
LEMMA AddedLength ==
  ASSUME NEW S, NEW u \in Seq(S), NEW n \in Nat, NEW c
  PROVE  Len(u \o [x \in 1 .. n |-> <<c, x>>]) = Len(u) + n
  <1>1. PICK B : B = S \cup {<<c, x>> : x \in 1 .. n}
    OBVIOUS
  <1>2. PICK t : t = [x \in 1 .. n |-> <<c, x>>]
    OBVIOUS
  <1>3. \A x \in 1 .. n : <<c, x>> \in B
    BY <1>1
  <1>4. t \in [1 .. n -> B]
    BY <1>2, <1>3
  <1>5. t \in Seq(B) /\ Len(t) = n
    BY ONLY <1>4, n \in Nat
  <1>6. u \in Seq(B)
    <2>1. S \subseteq B
      BY <1>1
    <2>2. u \in [1 .. Len(u) -> S] /\ Len(u) \in Nat
      OBVIOUS
    <2>3. u \in [1 .. Len(u) -> B]
      BY ONLY <2>1, <2>2
    <2>4. QED
      BY ONLY <2>2, <2>3
  <1>7. Len(u \o t) = Len(u) + Len(t)
    BY ONLY <1>5, <1>6
  <1>8. QED
    BY <1>2, <1>5, <1>7

\* Copying a block leaves what follows the extent as it was.
LEMMA CopyLeaves ==
  ASSUME TypeOK, NeverBeyond, CopyBlock
  PROVE  Rest(size' - readed', extent', i') = Rest(size - readed, extent, i)
  <1>0. /\ size \in Nat /\ readed \in Nat /\ readed <= size
        /\ i \in Nat /\ extent.blocks \in Nat /\ i < extent.blocks
    <2>1. image \in Seq(Byte) /\ extent \in Extent /\ size \in Nat /\ i \in Nat
      BY DEF TypeOK
    <2>2. readed \in Nat /\ readed <= size
      BY <2>1 DEF readed, NeverBeyond
    <2>3. extent.blocks \in Nat /\ i < extent.blocks
      BY <2>1 DEF Extent, CopyBlock, More
    <2>4. QED
      BY <2>1, <2>2, <2>3
  <1>1. PICK l \in Nat, m \in Nat : l = size - readed /\ m = extent.blocks - (i + 1)
    <2>1. size - readed \in Nat /\ extent.blocks - (i + 1) \in Nat
      BY <1>0
    <2>2. QED
      BY <2>1
  <1>2. /\ UNCHANGED <<size, extent>> /\ i' = i + 1
        /\ image' = image \o [x \in 1 .. ToCopy |-> <<buffer', x>>]
    BY DEF CopyBlock
  <1>3. ToCopy = (IF l >= BlockSize THEN BlockSize ELSE l) /\ ToCopy \in Nat
    BY <1>1, SizeAssumption DEF ToCopy
  <1>4. Len(image') = Len(image) + ToCopy
    <2>1. PICK n \in Nat : n = ToCopy
      BY <1>3
    <2>2. PICK c : c = buffer'
      OBVIOUS
    <2>3. PICK u \in Seq(Byte) : u = image
      BY DEF TypeOK
    <2>4. Len(u \o [x \in 1 .. n |-> <<c, x>>]) = Len(u) + n
      BY ONLY u \in Seq(Byte), n \in Nat, AddedLength
    <2>5. QED
      BY <1>2, <2>1, <2>2, <2>3, <2>4
  <1>5. size' - readed' = l - ToCopy
    <2>1. readed' = readed + ToCopy /\ size' = size
      BY <1>2, <1>4 DEF readed
    <2>2. QED
      BY <1>0, <1>1, <1>3, <2>1
  <1>6. extent.blocks - i = m + 1 /\ extent'.blocks - i' = m
    BY <1>0, <1>1, <1>2
  <1>7. (m + 1) * BlockSize = m * BlockSize + BlockSize /\ m * BlockSize \in Nat
    BY WholeBlocks
  <1>8. PICK w \in Nat : w = m * BlockSize
    BY <1>7
  <1>9. Rest(size - readed, extent, i) =
          IF l < w + BlockSize THEN 0 ELSE l - (w + BlockSize)
    BY <1>1, <1>6, <1>7, <1>8 DEF Rest
  <1>10. Rest(size' - readed', extent', i') =
           IF l - ToCopy < w THEN 0 ELSE (l - ToCopy) - w
    BY <1>5, <1>6, <1>8 DEF Rest
  <1>11. QED
    BY ONLY <1>1, <1>3, <1>8, <1>9, <1>10, SizeAssumption

LEMMA AwaitedSpells ==
  ASSUME TypeOK, sound, LoadInv, pc \in {"extent", "tree"}
  PROVE  Spells(disk, next, size - readed) # {}
  BY DEF LoadInv, Awaited, Ahead, Spells, readed

\* What follows the extent being copied can still be had after every step.
LEMMA RestStep ==
  ASSUME LoadInv, LoadInv', RestInv, [Next]_vars
  PROVE  RestInv'
  <1>1. TypeOK /\ NeverBeyond
    BY DEF LoadInv, IInv
  <1>2. SUFFICES ASSUME sound', pc' = "copy" PROVE RestInv'
    BY DEF RestInv
  <1>3. sound' = sound /\ disk' = disk
    BY DEF Next, vars, config, Create, CreateFails, SearchContainer, SearchEnds,
           FileEnds, NextExtent, SearchLeaf, SearchBranch, SearchStrays, CopyBlock,
           ExtentEnds
  <1>4. CASE SearchLeaf
    <2>1. PICK n \in Spells(disk, next, size - readed) : TRUE
      BY <1>1, <1>2, <1>3, <1>4, AwaitedSpells DEF SearchLeaf
    <2>2. Spells(disk, extent'.next, Rest(size - readed, extent', 0)) # {}
      BY <1>2, <1>3, <1>4, <2>1, LeafLeads
    <2>3. size' = size /\ readed' = readed /\ i' = 0
      BY <1>4 DEF SearchLeaf, Take, readed
    <2>4. QED
      BY <1>3, <2>2, <2>3 DEF RestInv
  <1>5. CASE CopyBlock
    <2>1. extent' = extent /\ pc = "copy"
      BY <1>5 DEF CopyBlock
    <2>2. QED
      BY <1>1, <1>2, <1>3, <1>5, <2>1, CopyLeaves DEF RestInv
  <1>6. CASE SearchStrays
    BY <1>2, <1>3, <1>6, SearchStraysLoad
  <1>7. CASE UNCHANGED vars
    BY <1>7 DEF vars, config, RestInv, readed
  <1>8. CASE Create \/ CreateFails \/ SearchContainer \/ SearchEnds \/ FileEnds
             \/ NextExtent \/ SearchBranch \/ ExtentEnds
    BY <1>2, <1>8 DEF Create, CreateFails, SearchContainer, SearchEnds, FileEnds,
                      NextExtent, SearchBranch, ExtentEnds
  <1>9. QED
    BY <1>4, <1>5, <1>6, <1>7, <1>8 DEF Next

\* A container of the directory that is passed does not come again.
LEMMA ContainersAhead ==
  ASSUME TypeOK, History, sound, NEW j \in 1 .. Len(path), NEW c, c # 0,
         Searching(disk, path, j, c)
  PROVE  Reading(disk, disk[c].next) < Reading(disk, c)
  <1>1. PICK o \in Meant(disk, path)[j - 1] : c \in Chain(disk, o)
    BY DEF Searching
  <1>2. Is(disk, c, "SOC") /\ DirectorySound(disk, o)
    <2>1. j - 1 \in 0 .. Len(path) /\ j - 1 < Len(path)
      BY DiskType
    <2>2. QED
      BY <1>1, <2>1, ContainerSound, SoundDisk
  <1>3. c \in DOMAIN disk /\ Follow(disk)[c] = {disk[c].next} \ {0}
    BY <1>2 DEF Is, Follow
  <1>4. c \notin FromHere(disk, disk[c].next)
    BY <1>1, <1>2, <1>3 DEF DirectorySound, FromHere
  <1>5. c \in FromHere(disk, c) /\ Closed(disk, Follow(disk), FromHere(disk, c))
    BY DiskFinite, ReachedClosed DEF FromHere
  <1>6. {disk[c].next} \ {0} \subseteq FromHere(disk, c)
    BY <1>3, <1>5 DEF Closed
  <1>7. FromHere(disk, disk[c].next) \subseteq FromHere(disk, c)
    <2>1. Reached(disk, {disk[c].next} \ {0}, Follow(disk)) \subseteq FromHere(disk, c)
      BY <1>5, <1>6, DiskFinite, ReachedLeast
    <2>2. QED
      BY <2>1 DEF FromHere
  <1>8. QED
    BY <1>3, <1>4, <1>5, <1>7, FewerBlocks DEF Reading

\* Nor does a page of the tree.
LEMMA PagesBelow ==
  ASSUME LoadInv, sound, SearchBranch
  PROVE  Paging(disk, at') < Paging(disk, at)
  <1>1. TypeOK /\ IInv /\ History
    BY DEF LoadInv, IInv
  <1> DEFINE child == disk[at].nodes[Greatest(Below(at))].data
  <1>2. pc = "tree" /\ Is(disk, at, "branch") /\ at' = child
    BY DEF SearchBranch, Holds
  <1>3. PICK e : Under(disk, at, e) /\ e.key = next /\ PageSound(disk, at)
    BY <1>2, PageHolds DEF StartsUnder, Opens
  <1>4. child \in Children(disk)[at]
    <2> DEFINE S == {x \in DOMAIN disk[at].nodes : disk[at].nodes[x].key <= e.key}
    <2>1. disk[at].nodes[Greatest(S)].data \in Children(disk)[at]
      BY <1>1, <1>2, <1>3, BranchPlace
    <2>2. Below(at) = S
      BY <1>3 DEF Below
    <2> HIDE DEF S
    <2>3. QED
      BY <2>1, <2>2
  <1> HIDE DEF child
  <1>5. Pages(disk, child) \subseteq Pages(disk, at)
    BY <1>1, <1>2, <1>4, PagesOfBranch
  <1>6. at \notin Pages(disk, child)
    BY <1>3, <1>4 DEF PageSound
  <1>7. at \in Pages(disk, at) \cap DOMAIN disk
    BY <1>1, <1>2, PageItself DEF Is
  <1>8. QED
    BY <1>1, <1>2, <1>5, <1>6, <1>7, FewerBlocks DEF Paging

\* What the measure is made of.
Shape(D, K) ==
  /\ D \in Nat /\ K = 2 * D + 4 /\ D = Blocks(disk) /\ K = Turn(disk)
  /\ pc = "create" => k = 1
  /\ pc \in {"create", "chain"} => Len(path) - k \in Nat
  /\ Reading(disk, next) \in 0 .. D /\ Paging(disk, at) \in 0 .. D
  /\ pc \in {"extent", "tree"} => ToGo(disk, next, size - readed) \in 0 .. D
  /\ pc = "tree" => ToGo(disk, next, size - readed) # 0
  /\ pc = "copy" =>
       /\ ToGo(disk, extent.next, Rest(size - readed, extent, i)) \in 0 .. D
       /\ extent.blocks - i \in Nat
  /\ pc \in {"create", "chain", "extent", "tree", "copy", "done"}

Shaped == Shape(Blocks(disk), Turn(disk))

LEMMA ShapeIs ==
  ASSUME LoadInv, RestInv, sound
  PROVE  Shaped
  <1>1. TypeOK /\ IInv
    BY DEF LoadInv, IInv
  <1>2. Reading(disk, next) \in 0 .. Blocks(disk) /\ Paging(disk, at) \in 0 .. Blocks(disk)
        /\ Blocks(disk) \in Nat
    BY <1>1, FewerBlocks DEF Reading, Paging
  <1>3. ASSUME pc \in {"extent", "tree"}
        PROVE  /\ ToGo(disk, next, size - readed) \in 0 .. Blocks(disk)
               /\ pc = "tree" => ToGo(disk, next, size - readed) # 0
    <2>1. PICK n \in Spells(disk, next, size - readed) : TRUE
      BY <1>1, <1>3, AwaitedSpells
    <2>2. /\ ToGo(disk, next, size - readed) \in 0 .. Blocks(disk)
          /\ ToGo(disk, next, size - readed) \in Spells(disk, next, size - readed)
      BY <1>1, <2>1, ToGoIs
    <2>3. ASSUME pc = "tree", 0 \in Spells(disk, next, size - readed) PROVE FALSE
      <3>1. next \in Nat /\ size - readed \in Nat /\ size - readed # 0
        BY <1>1, <2>3 DEF LoadInv, TypeOK, readed
      <3>2. 0 \in 0 .. Blocks(disk)
        BY <1>2
      <3>3. PICK r : r \in Spelled(disk)[0][next][size - readed]
        BY <2>3 DEF Spells
      <3>4. QED
        BY <1>1, <3>1, <3>2, <3>3, SpelledFirst
    <2>4. QED
      BY <2>2, <2>3
  <1>4. ASSUME pc = "copy"
        PROVE  /\ ToGo(disk, extent.next, Rest(size - readed, extent, i)) \in 0 .. Blocks(disk)
               /\ extent.blocks - i \in Nat
    <2>1. PICK n \in Spells(disk, extent.next, Rest(size - readed, extent, i)) : TRUE
      BY <1>4 DEF RestInv
    <2>2. extent.blocks \in Nat /\ i \in Nat /\ i <= extent.blocks
      BY <1>1, <1>4 DEF TypeOK, Extent
    <2>3. QED
      BY <1>1, <2>1, <2>2, ToGoIs
  <1>5. pc \in {"create", "chain"} => Len(path) - k \in Nat
    <2>1. Len(path) \in Nat \ {0}
      BY <1>1, DiskType
    <2>2. QED
      BY <1>1, <2>1 DEF TypeOK, IInv
  <1>6. QED
    BY <1>1, <1>2, <1>3, <1>4, <1>5 DEF Shaped, Shape, Turn, TypeOK, IInv

LEMMA LeftType ==
  ASSUME Shaped
  PROVE  Left \in Nat
  <1>1. PICK D, K : Shape(D, K)
    BY DEF Shaped
  <1>2. D \in Nat /\ K \in Nat /\ D * K \in Nat /\ Whole(disk) = D * K + 2
    <2>1. D \in Nat /\ K \in Nat
      BY <1>1 DEF Shape
    <2>2. D * K \in Nat
      BY ONLY <2>1, ProductGrows
    <2>3. QED
      BY <1>1, <2>1, <2>2 DEF Shape, Whole
  <1>3. CASE pc \in {"create", "chain"}
    <2>0. Len(path) - k \in Nat
      BY <1>1, <1>3 DEF Shape
    <2>1. PICK a \in Nat, c \in Nat : a = Len(path) - k /\ c = D + 1
      BY <1>2, <2>0
    <2>2. a * c \in Nat
      BY ONLY a \in Nat, c \in Nat, ProductGrows
    <2>3. Left = D * K + 2 + a * c + (IF pc = "create" THEN D + 1 ELSE Reading(disk, next))
      BY <1>1, <1>2, <1>3, <2>1 DEF Left, Shape
    <2>4. Reading(disk, next) \in 0 .. D
      BY <1>1 DEF Shape
    <2>5. QED
      BY ONLY <1>2, <2>2, <2>3, <2>4
  <1>4. CASE pc = "extent"
    <2>1. PICK n \in 0 .. D : Left = n * K + 1
      BY <1>1, <1>4 DEF Left, Shape
    <2>2. n * K \in Nat
      BY ONLY n \in 0 .. D, <1>2, ProductGrows
    <2>3. QED
      BY <2>1, <2>2
  <1>5. CASE pc = "tree"
    <2>1. PICK n \in 0 .. D : n # 0 /\ Left = (n - 1) * K + D + 3 + Paging(disk, at)
      BY <1>1, <1>5 DEF Left, Shape
    <2>2. PICK m \in Nat : m = n - 1
      BY ONLY n \in 0 .. D, <1>2, <2>1
    <2>3. m * K \in Nat
      BY ONLY m \in Nat, <1>2, ProductGrows
    <2>4. Paging(disk, at) \in 0 .. D
      BY <1>1 DEF Shape
    <2>5. QED
      BY <1>2, <2>1, <2>2, <2>3, <2>4
  <1>6. CASE pc = "copy"
    <2>1. PICK n \in 0 .. D, x \in Nat : Left = n * K + 2 + x
      BY <1>1, <1>6 DEF Left, Shape
    <2>2. n * K \in Nat
      BY ONLY n \in 0 .. D, <1>2, ProductGrows
    <2>3. QED
      BY <2>1, <2>2
  <1>7. CASE pc = "done"
    BY <1>7 DEF Left
  <1>8. QED
    BY <1>1, <1>3, <1>4, <1>5, <1>6, <1>7 DEF Shape

LEMMA ContainerLess ==
  ASSUME LoadInv, sound, Shaped, Shaped', SearchContainer
  PROVE  Left' < Left
  <1> DEFINE b == Loaded(next, buffer)
             found == {x \in DOMAIN disk[b].objects : Fits(disk[b].objects[x])}
  <1>1. TypeOK /\ History /\ IInv
    BY DEF LoadInv, IInv
  <1>2. /\ pc = "chain" /\ next # 0 /\ UNCHANGED <<disk, path>>
        /\ \/ next' = disk[b].next /\ UNCHANGED <<pc, k>>
           \/ k < Len(path) /\ k' = k + 1 /\ UNCHANGED pc
           \/ pc' = "extent"
    BY DEF SearchContainer, config
  <1> HIDE DEF b
  <1>3. PICK D, K : Shape(D, K) /\ D = Blocks(disk) /\ K = Turn(disk)
    BY DEF Shaped
  <1>4. D \in Nat /\ K \in Nat
    BY <1>3 DEF Shape
  <1>5. D * K \in Nat
    BY ONLY <1>4, ProductGrows
  <1>6. PICK z \in Nat : z = D * K
    BY <1>5
  <1>7. Whole(disk) = z + 2 /\ Whole(disk') = z + 2
    BY <1>2, <1>3, <1>6 DEF Whole
  <1>8. PICK l \in Nat, j \in Nat : l = Len(path) /\ j = k /\ j \in 1 .. l
    BY <1>1, <1>2, DiskType DEF TypeOK
  <1>9a. l - j \in Nat /\ D + 1 \in Nat
    BY ONLY <1>4, <1>8, l \in Nat, j \in Nat
  <1>9. PICK a \in Nat, c \in Nat : a = l - j /\ c = D + 1
    BY <1>9a
  <1>10. PICK r \in 0 .. D : r = Reading(disk, next)
    BY <1>3 DEF Shape
  <1>11. a * c \in Nat
    BY ONLY a \in Nat, c \in Nat, ProductGrows
  <1>12. PICK x \in Nat : x = a * c
    BY <1>11
  <1>13. Left = z + 2 + x + r
    BY <1>2, <1>3, <1>7, <1>8, <1>9, <1>10, <1>12 DEF Left
  <1>14. PICK q \in 0 .. D : q = Reading(disk', next')
    BY <1>2, <1>3 DEF Shaped, Shape
  <1>15. CASE next' = disk[b].next /\ UNCHANGED <<pc, k>>
    <2>1. Searching(disk, path, k, next)
      BY <1>1, <1>2 DEF LoadInv
    <2>2. b = next
      <3>1. PICK o \in Meant(disk, path)[k - 1] : next \in Chain(disk, o)
        BY <1>2, <2>1 DEF Searching
      <3>2. Is(disk, next, "SOC")
        BY <1>1, <1>8, <3>1, ContainerSound
      <3>3. QED
        BY <3>2 DEF Is, Loaded, b
    <2>3. Reading(disk, next') < Reading(disk, next)
      BY <1>1, <1>2, <1>8, <1>15, <2>1, <2>2, ContainersAhead
    <2>4. q < r
      BY <1>2, <1>10, <1>14, <2>3
    <2>5. Left' = z + 2 + x + q
      BY <1>2, <1>3, <1>7, <1>8, <1>9, <1>12, <1>14, <1>15 DEF Left
    <2>6. QED
      BY ONLY <1>4, <1>13, <2>4, <2>5, z \in Nat, x \in Nat, q \in 0 .. D, r \in 0 .. D
  <1>16. CASE k < Len(path) /\ k' = k + 1 /\ UNCHANGED pc
    <2>0. j < l
      BY <1>8, <1>16
    <2>1. PICK m \in Int : m \in Nat /\ m = a - 1 /\ m = l - (j + 1)
      BY ONLY <1>9, <2>0, l \in Nat, j \in Nat, a \in Nat
    <2>2. Left' = z + 2 + m * c + q
      BY <1>2, <1>3, <1>7, <1>8, <1>9, <1>14, <1>16, <2>1 DEF Left
    <2>3. (m + 1) * c = m * c + c /\ m * c \in Nat
      BY ONLY <2>1, c \in Nat, ProductGrows
    <2>4. PICK y \in Nat : y = m * c
      BY <2>3
    <2>5. a = m + 1
      BY ONLY <2>1, a \in Nat
    <2>6. x = y + c
      BY <1>12, <2>3, <2>4, <2>5
    <2>7. Left' = z + 2 + y + q
      BY <2>2, <2>4
    <2>8. QED
      BY ONLY <1>4, <1>9, <1>13, <2>6, <2>7,
              z \in Nat, y \in Nat, c \in Nat, q \in 0 .. D, r \in 0 .. D
  <1>17. CASE pc' = "extent"
    <2>1. PICK n \in 0 .. D : n = ToGo(disk', next', size' - readed')
      BY <1>2, <1>3, <1>17 DEF Shaped, Shape
    <2>2. Left' = n * K + 1
      BY <1>2, <1>3, <1>17, <2>1 DEF Left
    <2>3. n \in Nat /\ n <= D
      BY ONLY <1>4, n \in 0 .. D
    <2>4. n * K \in Nat /\ n * K <= z
      BY ONLY <1>4, <1>6, <2>3, ProductGrows
    <2>5. PICK y \in Nat : y = n * K
      BY <2>4
    <2>6. Left' = y + 1 /\ y <= z
      BY <2>2, <2>4, <2>5
    <2>7. QED
      BY ONLY <1>4, <1>13, <2>6, z \in Nat, x \in Nat, y \in Nat, r \in 0 .. D
  <1>18. QED
    BY <1>2, <1>15, <1>16, <1>17

\* The steps among the extents.
LEMMA ExtentLess ==
  ASSUME LoadInv, sound, Shaped, Shaped',
         FileEnds \/ NextExtent \/ SearchLeaf \/ SearchBranch \/ CopyBlock \/ ExtentEnds
  PROVE  Left' < Left
  <1>1. TypeOK /\ NeverBeyond
    BY DEF LoadInv, IInv
  <1>2. disk' = disk
    BY DEF config, FileEnds, NextExtent, SearchLeaf, SearchBranch, CopyBlock, ExtentEnds
  <1>3. PICK D, K : Shape(D, K) /\ D = Blocks(disk) /\ K = Turn(disk)
    BY DEF Shaped
  <1>4. D \in Nat /\ K \in Nat /\ K = 2 * D + 4
    BY <1>3 DEF Shape
  <1>5. ASSUME NEW n \in 0 .. D PROVE n \in Nat /\ n * K \in Nat
    BY ONLY <1>4, n \in 0 .. D, ProductGrows
  <1>6. CASE FileEnds
    <2>1. pc = "extent" /\ pc' = "done"
      BY <1>6 DEF FileEnds
    <2>2. PICK n \in 0 .. D : Left = n * K + 1
      BY <1>3, <2>1 DEF Left, Shape
    <2>3. Left' = 0
      BY <2>1 DEF Left
    <2>4. QED
      BY <1>5, <2>2, <2>3
  <1>7. CASE NextExtent
    <2>1. /\ pc = "extent" /\ pc' = "tree"
          /\ UNCHANGED <<next, size, image>>
      BY <1>7 DEF NextExtent
    <2>2. PICK n \in 0 .. D : n = ToGo(disk, next, size - readed)
      BY <1>3, <2>1 DEF Shape
    <2>3. Left = n * K + 1
      BY <1>3, <2>1, <2>2 DEF Left
    <2>4. ToGo(disk', next', size' - readed') = n
      BY <1>2, <2>1, <2>2 DEF readed
    <2>5. n # 0 /\ Paging(disk', at') \in 0 .. D
      BY <1>2, <1>3, <2>1, <2>4 DEF Shaped, Shape
    <2>6. PICK g \in 0 .. D : g = Paging(disk', at')
      BY <2>5
    <2>7. Left' = (n - 1) * K + D + 3 + g
      BY <1>2, <1>3, <2>1, <2>4, <2>6 DEF Left
    <2>8. PICK m \in Int : m \in Nat /\ n = m + 1 /\ m = n - 1
      BY ONLY <1>4, <2>5, n \in 0 .. D
    <2>9. (m + 1) * K = m * K + K /\ m * K \in Nat
      BY ONLY <1>4, <2>8, ProductGrows
    <2>10. PICK y \in Nat : y = m * K
      BY <2>9
    <2>11. Left = y + K + 1 /\ Left' = y + D + 3 + g
      BY <2>3, <2>7, <2>8, <2>9, <2>10
    <2>12. QED
      BY ONLY <1>4, <2>11, y \in Nat, g \in 0 .. D
  <1>8. CASE SearchBranch
    <2>1. pc = "tree" /\ pc' = "tree" /\ UNCHANGED <<next, size, image>>
      BY <1>8 DEF SearchBranch
    <2>2. Paging(disk, at') < Paging(disk, at)
      BY <1>8, PagesBelow
    <2>3. PICK n \in 0 .. D : n = ToGo(disk, next, size - readed)
      BY <1>3, <2>1 DEF Shape
    <2>4. ToGo(disk', next', size' - readed') = n
      BY <1>2, <2>1, <2>3 DEF readed
    <2>5. PICK g \in 0 .. D, h \in 0 .. D : g = Paging(disk, at) /\ h = Paging(disk', at')
      BY <1>2, <1>3 DEF Shaped, Shape
    <2>6. /\ Left = (n - 1) * K + D + 3 + g
          /\ Left' = (n - 1) * K + D + 3 + h
      BY <1>2, <1>3, <2>1, <2>3, <2>4, <2>5 DEF Left
    <2>7. h < g
      BY <1>2, <2>2, <2>5
    <2>8. PICK y \in Int : y = (n - 1) * K
      BY <1>4
    <2>9. Left = y + D + 3 + g /\ Left' = y + D + 3 + h
      BY <2>6, <2>8
    <2>10. QED
      BY ONLY <1>4, <2>7, <2>9, y \in Int, g \in 0 .. D, h \in 0 .. D
  <1>9. CASE SearchLeaf
    <2>1. /\ pc = "tree" /\ pc' = "copy" /\ UNCHANGED <<size, image>> /\ i' = 0
      BY <1>9 DEF SearchLeaf, Take
    <2>2. PICK n \in 0 .. D : n = ToGo(disk, next, size - readed)
      BY <1>3, <2>1 DEF Shape
    <2>3. PICK g \in 0 .. D : g = Paging(disk, at)
      BY <1>3 DEF Shape
    <2>4. Left = (n - 1) * K + D + 3 + g
      BY <1>3, <2>1, <2>2, <2>3 DEF Left
    <2>5. n \in Spells(disk, next, size - readed)
      <3>1. PICK x \in Spells(disk, next, size - readed) : TRUE
        BY <1>1, <2>1, AwaitedSpells
      <3>2. QED
        BY <1>1, <2>2, <3>1, ToGoIs
    <2>6. /\ n # 0 /\ n - 1 \in Spells(disk, extent'.next, Rest(size - readed, extent', 0))
          /\ extent'.blocks \in 0 .. D
      BY <1>3, <1>9, <2>5, LeafLeads
    <2>7. PICK q \in 0 .. D : /\ q = ToGo(disk, extent'.next, Rest(size - readed, extent', 0))
                              /\ q <= n - 1
      BY <1>1, <1>3, <2>6, ToGoIs
    <2>8. PICK x \in 0 .. D : x = extent'.blocks - i' /\ x = extent'.blocks
      BY <1>4, <2>1, <2>6
    <2>9. Left' = q * K + 2 + x
      BY <1>2, <1>3, <2>1, <2>7, <2>8 DEF Left, readed
    <2>10. PICK m \in Int : m \in Nat /\ m = n - 1
      BY ONLY <1>4, <2>6, n \in 0 .. D
    <2>11. q \in Nat /\ q <= m
      BY ONLY <1>4, <2>7, <2>10, q \in 0 .. D
    <2>12. q * K \in Nat /\ m * K \in Nat /\ q * K <= m * K
      BY ONLY <1>4, <2>10, <2>11, ProductGrows
    <2>13. PICK y \in Nat, z \in Nat : y = q * K /\ z = m * K
      BY <2>12
    <2>14. Left = z + D + 3 + g /\ Left' = y + 2 + x /\ y <= z
      BY <2>4, <2>9, <2>10, <2>12, <2>13
    <2>15. QED
      BY ONLY <1>4, <2>14, y \in Nat, z \in Nat, g \in 0 .. D, x \in 0 .. D
  <1>10. CASE CopyBlock
    <2>1. pc = "copy" /\ pc' = "copy" /\ i' = i + 1 /\ extent' = extent
      BY <1>10 DEF CopyBlock
    <2>2. PICK n \in 0 .. D, x \in Nat :
            /\ n = ToGo(disk, extent.next, Rest(size - readed, extent, i))
            /\ x = extent.blocks - i
      BY <1>3, <2>1 DEF Shape
    <2>3. Left = n * K + 2 + x
      BY <1>3, <2>1, <2>2 DEF Left
    <2>4. ToGo(disk', extent'.next, Rest(size' - readed', extent', i')) = n
      BY <1>1, <1>2, <1>10, <2>1, <2>2, CopyLeaves
    <2>5. extent'.blocks - i' = x - 1
      BY <1>1, <2>1, <2>2 DEF TypeOK, Extent
    <2>6. Left' = n * K + 2 + (x - 1)
      BY <1>2, <1>3, <2>1, <2>4, <2>5 DEF Left
    <2>7. PICK y \in Nat : y = n * K
      BY <1>5
    <2>8. Left = y + 2 + x /\ Left' = y + 2 + (x - 1)
      BY <2>3, <2>6, <2>7
    <2>9. QED
      BY ONLY <2>8, y \in Nat, x \in Nat
  <1>11. CASE ExtentEnds
    <2>1. /\ pc = "copy" /\ pc' = "extent" /\ next' = extent.next
          /\ UNCHANGED <<size, image>> /\ ~(i < extent.blocks)
      BY <1>11 DEF ExtentEnds, More
    <2>2. PICK n \in 0 .. D, x \in Nat :
            /\ n = ToGo(disk, extent.next, Rest(size - readed, extent, i))
            /\ x = extent.blocks - i
      BY <1>3, <2>1 DEF Shape
    <2>3. Left = n * K + 2 + x
      BY <1>3, <2>1, <2>2 DEF Left
    <2>4. Rest(size - readed, extent, i) = size - readed
      <3>1. extent.blocks - i = 0
        BY <1>1, <2>1 DEF TypeOK, Extent
      <3>2. 0 * BlockSize = 0 /\ size - readed \in Nat
        BY <1>1, SizeAssumption DEF TypeOK, NeverBeyond, readed
      <3>3. QED
        BY <3>1, <3>2 DEF Rest
    <2>5. ToGo(disk', next', size' - readed') = n
      BY <1>2, <2>1, <2>2, <2>4 DEF readed
    <2>6. Left' = n * K + 1
      BY <1>2, <1>3, <2>1, <2>5 DEF Left
    <2>7. PICK y \in Nat : y = n * K
      BY <1>5
    <2>8. Left = y + 2 + x /\ Left' = y + 1
      BY <2>3, <2>6, <2>7
    <2>9. QED
      BY ONLY <2>8, y \in Nat, x \in Nat
  <1>12. QED
    BY <1>6, <1>7, <1>8, <1>9, <1>10, <1>11

\* Every step of a load on a sound disk brings Left down: on a disk of B
\* blocks a path of n elements is loaded, or said to be missing, after at most
\* n(B+1) + B(2B+4) + 2 steps, however the chains, the tree and the extents
\* are laid out.
THEOREM LoadsAreShort ==
  Spec => [](sound => Left \in Nat) /\ [][sound => Left' < Left]_vars
  <1>1. LoadInv /\ LoadInv' /\ RestInv /\ [Next]_vars => RestInv'
    BY RestStep
  <1>2. Init => RestInv
    BY DEF Init, RestInv
  <1>3. LoadInv /\ RestInv => (sound => Left \in Nat)
    BY ShapeIs, LeftType
  <1>4. LoadInv /\ RestInv => (sound => Shaped)
    BY ShapeIs
  <1>5. ASSUME LoadInv, sound => Shaped, (sound => Shaped)', Next
        PROVE  sound => Left' < Left
    <2>1. SUFFICES ASSUME sound PROVE Left' < Left
      OBVIOUS
    <2>2. TypeOK /\ IInv
      BY <1>5 DEF LoadInv, IInv
    <2>3. sound' = sound /\ disk' = disk /\ path' = path
      BY <1>5 DEF Next, vars, config, Create, CreateFails, SearchContainer, SearchEnds,
           FileEnds, NextExtent, SearchLeaf, SearchBranch, SearchStrays, CopyBlock,
           ExtentEnds
    <2>4. Shaped /\ Shaped'
      BY <1>5, <2>1, <2>3
    <2>5. CASE Create
      <3>1. pc = "create" /\ pc' = "chain" /\ k' = k
        BY <2>5 DEF Create
      <3>2. PICK D, K : Shape(D, K) /\ D = Blocks(disk)
        BY <2>4 DEF Shaped
      <3>3. PICK q \in 0 .. D : q = Reading(disk', next')
        BY <2>3, <2>4, <3>2 DEF Shaped, Shape
      <3>4. D \in Nat
        BY <3>2 DEF Shape
      <3>5. PICK z : z = Whole(disk) + (Len(path) - k) * (Blocks(disk) + 1)
        OBVIOUS
      <3>6. Left = z + (D + 1) /\ Left' = z + q
        BY <2>3, <3>1, <3>2, <3>3, <3>5 DEF Left
      <3>8. z \in Int
        <4>1. Blocks(disk) \in Nat /\ Turn(disk) \in Nat /\ Len(path) - k \in Nat
          BY <2>4, <3>1 DEF Shaped, Shape
        <4>2. /\ Blocks(disk) * Turn(disk) \in Nat
              /\ (Len(path) - k) * (Blocks(disk) + 1) \in Nat
          BY <4>1, ProductGrows
        <4>3. QED
          BY <3>5, <4>2 DEF Whole
      <3>9. QED
        BY ONLY <3>4, <3>6, <3>8, q \in 0 .. D
    <2>6. CASE CreateFails
      BY <1>5, <2>1, <2>6, CreateFailsLoad
    <2>7. CASE SearchContainer
      BY <1>5, <2>1, <2>4, <2>7, ContainerLess
    <2>8. CASE SearchEnds
      <3>1. pc = "chain" /\ pc' = "done"
        BY <2>8 DEF SearchEnds
      <3>2. Blocks(disk) \in Nat /\ Turn(disk) \in Nat /\ Len(path) - k \in Nat
            /\ Reading(disk, next) \in 0 .. Blocks(disk)
        BY <2>4, <3>1 DEF Shaped, Shape
      <3>3. PICK y \in Nat, z \in Nat : /\ y = Blocks(disk) * Turn(disk)
                                        /\ z = (Len(path) - k) * (Blocks(disk) + 1)
        BY <3>2, ProductGrows
      <3>4. PICK q \in Nat : q = Reading(disk, next)
        BY <3>2
      <3>5. Left = y + 2 + z + q /\ Left' = 0
        BY <3>1, <3>3, <3>4 DEF Left, Whole
      <3>6. QED
        BY ONLY <3>5, y \in Nat, z \in Nat, q \in Nat
    <2>9. CASE SearchStrays
      BY <1>5, <2>1, <2>9, SearchStraysLoad
    <2>10. CASE FileEnds \/ NextExtent \/ SearchLeaf \/ SearchBranch \/ CopyBlock \/ ExtentEnds
      BY <1>5, <2>1, <2>4, <2>10, ExtentLess
    <2>11. QED
      BY <1>5, <2>5, <2>6, <2>7, <2>8, <2>9, <2>10 DEF Next
  <1>6. LoadInv /\ (sound => Shaped) /\ (sound => Shaped)' /\ [Next]_vars
          => [sound => Left' < Left]_vars
    BY <1>5
  <1>7. QED
    BY <1>1, <1>2, <1>3, <1>4, <1>6, LoadInductive, PTL DEF Spec
=============================================================================
