---------------------------- MODULE Tty_proofs ----------------------------
(***************************************************************************)
(* Proofs about Tty for any number of tasks that write, rings of any size   *)
(* and any sequence of keys.                                                *)
(*                                                                         *)
(* copy_to_cooked is a fold over the characters that have come, so its      *)
(* effect is proved along the sequence: FoldExists unrolls the fold by a    *)
(* least counterexample (SetInduction), and CookRight is the step.          *)
(*                                                                         *)
(* The invariant has a conjunct for each way in which the count of lines    *)
(* and the output could go wrong, and two for the wait queues.  The queue   *)
(* of the readers holds at most the one reader.  That of the writers is a   *)
(* chain through the tmp's of any number of tasks; Chain says that whoever  *)
(* sleeps there is met on the way from the pointer, and each operation on   *)
(* the queue is shown to keep it.                                           *)
(***************************************************************************)
EXTENDS Tty, FiniteSetTheorems, FunctionTheorems, SequenceTheorems,
        NaturalsInduction, WellFoundedInduction, TLAPS

\* Induction, for a set in the place of a predicate.
LEMMA SetInduction ==
    ASSUME NEW S, 0 \in S, \A n \in Nat : n \in S => n + 1 \in S
    PROVE  \A n \in Nat : n \in S
<1> DEFINE R == {ss \in Nat \X Nat : ss[1] < ss[2]}
           Out == Nat \ S
<1>1. IsWellFoundedOn(R, Nat)
  BY NatLessThanWellFounded DEF OpToRel
<1>2. SUFFICES ASSUME Out # {} PROVE FALSE
  OBVIOUS
<1>3. Out \subseteq Nat
  OBVIOUS
<1> HIDE DEF Out
<1>4. PICK x \in Out : \A y \in Out : ~(<<y, x>> \in R)
  BY <1>1, <1>2, <1>3, WFMin
<1> USE DEF Out
<1>5. x - 1 \in Nat /\ x - 1 < x
  BY <1>4
<1>6. x - 1 \in S
  BY <1>4, <1>5
<1>7. (x - 1) + 1 \in S
  BY <1>5, <1>6
<1> QED
  BY <1>4, <1>7

-----------------------------------------------------------------------------
(***************************************************************************)
(* How many elements of a sequence are in a set.                            *)
(***************************************************************************)
Places(q, S) == {i \in DOMAIN q : q[i] \in S}

LEMMA PlacesFinite ==
    ASSUME NEW C, NEW q \in Seq(C), NEW S
    PROVE  /\ Places(q, S) \subseteq 1 .. Len(q) /\ IsFiniteSet(Places(q, S))
           /\ HowMany(q, S) = Cardinality(Places(q, S)) /\ HowMany(q, S) \in 0 .. Len(q)
<1>1. DOMAIN q = 1 .. Len(q) /\ Len(q) \in Nat
  BY LenProperties
<1>2. IsFiniteSet(1 .. Len(q)) /\ Cardinality(1 .. Len(q)) = Len(q)
  BY <1>1, FS_Interval
<1>3. Places(q, S) \subseteq 1 .. Len(q)
  BY <1>1 DEF Places
<1>4. IsFiniteSet(Places(q, S)) /\ Cardinality(Places(q, S)) <= Len(q)
  BY <1>2, <1>3, FS_Subset
<1>5. Cardinality(Places(q, S)) \in Nat
  BY <1>4, FS_CardinalityType
<1>6. HowMany(q, S) = Cardinality(Places(q, S))
  BY DEF HowMany, Places
<1> QED
  BY <1>1, <1>3, <1>4, <1>5, <1>6

LEMMA HowManyEmpty == \A S : HowMany(<< >>, S) = 0
<1>1. ASSUME NEW S PROVE HowMany(<< >>, S) = 0
  <2>1. {i \in DOMAIN << >> : << >>[i] \in S} = {}
    OBVIOUS
  <2> QED
    BY <2>1, FS_EmptySet DEF HowMany
<1> QED
  BY <1>1

LEMMA HowManyAppend ==
    ASSUME NEW C, NEW q \in Seq(C), NEW e \in C, NEW S
    PROVE  HowMany(Append(q, e), S) = IF e \in S THEN HowMany(q, S) + 1 ELSE HowMany(q, S)
<1>1. PICK r : r = Append(q, e)
  OBVIOUS
<1>2. /\ r \in Seq(C) /\ Len(r) = Len(q) + 1 /\ \A i \in 1 .. Len(q) : r[i] = q[i]
      /\ r[Len(q) + 1] = e
  BY <1>1, AppendProperties
<1>3. DOMAIN q = 1 .. Len(q) /\ Len(q) \in Nat /\ DOMAIN r = 1 .. Len(q) + 1
  <2>1. DOMAIN q = 1 .. Len(q) /\ Len(q) \in Nat
    BY LenProperties
  <2>2. DOMAIN r = 1 .. Len(r)
    BY <1>2, LenProperties
  <2> QED
    BY <1>2, <2>1, <2>2
<1>4. Places(r, S) = IF e \in S THEN Places(q, S) \cup {Len(q) + 1} ELSE Places(q, S)
  BY <1>2, <1>3 DEF Places
<1>5. IsFiniteSet(Places(q, S)) /\ Len(q) + 1 \notin Places(q, S)
  <2>1. Places(q, S) \subseteq 1 .. Len(q) /\ IsFiniteSet(Places(q, S))
    BY PlacesFinite
  <2> QED
    BY <1>3, <2>1
<1>6. Cardinality(Places(q, S) \cup {Len(q) + 1}) = Cardinality(Places(q, S)) + 1
  BY <1>5, FS_AddElement
<1>7. HowMany(q, S) = Cardinality(Places(q, S)) /\ HowMany(r, S) = Cardinality(Places(r, S))
  BY DEF HowMany, Places
<1> QED
  BY <1>1, <1>4, <1>6, <1>7

\* What is in front is no longer counted.
LEMMA HowManyTail ==
    ASSUME NEW C, NEW q \in Seq(C), q # << >>, NEW S
    PROVE  HowMany(Tail(q), S) = IF Head(q) \in S THEN HowMany(q, S) - 1 ELSE HowMany(q, S)
<1>1. PICK r : r = Tail(q)
  OBVIOUS
<1>2. /\ r \in Seq(C) /\ Len(r) = Len(q) - 1 /\ \A i \in 1 .. Len(r) : r[i] = q[i + 1]
      /\ Head(q) = q[1]
  BY <1>1, HeadTailProperties
<1>3. /\ DOMAIN q = 1 .. Len(q) /\ Len(q) \in Nat \ {0} /\ DOMAIN r = 1 .. Len(q) - 1
      /\ Len(r) \in Nat
  <2>1. DOMAIN q = 1 .. Len(q) /\ Len(q) \in Nat \ {0}
    BY LenProperties, EmptySeq
  <2>2. DOMAIN r = 1 .. Len(r)
    BY <1>2, LenProperties
  <2> QED
    BY <1>2, <2>1, <2>2
<1> DEFINE P == Places(q, S) \ {1}
           f == [i \in Places(r, S) |-> i + 1]
<1>4. f \in Bijection(Places(r, S), P)
  <2>1. \A i \in Places(r, S) : i \in 1 .. Len(r) /\ r[i] \in S
    BY <1>2, <1>3 DEF Places
  <2>2. \A i \in Places(r, S) : i + 1 \in P
    BY <1>2, <1>3, <2>1 DEF Places
  <2>3. \A j \in P : j - 1 \in Places(r, S) /\ (j - 1) + 1 = j
    <3> SUFFICES ASSUME NEW j \in P PROVE j - 1 \in Places(r, S) /\ (j - 1) + 1 = j
      OBVIOUS
    <3>1. j \in 1 .. Len(q) /\ j # 1 /\ q[j] \in S
      BY <1>3 DEF Places
    <3>2. j - 1 \in 1 .. Len(r) /\ (j - 1) + 1 = j
      BY <1>2, <1>3, <3>1
    <3>3. r[j - 1] = q[j]
      BY <1>2, <3>2
    <3> QED
      BY <1>2, <1>3, <3>1, <3>2, <3>3 DEF Places
  <2>4. f \in Injection(Places(r, S), P)
    BY <2>1, <2>2, Fun_IsInj
  <2>5. f \in Surjection(Places(r, S), P)
    BY <2>2, <2>3, Fun_IsSurj
  <2> QED
    BY <2>4, <2>5 DEF Bijection
<1>5. IsFiniteSet(Places(r, S)) /\ IsFiniteSet(Places(q, S))
  BY <1>2, PlacesFinite
<1>6. Cardinality(Places(r, S)) = Cardinality(P)
  <2>1. ExistsBijection(Places(r, S), P)
    BY <1>4 DEF ExistsBijection
  <2> HIDE DEF P
  <2> QED
    BY <1>5, <2>1, FS_Bijection
<1>7. Cardinality(P) = IF 1 \in Places(q, S) THEN Cardinality(Places(q, S)) - 1
                       ELSE Cardinality(Places(q, S))
  BY <1>5, FS_RemoveElement
<1>8. 1 \in Places(q, S) <=> Head(q) \in S
  BY <1>2, <1>3 DEF Places
<1>9. HowMany(q, S) = Cardinality(Places(q, S)) /\ HowMany(r, S) = Cardinality(Places(r, S))
  BY DEF HowMany, Places
<1> QED
  BY <1>1, <1>6, <1>7, <1>8, <1>9

\* Nothing of the set is cut off.
LEMMA HowManyCut ==
    ASSUME NEW C, NEW q \in Seq(C), NEW n \in 0 .. Len(q), NEW S,
           \A i \in n + 1 .. Len(q) : q[i] \notin S
    PROVE  /\ SubSeq(q, 1, n) \in Seq(C) /\ Len(SubSeq(q, 1, n)) = n
           /\ HowMany(SubSeq(q, 1, n), S) = HowMany(q, S)
<1>1. PICK r : r = SubSeq(q, 1, n)
  OBVIOUS
<1>2. DOMAIN q = 1 .. Len(q) /\ Len(q) \in Nat /\ q \in [1 .. Len(q) -> C]
  BY LenProperties
<1>3. r \in Seq(C) /\ Len(r) = n /\ \A i \in 1 .. n : r[i] = q[i]
  <2>1. \A i \in 1 .. n : q[i] \in C
    BY <1>2
  <2>2. /\ r \in Seq(C) /\ Len(r) = IF 1 <= n THEN n - 1 + 1 ELSE 0
        /\ \A i \in 1 .. n - 1 + 1 : r[i] = q[1 + i - 1]
    BY <1>1, <2>1, SubSeqProperties
  <2> QED
    BY <1>2, <2>2
<1>4. DOMAIN r = 1 .. n
  BY <1>3, LenProperties
<1>5. Places(r, S) = Places(q, S)
  BY <1>2, <1>3, <1>4 DEF Places
<1> QED
  BY <1>1, <1>3, <1>5 DEF HowMany, Places

\* Nothing of the set is added.
LEMMA HowManyMore ==
    ASSUME NEW C, NEW q \in Seq(C), NEW k \in Seq(C), NEW S,
           \A i \in 1 .. Len(k) : k[i] \notin S, NEW r, r = q \o k
    PROVE  HowMany(r, S) = HowMany(q, S)
<1>1. /\ r \in Seq(C) /\ Len(r) = Len(q) + Len(k)
      /\ \A i \in 1 .. Len(q) + Len(k) : r[i] = IF i <= Len(q) THEN q[i] ELSE k[i - Len(q)]
  BY ConcatProperties
<1>2. /\ DOMAIN q = 1 .. Len(q) /\ Len(q) \in Nat /\ Len(k) \in Nat
      /\ DOMAIN r = 1 .. Len(q) + Len(k)
  BY <1>1, LenProperties
<1>3. \A i \in 1 .. Len(q) : i \in 1 .. Len(q) + Len(k) /\ r[i] = q[i]
  BY <1>1, <1>2
<1>4. ASSUME NEW i \in 1 .. Len(q) + Len(k), i \notin 1 .. Len(q) PROVE r[i] \notin S
  <2>1. i - Len(q) \in 1 .. Len(k) /\ ~(i <= Len(q))
    BY <1>2, <1>4
  <2>2. r[i] = k[i - Len(q)]
    BY <1>1, <2>1
  <2> QED
    BY <2>1, <2>2
<1>5. Places(r, S) = Places(q, S)
  BY <1>2, <1>3, <1>4 DEF Places
<1> QED
  BY <1>5 DEF HowMany, Places

-----------------------------------------------------------------------------
(***************************************************************************)
(* What FoldLeft computes, for Cook: f[n] is what the first n characters    *)
(* make of the state.                                                       *)
(***************************************************************************)
IsFold(f, n, q, base) ==
    f = [s \in SUBSET (1 .. n) |->
            IF s = {} THEN base ELSE LET x == Max(s) IN Cook(f[s \ {x}], q[x])]

LEMMA MaxIsLast ==
    ASSUME NEW n \in Nat, NEW s, s \subseteq 1 .. n + 1, n + 1 \in s
    PROVE  Max(s) = n + 1
<1>1. \A i \in s : n + 1 >= i /\ (i >= n + 1 => i = n + 1)
  OBVIOUS
<1>2. Max(s) \in s /\ \A i \in s : Max(s) >= i
  BY <1>1 DEF Max
<1> QED
  BY <1>1, <1>2

LEMMA FoldExists ==
    ASSUME NEW q, NEW base
    PROVE  \A n \in Nat : \E f : IsFold(f, n, q, base)
<1> DEFINE S == {n \in Nat : \E f : IsFold(f, n, q, base)}
<1>1. 0 \in S
  <2>1. SUBSET (1 .. 0) = {{}}
    OBVIOUS
  <2>2. IsFold([s \in SUBSET (1 .. 0) |-> base], 0, q, base)
    BY <2>1 DEF IsFold
  <2> QED
    BY <2>2
<1>2. ASSUME NEW n \in Nat, n \in S PROVE n + 1 \in S
  <2>1. PICK f : IsFold(f, n, q, base)
    BY <1>2
  <2> DEFINE g == [s \in SUBSET (1 .. n + 1) |->
                      IF n + 1 \in s THEN Cook(f[s \ {n + 1}], q[n + 1]) ELSE f[s]]
             Def(s) == IF s = {} THEN base ELSE Cook(g[s \ {Max(s)}], q[Max(s)])
  <2>2. ASSUME NEW s \in SUBSET (1 .. n) PROVE s \in SUBSET (1 .. n + 1) /\ n + 1 \notin s /\ g[s] = f[s]
    OBVIOUS
  <2>3. ASSUME NEW s \in SUBSET (1 .. n + 1) PROVE g[s] = Def(s)
    <3>1. CASE n + 1 \in s
      <4>1. Max(s) = n + 1
        BY <3>1, MaxIsLast
      <4>2. s \ {n + 1} \in SUBSET (1 .. n)
        OBVIOUS
      <4>3. g[s \ {n + 1}] = f[s \ {n + 1}]
        BY <2>2, <4>2
      <4>4. g[s] = Cook(f[s \ {n + 1}], q[n + 1])
        BY <3>1
      <4> HIDE DEF g
      <4> QED
        BY <3>1, <4>1, <4>3, <4>4
    <3>2. CASE n + 1 \notin s
      <4>1. s \in SUBSET (1 .. n)
        BY <3>2
      <4>2. g[s] = f[s]
        BY <2>2, <4>1
      <4>3. f[s] = IF s = {} THEN base ELSE Cook(f[s \ {Max(s)}], q[Max(s)])
        BY <2>1, <4>1 DEF IsFold
      <4>4. s \ {Max(s)} \in SUBSET (1 .. n)
        BY <4>1
      <4>5. g[s \ {Max(s)}] = f[s \ {Max(s)}]
        BY <2>2, <4>4
      <4> HIDE DEF g
      <4> QED
        BY <4>2, <4>3, <4>5
    <3> QED
      BY <3>1, <3>2
  <2>4. g = [s \in SUBSET (1 .. n + 1) |-> g[s]]
    OBVIOUS
  <2>5. IsFold(g, n + 1, q, base)
    <3> HIDE DEF g
    <3>1. g = [s \in SUBSET (1 .. n + 1) |-> Def(s)]
      BY <2>3, <2>4
    <3> QED
      BY <3>1 DEF IsFold
  <2> QED
    BY <2>5
<1> HIDE DEF S
<1>3. \A n \in Nat : n \in S
  BY <1>1, <1>2, SetInduction
<1> QED
  BY <1>3 DEF S

CopyToCooked(base, q) == FoldLeft(Cook, base, q)

LEMMA FoldCooks ==
    ASSUME NEW q, NEW n \in Nat, DOMAIN q = 1 .. n, NEW base,
           NEW r, r = CopyToCooked(base, q)
    PROVE  \E f : f[0] = base /\ (\A i \in 1 .. n : f[i] = Cook(f[i - 1], q[i])) /\ r = f[n]
<1> DEFINE Def(f) == [s \in SUBSET (1 .. n) |->
                         IF s = {} THEN base ELSE LET x == Max(s) IN Cook(f[s \ {x}], q[x])]
<1>1. \E f : f = Def(f)
  <2>1. PICK f : IsFold(f, n, q, base)
    BY FoldExists
  <2>2. f = Def(f)
    BY <2>1 DEF IsFold
  <2> QED
    BY <2>2
<1>2. PICK h : h = CHOOSE f : f = Def(f)
  OBVIOUS
<1>3. h = Def(h)
  BY <1>1, <1>2
<1>4. r = h[1 .. n]
  BY <1>2 DEF CopyToCooked, FoldLeft, MapThenFoldSet
<1> DEFINE f == [i \in 0 .. n |-> h[1 .. i]]
<1>5. f[0] = base
  <2>1. 1 .. 0 = {} /\ 0 \in 0 .. n
    OBVIOUS
  <2> QED
    BY <1>3, <2>1
<1>6. ASSUME NEW i \in 1 .. n PROVE f[i] = Cook(f[i - 1], q[i])
  <2>1. i - 1 \in Nat /\ (i - 1) + 1 = i /\ 1 .. i \subseteq 1 .. n /\ 1 .. i # {}
    <3>1. i \in Nat /\ 1 <= i /\ i <= n /\ i \in 1 .. i
      OBVIOUS
    <3>2. i - 1 \in Nat /\ (i - 1) + 1 = i
      BY <3>1
    <3>3. \A j \in 1 .. i : j \in 1 .. n
      BY <3>1
    <3> QED
      BY <3>1, <3>2, <3>3
  <2>2. Max(1 .. i) = i
    <3>1. PICK m \in Nat : m = i - 1
      BY <2>1
    <3>2. m + 1 = i /\ 1 .. i \subseteq 1 .. m + 1 /\ m + 1 \in 1 .. i
      BY <2>1, <3>1
    <3>3. Max(1 .. i) = m + 1
      BY <3>2, MaxIsLast
    <3> QED
      BY <3>2, <3>3
  <2>3. (1 .. i) \ {i} = 1 .. i - 1
    OBVIOUS
  <2>4. h[1 .. i] = Cook(h[(1 .. i) \ {i}], q[i])
    BY <1>3, <2>1, <2>2
  <2>5. i - 1 \in 0 .. n /\ i \in 0 .. n
    OBVIOUS
  <2> QED
    BY <2>3, <2>4, <2>5
<1>7. r = f[n]
  BY <1>4
<1> HIDE DEF f
<1> QED
  BY <1>5, <1>6, <1>7

-----------------------------------------------------------------------------
(***************************************************************************)
(* copy_to_cooked, one character at a time.                                 *)
(***************************************************************************)
LEMMA Sizes == BUF \in Nat /\ BUF > 2 /\ Echo \notin Task
BY TtyAssumption

LEMMA GreatestIn ==
    ASSUME NEW n \in Nat, NEW S, S \subseteq 0 .. n, S # {}
    PROVE  Max(S) \in S /\ \A i \in S : i <= Max(S)
<1> DEFINE R == {ss \in Nat \X Nat : ss[1] < ss[2]}
           D == {n - i : i \in S}
<1>1. IsWellFoundedOn(R, Nat)
  BY NatLessThanWellFounded DEF OpToRel
<1>2. D \subseteq Nat /\ D # {}
  <2>1. \A i \in S : i \in 0 .. n /\ n - i \in Nat
    OBVIOUS
  <2> QED
    BY <2>1
<1> HIDE DEF D
<1>3. PICK d \in D : \A y \in D : ~(<<y, d>> \in R)
  BY <1>1, <1>2, WFMin
<1> USE DEF D
<1>4. PICK m \in S : d = n - m
  BY <1>3
<1>5. ASSUME NEW i \in S PROVE m >= i
  <2>1. n - i \in D /\ n - i \in Nat /\ d \in Nat
    BY <1>2
  <2>2. ~(n - i < d)
    BY <1>3, <2>1
  <2> QED
    BY <1>4, <2>2
<1>6. Max(S) \in S /\ \A i \in S : Max(S) >= i
  BY <1>5 DEF Max
<1> QED
  BY <1>6

Fold == [rest : Seq(Characters), cooked : Seq(Characters), data : Nat,
         out : Seq(Task \cup {Echo}), intr : BOOLEAN, echoed : BOOLEAN, raced : BOOLEAN]

\* What a step keeps that puts n bytes of echo.
SameInput(s, e) == e.rest = s.rest /\ e.cooked = s.cooked /\ e.data = s.data /\ e.intr = s.intr

\* The output is the tasks' own, unless it has run over.
OutputRight(s) ==
    /\ Len(s.out) < BUF
    /\ mode.serial /\ ~s.raced => \A t \in Task : HowMany(s.out, {t}) = HowMany(out, {t})
    /\ ~mode.serial => s.out = IF s.echoed THEN << >> ELSE out
    /\ ~s.echoed => s.out = out

LEMMA EchoesRight ==
    ASSUME NEW s \in Fold, OutputRight(s), NEW n \in 0 .. BUF, NEW e, e = Echoes(s, n)
    PROVE  e \in Fold /\ SameInput(s, e) /\ OutputRight(e) /\ (s.raced => e.raced)
<1> USE Sizes
<1>1. CASE ~mode.echo \/ n = 0
  <2>1. e = s
    BY <1>1 DEF Echoes
  <2> QED
    BY <2>1 DEF SameInput, Fold
<1>2. CASE ~(~mode.echo \/ n = 0)
  <2>1. PICK q : q = CASE ~mode.serial -> << >>
                       [] mode.serial /\ n <= LEFT(s.out) -> s.out \o [i \in 1 .. n |-> Echo]
                       [] OTHER -> [i \in 1 .. Len(s.out) + n - BUF |-> Echo]
    OBVIOUS
  <2>2. e = [s EXCEPT !.out = q, !.echoed = TRUE, !.raced = s.raced \/ n > LEFT(s.out)]
    BY <1>2, <2>1 DEF Echoes
  <2>3. s.out \in Seq(Task \cup {Echo}) /\ Len(s.out) \in Nat /\ Len(s.out) < BUF
    BY LenProperties DEF Fold, OutputRight
  <2>4. q \in Seq(Task \cup {Echo}) /\ Len(q) < BUF
    <3>1. CASE ~mode.serial
      <4>1. q = << >>
        BY <2>1, <3>1
      <4> QED
        BY <4>1, EmptySeq
    <3>2. CASE mode.serial /\ n <= LEFT(s.out)
      <4>1. q = s.out \o [i \in 1 .. n |-> Echo]
        BY <2>1, <3>2
      <4>2. [i \in 1 .. n |-> Echo] \in Seq(Task \cup {Echo}) /\ Len([i \in 1 .. n |-> Echo]) = n
        OBVIOUS
      <4>3. q \in Seq(Task \cup {Echo}) /\ Len(q) = Len(s.out) + n
        BY <2>3, <4>1, <4>2, ConcatProperties
      <4> QED
        BY <2>3, <3>2, <4>3 DEF LEFT
    <3>3. CASE mode.serial /\ ~(n <= LEFT(s.out))
      <4>1. q = [i \in 1 .. Len(s.out) + n - BUF |-> Echo]
        BY <2>1, <3>3
      <4>2. Len(s.out) + n - BUF \in 0 .. BUF - 1
        BY <2>3, <3>3 DEF LEFT
      <4>3. PICK m \in 0 .. BUF - 1 : m = Len(s.out) + n - BUF
        BY <4>2
      <4>4. [i \in 1 .. m |-> Echo] \in Seq(Task \cup {Echo}) /\ Len([i \in 1 .. m |-> Echo]) = m
        OBVIOUS
      <4> QED
        BY <4>1, <4>3, <4>4
    <3> QED
      BY <3>1, <3>2, <3>3
  <2>5. PICK b \in BOOLEAN : b = (s.raced \/ n > LEFT(s.out))
    OBVIOUS
  <2>6. /\ e \in Fold /\ SameInput(s, e)
        /\ e.out = q /\ e.echoed = TRUE /\ e.raced = b
    <3>1. e = [s EXCEPT !.out = q, !.echoed = TRUE, !.raced = b]
      BY <2>2, <2>5
    <3> QED
      BY <2>4, <3>1 DEF Fold, SameInput
  <2>7. ASSUME mode.serial, ~e.raced, NEW t \in Task PROVE HowMany(q, {t}) = HowMany(out, {t})
    <3>1. ~s.raced /\ ~(n > LEFT(s.out))
      BY <2>5, <2>6, <2>7
    <3>2. n <= LEFT(s.out)
      <4>1. PICK l \in Nat : l = LEFT(s.out)
        <5>1. BUF - 1 - Len(s.out) \in Nat
          BY <2>3
        <5> QED
          BY <5>1 DEF LEFT
      <4>2. ~(n > l)
        BY <3>1, <4>1
      <4>3. n <= l
        BY <4>2
      <4> QED
        BY <4>1, <4>3
    <3>3. q = s.out \o [i \in 1 .. n |-> Echo]
      BY <2>1, <2>7, <3>2
    <3>4. Echo \in Task \cup {Echo} /\ Echo \notin {t} /\ n \in Nat
      OBVIOUS
    <3>5. PICK S : S = {t}
      OBVIOUS
    <3>6. PICK C : C = Task \cup {Echo}
      OBVIOUS
    <3>7. s.out \in Seq(C) /\ Echo \in C /\ Echo \notin S
      BY <2>3, <3>4, <3>5, <3>6
    <3>8. HowMany(q, S) = HowMany(s.out, S)
      <4>1. PICK k : k = [i \in 1 .. n |-> Echo]
        OBVIOUS
      <4>2. k \in Seq(C) /\ Len(k) = n /\ \A i \in 1 .. Len(k) : k[i] \notin S
        BY <3>4, <3>7, <4>1
      <4>3. q = s.out \o k
        BY <3>3, <4>1
      <4> QED
        BY <3>7, <4>2, <4>3, HowManyMore
    <3> QED
      BY <2>7, <3>1, <3>3, <3>5, <3>8 DEF OutputRight
  <2>8. ~mode.serial => q = << >>
    BY <2>1
  <2> QED
    BY <2>4, <2>5, <2>6, <2>7, <2>8 DEF OutputRight
<1> QED
  BY <1>1, <1>2

\* What holds after i characters, of a state that began as the variables are.
Cooked(s, i) ==
    /\ s \in Fold /\ OutputRight(s)
    /\ Len(s.rest) <= i
    /\ Len(s.cooked) < BUF /\ s.data = HowMany(s.cooked, LineEnds)
    /\ (\E t \in Task : pc[t] = "fetched") /\ cooked # << >> /\ ~s.raced => s.cooked # << >>

LEMMA AcceptsRight ==
    ASSUME NEW s, NEW i \in Nat, Cooked(s, i), ~FULL(s.cooked), NEW c \in Characters
    PROVE  Cooked(Accepts(s, c), i)
<1> USE Sizes
<1>1. PICK n \in 1 .. 2 : n = IF c = "a" THEN 1 ELSE 2
  OBVIOUS
<1>2. PICK e : e = Echoes(s, n)
  OBVIOUS
<1>3. e \in Fold /\ SameInput(s, e) /\ OutputRight(e) /\ (s.raced => e.raced)
  <2>1. n \in 0 .. BUF /\ s \in Fold /\ OutputRight(s)
    BY DEF Cooked
  <2> QED
    BY <1>2, <2>1, EchoesRight
<1>4. PICK r : r = Accepts(s, c)
  OBVIOUS
<1>5. r = [e EXCEPT !.cooked = Append(e.cooked, c),
                    !.data   = IF c \in LineEnds THEN e.data + 1 ELSE e.data]
  BY <1>1, <1>2, <1>4 DEF Accepts
<1>6. e.cooked \in Seq(Characters) /\ Len(e.cooked) \in Nat /\ Len(e.cooked) < BUF - 1 /\ e.data \in Nat
  <2>1. e.cooked = s.cooked /\ Len(s.cooked) < BUF /\ s.cooked \in Seq(Characters)
    BY <1>3 DEF SameInput, Cooked, Fold
  <2>2. Len(s.cooked) \in Nat
    BY <2>1, LenProperties
  <2> QED
    BY <1>3, <2>1, <2>2 DEF FULL, LEFT, Fold
<1>7. PICK q : q = Append(e.cooked, c)
  OBVIOUS
<1>8. /\ q \in Seq(Characters) /\ q # << >> /\ Len(q) = Len(e.cooked) + 1
      /\ HowMany(q, LineEnds) = IF c \in LineEnds THEN HowMany(e.cooked, LineEnds) + 1
                                ELSE HowMany(e.cooked, LineEnds)
  BY <1>6, <1>7, AppendProperties, HowManyAppend
<1>9. PICK d \in Nat : d = IF c \in LineEnds THEN e.data + 1 ELSE e.data
  BY <1>6
<1>10. /\ r \in Fold /\ r.rest = e.rest /\ r.cooked = q /\ r.data = d /\ r.out = e.out
       /\ r.intr = e.intr /\ r.echoed = e.echoed /\ r.raced = e.raced
  <2>1. r = [e EXCEPT !.cooked = q, !.data = d]
    BY <1>5, <1>7, <1>9
  <2> QED
    BY <1>3, <1>8, <2>1 DEF Fold
<1>11. OutputRight(r)
  BY <1>3, <1>10 DEF OutputRight
<1>12. r.data = HowMany(r.cooked, LineEnds)
  BY <1>3, <1>8, <1>9, <1>10 DEF SameInput, Cooked
<1>13. Len(r.rest) <= i
  BY <1>3, <1>10 DEF SameInput, Cooked
<1> QED
  BY <1>4, <1>6, <1>8, <1>10, <1>11, <1>12, <1>13 DEF Cooked

LEMMA ErasesRight ==
    ASSUME NEW s, NEW i \in Nat, Cooked(s, i), NEW n \in 0 .. Len(s.cooked),
           \A j \in n + 1 .. Len(s.cooked) : s.cooked[j] \notin LineEnds
    PROVE  Cooked(Erases(s, n), i)
<1> USE Sizes
<1>1. s \in Fold /\ OutputRight(s) /\ s.cooked \in Seq(Characters) /\ Len(s.cooked) < BUF
  BY DEF Cooked, Fold
<1>2. Len(s.cooked) \in Nat
  BY <1>1, LenProperties
<1>3. PICK m \in 0 .. BUF : m = Len(s.cooked) - n
  <2>1. Len(s.cooked) - n \in 0 .. BUF
    BY <1>1, <1>2
  <2> QED
    BY <2>1
<1>4. PICK e : e = Echoes(s, m)
  OBVIOUS
<1>5. e \in Fold /\ SameInput(s, e) /\ OutputRight(e) /\ (s.raced => e.raced)
  BY <1>1, <1>4, EchoesRight
<1>6. PICK q : q = SubSeq(e.cooked, 1, n)
  OBVIOUS
<1>7. /\ q \in Seq(Characters) /\ Len(q) = n
      /\ HowMany(q, LineEnds) = HowMany(s.cooked, LineEnds)
  <2>1. e.cooked = s.cooked
    BY <1>5 DEF SameInput
  <2> QED
    BY <1>1, <1>6, <2>1, HowManyCut
<1>8. PICK b \in BOOLEAN : b = (e.raced \/ (n = 0 /\ \E t \in Task : pc[t] = "fetched"))
  OBVIOUS
<1>9. PICK r : r = Erases(s, n)
  OBVIOUS
<1>10. r = [e EXCEPT !.cooked = q, !.raced = b]
  <2>1. r = [e EXCEPT !.cooked = SubSeq(e.cooked, 1, n),
                      !.raced  = e.raced \/ (n = 0 /\ \E t \in Task : pc[t] = "fetched")]
    BY <1>3, <1>4, <1>9 DEF Erases
  <2> QED
    BY <1>6, <1>8, <2>1
<1>11. /\ r \in Fold /\ r.rest = e.rest /\ r.cooked = q /\ r.data = e.data /\ r.out = e.out
       /\ r.intr = e.intr /\ r.echoed = e.echoed /\ r.raced = b
  BY <1>5, <1>7, <1>10 DEF Fold
<1>12. OutputRight(r)
  BY <1>5, <1>8, <1>11 DEF OutputRight
<1>13. r.data = HowMany(r.cooked, LineEnds) /\ Len(r.rest) <= i /\ Len(r.cooked) < BUF
  BY <1>1, <1>2, <1>5, <1>7, <1>11 DEF SameInput, Cooked
<1>14. ASSUME \E t \in Task : pc[t] = "fetched", ~r.raced PROVE r.cooked # << >>
  <2>1. n # 0
    BY <1>8, <1>11, <1>14
  <2> QED
    BY <1>7, <1>11, <2>1, EmptySeq
<1> QED
  BY <1>9, <1>11, <1>12, <1>13, <1>14 DEF Cooked

LEMMA EditsRight ==
    ASSUME NEW s, NEW i \in Nat, Cooked(s, i), NEW c
    PROVE  Cooked(Edits(s, c), i)
<1> DEFINE q == s.cooked
<1>1. q \in Seq(Characters)
  BY DEF Cooked, Fold
<1>2. DOMAIN q = 1 .. Len(q) /\ Len(q) \in Nat
  BY <1>1, LenProperties
<1>3. CASE ~Erasable(q)
  BY <1>3 DEF Edits
<1>4. CASE Erasable(q) /\ c = "erase"
  <2>1. Len(q) \in Nat \ {0} /\ q[Len(q)] \notin LineEnds
    BY <1>1, <1>4, EmptySeq DEF Erasable, Last
  <2>2. PICK n \in 0 .. Len(q) : n = Len(q) - 1
    <3>1. Len(q) - 1 \in 0 .. Len(q)
      BY <2>1
    <3> QED
      BY <3>1
  <2>3. \A j \in n + 1 .. Len(q) : q[j] \notin LineEnds
    BY <2>1, <2>2
  <2>4. Cooked(Erases(s, n), i)
    BY <2>3, ErasesRight
  <2> QED
    BY <1>4, <2>2, <2>4 DEF Edits
<1>5. CASE Erasable(q) /\ c # "erase"
  <2> DEFINE E == {0} \cup {j \in DOMAIN q : q[j] \in LineEnds}
  <2>1. E \subseteq 0 .. Len(q) /\ E # {}
    BY <1>2
  <2>2. Max(E) \in E /\ \A j \in E : j <= Max(E)
    <3> HIDE DEF E
    <3> QED
      BY <1>2, <2>1, GreatestIn
  <2>3. PICK n \in 0 .. Len(q) : n = Max(E)
    BY <2>1, <2>2
  <2>4. ASSUME NEW j \in n + 1 .. Len(q) PROVE q[j] \notin LineEnds
    <3>1. j \in Nat /\ j \in DOMAIN q /\ ~(j <= n)
      BY <1>2
    <3>2. j \notin E
      BY <2>2, <2>3, <3>1
    <3> QED
      BY <3>1, <3>2
  <2>5. Cooked(Erases(s, n), i)
    BY <2>4, ErasesRight
  <2> QED
    BY <1>5, <2>3, <2>5 DEF Edits, LineStart
<1> QED
  BY <1>3, <1>4, <1>5

\* One character.
LEMMA CookRight ==
    ASSUME NEW s, NEW i \in Nat, Cooked(s, i), NEW c \in Characters
    PROVE  Cooked(Cook(s, c), i + 1)
<1>1. \A r : Cooked(r, i) => Cooked(r, i + 1)
  <2> SUFFICES ASSUME NEW r, Cooked(r, i) PROVE Len(r.rest) <= i + 1
    BY DEF Cooked
  <2>1. r.rest \in Seq(Characters) /\ Len(r.rest) <= i
    BY DEF Cooked, Fold
  <2>2. Len(r.rest) \in Nat
    BY <2>1, LenProperties
  <2> QED
    BY <2>1, <2>2
<1>2. CASE s.rest # << >> \/ FULL(s.cooked)
  <2>1. s.rest \in Seq(Characters) /\ Len(s.rest) <= i
    BY DEF Cooked, Fold
  <2>2. PICK q : q = Append(s.rest, c)
    OBVIOUS
  <2>3. q \in Seq(Characters) /\ Len(q) = Len(s.rest) + 1 /\ Len(s.rest) \in Nat
    BY <2>1, <2>2, AppendProperties, LenProperties
  <2>4. PICK r : r = [s EXCEPT !.rest = q]
    OBVIOUS
  <2>5. /\ r \in Fold /\ r.rest = q /\ r.cooked = s.cooked /\ r.data = s.data /\ r.out = s.out
        /\ r.intr = s.intr /\ r.echoed = s.echoed /\ r.raced = s.raced
    BY <2>3, <2>4 DEF Cooked, Fold
  <2>6. Cooked(r, i + 1)
    BY <2>1, <2>3, <2>5 DEF Cooked, OutputRight
  <2>7. Cook(s, c) = r
    <3>1. Cook(s, c) = [s EXCEPT !.rest = Append(s.rest, c)]
      BY <1>2 DEF Cook
    <3> QED
      BY <2>2, <2>4, <3>1
  <2> QED
    BY <2>6, <2>7
<1>3. CASE ~(s.rest # << >> \/ FULL(s.cooked)) /\ mode.canon /\ c \in {"erase", "kill"}
  <2>1. Cook(s, c) = Edits(s, c)
    BY <1>3 DEF Cook
  <2> QED
    BY <1>1, <2>1, EditsRight
<1>4. CASE ~(s.rest # << >> \/ FULL(s.cooked)) /\ mode.canon /\ c = "intr"
  <2>1. PICK r : r = [s EXCEPT !.intr = TRUE]
    OBVIOUS
  <2>2. /\ r \in Fold /\ r.rest = s.rest /\ r.cooked = s.cooked /\ r.data = s.data /\ r.out = s.out
        /\ r.echoed = s.echoed /\ r.raced = s.raced
    BY <2>1 DEF Cooked, Fold
  <2>3. Cooked(r, i)
    BY <2>2 DEF Cooked, OutputRight
  <2>4. Cook(s, c) = r
    <3>1. c \notin {"erase", "kill"}
      BY <1>4
    <3> QED
      BY <1>4, <2>1, <3>1 DEF Cook
  <2> QED
    BY <1>1, <2>3, <2>4
<1>5. CASE ~(s.rest # << >> \/ FULL(s.cooked)) /\ ~(mode.canon /\ c \in {"erase", "kill", "intr"})
  <2>1. Cook(s, c) = Accepts(s, c)
    BY <1>5 DEF Cook
  <2> QED
    BY <1>1, <1>5, <2>1, AcceptsRight
<1> QED
  BY <1>2, <1>3, <1>4, <1>5

\* All characters, from a good beginning.
LEMMA CookedRight ==
    ASSUME NEW q \in Seq(Characters), NEW base, Cooked(base, 0),
           NEW r, r = CopyToCooked(base, q)
    PROVE  Cooked(r, Len(q))
<1>1. DOMAIN q = 1 .. Len(q) /\ Len(q) \in Nat /\ q \in [1 .. Len(q) -> Characters]
  BY LenProperties
<1>2. PICK f : /\ f[0] = base
               /\ \A i \in 1 .. Len(q) : f[i] = Cook(f[i - 1], q[i])
               /\ r = f[Len(q)]
  <2>1. PICK n \in Nat : n = Len(q)
    BY <1>1
  <2>2. \E f : f[0] = base /\ (\A i \in 1 .. n : f[i] = Cook(f[i - 1], q[i])) /\ r = f[n]
    <3>1. DOMAIN q = 1 .. n
      BY <1>1, <2>1
    <3> QED
      BY <3>1, FoldCooks
  <2> QED
    BY <2>1, <2>2
<1> DEFINE S == {n \in Nat : n <= Len(q) => Cooked(f[n], n)}
<1>3. 0 \in S
  BY <1>2
<1>4. ASSUME NEW n \in Nat, n \in S PROVE n + 1 \in S
  <2> SUFFICES ASSUME n + 1 <= Len(q) PROVE Cooked(f[n + 1], n + 1)
    OBVIOUS
  <2>1. n + 1 \in 1 .. Len(q) /\ (n + 1) - 1 = n /\ n <= Len(q)
    BY <1>1
  <2>2. f[n + 1] = Cook(f[n], q[n + 1]) /\ q[n + 1] \in Characters
    BY <1>1, <1>2, <2>1
  <2>3. Cooked(f[n], n)
    BY <1>4, <2>1
  <2> QED
    BY <2>2, <2>3, CookRight
<1>5. \A n \in Nat : n \in S
  <2> HIDE DEF S
  <2> QED
    BY <1>3, <1>4, SetInduction
<1>6. Len(q) \in S
  BY <1>1, <1>5
<1>7. Cooked(f[Len(q)], Len(q))
  BY <1>1, <1>6
<1> QED
  BY <1>2, <1>7

-----------------------------------------------------------------------------
(***************************************************************************)
(* The queue operations, field by field.                                    *)
(***************************************************************************)
LEMMA FallingAsleep ==
    ASSUME NEW w \in WaitQueues, NEW q \in Queue, NEW t \in Task,
           NEW n, n = InterruptibleSleepOn(w, q, t)
    PROVE  /\ n \in WaitQueues
           /\ n.head[q] = t /\ n.tmp[t] = w.head[q]
           /\ \A p \in Queue \ {q} : n.head[p] = w.head[p]
           /\ \A u \in Task \ {t} : n.state[u] = w.state[u] /\ n.tmp[u] = w.tmp[u]
<1>1. n = [w EXCEPT !.state[t] = INTERRUPTIBLE, !.head[q] = t, !.tmp[t] = w.head[q]]
  BY DEF InterruptibleSleepOn, FallAsleep
<1>2. PICK h \in Task \cup {NoTask} : h = w.head[q]
  BY DEF WaitQueues
<1>3. n = [w EXCEPT !.state[t] = INTERRUPTIBLE, !.head[q] = t, !.tmp[t] = h]
  BY <1>1, <1>2
<1>4. /\ n \in WaitQueues /\ n.head = [w.head EXCEPT ![q] = t] /\ n.tmp = [w.tmp EXCEPT ![t] = h]
      /\ n.state = [w.state EXCEPT ![t] = INTERRUPTIBLE]
  <2>1. PICK how \in TaskState : how = INTERRUPTIBLE
    BY DEF TaskState
  <2>2. n = [w EXCEPT !.state[t] = how, !.head[q] = t, !.tmp[t] = h]
    BY <1>3, <2>1
  <2>3. n \in WaitQueues
    <3>1. PICK a \in [Task -> TaskState] : a = [w.state EXCEPT ![t] = how]
      BY DEF WaitQueues
    <3>2. PICK b \in [Queue -> Task \cup {NoTask}] : b = [w.head EXCEPT ![q] = t]
      BY DEF WaitQueues
    <3>3. PICK c \in [Task -> Task \cup {NoTask}] : c = [w.tmp EXCEPT ![t] = h]
      BY DEF WaitQueues
    <3>4. n = [w EXCEPT !.state = a, !.head = b, !.tmp = c]
      BY <2>2, <3>1, <3>2, <3>3 DEF WaitQueues
    <3> QED
      BY <3>4 DEF WaitQueues
  <2>4. /\ n.head = [w.head EXCEPT ![q] = t] /\ n.tmp = [w.tmp EXCEPT ![t] = h]
        /\ n.state = [w.state EXCEPT ![t] = how]
    BY <2>2 DEF WaitQueues
  <2> QED
    BY <2>1, <2>3, <2>4
<1>5. /\ n.head[q] = t /\ n.tmp[t] = h
      /\ \A p \in Queue \ {q} : n.head[p] = w.head[p]
      /\ \A u \in Task \ {t} : n.state[u] = w.state[u] /\ n.tmp[u] = w.tmp[u]
  BY <1>4 DEF WaitQueues
<1> QED
  BY <1>2, <1>4, <1>5

LEMMA OthersRunOn ==
    ASSUME NEW w \in WaitQueues, NEW q \in Queue, NEW t \in Task,
           NEW n, n = InterruptibleSleepOn(w, q, t), NEW u \in Task \ {t}
    PROVE  Runnable(n, u) <=> Runnable(w, u)
<1>1. n.head[q] = t /\ \A v \in Task \ {t} : n.state[v] = w.state[v] /\ n.tmp[v] = w.tmp[v]
  BY FallingAsleep
<1> QED
  BY <1>1 DEF Runnable

LEMMA MakingRunning ==
    ASSUME NEW w \in WaitQueues, NEW u \in Task \cup {NoTask}, NEW n, n = MakeRunning(w, u)
    PROVE  /\ n \in WaitQueues /\ n.head = w.head /\ n.tmp = w.tmp
           /\ \A v \in Task : Runnable(n, v) <=> Runnable(w, v) \/ v = u
<1>1. CASE u = NoTask
  BY <1>1, NoTaskAssumption DEF MakeRunning
<1>2. CASE u # NoTask
  <2>1. u \in Task /\ n = [w EXCEPT !.state[u] = RUNNING]
    BY <1>2 DEF MakeRunning
  <2>2. n \in WaitQueues /\ n.head = w.head /\ n.tmp = w.tmp /\ n.state = [w.state EXCEPT ![u] = RUNNING]
    BY <2>1 DEF WaitQueues, TaskState
  <2> QED
    BY <2>1, <2>2 DEF WaitQueues, Runnable
<1> QED
  BY <1>1, <1>2

LEMMA WakingUp ==
    ASSUME NEW w \in WaitQueues, NEW q \in Queue, NEW n, n = WakeUp(w, q)
    PROVE  /\ n \in WaitQueues
           /\ n.head[q] = NoTask /\ (\A p \in Queue \ {q} : n.head[p] = w.head[p]) /\ n.tmp = w.tmp
           /\ \A v \in Task : Runnable(n, v) <=> Runnable(w, v) \/ v = w.head[q]
<1>1. PICK h \in Task \cup {NoTask} : h = w.head[q]
  BY DEF WaitQueues
<1>2. PICK m : m = MakeRunning(w, h)
  OBVIOUS
<1>3. /\ m \in WaitQueues /\ m.head = w.head /\ m.tmp = w.tmp
      /\ \A v \in Task : Runnable(m, v) <=> Runnable(w, v) \/ v = h
  BY <1>2, MakingRunning
<1>4. n = [m EXCEPT !.head[q] = NoTask]
  BY <1>1, <1>2 DEF WakeUp
<1>5. n \in WaitQueues /\ n.head = [m.head EXCEPT ![q] = NoTask] /\ n.tmp = m.tmp /\ n.state = m.state
  BY <1>3, <1>4 DEF WaitQueues
<1>6. n.head[q] = NoTask /\ \A p \in Queue \ {q} : n.head[p] = w.head[p]
  BY <1>3, <1>5 DEF WaitQueues
<1> QED
  BY <1>1, <1>3, <1>5, <1>6 DEF Runnable

LEMMA SleepingAgain ==
    ASSUME NEW w \in WaitQueues, NEW q \in Queue, NEW t \in Task, AnotherIsLast(w, q, t),
           NEW n, n = SleepsAgain(w, q, t)
    PROVE  /\ n \in WaitQueues /\ n.head = w.head /\ n.tmp = w.tmp
           /\ w.head[q] \in Task \ {t} /\ Runnable(n, w.head[q])
           /\ \A v \in Task \ {t} : Runnable(w, v) => Runnable(n, v)
<1>1. PICK h \in Task \ {t} : h = w.head[q]
  BY DEF WaitQueues, AnotherIsLast
<1>2. PICK m : m = MakeRunning(w, h)
  OBVIOUS
<1>3. /\ m \in WaitQueues /\ m.head = w.head /\ m.tmp = w.tmp
      /\ \A v \in Task : Runnable(m, v) <=> Runnable(w, v) \/ v = h
  BY <1>2, MakingRunning
<1>4. n = [m EXCEPT !.state[t] = INTERRUPTIBLE]
  BY <1>1, <1>2 DEF SleepsAgain
<1>5. /\ n \in WaitQueues /\ n.head = m.head /\ n.tmp = m.tmp
      /\ n.state = [m.state EXCEPT ![t] = INTERRUPTIBLE]
  BY <1>3, <1>4 DEF WaitQueues, TaskState
<1>6. \A v \in Task \ {t} : Runnable(m, v) <=> Runnable(n, v)
  BY <1>3, <1>5 DEF WaitQueues, Runnable
<1> QED
  BY <1>1, <1>3, <1>5, <1>6

LEMMA Returning ==
    ASSUME NEW w \in WaitQueues, NEW q \in Queue, NEW t \in Task,
           NEW n, n = InterruptibleReturns(w, q, t)
    PROVE  /\ n \in WaitQueues
           /\ n.head[q] = w.tmp[t] /\ n.tmp[t] = NoTask
           /\ \A p \in Queue \ {q} : n.head[p] = w.head[p]
           /\ \A u \in Task \ {t} : n.tmp[u] = w.tmp[u]
           /\ \A v \in Task : Runnable(w, v) \/ v = w.tmp[t] => Runnable(n, v)
<1>1. PICK h \in Task \cup {NoTask} : h = w.tmp[t]
  BY DEF WaitQueues
<1>2. PICK m : m = MakeRunning(w, h)
  OBVIOUS
<1>3. /\ m \in WaitQueues /\ m.head = w.head /\ m.tmp = w.tmp
      /\ \A v \in Task : Runnable(m, v) <=> Runnable(w, v) \/ v = h
  BY <1>2, MakingRunning
<1>4. n = [m EXCEPT !.head[q] = h, !.tmp[t] = NoTask, !.state[t] = RUNNING]
  <2>1. n = [[m EXCEPT !.head[q] = h, !.tmp[t] = NoTask] EXCEPT !.state[t] = RUNNING]
    BY <1>1, <1>2 DEF InterruptibleReturns, SleepReturns
  <2> QED
    BY <1>3, <2>1 DEF WaitQueues
<1>5. /\ n \in WaitQueues /\ n.head = [m.head EXCEPT ![q] = h]
      /\ n.tmp = [m.tmp EXCEPT ![t] = NoTask] /\ n.state = [m.state EXCEPT ![t] = RUNNING]
  <2>1. PICK how \in TaskState : how = RUNNING
    BY DEF TaskState
  <2>2. n = [m EXCEPT !.head[q] = h, !.tmp[t] = NoTask, !.state[t] = how]
    BY <1>4, <2>1
  <2>3. n \in WaitQueues
    <3>1. PICK a \in [Task -> TaskState] : a = [m.state EXCEPT ![t] = how]
      BY <1>3 DEF WaitQueues
    <3>2. PICK b \in [Queue -> Task \cup {NoTask}] : b = [m.head EXCEPT ![q] = h]
      BY <1>3 DEF WaitQueues
    <3>3. PICK c \in [Task -> Task \cup {NoTask}] : c = [m.tmp EXCEPT ![t] = NoTask]
      BY <1>3 DEF WaitQueues
    <3>4. n = [m EXCEPT !.state = a, !.head = b, !.tmp = c]
      BY <1>3, <2>2, <3>1, <3>2, <3>3 DEF WaitQueues
    <3> QED
      BY <1>3, <3>4 DEF WaitQueues
  <2>4. /\ n.head = [m.head EXCEPT ![q] = h] /\ n.tmp = [m.tmp EXCEPT ![t] = NoTask]
        /\ n.state = [m.state EXCEPT ![t] = how]
    BY <1>3, <2>2 DEF WaitQueues
  <2> QED
    BY <2>1, <2>3, <2>4
<1>6. \A v \in Task : Runnable(m, v) => Runnable(n, v)
  BY <1>3, <1>5 DEF WaitQueues, Runnable
<1>7. /\ n.head[q] = h /\ n.tmp[t] = NoTask
      /\ \A p \in Queue \ {q} : n.head[p] = w.head[p]
      /\ \A u \in Task \ {t} : n.tmp[u] = w.tmp[u]
  BY <1>3, <1>5 DEF WaitQueues
<1> QED
  BY <1>1, <1>3, <1>5, <1>6, <1>7

-----------------------------------------------------------------------------
(***************************************************************************)
(* The sleepers S of a queue that nobody cuts: a chain that begins at the   *)
(* pointer.  Nothing in S points at the head, no two point at the same      *)
(* task, and who follows the chain meets all of S.                          *)
(***************************************************************************)
Closed(w, q, V) ==
    w.head[q] \in V \cup {NoTask} /\ \A u \in V : w.tmp[u] \in V \cup {NoTask}

Chain(w, q, S) ==
    /\ w.head[q] \in S \cup {NoTask}
    /\ \A u \in S : w.tmp[u] \in S \cup {NoTask} /\ (w.tmp[u] = NoTask \/ w.tmp[u] # w.head[q])
    /\ \A u, v \in S : w.tmp[u] = w.tmp[v] => u = v \/ w.tmp[u] = NoTask
    /\ \A V \in SUBSET S : Closed(w, q, V) => S \subseteq V

LEMMA ChainSame ==
    ASSUME NEW w, NEW n, NEW q, NEW S, Chain(w, q, S),
           n.head[q] = w.head[q], \A u \in S : n.tmp[u] = w.tmp[u]
    PROVE  Chain(n, q, S)
<1>1. ASSUME NEW V \in SUBSET S, Closed(n, q, V) PROVE S \subseteq V
  <2>1. Closed(w, q, V)
    BY <1>1 DEF Closed
  <2> QED
    BY <2>1 DEF Chain
<1> QED
  BY <1>1 DEF Chain

\* Somebody sleeps: the pointer is set.
LEMMA ChainHead ==
    ASSUME NEW w, NEW q, NEW S, Chain(w, q, S), S # {}
    PROVE  w.head[q] \in S
<1>1. Closed(w, q, {}) => S \subseteq {}
  BY DEF Chain
<1>2. w.head[q] # NoTask
  BY <1>1 DEF Closed
<1> QED
  BY <1>2 DEF Chain

\* A task falls asleep in front of the others.
LEMMA ChainGrows ==
    ASSUME NEW w \in WaitQueues, NEW q \in Queue, NEW S, S \subseteq Task, Chain(w, q, S),
           NEW t \in Task, t \notin S, NEW n, n = InterruptibleSleepOn(w, q, t)
    PROVE  Chain(n, q, S \cup {t})
<1>1. n.head[q] = t /\ n.tmp[t] = w.head[q] /\ \A u \in Task \ {t} : n.tmp[u] = w.tmp[u]
  BY FallingAsleep
<1>2. n.head[q] = t /\ n.tmp[t] = w.head[q] /\ \A u \in S : n.tmp[u] = w.tmp[u]
  BY <1>1
<1>3. ASSUME NEW V \in SUBSET (S \cup {t}), Closed(n, q, V) PROVE S \cup {t} \subseteq V
  <2>1. t \in V
    BY <1>2, <1>3, NoTaskAssumption DEF Closed
  <2>2. w.head[q] \in (V \ {t}) \cup {NoTask}
    <3>1. w.head[q] \in V \cup {NoTask} /\ w.head[q] \in S \cup {NoTask}
      BY <1>2, <1>3, <2>1 DEF Closed, Chain
    <3> QED
      BY <3>1, NoTaskAssumption
  <2>3. \A u \in V \ {t} : w.tmp[u] \in (V \ {t}) \cup {NoTask}
    <3>1. ASSUME NEW u \in V \ {t} PROVE w.tmp[u] \in (V \ {t}) \cup {NoTask}
      <4>1. u \in S /\ w.tmp[u] \in V \cup {NoTask} /\ w.tmp[u] \in S \cup {NoTask}
        BY <1>2, <1>3 DEF Closed, Chain
      <4> QED
        BY <4>1
    <3> QED
      BY <3>1
  <2>4. V \ {t} \in SUBSET S /\ Closed(w, q, V \ {t})
    BY <2>2, <2>3 DEF Closed
  <2>5. S \subseteq V \ {t}
    BY <2>4 DEF Chain
  <2> QED
    BY <2>1, <2>5
<1>4. \A u \in S : w.tmp[u] # t /\ w.head[q] # t
  BY NoTaskAssumption DEF Chain
<1>5. w.head[q] \in S \cup {NoTask} /\ w.head[q] # t
  BY NoTaskAssumption DEF Chain
<1>6. \A u \in S \cup {t} : n.tmp[u] \in S \cup {t, NoTask} /\ n.tmp[u] # t
  BY <1>2, <1>4, <1>5 DEF Chain
<1>7. \A u \in S : n.tmp[u] = n.tmp[t] => n.tmp[u] = NoTask
  BY <1>2 DEF Chain
<1>8. \A u, v \in S \cup {t} : n.tmp[u] = n.tmp[v] => u = v \/ n.tmp[u] = NoTask
  BY <1>2, <1>7 DEF Chain
<1> QED
  BY <1>2, <1>3, <1>6, <1>8 DEF Chain

\* The task in front leaves.
LEMMA ChainShrinks ==
    ASSUME NEW w \in WaitQueues, NEW q \in Queue, NEW S, S \subseteq Task, Chain(w, q, S),
           NEW t \in S, ~AnotherIsLast(w, q, t), NEW n, n = InterruptibleReturns(w, q, t)
    PROVE  Chain(n, q, S \ {t})
<1>1. /\ n.head[q] = w.tmp[t] /\ \A u \in Task \ {t} : n.tmp[u] = w.tmp[u]
      /\ \A v \in Task : Runnable(w, v) \/ v = w.tmp[t] => Runnable(n, v)
  <2>1. t \in Task
    OBVIOUS
  <2> QED
    BY <2>1, Returning
<1>2. n.head[q] = w.tmp[t] /\ \A u \in S \ {t} : n.tmp[u] = w.tmp[u]
  BY <1>1
<1>3. w.head[q] = t
  BY ChainHead, NoTaskAssumption DEF AnotherIsLast
<1>4. \A u \in S : w.tmp[u] # t /\ w.tmp[u] \in S \cup {NoTask}
  BY <1>3, NoTaskAssumption DEF Chain
<1>5. ASSUME NEW V \in SUBSET (S \ {t}), Closed(n, q, V) PROVE S \ {t} \subseteq V
  <2>1. \A u \in V \cup {t} : w.tmp[u] \in V \cup {t} \cup {NoTask}
    BY <1>2, <1>5 DEF Closed
  <2>2. V \cup {t} \in SUBSET S /\ Closed(w, q, V \cup {t})
    BY <1>3, <2>1 DEF Closed
  <2>3. S \subseteq V \cup {t}
    BY <2>2 DEF Chain
  <2> QED
    BY <2>3
<1>6. \A u \in S \ {t} : w.tmp[u] = NoTask \/ w.tmp[u] # w.tmp[t]
  BY DEF Chain
<1>7. n.head[q] \in (S \ {t}) \cup {NoTask}
  BY <1>2, <1>4
<1>8. \A u \in S \ {t} : /\ n.tmp[u] \in (S \ {t}) \cup {NoTask}
                         /\ n.tmp[u] = NoTask \/ n.tmp[u] # n.head[q]
  BY <1>2, <1>4, <1>6
<1>9. \A u, v \in S \ {t} : n.tmp[u] = n.tmp[v] => u = v \/ n.tmp[u] = NoTask
  BY <1>2 DEF Chain
<1> QED
  BY <1>5, <1>7, <1>8, <1>9 DEF Chain

\* It has made the next one runnable.
LEMMA NextRuns ==
    ASSUME NEW w \in WaitQueues, NEW q \in Queue, NEW S, S \subseteq Task, Chain(w, q, S),
           NEW t \in S, ~AnotherIsLast(w, q, t), NEW n, n = InterruptibleReturns(w, q, t), S # {t}
    PROVE  \E u \in S \ {t} : Runnable(n, u)
<1>1. /\ n.head[q] = w.tmp[t] /\ \A u \in Task \ {t} : n.tmp[u] = w.tmp[u]
      /\ \A v \in Task : Runnable(w, v) \/ v = w.tmp[t] => Runnable(n, v)
  <2>1. t \in Task
    OBVIOUS
  <2> QED
    BY <2>1, Returning
<1>2. Chain(n, q, S \ {t})
  BY ChainShrinks
<1>3. n.head[q] \in S \ {t}
  BY <1>2, ChainHead
<1> QED
  BY <1>1, <1>3

-----------------------------------------------------------------------------
(***************************************************************************)
(* The inductive invariant.                                                 *)
(***************************************************************************)
ReadSleepers  == {t \in Task : pc[t] = "read_sleep"}
WriteSleepers == {t \in Task : pc[t] = "write_sleep"}

\* Who has the processor is in a call and not asleep; at most places nobody else can be.
Control ==
    /\ \A t \in Task : pc[t] \in {"read", "fetched", "put", "con_write"} => running = t
    /\ running # NoTask => pc[running] \notin {"user", "read_sleep", "write_sleep"}
    /\ \A t \in Task : pc[t] \in {"read", "fetched", "read_sleep"} => t = Reader
    /\ \A t \in signal : pc[t] # "user"
    /\ mode.serial => \A t \in Task : pc[t] # "con_write"

Counts ==
    /\ data = HowMany(cooked, LineEnds)
    /\ ~raced => \A t \in Task : accepted[t] = HowMany(out, {t})
    /\ ~raced => \A t \in Task : pc[t] = "fetched" => cooked # << >>

\* On the console the queue is empty but while a task fills it or writes it out, so
\* that nobody ever sleeps for room.
OnConsole ==
    ~mode.serial =>
        /\ WriteSleepers = {} /\ ~transmits
        /\ ~raced /\ out # << >> => running # NoTask /\ pc[running] \in {"put", "con_write"}
        /\ ~raced => \A t \in Task : pc[t] = "con_write" => out = << >> \/ Len(out) = left[t]

\* The reader has no other in front of it: wake_up reaches it.
ReaderQueue ==
    /\ wq.head[secondary] \in ReadSleepers \cup {NoTask}
    /\ \A t \in ReadSleepers : /\ wq.tmp[t] = NoTask
                               /\ Runnable(wq, t) \/ wq.head[secondary] = t

WriterQueue == Chain(wq, write_q, WriteSleepers)

Awakened ==
    /\ cooked # << >> => \A t \in ReadSleepers : Awake(t)
    /\ out = << >> /\ ~transmits /\ WriteSleepers # {} => \E t \in WriteSleepers : Awake(t)

IInv == TypeOK /\ Control /\ Counts /\ OnConsole /\ ReaderQueue /\ WriterQueue /\ Awakened

LEMMA InvInit == Init => IInv
<1> SUFFICES ASSUME Init PROVE IInv
  OBVIOUS
<1> USE Sizes DEF Init
<1>1. wq \in WaitQueues /\ wq.head = [q \in Queue |-> NoTask]
  BY DEF NobodyWaits, WaitQueues, TaskState
<1>2. ReadSleepers = {} /\ WriteSleepers = {}
  BY DEF ReadSleepers, WriteSleepers
<1>3. TypeOK
  <2>1. << >> \in Seq(Characters) /\ << >> \in Seq(Task \cup {Echo}) /\ Len(<< >>) = 0
    OBVIOUS
  <2>2. 0 \in 0 .. BUF - 1 /\ 0 \in 0 .. BUF /\ 0 \in 0 .. MAX_NR
    BY TtyAssumption
  <2>3. pc \in [Task -> {"user", "read", "fetched", "read_sleep",
                         "write", "put", "write_sleep", "con_write"}]
    OBVIOUS
  <2>4. /\ read \in Seq(Characters) /\ Len(read) < BUF /\ cooked \in Seq(Characters)
        /\ Len(cooked) < BUF /\ out \in Seq(Task \cup {Echo}) /\ Len(out) < BUF
    BY <2>1
  <2>5. /\ data \in 0 .. BUF - 1 /\ nr \in [Task -> 0 .. MAX_NR]
        /\ left \in [Task -> 0 .. BUF - 1] /\ accepted \in [Task -> 0 .. BUF]
    BY <2>2
  <2> QED
    BY <1>1, <2>3, <2>4, <2>5 DEF TypeOK
<1>4. Control
  BY DEF Control
<1>5. Counts
  BY HowManyEmpty DEF Counts
<1>6. OnConsole
  BY <1>2 DEF OnConsole
<1>7. ReaderQueue
  BY <1>1, <1>2, TtyAssumption DEF ReaderQueue
<1>8. WriterQueue
  BY <1>1, <1>2, TtyAssumption DEF WriterQueue, Chain
<1>9. Awakened
  BY <1>2 DEF Awakened
<1> QED
  BY <1>3, <1>4, <1>5, <1>6, <1>7, <1>8, <1>9 DEF IInv

\* What Receive leaves, when the model goes on and when it stops.
LEMMA ReceiveRight ==
    ASSUME IInv, NEW c \in Typed, Receive(c)
    PROVE  /\ read' \in Seq(Characters) /\ Len(read') < BUF
           /\ cooked' \in Seq(Characters) /\ Len(cooked') < BUF
           /\ data' = HowMany(cooked', LineEnds) /\ data' \in 0 .. BUF - 1
           /\ out' \in Seq(Task \cup {Echo}) /\ Len(out') < BUF
           /\ transmits' \in BOOLEAN /\ raced' \in BOOLEAN
           /\ accepted' \in [Task -> 0 .. BUF]
           /\ ~raced' => \A t \in Task : accepted'[t] = HowMany(out', {t})
           /\ ~raced' => \A t \in Task : pc[t] = "fetched" => cooked' # << >>
           /\ ~mode.serial => out' \in {<< >>, out}
           /\ mode.serial /\ out' = << >> /\ ~transmits' => out = << >> /\ ~transmits
           /\ signal' \in {signal, {t \in Task : pc[t] # "user"}}
<1> USE Sizes
<1>1. PICK typed : typed = IF FULL(read) THEN read ELSE Append(read, c)
  OBVIOUS
<1>2. typed \in Seq(Characters) /\ Len(typed) \in Nat /\ Len(typed) < BUF
  <2>1. read \in Seq(Characters) /\ Len(read) \in Nat /\ Len(read) < BUF
    BY LenProperties DEF IInv, TypeOK
  <2>2. c \in Characters
    BY TtyAssumption DEF Typed
  <2>3. CASE FULL(read)
    BY <1>1, <2>1, <2>3
  <2>4. CASE ~FULL(read)
    <3>1. typed = Append(read, c)
      BY <1>1, <2>4
    <3>2. typed \in Seq(Characters) /\ Len(typed) = Len(read) + 1
      BY <2>1, <2>2, <3>1, AppendProperties
    <3> QED
      BY <2>1, <2>4, <3>2 DEF FULL, LEFT
  <2> QED
    BY <2>3, <2>4
<1>3. PICK base : base = [rest |-> << >>, cooked |-> cooked, data |-> data, out |-> out,
                          intr |-> FALSE, echoed |-> FALSE, raced |-> FALSE]
  OBVIOUS
<1>4. Cooked(base, 0)
  <2>1. /\ cooked \in Seq(Characters) /\ Len(cooked) < BUF
        /\ out \in Seq(Task \cup {Echo}) /\ Len(out) < BUF
        /\ data \in Nat /\ data = HowMany(cooked, LineEnds)
    BY DEF IInv, TypeOK, Counts
  <2>2. base \in Fold
    BY <1>3, <2>1 DEF Fold
  <2>3. /\ base.rest = << >> /\ base.cooked = cooked /\ base.data = data /\ base.out = out
        /\ base.intr = FALSE /\ base.echoed = FALSE /\ base.raced = FALSE
    BY <1>3
  <2>4. Len(base.rest) = 0
    BY <2>3
  <2> QED
    BY <2>1, <2>2, <2>3, <2>4 DEF Cooked, OutputRight
<1>5. PICK s : s = CopyToCooked(base, typed)
  OBVIOUS
<1>6. Cooked(s, Len(typed))
  BY <1>2, <1>4, <1>5, CookedRight
<1>7. /\ ~raced
      /\ read' = s.rest /\ cooked' = s.cooked /\ data' = s.data /\ out' = s.out
      /\ transmits' = (transmits \/ (mode.serial /\ s.echoed))
      /\ accepted' = IF mode.serial \/ ~s.echoed THEN accepted
                     ELSE [t \in Task |-> accepted[t] - HowMany(out, {t})]
      /\ signal' = IF s.intr THEN {t \in Task : pc[t] # "user"} ELSE signal
      /\ raced' = s.raced
  BY <1>1, <1>3, <1>5 DEF Receive, CopyToCooked
<1>8. s \in Fold /\ OutputRight(s) /\ Len(s.cooked) < BUF /\ s.data = HowMany(s.cooked, LineEnds)
  BY <1>6 DEF Cooked
<1>9. /\ s.rest \in Seq(Characters) /\ s.cooked \in Seq(Characters) /\ s.data \in Nat
      /\ s.out \in Seq(Task \cup {Echo}) /\ s.echoed \in BOOLEAN /\ s.raced \in BOOLEAN
      /\ Len(s.out) < BUF
  BY <1>8 DEF Fold, OutputRight
<1>10. Len(read') < BUF
  <2>1. Len(s.rest) <= Len(typed) /\ Len(s.rest) \in Nat
    BY <1>6, <1>9, LenProperties DEF Cooked
  <2> QED
    BY <1>2, <1>7, <2>1
<1>11. data' \in 0 .. BUF - 1
  <2>1. HowMany(s.cooked, LineEnds) \in 0 .. Len(s.cooked) /\ Len(s.cooked) \in Nat
    BY <1>9, PlacesFinite, LenProperties
  <2> QED
    BY <1>7, <1>8, <2>1
<1>12. \A t \in Task : accepted[t] = HowMany(out, {t}) /\ accepted[t] \in 0 .. BUF
  BY <1>7 DEF IInv, TypeOK, Counts
<1>13. CASE mode.serial \/ ~s.echoed
  <2>1. accepted' = accepted
    BY <1>7, <1>13
  <2>2. ~s.raced => \A t \in Task : HowMany(s.out, {t}) = HowMany(out, {t})
    BY <1>8, <1>13 DEF OutputRight
  <2>3. accepted' \in [Task -> 0 .. BUF]
    BY <2>1 DEF IInv, TypeOK
  <2>4. ~raced' => \A t \in Task : accepted'[t] = HowMany(out', {t})
    BY <1>7, <1>12, <2>1, <2>2
  <2>5. /\ ~mode.serial => out' \in {<< >>, out}
        /\ mode.serial /\ out' = << >> /\ ~transmits' => out = << >> /\ ~transmits
    BY <1>7, <1>8, <1>9 DEF OutputRight, IInv, TypeOK
  <2>6. transmits' \in BOOLEAN
    BY <1>7
  <2>7. ~raced' => \A t \in Task : pc[t] = "fetched" => cooked' # << >>
    BY <1>6, <1>7 DEF Cooked, IInv, Counts
  <2>8. signal' \in {signal, {t \in Task : pc[t] # "user"}}
    BY <1>7
  <2> QED
    BY <1>7, <1>8, <1>9, <1>10, <1>11, <2>3, <2>4, <2>5, <2>6, <2>7, <2>8
<1>14. CASE ~(mode.serial \/ ~s.echoed)
  <2>1. accepted' = [t \in Task |-> accepted[t] - HowMany(out, {t})]
    BY <1>7, <1>14
  <2>2. accepted' = [t \in Task |-> 0]
    BY <1>12, <2>1
  <2>3. accepted' \in [Task -> 0 .. BUF]
    BY <2>2
  <2>4. out' = << >>
    BY <1>7, <1>8, <1>14 DEF OutputRight
  <2>5. \A t \in Task : accepted'[t] = HowMany(out', {t})
    BY <2>2, <2>4, HowManyEmpty
  <2>6. transmits' \in BOOLEAN
    BY <1>7
  <2>7. ~raced' => \A t \in Task : pc[t] = "fetched" => cooked' # << >>
    BY <1>6, <1>7 DEF Cooked, IInv, Counts
  <2>8. signal' \in {signal, {t \in Task : pc[t] # "user"}}
    BY <1>7
  <2> QED
    BY <1>7, <1>8, <1>9, <1>10, <1>11, <1>14, <2>3, <2>4, <2>5, <2>6, <2>7, <2>8
<1> QED
  BY <1>13, <1>14

-----------------------------------------------------------------------------
(***************************************************************************)
(* What the steps do to the data and to the queues.                         *)
(***************************************************************************)
LEMMA SentRight ==
    ASSUME IInv, ~raced, out # << >>, out' = Tail(out), Sent(Head(out))
    PROVE  /\ out' \in Seq(Task \cup {Echo}) /\ Len(out') = Len(out) - 1
           /\ Len(out) \in Nat \ {0} /\ Len(out) < BUF
           /\ accepted' \in [Task -> 0 .. BUF]
           /\ \A t \in Task : accepted'[t] = HowMany(out', {t})
<1>1. out \in Seq(Task \cup {Echo}) /\ Len(out) < BUF
  BY DEF IInv, TypeOK
<1>2. Len(out) \in Nat \ {0}
  BY <1>1, EmptySeq, LenProperties
<1>3. out' \in Seq(Task \cup {Echo}) /\ Len(out') = Len(out) - 1
  BY <1>1, HeadTailProperties
<1>4. /\ accepted \in [Task -> 0 .. BUF]
      /\ \A t \in Task : accepted[t] = HowMany(out, {t})
  BY DEF IInv, TypeOK, Counts
<1>5. \A t \in Task : HowMany(out', {t}) = IF Head(out) \in {t} THEN HowMany(out, {t}) - 1
                                          ELSE HowMany(out, {t})
  BY <1>1, HowManyTail
<1>6. \A t \in Task : HowMany(out', {t}) \in 0 .. BUF
  <2>1. \A t \in Task : HowMany(out', {t}) \in 0 .. Len(out')
    BY <1>3, PlacesFinite
  <2> QED
    BY <1>1, <1>2, <1>3, <2>1, Sizes
<1>7. CASE Head(out) \in Task
  <2>1. accepted' = [accepted EXCEPT ![Head(out)] = @ - 1]
    BY <1>7 DEF Sent
  <2>2. \A t \in Task : accepted'[t] = IF t = Head(out) THEN accepted[t] - 1 ELSE accepted[t]
    BY <1>4, <2>1
  <2>3. \A t \in Task : accepted'[t] = HowMany(out', {t})
    BY <1>4, <1>5, <2>2
  <2>4. \A t \in Task : accepted'[t] \in 0 .. BUF
    BY <1>6, <2>3
  <2>5. accepted' \in [Task -> 0 .. BUF]
    BY <1>4, <2>1, <2>4
  <2> QED
    BY <1>1, <1>2, <1>3, <2>3, <2>5
<1>8. CASE Head(out) \notin Task
  <2>1. accepted' = accepted
    BY <1>8 DEF Sent
  <2>2. \A t \in Task : accepted'[t] = HowMany(out', {t})
    BY <1>4, <1>5, <1>8, <2>1
  <2> QED
    BY <1>1, <1>2, <1>3, <1>4, <2>1, <2>2
<1> QED
  BY <1>7, <1>8

LEMMA PutsRight ==
    ASSUME IInv, NEW t \in Task, Puts(t)
    PROVE  /\ out' \in Seq(Task \cup {Echo}) /\ Len(out') < BUF /\ out' # << >>
           /\ accepted' \in [Task -> 0 .. BUF]
           /\ \A u \in Task : accepted'[u] = HowMany(out', {u})
           /\ nr' \in [Task -> 0 .. MAX_NR]
<1>1. out \in Seq(Task \cup {Echo}) /\ Len(out) < BUF /\ Len(out) \in Nat
  BY LenProperties DEF IInv, TypeOK
<1>2. out' = Append(out, t) /\ Len(out) + 1 < BUF
  BY <1>1, Sizes DEF Puts, PUTCH, HasRoom, FULL, LEFT
<1>3. out' \in Seq(Task \cup {Echo}) /\ Len(out') < BUF /\ out' # << >>
  <2>1. t \in Task \cup {Echo}
    OBVIOUS
  <2> QED
    BY <1>1, <1>2, <2>1, AppendProperties
<1>4. /\ accepted \in [Task -> 0 .. BUF] /\ accepted' = [accepted EXCEPT ![t] = @ + 1]
      /\ \A u \in Task : accepted[u] = HowMany(out, {u})
  BY DEF IInv, TypeOK, Counts, Puts, In
<1>5. \A u \in Task : HowMany(out', {u}) = IF t \in {u} THEN HowMany(out, {u}) + 1
                                          ELSE HowMany(out, {u})
  <2>1. t \in Task \cup {Echo}
    OBVIOUS
  <2> QED
    BY <1>1, <1>2, <2>1, HowManyAppend
<1>6. \A u \in Task : accepted'[u] = IF u = t THEN accepted[u] + 1 ELSE accepted[u]
  BY <1>4
<1>7. \A u \in Task : accepted'[u] = HowMany(out', {u})
  BY <1>4, <1>5, <1>6
<1>8. \A u \in Task : accepted'[u] \in 0 .. BUF
  <2>1. \A u \in Task : HowMany(out', {u}) \in 0 .. Len(out')
    BY <1>3, PlacesFinite
  <2>2. PICK n \in Nat : n = Len(out')
    BY <1>3, LenProperties
  <2>3. \A u \in Task : accepted'[u] \in 0 .. n
    BY <1>7, <2>1, <2>2
  <2>4. n < BUF
    BY <1>3, <2>2
  <2> QED
    BY <2>3, <2>4, Sizes
<1>9. accepted' \in [Task -> 0 .. BUF]
  BY <1>4, <1>8
<1>10. nr' \in [Task -> 0 .. MAX_NR]
  <2>1. nr \in [Task -> 0 .. MAX_NR] /\ nr[t] > 0 /\ nr' = [nr EXCEPT ![t] = @ - 1]
    BY DEF IInv, TypeOK, Puts, MoreToPut
  <2>2. nr[t] - 1 \in 0 .. MAX_NR
    BY <2>1, TtyAssumption
  <2> QED
    BY <2>1, <2>2
<1> QED
  BY <1>3, <1>7, <1>9, <1>10

LEMMA FetchedRight ==
    ASSUME IInv, NEW t \in Task, Fetched(t)
    PROVE  /\ cooked' \in Seq(Characters) /\ Len(cooked') < BUF
           /\ data' = HowMany(cooked', LineEnds) /\ data' \in 0 .. BUF - 1
           /\ nr' \in [Task -> 0 .. MAX_NR]
           /\ t = Reader /\ cooked # << >>
           /\ (UNCHANGED <<pc, left, signal, running>> /\ cooked' # << >>) \/ Returns(t)
<1>1. /\ cooked \in Seq(Characters) /\ cooked # << >> /\ Len(cooked) < BUF
      /\ pc[t] = "fetched" /\ t = Reader
  BY DEF IInv, TypeOK, Counts, Control, Fetched, In
<1>2. PICK q : q = Tail(cooked)
  OBVIOUS
<1>3. q \in Seq(Characters) /\ Len(q) = Len(cooked) - 1 /\ Len(q) \in Nat /\ Len(cooked) \in Nat
  BY <1>1, <1>2, HeadTailProperties, LenProperties
<1>4. HowMany(q, LineEnds) = IF Head(cooked) \in LineEnds THEN HowMany(cooked, LineEnds) - 1
                             ELSE HowMany(cooked, LineEnds)
  BY <1>1, <1>2, HowManyTail
<1>5. cooked' = q /\ data' = HowMany(q, LineEnds)
  BY <1>2, <1>4 DEF Fetched, DataLeft, IInv, Counts
<1>6. HowMany(q, LineEnds) \in 0 .. Len(q)
  BY <1>3, PlacesFinite
<1>7. data' \in 0 .. BUF - 1
  BY <1>1, <1>3, <1>5, <1>6, Sizes
<1>8. /\ nr \in [Task -> 0 .. MAX_NR] /\ pc \in [Task -> {"user", "read", "fetched", "read_sleep",
                        "write", "put", "write_sleep", "con_write"}]
      /\ MAX_NR \in Nat
  BY TtyAssumption DEF IInv, TypeOK
<1>9. Len(cooked') < BUF
  BY <1>1, <1>3, <1>5, Sizes
<1>10. CASE nr[t] > 1 /\ q # << >> /\ ~(Head(cooked) = "eof" /\ mode.canon)
  <2>1. nr' = [nr EXCEPT ![t] = @ - 1] /\ UNCHANGED <<pc, left, signal, running>>
    BY <1>5, <1>10 DEF Fetched
  <2>2. nr[t] - 1 \in 0 .. MAX_NR
    BY <1>8, <1>10
  <2>3. nr' \in [Task -> 0 .. MAX_NR]
    BY <1>8, <2>1, <2>2
  <2> QED
    BY <1>1, <1>3, <1>5, <1>7, <1>9, <1>10, <2>1, <2>3
<1>11. CASE ~(nr[t] > 1 /\ q # << >> /\ ~(Head(cooked) = "eof" /\ mode.canon))
  <2>1. Returns(t)
    BY <1>5, <1>11 DEF Fetched
  <2>2. nr' = [nr EXCEPT ![t] = 0]
    BY <2>1 DEF Returns
  <2>3. nr' \in [Task -> 0 .. MAX_NR]
    BY <1>8, <2>2
  <2> QED
    BY <1>1, <1>3, <1>5, <1>7, <1>9, <2>1, <2>3
<1> QED
  BY <1>10, <1>11

\* The three ways of SleepEnds.
LEMMA SleepEndsRight ==
    ASSUME IInv, NEW t \in Task,
           NEW label \in {"read_sleep", "write_sleep"}, NEW next, SleepEnds(t, label, next),
           NEW q, q = AsleepAt[label]
    PROVE  /\ q \in Queue /\ wq' \in WaitQueues /\ running = NoTask /\ ~raced /\ pc[t] = label
           /\ UNCHANGED <<mode, read, cooked, data, out, transmits, accepted, signal, nr, left,
                          raced>>
           /\ \/ /\ AnotherIsLast(wq, q, t) /\ wq' = SleepsAgain(wq, q, t)
                 /\ pc' = pc /\ running' = NoTask
              \/ /\ ~AnotherIsLast(wq, q, t) /\ t \notin signal /\ Waits(t, label)
                 /\ InterruptibleReturns(wq, q, t) \in WaitQueues
                 /\ wq' = InterruptibleSleepOn(InterruptibleReturns(wq, q, t), q, t)
                 /\ pc' = pc /\ running' = NoTask
              \/ /\ ~AnotherIsLast(wq, q, t) /\ wq' = InterruptibleReturns(wq, q, t)
                 /\ pc' = [pc EXCEPT ![t] = next] /\ running' = t
                 /\ t \in signal \/ ~Waits(t, label)
<1>1. q \in Queue
  BY TtyAssumption DEF AsleepAt
<1>2. wq \in WaitQueues /\ pc \in [Task -> {"user", "read", "fetched", "read_sleep",
                        "write", "put", "write_sleep", "con_write"}]
  BY DEF IInv, TypeOK
<1>3. /\ running = NoTask /\ ~raced /\ pc[t] = label
      /\ UNCHANGED <<mode, read, cooked, data, out, transmits, accepted, signal, nr, left, raced>>
  BY DEF SleepEnds, Scheduled, input, output, call
<1>4. CASE AnotherIsLast(wq, q, t)
  <2>1. wq' = SleepsAgain(wq, q, t) /\ pc' = pc /\ running' = running
    BY <1>4 DEF SleepEnds
  <2>2. wq' \in WaitQueues
    BY <1>1, <1>2, <1>4, <2>1, SleepingAgain
  <2> QED
    BY <1>1, <1>3, <1>4, <2>1, <2>2
<1>5. CASE ~AnotherIsLast(wq, q, t)
  <2>1. PICK w : w = InterruptibleReturns(wq, q, t)
    OBVIOUS
  <2>2. w \in WaitQueues
    BY <1>1, <1>2, <2>1, Returning
  <2>3. CASE t \notin signal /\ Waits(t, label)
    <3>1. wq' = InterruptibleSleepOn(w, q, t) /\ pc' = [pc EXCEPT ![t] = label] /\ running' = NoTask
      BY <1>5, <2>1, <2>3 DEF SleepEnds, FallsAsleep, GoTo
    <3>2. wq' \in WaitQueues
      BY <1>1, <2>2, <3>1, FallingAsleep
    <3>3. pc' = pc
      BY <1>2, <1>3, <3>1
    <3> QED
      BY <1>1, <1>3, <1>5, <2>1, <2>2, <2>3, <3>1, <3>2, <3>3
  <2>4. CASE ~(t \notin signal /\ Waits(t, label))
    <3>1. wq' = w /\ pc' = [pc EXCEPT ![t] = next] /\ running' = t
      BY <1>5, <2>1, <2>4 DEF SleepEnds, GoTo
    <3> QED
      BY <1>1, <1>3, <1>5, <2>1, <2>2, <2>4, <3>1
  <2> QED
    BY <2>3, <2>4
<1> QED
  BY <1>4, <1>5

-----------------------------------------------------------------------------
LEMMA ReturnsType ==
    ASSUME TypeOK, NEW t \in Task, Returns(t)
    PROVE  /\ pc' \in [Task -> {"user", "read", "fetched", "read_sleep",
                            "write", "put", "write_sleep", "con_write"}]
           /\ nr' \in [Task -> 0 .. MAX_NR] /\ left' \in [Task -> 0 .. BUF - 1]
           /\ signal' \subseteq Task /\ running' \in Task \cup {NoTask}
<1>1. 0 \in 0 .. MAX_NR /\ 0 \in 0 .. BUF - 1
  BY TtyAssumption
<1>2. /\ pc' = [pc EXCEPT ![t] = "user"] /\ running' = NoTask /\ signal' = signal \ {t}
      /\ nr' = [nr EXCEPT ![t] = 0] /\ left' = [left EXCEPT ![t] = 0]
  BY DEF Returns, GoTo
<1> QED
  BY <1>1, <1>2 DEF TypeOK

LEMMA TypeNext == IInv /\ [Next]_vars => TypeOK'
<1> SUFFICES ASSUME IInv, [Next]_vars PROVE TypeOK'
  OBVIOUS
<1> USE DEF IInv, TypeOK
<1>1. ASSUME NEW t \in Task, ReadInterrupted(t) PROVE TypeOK'
  <2>1. Returns(t) /\ UNCHANGED <<mode, input, output, wq, raced>>
    BY <1>1 DEF ReadInterrupted
  <2> QED
    BY <2>1, ReturnsType DEF input, output
<1>2. ASSUME NEW t \in Task, ReadSleeps(t) PROVE TypeOK'
  <2>1. wq \in WaitQueues /\ AsleepAt["read_sleep"] \in Queue
    BY TtyAssumption DEF AsleepAt
  <2>2. wq' \in WaitQueues
    BY <1>2, <2>1, FallingAsleep DEF ReadSleeps, FallsAsleep
  <2> QED
    BY <1>2, <2>2 DEF ReadSleeps, In, GoTo, Returns, FallsAsleep, Scheduled, WriteLoops, input, output, call
<1>3. ASSUME NEW t \in Task, ReadGoesOn(t) PROVE TypeOK'
  BY <1>3 DEF ReadGoesOn, In, GoTo, Returns, FallsAsleep, Scheduled, WriteLoops, input, output, call
<1>4. ASSUME NEW t \in Task, Fetched(t) PROVE TypeOK'
  <2>1. /\ cooked' \in Seq(Characters) /\ Len(cooked') < BUF /\ data' \in 0 .. BUF - 1
        /\ nr' \in [Task -> 0 .. MAX_NR]
    BY <1>4, FetchedRight
  <2>2. (UNCHANGED <<pc, left, signal, running>>) \/ Returns(t)
    BY <1>4, FetchedRight
  <2>3. UNCHANGED <<mode, read, out, transmits, accepted, wq, raced>>
    BY <1>4 DEF Fetched, output
  <2> QED
    BY <2>1, <2>2, <2>3, ReturnsType
<1>5. ASSUME NEW t \in Task, WriteSleeps(t) PROVE TypeOK'
  <2>1. wq \in WaitQueues /\ AsleepAt["write_sleep"] \in Queue
    BY TtyAssumption DEF AsleepAt
  <2>2. wq' \in WaitQueues
    BY <1>5, <2>1, FallingAsleep DEF WriteSleeps, FallsAsleep
  <2> QED
    BY <1>5, <2>2 DEF WriteSleeps, In, GoTo, Returns, FallsAsleep, Scheduled, WriteLoops, input, output, call
<1>6. ASSUME NEW t \in Task, WriteInterrupted(t) PROVE TypeOK'
  <2>1. Returns(t) /\ UNCHANGED <<mode, input, output, wq, raced>>
    BY <1>6 DEF WriteInterrupted
  <2> QED
    BY <2>1, ReturnsType DEF input, output
<1>7. ASSUME NEW t \in Task, WriteGoesOn(t) PROVE TypeOK'
  BY <1>7 DEF WriteGoesOn, In, GoTo, Returns, FallsAsleep, Scheduled, WriteLoops, input, output, call
<1>8. ASSUME NEW t \in Task, Puts(t) PROVE TypeOK'
  <2>1. /\ out' \in Seq(Task \cup {Echo}) /\ Len(out') < BUF
        /\ accepted' \in [Task -> 0 .. BUF] /\ nr' \in [Task -> 0 .. MAX_NR]
    BY <1>8, PutsRight
  <2>2. UNCHANGED <<mode, input, transmits, wq, signal, pc, left, running, raced>>
    BY <1>8 DEF Puts
  <2> QED
    BY <2>1, <2>2 DEF input
<1>9. ASSUME NEW t \in Task, CallsRsWrite(t) PROVE TypeOK'
  <2>1. CASE nr[t] > 0
    BY <1>9, <2>1 DEF CallsRsWrite, WriteLoops, In, GoTo, input, output, call
  <2>2. CASE ~(nr[t] > 0)
    <3>1. Returns(t) /\ UNCHANGED <<mode, input, out, accepted, wq, raced>> /\ transmits' \in BOOLEAN
      BY <1>9, <2>2 DEF CallsRsWrite, WriteLoops, output
    <3> QED
      BY <3>1, ReturnsType DEF input
  <2> QED
    BY <2>1, <2>2
<1>10. ASSUME NEW t \in Task, CallsConWrite(t) PROVE TypeOK'
  <2>1. Len(out) \in 0 .. BUF - 1
    BY LenProperties, Sizes
  <2>2. left' \in [Task -> 0 .. BUF - 1]
    BY <1>10, <2>1 DEF CallsConWrite
  <2> QED
    BY <1>10, <2>2 DEF CallsConWrite, In, GoTo, input, output
<1>11. ASSUME NEW t \in Task, ConWrites(t) PROVE TypeOK'
  <2>1. /\ UNCHANGED <<mode, input, transmits, wq, signal, pc, nr, running>>
        /\ left[t] > 0 /\ ~raced
    BY <1>11 DEF ConWrites, In
  <2>2. CASE out = << >>
    BY <1>11, <2>1, <2>2 DEF ConWrites, input
  <2>3. CASE out # << >>
    <3>1. out' = Tail(out) /\ Sent(Head(out)) /\ left' = [left EXCEPT ![t] = @ - 1] /\ raced' = raced
      BY <1>11, <2>3 DEF ConWrites
    <3>2. /\ out' \in Seq(Task \cup {Echo}) /\ Len(out') = Len(out) - 1
          /\ Len(out) \in Nat \ {0} /\ Len(out) < BUF /\ accepted' \in [Task -> 0 .. BUF]
      BY <2>1, <2>3, <3>1, SentRight
    <3>3. left[t] - 1 \in 0 .. BUF - 1
      BY <2>1, Sizes
    <3>4. left' \in [Task -> 0 .. BUF - 1]
      BY <3>1, <3>3
    <3>5. Len(out') < BUF
      BY <3>2, Sizes
    <3> QED
      BY <2>1, <3>1, <3>2, <3>4, <3>5 DEF input
  <2> QED
    BY <2>2, <2>3
<1>12. ASSUME NEW t \in Task, ConWritten(t) PROVE TypeOK'
  <2>1. CASE nr[t] > 0
    BY <1>12, <2>1 DEF ConWritten, WriteLoops, In, GoTo, input, output, call
  <2>2. CASE ~(nr[t] > 0)
    <3>1. Returns(t) /\ UNCHANGED <<mode, input, out, accepted, wq, raced>> /\ transmits' \in BOOLEAN
      BY <1>12, <2>2 DEF ConWritten, WriteLoops, output
    <3> QED
      BY <3>1, ReturnsType DEF input
  <2> QED
    BY <2>1, <2>2
<1>13. ASSUME NEW t \in Task, WriteResumes(t) PROVE TypeOK'
  BY <1>13 DEF WriteResumes, In, GoTo, Returns, FallsAsleep, Scheduled, WriteLoops, input, output, call
<1>14. ASSUME NEW t \in Task, SleepEnds(t, "read_sleep", "read") PROVE TypeOK'
  <2>1. /\ wq' \in WaitQueues
        /\ UNCHANGED <<mode, read, cooked, data, out, transmits, accepted, signal, nr, left, raced>>
        /\ pc' = pc \/ pc' = [pc EXCEPT ![t] = "read"]
        /\ running' \in {NoTask, t}
    BY <1>14, SleepEndsRight DEF IInv
  <2> QED
    BY <2>1
<1>15. ASSUME NEW t \in Task, SleepEnds(t, "write_sleep", "write") PROVE TypeOK'
  <2>1. /\ wq' \in WaitQueues
        /\ UNCHANGED <<mode, read, cooked, data, out, transmits, accepted, signal, nr, left, raced>>
        /\ pc' = pc \/ pc' = [pc EXCEPT ![t] = "write"]
        /\ running' \in {NoTask, t}
    BY <1>15, SleepEndsRight DEF IInv
  <2> QED
    BY <2>1
<1>16. ASSUME NEW t \in Task, NEW n \in 1 .. MAX_NR, NEW label,
             Call(t, n, label), label = "write" \/ (label = "read" /\ t = Reader)
      PROVE  TypeOK'
  <2>1. /\ UNCHANGED <<mode, input, output, wq, signal, left, raced>>
        /\ nr' = [nr EXCEPT ![t] = n] /\ pc' = [pc EXCEPT ![t] = label] /\ running' = t
    BY <1>16 DEF Call, GoTo
  <2>2. n \in 0 .. MAX_NR
    BY TtyAssumption
  <2> QED
    BY <1>16, <2>1, <2>2 DEF input, output
<1>17. ASSUME NEW c \in Typed, Receive(c) PROVE TypeOK'
  <2>1. /\ read' \in Seq(Characters) /\ Len(read') < BUF
        /\ cooked' \in Seq(Characters) /\ Len(cooked') < BUF /\ data' \in 0 .. BUF - 1
        /\ out' \in Seq(Task \cup {Echo}) /\ Len(out') < BUF
        /\ transmits' \in BOOLEAN /\ raced' \in BOOLEAN /\ accepted' \in [Task -> 0 .. BUF]
        /\ signal' \in {signal, {t \in Task : pc[t] # "user"}}
    BY <1>17, ReceiveRight
  <2>2. wq' \in WaitQueues
    BY <1>17, WakingUp, TtyAssumption DEF Receive
  <2>3. UNCHANGED <<mode, pc, call, running>>
    BY <1>17 DEF Receive
  <2> QED
    BY <2>1, <2>2, <2>3 DEF call
<1>18. ASSUME Transmit PROVE TypeOK'
  <2>1. wq' \in WaitQueues
    <3>1. wq.head[write_q] \in Task \cup {NoTask}
      BY TtyAssumption DEF WaitQueues
    <3>2. WakesWriter \in WaitQueues
      BY <3>1, MakingRunning DEF WakesWriter
    <3> QED
      BY <1>18, <3>2 DEF Transmit
  <2>2. /\ UNCHANGED <<mode, input, signal, pc, call, running, raced>> /\ ~raced
        /\ transmits' \in BOOLEAN
    BY <1>18 DEF Transmit
  <2>3. CASE out = << >>
    BY <1>18, <2>1, <2>2, <2>3 DEF Transmit, input, call
  <2>4. CASE out # << >>
    <3>1. out' = Tail(out) /\ Sent(Head(out))
      BY <1>18, <2>4 DEF Transmit
    <3>2. /\ out' \in Seq(Task \cup {Echo}) /\ Len(out') = Len(out) - 1
          /\ Len(out) \in Nat \ {0} /\ Len(out) < BUF /\ accepted' \in [Task -> 0 .. BUF]
      BY <2>2, <2>4, <3>1, SentRight
    <3>3. Len(out') < BUF
      BY <3>2, Sizes
    <3> QED
      BY <2>1, <2>2, <3>2, <3>3 DEF input, call
  <2> QED
    BY <2>3, <2>4
<1>19. ASSUME UNCHANGED vars PROVE TypeOK'
  BY <1>19 DEF vars, In, GoTo, Returns, FallsAsleep, Scheduled, WriteLoops, input, output, call
<1> QED
  BY <1>1, <1>2, <1>3, <1>4, <1>5, <1>6, <1>7, <1>8, <1>9, <1>10, <1>11, <1>12, <1>13, <1>14, <1>15, <1>16, <1>17, <1>18, <1>19
     DEF Next, Kernel, Reads, Writes, ReadCall, WriteCall

LEMMA ControlNext == IInv /\ [Next]_vars => Control'
<1> SUFFICES ASSUME IInv, [Next]_vars PROVE Control'
  OBVIOUS
<1> USE DEF IInv, TypeOK, Control
<1>1. ASSUME NEW t \in Task, ReadInterrupted(t) PROVE Control'
  BY <1>1, NoTaskAssumption DEF ReadInterrupted, In, GoTo, Returns, FallsAsleep, Scheduled, WriteLoops, input, output, call
<1>2. ASSUME NEW t \in Task, ReadSleeps(t) PROVE Control'
  BY <1>2, NoTaskAssumption DEF ReadSleeps, In, GoTo, Returns, FallsAsleep, Scheduled, WriteLoops, input, output, call
<1>3. ASSUME NEW t \in Task, ReadGoesOn(t) PROVE Control'
  BY <1>3, NoTaskAssumption DEF ReadGoesOn, In, GoTo, Returns, FallsAsleep, Scheduled, WriteLoops, input, output, call
<1>4. ASSUME NEW t \in Task, Fetched(t) PROVE Control'
  <2>1. (UNCHANGED <<pc, left, signal, running>>) \/ Returns(t)
    BY <1>4, FetchedRight
  <2> QED
    BY <1>4, <2>1, NoTaskAssumption DEF Fetched, Returns, GoTo, In
<1>5. ASSUME NEW t \in Task, WriteSleeps(t) PROVE Control'
  BY <1>5, NoTaskAssumption DEF WriteSleeps, In, GoTo, Returns, FallsAsleep, Scheduled, WriteLoops, input, output, call
<1>6. ASSUME NEW t \in Task, WriteInterrupted(t) PROVE Control'
  BY <1>6, NoTaskAssumption DEF WriteInterrupted, In, GoTo, Returns, FallsAsleep, Scheduled, WriteLoops, input, output, call
<1>7. ASSUME NEW t \in Task, WriteGoesOn(t) PROVE Control'
  BY <1>7, NoTaskAssumption DEF WriteGoesOn, In, GoTo, Returns, FallsAsleep, Scheduled, WriteLoops, input, output, call
<1>8. ASSUME NEW t \in Task, Puts(t) PROVE Control'
  BY <1>8, NoTaskAssumption DEF Puts, In, GoTo, Returns, FallsAsleep, Scheduled, WriteLoops, input, output, call
<1>9. ASSUME NEW t \in Task, CallsRsWrite(t) PROVE Control'
  BY <1>9, NoTaskAssumption DEF CallsRsWrite, In, GoTo, Returns, FallsAsleep, Scheduled, WriteLoops, input, output, call
<1>10. ASSUME NEW t \in Task, CallsConWrite(t) PROVE Control'
  BY <1>10, NoTaskAssumption DEF CallsConWrite, In, GoTo, Returns, FallsAsleep, Scheduled, WriteLoops, input, output, call
<1>11. ASSUME NEW t \in Task, ConWrites(t) PROVE Control'
  BY <1>11, NoTaskAssumption DEF ConWrites, In, GoTo, Returns, FallsAsleep, Scheduled, WriteLoops, input, output, call
<1>12. ASSUME NEW t \in Task, ConWritten(t) PROVE Control'
  BY <1>12, NoTaskAssumption DEF ConWritten, In, GoTo, Returns, FallsAsleep, Scheduled, WriteLoops, input, output, call
<1>13. ASSUME NEW t \in Task, WriteResumes(t) PROVE Control'
  BY <1>13, NoTaskAssumption DEF WriteResumes, In, GoTo, Returns, FallsAsleep, Scheduled, WriteLoops, input, output, call
<1>14. ASSUME NEW t \in Task, SleepEnds(t, "read_sleep", "read") PROVE Control'
  <2>1. /\ mode' = mode /\ pc[t] = "read_sleep" /\ running = NoTask /\ signal' = signal
        /\ \/ pc' = pc /\ running' = NoTask
           \/ pc' = [pc EXCEPT ![t] = "read"] /\ running' = t
    BY <1>14, SleepEndsRight DEF IInv
  <2> QED
    BY <2>1, NoTaskAssumption
<1>15. ASSUME NEW t \in Task, SleepEnds(t, "write_sleep", "write") PROVE Control'
  <2>1. /\ mode' = mode /\ pc[t] = "write_sleep" /\ running = NoTask /\ signal' = signal
        /\ \/ pc' = pc /\ running' = NoTask
           \/ pc' = [pc EXCEPT ![t] = "write"] /\ running' = t
    BY <1>15, SleepEndsRight DEF IInv
  <2> QED
    BY <2>1, NoTaskAssumption
<1>16. ASSUME NEW t \in Task, NEW n \in 1 .. MAX_NR, NEW label,
             Call(t, n, label), label = "write" \/ (label = "read" /\ t = Reader)
      PROVE  Control'
  BY <1>16, NoTaskAssumption DEF Call, In, GoTo, Returns, FallsAsleep, Scheduled, WriteLoops, input, output, call
<1>17. ASSUME NEW c \in Typed, Receive(c) PROVE Control'
  <2>1. signal' \in {signal, {t \in Task : pc[t] # "user"}} /\ UNCHANGED <<mode, pc, running>>
    BY <1>17, ReceiveRight DEF Receive
  <2> QED
    BY <2>1
<1>18. ASSUME Transmit PROVE Control'
  BY <1>18, NoTaskAssumption DEF Transmit, In, GoTo, Returns, FallsAsleep, Scheduled, WriteLoops, input, output, call
<1>19. ASSUME UNCHANGED vars PROVE Control'
  BY <1>19 DEF vars
<1> QED
  BY <1>1, <1>2, <1>3, <1>4, <1>5, <1>6, <1>7, <1>8, <1>9, <1>10, <1>11, <1>12, <1>13, <1>14, <1>15, <1>16, <1>17, <1>18, <1>19
     DEF Next, Kernel, Reads, Writes, ReadCall, WriteCall

LEMMA CountsNext == IInv /\ [Next]_vars => Counts'
<1> SUFFICES ASSUME IInv, [Next]_vars PROVE Counts'
  OBVIOUS
<1> USE DEF IInv, TypeOK, Counts
<1>1. ASSUME NEW t \in Task, ReadInterrupted(t) PROVE Counts'
  BY <1>1 DEF ReadInterrupted, In, GoTo, Returns, FallsAsleep, Scheduled, WriteLoops, input, output, call
<1>2. ASSUME NEW t \in Task, ReadSleeps(t) PROVE Counts'
  BY <1>2 DEF ReadSleeps, In, GoTo, Returns, FallsAsleep, Scheduled, WriteLoops, input, output, call
<1>3. ASSUME NEW t \in Task, ReadGoesOn(t) PROVE Counts'
  <2>1. cooked # << >> /\ UNCHANGED <<cooked, data, out, accepted, raced>> /\ pc' = [pc EXCEPT ![t] = "fetched"]
    BY <1>3 DEF ReadGoesOn, NothingToRead, input, output, GoTo
  <2> QED
    BY <2>1
<1>4. ASSUME NEW t \in Task, Fetched(t) PROVE Counts'
  <2>1. /\ data' = HowMany(cooked', LineEnds) /\ t = Reader
        /\ (UNCHANGED <<pc, left, signal, running>> /\ cooked' # << >>) \/ Returns(t)
    BY <1>4, FetchedRight
  <2>2. UNCHANGED <<out, accepted, raced>> /\ running = t
    BY <1>4 DEF Fetched, output, In
  <2>3. \A u \in Task : pc'[u] = "fetched" => cooked' # << >>
    <3>1. CASE UNCHANGED <<pc, left, signal, running>> /\ cooked' # << >>
      BY <3>1
    <3>2. CASE Returns(t)
      BY <2>2, <3>2 DEF Returns, GoTo, Control
    <3> QED
      BY <2>1, <3>1, <3>2
  <2>4. data' = HowMany(cooked', LineEnds)
    BY <2>1
  <2>5. ~raced' => \A u \in Task : accepted'[u] = HowMany(out', {u})
    BY <2>2
  <2> QED
    BY <2>3, <2>4, <2>5
<1>5. ASSUME NEW t \in Task, WriteSleeps(t) PROVE Counts'
  BY <1>5 DEF WriteSleeps, In, GoTo, Returns, FallsAsleep, Scheduled, WriteLoops, input, output, call
<1>6. ASSUME NEW t \in Task, WriteInterrupted(t) PROVE Counts'
  BY <1>6 DEF WriteInterrupted, In, GoTo, Returns, FallsAsleep, Scheduled, WriteLoops, input, output, call
<1>7. ASSUME NEW t \in Task, WriteGoesOn(t) PROVE Counts'
  BY <1>7 DEF WriteGoesOn, In, GoTo, Returns, FallsAsleep, Scheduled, WriteLoops, input, output, call
<1>8. ASSUME NEW t \in Task, Puts(t) PROVE Counts'
  <2>1. \A u \in Task : accepted'[u] = HowMany(out', {u})
    BY <1>8, PutsRight
  <2> QED
    BY <1>8, <2>1 DEF Puts, input
<1>9. ASSUME NEW t \in Task, CallsRsWrite(t) PROVE Counts'
  BY <1>9 DEF CallsRsWrite, In, GoTo, Returns, FallsAsleep, Scheduled, WriteLoops, input, output, call
<1>10. ASSUME NEW t \in Task, CallsConWrite(t) PROVE Counts'
  BY <1>10 DEF CallsConWrite, In, GoTo, Returns, FallsAsleep, Scheduled, WriteLoops, input, output, call
<1>11. ASSUME NEW t \in Task, ConWrites(t) PROVE Counts'
  <2>1. UNCHANGED <<mode, input, transmits, wq, signal, pc, nr, running>> /\ ~raced
    BY <1>11 DEF ConWrites, In
  <2>2. CASE out = << >>
    BY <1>11, <2>1, <2>2 DEF ConWrites, input
  <2>3. CASE out # << >>
    <3>1. out' = Tail(out) /\ Sent(Head(out))
      BY <1>11, <2>3 DEF ConWrites
    <3>2. \A u \in Task : accepted'[u] = HowMany(out', {u})
      BY <2>1, <2>3, <3>1, SentRight
    <3> QED
      BY <2>1, <3>2 DEF input
  <2> QED
    BY <2>2, <2>3
<1>12. ASSUME NEW t \in Task, ConWritten(t) PROVE Counts'
  BY <1>12 DEF ConWritten, In, GoTo, Returns, FallsAsleep, Scheduled, WriteLoops, input, output, call
<1>13. ASSUME NEW t \in Task, WriteResumes(t) PROVE Counts'
  BY <1>13 DEF WriteResumes, In, GoTo, Returns, FallsAsleep, Scheduled, WriteLoops, input, output, call
<1>14. ASSUME NEW t \in Task, SleepEnds(t, "read_sleep", "read") PROVE Counts'
  <2>1. /\ UNCHANGED <<cooked, data, out, accepted, raced>>
        /\ pc' = pc \/ pc' = [pc EXCEPT ![t] = "read"]
    BY <1>14, SleepEndsRight DEF IInv
  <2> QED
    BY <2>1
<1>15. ASSUME NEW t \in Task, SleepEnds(t, "write_sleep", "write") PROVE Counts'
  <2>1. /\ UNCHANGED <<cooked, data, out, accepted, raced>>
        /\ pc' = pc \/ pc' = [pc EXCEPT ![t] = "write"]
    BY <1>15, SleepEndsRight DEF IInv
  <2> QED
    BY <2>1
<1>16. ASSUME NEW t \in Task, NEW n \in 1 .. MAX_NR, NEW label,
             Call(t, n, label), label = "write" \/ (label = "read" /\ t = Reader)
      PROVE  Counts'
  <2>1. UNCHANGED <<cooked, data, out, accepted, raced>> /\ pc' = [pc EXCEPT ![t] = label]
    BY <1>16 DEF Call, GoTo, input, output
  <2>2. \A u \in Task : pc'[u] = "fetched" => pc[u] = "fetched"
    BY <1>16, <2>1
  <2> QED
    BY <2>1, <2>2
<1>17. ASSUME NEW c \in Typed, Receive(c) PROVE Counts'
  <2>1. /\ data' = HowMany(cooked', LineEnds) /\ pc' = pc
        /\ ~raced' => \A t \in Task : accepted'[t] = HowMany(out', {t})
        /\ ~raced' => \A t \in Task : pc[t] = "fetched" => cooked' # << >>
    BY <1>17, ReceiveRight DEF Receive
  <2> QED
    BY <2>1
<1>18. ASSUME Transmit PROVE Counts'
  <2>1. UNCHANGED <<mode, input, signal, pc, call, running, raced>> /\ ~raced
    BY <1>18 DEF Transmit
  <2>2. CASE out = << >>
    BY <1>18, <2>1, <2>2 DEF Transmit, input
  <2>3. CASE out # << >>
    <3>1. out' = Tail(out) /\ Sent(Head(out))
      BY <1>18, <2>3 DEF Transmit
    <3>2. \A u \in Task : accepted'[u] = HowMany(out', {u})
      BY <2>1, <2>3, <3>1, SentRight
    <3> QED
      BY <2>1, <3>2 DEF input
  <2> QED
    BY <2>2, <2>3
<1>19. ASSUME UNCHANGED vars PROVE Counts'
  BY <1>19 DEF vars
<1> QED
  BY <1>1, <1>2, <1>3, <1>4, <1>5, <1>6, <1>7, <1>8, <1>9, <1>10, <1>11, <1>12, <1>13, <1>14, <1>15, <1>16, <1>17, <1>18, <1>19
     DEF Next, Kernel, Reads, Writes, ReadCall, WriteCall

LEMMA OnConsoleNext == IInv /\ [Next]_vars => OnConsole'
<1> SUFFICES ASSUME IInv, [Next]_vars PROVE OnConsole'
  OBVIOUS
<1> USE DEF IInv, TypeOK, Control, OnConsole, WriteSleepers
<1>1. ASSUME NEW t \in Task, ReadInterrupted(t) PROVE OnConsole'
  BY <1>1 DEF ReadInterrupted, In, GoTo, Returns, FallsAsleep, Scheduled, WriteLoops, input, output, call
<1>2. ASSUME NEW t \in Task, ReadSleeps(t) PROVE OnConsole'
  BY <1>2 DEF ReadSleeps, In, GoTo, Returns, FallsAsleep, Scheduled, WriteLoops, input, output, call
<1>3. ASSUME NEW t \in Task, ReadGoesOn(t) PROVE OnConsole'
  BY <1>3 DEF ReadGoesOn, In, GoTo, Returns, FallsAsleep, Scheduled, WriteLoops, input, output, call
<1>4. ASSUME NEW t \in Task, Fetched(t) PROVE OnConsole'
  <2>1. /\ (UNCHANGED <<pc, left, signal, running>>) \/ Returns(t)
        /\ running = t /\ pc[t] = "fetched" /\ ~raced /\ UNCHANGED <<mode, transmits, out, raced>>
    BY <1>4, FetchedRight DEF Fetched, In, output
  <2>2. CASE UNCHANGED <<pc, left, signal, running>>
    BY <2>1, <2>2
  <2>3. CASE Returns(t)
    BY <2>1, <2>3 DEF Returns, GoTo
  <2> QED
    BY <2>1, <2>2, <2>3
<1>5. ASSUME NEW t \in Task, WriteSleeps(t) PROVE OnConsole'
  <2>1. /\ pc' = [pc EXCEPT ![t] = "write_sleep"] /\ pc[t] = "write" /\ running = t /\ ~raced
        /\ UNCHANGED <<mode, transmits, out>> /\ FULL(out)
    BY <1>5 DEF WriteSleeps, In, FallsAsleep, GoTo, output
  <2>2. out # << >>
    BY <2>1, Sizes DEF FULL, LEFT
  <2>3. mode.serial
    BY <2>1, <2>2
  <2> QED
    BY <2>1, <2>3
<1>6. ASSUME NEW t \in Task, WriteInterrupted(t) PROVE OnConsole'
  BY <1>6 DEF WriteInterrupted, In, GoTo, Returns, FallsAsleep, Scheduled, WriteLoops, input, output, call
<1>7. ASSUME NEW t \in Task, WriteGoesOn(t) PROVE OnConsole'
  BY <1>7 DEF WriteGoesOn, In, GoTo, Returns, FallsAsleep, Scheduled, WriteLoops, input, output, call
<1>8. ASSUME NEW t \in Task, Puts(t) PROVE OnConsole'
  <2>1. pc[t] = "put" /\ UNCHANGED <<mode, transmits, pc, left, running, raced>> /\ running = t
    BY <1>8 DEF Puts, In
  <2> QED
    BY <2>1, NoTaskAssumption
<1>9. ASSUME NEW t \in Task, CallsRsWrite(t) PROVE OnConsole'
  <2>1. mode.serial /\ mode' = mode
    BY <1>9 DEF CallsRsWrite
  <2> QED
    BY <2>1
<1>10. ASSUME NEW t \in Task, CallsConWrite(t) PROVE OnConsole'
  <2>1. /\ pc[t] = "put" /\ running = t /\ pc' = [pc EXCEPT ![t] = "con_write"]
        /\ left' = [left EXCEPT ![t] = Len(out)] /\ UNCHANGED <<mode, transmits, out, running, raced>>
    BY <1>10 DEF CallsConWrite, In, GoTo, output
  <2>2. left'[t] = Len(out) /\ \A u \in Task : pc'[u] = "con_write" => u = t
    BY <2>1
  <2>3. pc'[running] = "con_write" /\ running \in Task
    BY <2>1
  <2>4. WriteSleepers' \subseteq WriteSleepers
    BY <2>1
  <2> QED
    BY <2>1, <2>2, <2>3, <2>4, NoTaskAssumption
<1>11. ASSUME NEW t \in Task, ConWrites(t) PROVE OnConsole'
  <2>1. UNCHANGED <<mode, transmits, pc, running>> /\ running = t /\ pc[t] = "con_write" /\ ~raced
    BY <1>11 DEF ConWrites, In
  <2>2. CASE out = << >>
    BY <1>11, <2>1, <2>2, NoTaskAssumption DEF ConWrites
  <2>3. CASE out # << >>
    <3>1. out' = Tail(out) /\ Sent(Head(out)) /\ left' = [left EXCEPT ![t] = @ - 1]
      BY <1>11, <2>3 DEF ConWrites
    <3>2. Len(out') = Len(out) - 1
      BY <2>1, <2>3, <3>1, SentRight
    <3>3. ~mode.serial => Len(out) = left[t]
      BY <2>1, <2>3
    <3>4. \A u \in Task : pc[u] = "con_write" => u = t
      BY <2>1
    <3>5. ~mode.serial => Len(out') = left'[t]
      BY <3>1, <3>2, <3>3
    <3> QED
      BY <2>1, <3>4, <3>5, NoTaskAssumption
  <2> QED
    BY <2>2, <2>3
<1>12. ASSUME NEW t \in Task, ConWritten(t) PROVE OnConsole'
  <2>1. running = t /\ pc[t] = "con_write" /\ ~raced /\ left[t] = 0 /\ UNCHANGED <<mode, transmits, out, raced>>
    BY <1>12 DEF ConWritten, In, output
  <2>2. pc' = [pc EXCEPT ![t] = "write"] \/ pc' = [pc EXCEPT ![t] = "user"]
    BY <1>12 DEF ConWritten, WriteLoops, Returns, GoTo
  <2>3. ~mode.serial => out = << >>
    <3>1. SUFFICES ASSUME ~mode.serial, out # << >> PROVE FALSE
      OBVIOUS
    <3>2. Len(out) = 0
      BY <2>1, <3>1
    <3> QED
      BY <3>1, <3>2, EmptySeq
  <2>4. WriteSleepers' \subseteq WriteSleepers
    BY <2>2
  <2> QED
    BY <2>1, <2>3, <2>4
<1>13. ASSUME NEW t \in Task, WriteResumes(t) PROVE OnConsole'
  <2>1. /\ UNCHANGED <<mode, transmits, out, pc, left, raced>> /\ running = NoTask /\ ~raced
    BY <1>13 DEF WriteResumes, Scheduled, output, call
  <2>2. ~mode.serial => out = << >>
    BY <2>1
  <2> QED
    BY <2>1, <2>2
<1>14. ASSUME NEW t \in Task, SleepEnds(t, "read_sleep", "read") PROVE OnConsole'
  <2>1. /\ UNCHANGED <<mode, transmits, out, left, raced>> /\ running = NoTask /\ ~raced
        /\ pc' = pc \/ pc' = [pc EXCEPT ![t] = "read"]
    BY <1>14, SleepEndsRight DEF IInv
  <2>2. ~mode.serial => out = << >>
    BY <2>1
  <2> QED
    BY <2>1, <2>2
<1>15. ASSUME NEW t \in Task, SleepEnds(t, "write_sleep", "write") PROVE OnConsole'
  <2>1. /\ mode' = mode /\ pc[t] = "write_sleep"
    BY <1>15, SleepEndsRight DEF IInv
  <2>2. mode.serial
    BY <2>1
  <2> QED
    BY <2>1, <2>2
<1>16. ASSUME NEW t \in Task, NEW n \in 1 .. MAX_NR, NEW label,
             Call(t, n, label), label = "write" \/ (label = "read" /\ t = Reader)
      PROVE  OnConsole'
  <2>1. /\ UNCHANGED <<mode, transmits, out, left, raced>> /\ pc' = [pc EXCEPT ![t] = label]
        /\ running = NoTask /\ ~raced
    BY <1>16 DEF Call, GoTo, output
  <2>2. ~mode.serial => out = << >>
    BY <2>1
  <2>3. WriteSleepers' \subseteq WriteSleepers
    BY <1>16, <2>1
  <2> QED
    BY <2>1, <2>2, <2>3
<1>17. ASSUME NEW c \in Typed, Receive(c) PROVE OnConsole'
  <2>1. UNCHANGED <<mode, pc, call, running>> /\ ~raced /\ (~mode.serial => transmits' = transmits)
    BY <1>17 DEF Receive
  <2>2. ~mode.serial => out' \in {<< >>, out}
    BY <1>17, ReceiveRight
  <2> QED
    BY <2>1, <2>2 DEF call
<1>18. ASSUME Transmit PROVE OnConsole'
  <2>1. UNCHANGED <<mode, pc, left, running, raced>> /\ ~raced
    BY <1>18 DEF Transmit, call
  <2>2. transmits
    BY <1>18 DEF Transmit
  <2>3. mode.serial
    BY <2>2
  <2> QED
    BY <2>1, <2>3
<1>19. ASSUME UNCHANGED vars PROVE OnConsole'
  BY <1>19 DEF vars
<1> QED
  BY <1>1, <1>2, <1>3, <1>4, <1>5, <1>6, <1>7, <1>8, <1>9, <1>10, <1>11, <1>12, <1>13, <1>14, <1>15, <1>16, <1>17, <1>18, <1>19
     DEF Next, Kernel, Reads, Writes, ReadCall, WriteCall

LEMMA QueuesHere == secondary \in Queue /\ write_q \in Queue /\ secondary # write_q /\ NoTask \notin Task
BY TtyAssumption, NoTaskAssumption

LEMMA ReaderQueueNext == IInv /\ [Next]_vars => ReaderQueue'
<1> SUFFICES ASSUME IInv, [Next]_vars PROVE ReaderQueue'
  OBVIOUS
<1> USE QueuesHere DEF IInv, TypeOK, Control, ReaderQueue
<1>1. ASSUME NEW t \in Task, ReadInterrupted(t) PROVE ReaderQueue'
  BY <1>1 DEF ReadInterrupted, ReadSleepers, In, GoTo, Returns, FallsAsleep, Scheduled, WriteLoops, input, output, call
<1>2. ASSUME NEW t \in Task, ReadSleeps(t) PROVE ReaderQueue'
  <2>1. /\ pc[t] = "read" /\ t = Reader /\ wq' = InterruptibleSleepOn(wq, secondary, t)
        /\ pc' = [pc EXCEPT ![t] = "read_sleep"]
    BY <1>2 DEF ReadSleeps, In, FallsAsleep, GoTo, AsleepAt
  <2>2. ReadSleepers = {} /\ ReadSleepers' = {t}
    BY <2>1 DEF ReadSleepers
  <2>3. wq.head[secondary] = NoTask
    BY <2>2
  <2>4. wq'.head[secondary] = t /\ wq'.tmp[t] = wq.head[secondary]
    BY <2>1, FallingAsleep
  <2>5. wq'.head[secondary] = t /\ wq'.tmp[t] = NoTask
    BY <2>3, <2>4
  <2> QED
    BY <2>2, <2>5
<1>3. ASSUME NEW t \in Task, ReadGoesOn(t) PROVE ReaderQueue'
  BY <1>3 DEF ReadGoesOn, ReadSleepers, In, GoTo, Returns, FallsAsleep, Scheduled, WriteLoops, input, output, call
<1>4. ASSUME NEW t \in Task, Fetched(t) PROVE ReaderQueue'
  <2>1. (UNCHANGED <<pc, left, signal, running>>) \/ Returns(t)
    BY <1>4, FetchedRight
  <2>2. pc[t] = "fetched" /\ wq' = wq
    BY <1>4 DEF Fetched, In
  <2>3. ReadSleepers' = ReadSleepers
    BY <2>1, <2>2 DEF Returns, GoTo, ReadSleepers
  <2> QED
    BY <2>2, <2>3
<1>5. ASSUME NEW t \in Task, WriteSleeps(t) PROVE ReaderQueue'
  <2>1. /\ pc[t] = "write" /\ wq' = InterruptibleSleepOn(wq, write_q, t)
        /\ pc' = [pc EXCEPT ![t] = "write_sleep"]
    BY <1>5 DEF WriteSleeps, In, FallsAsleep, GoTo, AsleepAt
  <2>2. ReadSleepers' = ReadSleepers /\ t \notin ReadSleepers
    BY <2>1 DEF ReadSleepers
  <2>3. /\ wq'.head[secondary] = wq.head[secondary]
        /\ \A u \in Task \ {t} : wq'.state[u] = wq.state[u] /\ wq'.tmp[u] = wq.tmp[u]
    BY <2>1, FallingAsleep
  <2> QED
    BY <2>2, <2>3 DEF Runnable, ReadSleepers
<1>6. ASSUME NEW t \in Task, WriteInterrupted(t) PROVE ReaderQueue'
  BY <1>6 DEF WriteInterrupted, ReadSleepers, In, GoTo, Returns, FallsAsleep, Scheduled, WriteLoops, input, output, call
<1>7. ASSUME NEW t \in Task, WriteGoesOn(t) PROVE ReaderQueue'
  BY <1>7 DEF WriteGoesOn, ReadSleepers, In, GoTo, Returns, FallsAsleep, Scheduled, WriteLoops, input, output, call
<1>8. ASSUME NEW t \in Task, Puts(t) PROVE ReaderQueue'
  BY <1>8 DEF Puts, ReadSleepers, In, GoTo, Returns, FallsAsleep, Scheduled, WriteLoops, input, output, call
<1>9. ASSUME NEW t \in Task, CallsRsWrite(t) PROVE ReaderQueue'
  BY <1>9 DEF CallsRsWrite, ReadSleepers, In, GoTo, Returns, FallsAsleep, Scheduled, WriteLoops, input, output, call
<1>10. ASSUME NEW t \in Task, CallsConWrite(t) PROVE ReaderQueue'
  BY <1>10 DEF CallsConWrite, ReadSleepers, In, GoTo, Returns, FallsAsleep, Scheduled, WriteLoops, input, output, call
<1>11. ASSUME NEW t \in Task, ConWrites(t) PROVE ReaderQueue'
  BY <1>11 DEF ConWrites, ReadSleepers, In, GoTo, Returns, FallsAsleep, Scheduled, WriteLoops, input, output, call
<1>12. ASSUME NEW t \in Task, ConWritten(t) PROVE ReaderQueue'
  BY <1>12 DEF ConWritten, ReadSleepers, In, GoTo, Returns, FallsAsleep, Scheduled, WriteLoops, input, output, call
<1>13. ASSUME NEW t \in Task, WriteResumes(t) PROVE ReaderQueue'
  BY <1>13 DEF WriteResumes, ReadSleepers, In, GoTo, Returns, FallsAsleep, Scheduled, WriteLoops, input, output, call
<1>14. ASSUME NEW t \in Task, SleepEnds(t, "read_sleep", "read") PROVE ReaderQueue'
  <2> DEFINE w == InterruptibleReturns(wq, secondary, t)
  <2>1. /\ pc[t] = "read_sleep" /\ t = Reader
        /\ \/ AnotherIsLast(wq, secondary, t)
           \/ /\ w \in WaitQueues /\ wq' = InterruptibleSleepOn(w, secondary, t) /\ pc' = pc
           \/ /\ wq' = w /\ pc' = [pc EXCEPT ![t] = "read"]
    <3>1. secondary = AsleepAt["read_sleep"]
      BY DEF AsleepAt
    <3> QED
      BY <1>14, <3>1, SleepEndsRight DEF IInv
  <2>2. ReadSleepers = {t} /\ wq.tmp[t] = NoTask /\ wq.head[secondary] \in {t, NoTask}
    BY <2>1 DEF ReadSleepers
  <2>3. ~AnotherIsLast(wq, secondary, t)
    BY <2>2 DEF AnotherIsLast
  <2>4. w.head[secondary] = wq.tmp[t] /\ w.tmp[t] = NoTask
    BY Returning
  <2>5. w.head[secondary] = NoTask /\ w.tmp[t] = NoTask
    BY <2>2, <2>4
  <2>6. CASE w \in WaitQueues /\ wq' = InterruptibleSleepOn(w, secondary, t) /\ pc' = pc
    <3>1. wq'.head[secondary] = t /\ wq'.tmp[t] = w.head[secondary]
      <4> HIDE DEF w
      <4> QED
        BY <2>6, FallingAsleep
    <3>2. wq'.head[secondary] = t /\ wq'.tmp[t] = NoTask
      <4> HIDE DEF w
      <4> QED
        BY <2>5, <3>1
    <3>3. ReadSleepers' = {t}
      BY <2>2, <2>6 DEF ReadSleepers
    <3> QED
      BY <3>2, <3>3
  <2>7. CASE wq' = w /\ pc' = [pc EXCEPT ![t] = "read"]
    <3>1. ReadSleepers' = {}
      BY <2>2, <2>7 DEF ReadSleepers
    <3> QED
      BY <2>5, <2>7, <3>1
  <2> HIDE DEF w
  <2> QED
    BY <2>1, <2>3, <2>6, <2>7
<1>15. ASSUME NEW t \in Task, SleepEnds(t, "write_sleep", "write") PROVE ReaderQueue'
  <2> DEFINE w == InterruptibleReturns(wq, write_q, t)
  <2>1. /\ pc[t] = "write_sleep"
        /\ \/ /\ AnotherIsLast(wq, write_q, t) /\ wq' = SleepsAgain(wq, write_q, t) /\ pc' = pc
           \/ /\ w \in WaitQueues /\ wq' = InterruptibleSleepOn(w, write_q, t) /\ pc' = pc
           \/ /\ wq' = w /\ pc' = [pc EXCEPT ![t] = "write"]
    <3>1. write_q = AsleepAt["write_sleep"]
      BY DEF AsleepAt
    <3> QED
      BY <1>15, <3>1, SleepEndsRight DEF IInv
  <2>2. ReadSleepers' = ReadSleepers /\ t \notin ReadSleepers
    BY <2>1 DEF ReadSleepers
  <2>3. /\ w.head[secondary] = wq.head[secondary]
        /\ \A u \in Task \ {t} : w.tmp[u] = wq.tmp[u] /\ (Runnable(wq, u) => Runnable(w, u))
    BY Returning
  <2> HIDE DEF w
  <2>4. /\ wq'.head[secondary] = wq.head[secondary]
        /\ \A u \in Task \ {t} : wq'.tmp[u] = wq.tmp[u] /\ (Runnable(wq, u) => Runnable(wq', u))
    <3>1. CASE AnotherIsLast(wq, write_q, t) /\ wq' = SleepsAgain(wq, write_q, t)
      BY <3>1, SleepingAgain
    <3>2. CASE w \in WaitQueues /\ wq' = InterruptibleSleepOn(w, write_q, t)
      <4>1. /\ wq'.head[secondary] = w.head[secondary]
            /\ \A u \in Task \ {t} : wq'.state[u] = w.state[u] /\ wq'.tmp[u] = w.tmp[u]
        BY <3>2, FallingAsleep
      <4> QED
        BY <2>3, <4>1 DEF Runnable
    <3>3. CASE wq' = w
      BY <2>3, <3>3
    <3> QED
      BY <2>1, <3>1, <3>2, <3>3
  <2> QED
    BY <2>2, <2>4 DEF ReadSleepers
<1>16. ASSUME NEW t \in Task, NEW n \in 1 .. MAX_NR, NEW label,
             Call(t, n, label), label = "write" \/ (label = "read" /\ t = Reader)
      PROVE  ReaderQueue'
  <2>1. wq' = wq /\ pc' = [pc EXCEPT ![t] = label] /\ pc[t] = "user"
    BY <1>16 DEF Call, GoTo
  <2>2. ReadSleepers' = ReadSleepers
    BY <1>16, <2>1 DEF ReadSleepers
  <2> QED
    BY <2>1, <2>2
<1>17. ASSUME NEW c \in Typed, Receive(c) PROVE ReaderQueue'
  <2>1. wq' = WakeUp(wq, secondary) /\ pc' = pc
    BY <1>17 DEF Receive
  <2>2. /\ wq'.head[secondary] = NoTask /\ wq'.tmp = wq.tmp
        /\ \A v \in Task : Runnable(wq', v) <=> Runnable(wq, v) \/ v = wq.head[secondary]
    BY <2>1, WakingUp
  <2>3. ReadSleepers' = ReadSleepers /\ ReadSleepers \subseteq Task
    BY <2>1 DEF ReadSleepers
  <2> QED
    BY <2>2, <2>3
<1>18. ASSUME Transmit PROVE ReaderQueue'
  <2>1. pc' = pc /\ (wq' = wq \/ wq' = WakesWriter)
    BY <1>18 DEF Transmit
  <2>2. wq.head[write_q] \in Task \cup {NoTask}
    BY DEF WaitQueues
  <2>3. /\ WakesWriter.head = wq.head /\ WakesWriter.tmp = wq.tmp
        /\ \A v \in Task : Runnable(wq, v) => Runnable(WakesWriter, v)
    BY <2>2, MakingRunning DEF WakesWriter
  <2>4. /\ wq'.head = wq.head /\ wq'.tmp = wq.tmp /\ \A v \in Task : Runnable(wq, v) => Runnable(wq', v)
    BY <2>1, <2>3
  <2> QED
    BY <2>1, <2>4 DEF ReadSleepers
<1>19. ASSUME UNCHANGED vars PROVE ReaderQueue'
  BY <1>19 DEF vars, ReadSleepers
<1> QED
  BY <1>1, <1>2, <1>3, <1>4, <1>5, <1>6, <1>7, <1>8, <1>9, <1>10, <1>11, <1>12, <1>13, <1>14, <1>15, <1>16, <1>17, <1>18, <1>19
     DEF Next, Kernel, Reads, Writes, ReadCall, WriteCall

\* What happens on one queue leaves the other as it is.
LEMMA OtherQueue ==
    ASSUME NEW w \in WaitQueues, NEW q \in Queue, NEW p \in Queue, p # q, NEW t \in Task, NEW n,
           \/ AnotherIsLast(w, q, t) /\ n = SleepsAgain(w, q, t)
           \/ /\ InterruptibleReturns(w, q, t) \in WaitQueues
              /\ n = InterruptibleSleepOn(InterruptibleReturns(w, q, t), q, t)
           \/ n = InterruptibleReturns(w, q, t)
    PROVE  n.head[p] = w.head[p] /\ \A u \in Task \ {t} : n.tmp[u] = w.tmp[u]
<1>1. PICK m : m = InterruptibleReturns(w, q, t)
  OBVIOUS
<1>2. m.head[p] = w.head[p] /\ \A u \in Task \ {t} : m.tmp[u] = w.tmp[u]
  BY <1>1, Returning
<1>3. CASE AnotherIsLast(w, q, t) /\ n = SleepsAgain(w, q, t)
  BY <1>3, SleepingAgain
<1>4. CASE m \in WaitQueues /\ n = InterruptibleSleepOn(m, q, t)
  <2>1. n.head[p] = m.head[p] /\ \A u \in Task \ {t} : n.tmp[u] = m.tmp[u]
    BY <1>4, FallingAsleep
  <2> QED
    BY <1>2, <2>1
<1>5. CASE n = m
  BY <1>2, <1>5
<1> QED
  BY <1>1, <1>3, <1>4, <1>5

LEMMA WriterQueueNext == IInv /\ [Next]_vars => WriterQueue'
<1> SUFFICES ASSUME IInv, [Next]_vars PROVE WriterQueue'
  OBVIOUS
<1> USE QueuesHere DEF IInv, TypeOK, Control, WriterQueue
<1>1. ASSUME NEW t \in Task, ReadInterrupted(t) PROVE WriterQueue'
  <2>1. wq' = wq
    BY <1>1 DEF ReadInterrupted
  <2>2. WriteSleepers' = WriteSleepers
    BY <1>1 DEF ReadInterrupted, WriteSleepers, In, GoTo, Returns, FallsAsleep, Scheduled, WriteLoops, input, output, call
  <2> QED
    BY <2>1, <2>2
<1>2. ASSUME NEW t \in Task, ReadSleeps(t) PROVE WriterQueue'
  <2>1. /\ pc[t] = "read" /\ wq' = InterruptibleSleepOn(wq, secondary, t)
        /\ pc' = [pc EXCEPT ![t] = "read_sleep"]
    BY <1>2 DEF ReadSleeps, In, FallsAsleep, GoTo, AsleepAt
  <2>2. WriteSleepers' = WriteSleepers /\ WriteSleepers \subseteq Task \ {t}
    BY <2>1 DEF WriteSleepers
  <2>3. /\ wq'.head[write_q] = wq.head[write_q]
        /\ \A u \in Task \ {t} : wq'.tmp[u] = wq.tmp[u]
    BY <2>1, FallingAsleep
  <2>4. \A u \in WriteSleepers : wq'.tmp[u] = wq.tmp[u]
    BY <2>2, <2>3
  <2> QED
    BY <2>2, <2>3, <2>4, ChainSame
<1>3. ASSUME NEW t \in Task, ReadGoesOn(t) PROVE WriterQueue'
  <2>1. wq' = wq
    BY <1>3 DEF ReadGoesOn
  <2>2. WriteSleepers' = WriteSleepers
    BY <1>3 DEF ReadGoesOn, WriteSleepers, In, GoTo, Returns, FallsAsleep, Scheduled, WriteLoops, input, output, call
  <2> QED
    BY <2>1, <2>2
<1>4. ASSUME NEW t \in Task, Fetched(t) PROVE WriterQueue'
  <2>1. (UNCHANGED <<pc, left, signal, running>>) \/ Returns(t)
    BY <1>4, FetchedRight
  <2>2. pc[t] = "fetched" /\ wq' = wq
    BY <1>4 DEF Fetched, In
  <2>3. WriteSleepers' = WriteSleepers
    BY <2>1, <2>2 DEF Returns, GoTo, WriteSleepers
  <2> QED
    BY <2>2, <2>3
<1>5. ASSUME NEW t \in Task, WriteSleeps(t) PROVE WriterQueue'
  <2>1. /\ pc[t] = "write" /\ wq' = InterruptibleSleepOn(wq, write_q, t)
        /\ pc' = [pc EXCEPT ![t] = "write_sleep"]
    BY <1>5 DEF WriteSleeps, In, FallsAsleep, GoTo, AsleepAt
  <2>2. WriteSleepers' = WriteSleepers \cup {t} /\ t \notin WriteSleepers /\ WriteSleepers \subseteq Task
    BY <2>1 DEF WriteSleepers
  <2>3. Chain(wq', write_q, WriteSleepers \cup {t})
    BY <2>1, <2>2, ChainGrows
  <2> QED
    BY <2>2, <2>3
<1>6. ASSUME NEW t \in Task, WriteInterrupted(t) PROVE WriterQueue'
  <2>1. wq' = wq
    BY <1>6 DEF WriteInterrupted
  <2>2. WriteSleepers' = WriteSleepers
    BY <1>6 DEF WriteInterrupted, WriteSleepers, In, GoTo, Returns, FallsAsleep, Scheduled, WriteLoops, input, output, call
  <2> QED
    BY <2>1, <2>2
<1>7. ASSUME NEW t \in Task, WriteGoesOn(t) PROVE WriterQueue'
  <2>1. wq' = wq
    BY <1>7 DEF WriteGoesOn
  <2>2. WriteSleepers' = WriteSleepers
    BY <1>7 DEF WriteGoesOn, WriteSleepers, In, GoTo, Returns, FallsAsleep, Scheduled, WriteLoops, input, output, call
  <2> QED
    BY <2>1, <2>2
<1>8. ASSUME NEW t \in Task, Puts(t) PROVE WriterQueue'
  <2>1. wq' = wq
    BY <1>8 DEF Puts
  <2>2. WriteSleepers' = WriteSleepers
    BY <1>8 DEF Puts, WriteSleepers, In, GoTo, Returns, FallsAsleep, Scheduled, WriteLoops, input, output, call
  <2> QED
    BY <2>1, <2>2
<1>9. ASSUME NEW t \in Task, CallsRsWrite(t) PROVE WriterQueue'
  <2>1. wq' = wq
    BY <1>9 DEF CallsRsWrite
  <2>2. WriteSleepers' = WriteSleepers
    BY <1>9 DEF CallsRsWrite, WriteSleepers, In, GoTo, Returns, FallsAsleep, Scheduled, WriteLoops, input, output, call
  <2> QED
    BY <2>1, <2>2
<1>10. ASSUME NEW t \in Task, CallsConWrite(t) PROVE WriterQueue'
  <2>1. wq' = wq
    BY <1>10 DEF CallsConWrite
  <2>2. WriteSleepers' = WriteSleepers
    BY <1>10 DEF CallsConWrite, WriteSleepers, In, GoTo, Returns, FallsAsleep, Scheduled, WriteLoops, input, output, call
  <2> QED
    BY <2>1, <2>2
<1>11. ASSUME NEW t \in Task, ConWrites(t) PROVE WriterQueue'
  <2>1. wq' = wq
    BY <1>11 DEF ConWrites
  <2>2. WriteSleepers' = WriteSleepers
    BY <1>11 DEF ConWrites, WriteSleepers, In, GoTo, Returns, FallsAsleep, Scheduled, WriteLoops, input, output, call
  <2> QED
    BY <2>1, <2>2
<1>12. ASSUME NEW t \in Task, ConWritten(t) PROVE WriterQueue'
  <2>1. wq' = wq
    BY <1>12 DEF ConWritten
  <2>2. WriteSleepers' = WriteSleepers
    BY <1>12 DEF ConWritten, WriteSleepers, In, GoTo, Returns, FallsAsleep, Scheduled, WriteLoops, input, output, call
  <2> QED
    BY <2>1, <2>2
<1>13. ASSUME NEW t \in Task, WriteResumes(t) PROVE WriterQueue'
  <2>1. wq' = wq
    BY <1>13 DEF WriteResumes
  <2>2. WriteSleepers' = WriteSleepers
    BY <1>13 DEF WriteResumes, WriteSleepers, In, GoTo, Returns, FallsAsleep, Scheduled, WriteLoops, input, output, call
  <2> QED
    BY <2>1, <2>2
<1>14. ASSUME NEW t \in Task, SleepEnds(t, "read_sleep", "read") PROVE WriterQueue'
  <2>1. /\ pc[t] = "read_sleep"
        /\ \/ /\ AnotherIsLast(wq, secondary, t) /\ wq' = SleepsAgain(wq, secondary, t) /\ pc' = pc
           \/ /\ InterruptibleReturns(wq, secondary, t) \in WaitQueues /\ pc' = pc
              /\ wq' = InterruptibleSleepOn(InterruptibleReturns(wq, secondary, t), secondary, t)
           \/ /\ wq' = InterruptibleReturns(wq, secondary, t) /\ pc' = [pc EXCEPT ![t] = "read"]
    <3>1. secondary = AsleepAt["read_sleep"]
      BY DEF AsleepAt
    <3> QED
      BY <1>14, <3>1, SleepEndsRight DEF IInv
  <2>2. WriteSleepers' = WriteSleepers /\ WriteSleepers \subseteq Task \ {t}
    BY <2>1 DEF WriteSleepers
  <2>3. /\ wq'.head[write_q] = wq.head[write_q]
        /\ \A u \in Task \ {t} : wq'.tmp[u] = wq.tmp[u]
    BY <2>1, OtherQueue
  <2>4. \A u \in WriteSleepers : wq'.tmp[u] = wq.tmp[u]
    BY <2>2, <2>3
  <2> QED
    BY <2>2, <2>3, <2>4, ChainSame
<1>15. ASSUME NEW t \in Task, SleepEnds(t, "write_sleep", "write") PROVE WriterQueue'
  <2>1. /\ pc[t] = "write_sleep"
        /\ \/ /\ AnotherIsLast(wq, write_q, t) /\ wq' = SleepsAgain(wq, write_q, t) /\ pc' = pc
           \/ /\ ~AnotherIsLast(wq, write_q, t) /\ InterruptibleReturns(wq, write_q, t) \in WaitQueues
              /\ pc' = pc
              /\ wq' = InterruptibleSleepOn(InterruptibleReturns(wq, write_q, t), write_q, t)
           \/ /\ ~AnotherIsLast(wq, write_q, t) /\ wq' = InterruptibleReturns(wq, write_q, t)
              /\ pc' = [pc EXCEPT ![t] = "write"]
    <3>1. write_q = AsleepAt["write_sleep"]
      BY DEF AsleepAt
    <3> QED
      BY <1>15, <3>1, SleepEndsRight DEF IInv
  <2>2. t \in WriteSleepers /\ WriteSleepers \subseteq Task
    BY <2>1 DEF WriteSleepers
  <2>3. CASE AnotherIsLast(wq, write_q, t) /\ wq' = SleepsAgain(wq, write_q, t) /\ pc' = pc
    <3>1. wq'.head = wq.head /\ wq'.tmp = wq.tmp
      BY <2>3, SleepingAgain
    <3>2. WriteSleepers' = WriteSleepers
      BY <2>3 DEF WriteSleepers
    <3> QED
      BY <3>1, <3>2, ChainSame
  <2>4. CASE ~AnotherIsLast(wq, write_q, t)
    <3>1. PICK w : w = InterruptibleReturns(wq, write_q, t)
      OBVIOUS
    <3>2. Chain(w, write_q, WriteSleepers \ {t})
      BY <2>2, <2>4, <3>1, ChainShrinks
    <3>3. CASE wq' = w /\ pc' = [pc EXCEPT ![t] = "write"]
      <4>1. WriteSleepers' = WriteSleepers \ {t}
        BY <3>3 DEF WriteSleepers
      <4> QED
        BY <3>2, <3>3, <4>1
    <3>4. CASE w \in WaitQueues /\ pc' = pc /\ wq' = InterruptibleSleepOn(w, write_q, t)
      <4>1. Chain(wq', write_q, (WriteSleepers \ {t}) \cup {t})
        BY <2>2, <3>2, <3>4, ChainGrows
      <4>2. WriteSleepers' = (WriteSleepers \ {t}) \cup {t}
        BY <2>2, <3>4 DEF WriteSleepers
      <4> QED
        BY <4>1, <4>2
    <3> QED
      BY <2>1, <2>4, <3>1, <3>3, <3>4
  <2> QED
    BY <2>1, <2>3, <2>4
<1>16. ASSUME NEW t \in Task, NEW n \in 1 .. MAX_NR, NEW label,
             Call(t, n, label), label = "write" \/ (label = "read" /\ t = Reader)
      PROVE  WriterQueue'
  <2>1. wq' = wq /\ pc' = [pc EXCEPT ![t] = label] /\ pc[t] = "user"
    BY <1>16 DEF Call, GoTo
  <2>2. WriteSleepers' = WriteSleepers
    BY <1>16, <2>1 DEF WriteSleepers
  <2> QED
    BY <2>1, <2>2
<1>17. ASSUME NEW c \in Typed, Receive(c) PROVE WriterQueue'
  <2>1. wq' = WakeUp(wq, secondary) /\ pc' = pc
    BY <1>17 DEF Receive
  <2>2. wq'.head[write_q] = wq.head[write_q] /\ wq'.tmp = wq.tmp
    BY <2>1, WakingUp
  <2>3. WriteSleepers' = WriteSleepers
    BY <2>1 DEF WriteSleepers
  <2> QED
    BY <2>2, <2>3, ChainSame
<1>18. ASSUME Transmit PROVE WriterQueue'
  <2>1. pc' = pc /\ (wq' = wq \/ wq' = WakesWriter)
    BY <1>18 DEF Transmit
  <2>2. wq.head[write_q] \in Task \cup {NoTask}
    BY DEF WaitQueues
  <2>3. WakesWriter.head = wq.head /\ WakesWriter.tmp = wq.tmp
    BY <2>2, MakingRunning DEF WakesWriter
  <2>4. wq'.head = wq.head /\ wq'.tmp = wq.tmp /\ WriteSleepers' = WriteSleepers
    BY <2>1, <2>3 DEF WriteSleepers
  <2> QED
    BY <2>4, ChainSame
<1>19. ASSUME UNCHANGED vars PROVE WriterQueue'
  BY <1>19 DEF vars, WriteSleepers
<1> QED
  BY <1>1, <1>2, <1>3, <1>4, <1>5, <1>6, <1>7, <1>8, <1>9, <1>10, <1>11, <1>12, <1>13, <1>14, <1>15, <1>16, <1>17, <1>18, <1>19
     DEF Next, Kernel, Reads, Writes, ReadCall, WriteCall

LEMMA AwakenedNext == IInv /\ [Next]_vars => Awakened'
<1> SUFFICES ASSUME IInv, [Next]_vars PROVE Awakened'
  OBVIOUS
<1> USE QueuesHere DEF IInv, TypeOK
<1>1. ASSUME NEW t \in Task, ReadInterrupted(t) PROVE Awakened'
  <2>1. UNCHANGED <<cooked, out, transmits, wq>>
    BY <1>1 DEF ReadInterrupted, input, output
  <2>2. ReadSleepers' = ReadSleepers /\ WriteSleepers' = WriteSleepers
    BY <1>1 DEF ReadInterrupted, ReadSleepers, WriteSleepers, In, GoTo, Returns, FallsAsleep, Scheduled, WriteLoops, input, output, call
  <2>3. \A u \in ReadSleepers \cup WriteSleepers : u \in signal => u \in signal'
    BY <1>1 DEF ReadInterrupted, ReadSleepers, WriteSleepers, In, GoTo, Returns, FallsAsleep, Scheduled, WriteLoops, input, output, call
  <2> QED
    BY <2>1, <2>2, <2>3 DEF Awakened, Awake
<1>2. ASSUME NEW t \in Task, ReadSleeps(t) PROVE Awakened'
  <2>1. /\ pc[t] = "read" /\ wq' = InterruptibleSleepOn(wq, secondary, t) /\ cooked = << >>
        /\ pc' = [pc EXCEPT ![t] = "read_sleep"] /\ UNCHANGED <<cooked, out, transmits, signal>>
    BY <1>2 DEF ReadSleeps, In, FallsAsleep, GoTo, AsleepAt, input, output
  <2>2. WriteSleepers' = WriteSleepers /\ WriteSleepers \subseteq Task \ {t}
    BY <2>1 DEF WriteSleepers
  <2>3. \A u \in Task \ {t} : Runnable(wq', u) <=> Runnable(wq, u)
    BY <2>1, OthersRunOn
  <2> QED
    BY <2>1, <2>2, <2>3 DEF Awakened, Awake, Runnable
<1>3. ASSUME NEW t \in Task, ReadGoesOn(t) PROVE Awakened'
  <2>1. UNCHANGED <<cooked, out, transmits, wq>>
    BY <1>3 DEF ReadGoesOn, input, output
  <2>2. ReadSleepers' = ReadSleepers /\ WriteSleepers' = WriteSleepers
    BY <1>3 DEF ReadGoesOn, ReadSleepers, WriteSleepers, In, GoTo, Returns, FallsAsleep, Scheduled, WriteLoops, input, output, call
  <2>3. \A u \in ReadSleepers \cup WriteSleepers : u \in signal => u \in signal'
    BY <1>3 DEF ReadGoesOn, ReadSleepers, WriteSleepers, In, GoTo, Returns, FallsAsleep, Scheduled, WriteLoops, input, output, call
  <2> QED
    BY <2>1, <2>2, <2>3 DEF Awakened, Awake
<1>4. ASSUME NEW t \in Task, Fetched(t) PROVE Awakened'
  <2>1. /\ (UNCHANGED <<pc, left, signal, running>>) \/ Returns(t)
        /\ t = Reader
    BY <1>4, FetchedRight
  <2>2. pc[t] = "fetched" /\ UNCHANGED <<wq, out, transmits>>
    BY <1>4 DEF Fetched, In, output
  <2>3. /\ ReadSleepers' = {} /\ WriteSleepers' = WriteSleepers
        /\ \A u \in WriteSleepers : u \in signal => u \in signal'
    <3>1. \A u \in Task : pc[u] # "read_sleep"
      BY <2>1, <2>2 DEF Control
    <3>2. \A u \in Task : pc'[u] = pc[u] \/ (u = t /\ pc'[u] = "user")
      BY <2>1 DEF Returns, GoTo
    <3>3. signal' = signal \/ signal' = signal \ {t}
      BY <2>1 DEF Returns
    <3>4. ReadSleepers' = {}
      BY <3>1, <3>2 DEF ReadSleepers
    <3>5. WriteSleepers' = WriteSleepers /\ t \notin WriteSleepers
      BY <2>2, <3>2 DEF WriteSleepers
    <3> QED
      BY <3>3, <3>4, <3>5
  <2> QED
    BY <2>2, <2>3 DEF Awakened, Awake
<1>5. ASSUME NEW t \in Task, WriteSleeps(t) PROVE Awakened'
  <2>1. /\ pc[t] = "write" /\ wq' = InterruptibleSleepOn(wq, write_q, t) /\ FULL(out)
        /\ pc' = [pc EXCEPT ![t] = "write_sleep"] /\ UNCHANGED <<cooked, out, transmits, signal>>
    BY <1>5 DEF WriteSleeps, In, FallsAsleep, GoTo, AsleepAt, input, output
  <2>2. ReadSleepers' = ReadSleepers /\ ReadSleepers \subseteq Task \ {t}
    BY <2>1 DEF ReadSleepers
  <2>3. \A u \in Task \ {t} : Runnable(wq', u) <=> Runnable(wq, u)
    BY <2>1, OthersRunOn
  <2>4. out # << >>
    BY <2>1, Sizes DEF FULL, LEFT
  <2> QED
    BY <2>1, <2>2, <2>3, <2>4 DEF Awakened, Awake, Runnable
<1>6. ASSUME NEW t \in Task, WriteInterrupted(t) PROVE Awakened'
  <2>1. UNCHANGED <<cooked, out, transmits, wq>>
    BY <1>6 DEF WriteInterrupted, input, output
  <2>2. ReadSleepers' = ReadSleepers /\ WriteSleepers' = WriteSleepers
    BY <1>6 DEF WriteInterrupted, ReadSleepers, WriteSleepers, In, GoTo, Returns, FallsAsleep, Scheduled, WriteLoops, input, output, call
  <2>3. \A u \in ReadSleepers \cup WriteSleepers : u \in signal => u \in signal'
    BY <1>6 DEF WriteInterrupted, ReadSleepers, WriteSleepers, In, GoTo, Returns, FallsAsleep, Scheduled, WriteLoops, input, output, call
  <2> QED
    BY <2>1, <2>2, <2>3 DEF Awakened, Awake
<1>7. ASSUME NEW t \in Task, WriteGoesOn(t) PROVE Awakened'
  <2>1. UNCHANGED <<cooked, out, transmits, wq>>
    BY <1>7 DEF WriteGoesOn, input, output
  <2>2. ReadSleepers' = ReadSleepers /\ WriteSleepers' = WriteSleepers
    BY <1>7 DEF WriteGoesOn, ReadSleepers, WriteSleepers, In, GoTo, Returns, FallsAsleep, Scheduled, WriteLoops, input, output, call
  <2>3. \A u \in ReadSleepers \cup WriteSleepers : u \in signal => u \in signal'
    BY <1>7 DEF WriteGoesOn, ReadSleepers, WriteSleepers, In, GoTo, Returns, FallsAsleep, Scheduled, WriteLoops, input, output, call
  <2> QED
    BY <2>1, <2>2, <2>3 DEF Awakened, Awake
<1>8. ASSUME NEW t \in Task, Puts(t) PROVE Awakened'
  <2>1. out' # << >>
    BY <1>8, PutsRight
  <2>2. UNCHANGED <<cooked, wq, pc, signal>>
    BY <1>8 DEF Puts, input
  <2> QED
    BY <2>1, <2>2 DEF Awakened, Awake, ReadSleepers
<1>9. ASSUME NEW t \in Task, CallsRsWrite(t) PROVE Awakened'
  <2>1. UNCHANGED <<cooked, out, wq>> /\ transmits' = (transmits \/ out # << >>)
    BY <1>9 DEF CallsRsWrite, RsWrite, input
  <2>2. ReadSleepers' = ReadSleepers /\ WriteSleepers' = WriteSleepers
    BY <1>9 DEF CallsRsWrite, ReadSleepers, WriteSleepers, In, GoTo, Returns, FallsAsleep, Scheduled, WriteLoops, input, output, call
  <2>3. \A u \in ReadSleepers \cup WriteSleepers : u \in signal => u \in signal'
    BY <1>9 DEF CallsRsWrite, ReadSleepers, WriteSleepers, In, GoTo, Returns, FallsAsleep, Scheduled, WriteLoops, input, output, call
  <2>4. out = << >> /\ ~transmits' => ~transmits
    BY <2>1
  <2> QED
    BY <2>1, <2>2, <2>3, <2>4 DEF Awakened, Awake
<1>10. ASSUME NEW t \in Task, CallsConWrite(t) PROVE Awakened'
  <2>1. UNCHANGED <<cooked, out, transmits, wq>>
    BY <1>10 DEF CallsConWrite, input, output
  <2>2. ReadSleepers' = ReadSleepers /\ WriteSleepers' = WriteSleepers
    BY <1>10 DEF CallsConWrite, ReadSleepers, WriteSleepers, In, GoTo, Returns, FallsAsleep, Scheduled, WriteLoops, input, output, call
  <2>3. \A u \in ReadSleepers \cup WriteSleepers : u \in signal => u \in signal'
    BY <1>10 DEF CallsConWrite, ReadSleepers, WriteSleepers, In, GoTo, Returns, FallsAsleep, Scheduled, WriteLoops, input, output, call
  <2> QED
    BY <2>1, <2>2, <2>3 DEF Awakened, Awake
<1>11. ASSUME NEW t \in Task, ConWrites(t) PROVE Awakened'
  <2>1. UNCHANGED <<mode, input, transmits, wq, signal, pc, nr, running>> /\ pc[t] = "con_write" /\ ~raced
    BY <1>11 DEF ConWrites, In
  <2>2. out' = << >> /\ WriteSleepers # {} => out = << >>
    <3>1. SUFFICES ASSUME out' = << >>, out # << >>, WriteSleepers # {} PROVE FALSE
      OBVIOUS
    <3>2. out' = Tail(out) /\ Sent(Head(out)) /\ left[t] > 0
      BY <1>11, <3>1 DEF ConWrites
    <3>3. mode.serial
      BY <3>1 DEF OnConsole
    <3> QED
      BY <2>1, <3>3 DEF Control
  <2> QED
    BY <2>1, <2>2 DEF Awakened, Awake, ReadSleepers, WriteSleepers, input
<1>12. ASSUME NEW t \in Task, ConWritten(t) PROVE Awakened'
  <2>1. UNCHANGED <<cooked, out, transmits, wq>>
    BY <1>12 DEF ConWritten, input, output
  <2>2. ReadSleepers' = ReadSleepers /\ WriteSleepers' = WriteSleepers
    BY <1>12 DEF ConWritten, ReadSleepers, WriteSleepers, In, GoTo, Returns, FallsAsleep, Scheduled, WriteLoops, input, output, call
  <2>3. \A u \in ReadSleepers \cup WriteSleepers : u \in signal => u \in signal'
    BY <1>12 DEF ConWritten, ReadSleepers, WriteSleepers, In, GoTo, Returns, FallsAsleep, Scheduled, WriteLoops, input, output, call
  <2> QED
    BY <2>1, <2>2, <2>3 DEF Awakened, Awake
<1>13. ASSUME NEW t \in Task, WriteResumes(t) PROVE Awakened'
  <2>1. UNCHANGED <<cooked, out, transmits, wq>>
    BY <1>13 DEF WriteResumes, input, output
  <2>2. ReadSleepers' = ReadSleepers /\ WriteSleepers' = WriteSleepers
    BY <1>13 DEF WriteResumes, ReadSleepers, WriteSleepers, In, GoTo, Returns, FallsAsleep, Scheduled, WriteLoops, input, output, call
  <2>3. \A u \in ReadSleepers \cup WriteSleepers : u \in signal => u \in signal'
    BY <1>13 DEF WriteResumes, ReadSleepers, WriteSleepers, In, GoTo, Returns, FallsAsleep, Scheduled, WriteLoops, input, output, call
  <2> QED
    BY <2>1, <2>2, <2>3 DEF Awakened, Awake
<1>14. ASSUME NEW t \in Task, SleepEnds(t, "read_sleep", "read") PROVE Awakened'
  <2>1. /\ pc[t] = "read_sleep" /\ t = Reader /\ UNCHANGED <<cooked, out, transmits, signal>>
        /\ \/ /\ AnotherIsLast(wq, secondary, t)
           \/ /\ InterruptibleReturns(wq, secondary, t) \in WaitQueues /\ pc' = pc
              /\ wq' = InterruptibleSleepOn(InterruptibleReturns(wq, secondary, t), secondary, t)
              /\ Waits(t, "read_sleep")
           \/ /\ wq' = InterruptibleReturns(wq, secondary, t) /\ pc' = [pc EXCEPT ![t] = "read"]
    <3>1. secondary = AsleepAt["read_sleep"]
      BY DEF AsleepAt
    <3>2. /\ pc[t] = "read_sleep" /\ UNCHANGED <<cooked, out, transmits, signal>>
          /\ \/ /\ AnotherIsLast(wq, secondary, t)
             \/ /\ InterruptibleReturns(wq, secondary, t) \in WaitQueues /\ pc' = pc
                /\ wq' = InterruptibleSleepOn(InterruptibleReturns(wq, secondary, t), secondary, t)
                /\ Waits(t, "read_sleep")
             \/ /\ wq' = InterruptibleReturns(wq, secondary, t) /\ pc' = [pc EXCEPT ![t] = "read"]
      BY <1>14, <3>1, SleepEndsRight DEF IInv
    <3>3. t = Reader
      BY <3>2 DEF Control
    <3> QED
      BY <3>2, <3>3
  <2>2. wq.head[secondary] \in {t, NoTask}
    <3>1. ReadSleepers \subseteq {t}
      BY <2>1 DEF ReadSleepers, Control
    <3> QED
      BY <3>1 DEF ReaderQueue
  <2>3. ~AnotherIsLast(wq, secondary, t)
    BY <2>2 DEF AnotherIsLast
  <2>4. \A u \in WriteSleepers : Runnable(wq, u) => Runnable(wq', u)
    <3>1. WriteSleepers \subseteq Task \ {t}
      BY <2>1 DEF WriteSleepers
    <3>2. \A u \in Task : Runnable(wq, u) => Runnable(InterruptibleReturns(wq, secondary, t), u)
      BY Returning
    <3>3. CASE wq' = InterruptibleReturns(wq, secondary, t)
      BY <3>1, <3>2, <3>3
    <3>4. CASE /\ InterruptibleReturns(wq, secondary, t) \in WaitQueues
               /\ wq' = InterruptibleSleepOn(InterruptibleReturns(wq, secondary, t), secondary, t)
      <4>1. PICK w : w = InterruptibleReturns(wq, secondary, t)
        OBVIOUS
      <4>2. \A u \in Task \ {t} : Runnable(wq', u) <=> Runnable(w, u)
        BY <3>4, <4>1, OthersRunOn
      <4> QED
        BY <3>1, <3>2, <4>1, <4>2 DEF Runnable
    <3> QED
      BY <2>1, <2>3, <3>3, <3>4
  <2>5. WriteSleepers' = WriteSleepers
    BY <2>1, <2>3 DEF WriteSleepers
  <2>6. cooked = << >> \/ ReadSleepers' = {}
    <3>1. ReadSleepers \subseteq {t}
      BY <2>1 DEF ReadSleepers, Control
    <3>2. CASE Waits(t, "read_sleep")
      BY <3>2 DEF Waits
    <3>3. CASE pc' = [pc EXCEPT ![t] = "read"]
      BY <3>1, <3>3 DEF ReadSleepers
    <3> QED
      BY <2>1, <2>3, <3>2, <3>3
  <2> QED
    BY <2>1, <2>4, <2>5, <2>6 DEF Awakened, Awake
<1>15. ASSUME NEW t \in Task, SleepEnds(t, "write_sleep", "write") PROVE Awakened'
  <2>1. /\ pc[t] = "write_sleep" /\ UNCHANGED <<cooked, out, transmits, signal>>
        /\ \/ /\ AnotherIsLast(wq, write_q, t) /\ wq' = SleepsAgain(wq, write_q, t) /\ pc' = pc
           \/ /\ InterruptibleReturns(wq, write_q, t) \in WaitQueues /\ pc' = pc
              /\ wq' = InterruptibleSleepOn(InterruptibleReturns(wq, write_q, t), write_q, t)
              /\ Waits(t, "write_sleep")
           \/ /\ ~AnotherIsLast(wq, write_q, t) /\ wq' = InterruptibleReturns(wq, write_q, t)
              /\ pc' = [pc EXCEPT ![t] = "write"]
    <3>1. write_q = AsleepAt["write_sleep"]
      BY DEF AsleepAt
    <3> QED
      BY <1>15, <3>1, SleepEndsRight DEF IInv
  <2>2. t \in WriteSleepers /\ WriteSleepers \subseteq Task
    BY <2>1 DEF WriteSleepers
  <2>3. ReadSleepers \subseteq Task \ {t} /\ ReadSleepers' = ReadSleepers
    BY <2>1 DEF ReadSleepers
  <2>4. \A u \in Task : Runnable(wq, u) => Runnable(InterruptibleReturns(wq, write_q, t), u)
    BY Returning
  <2>5. CASE AnotherIsLast(wq, write_q, t) /\ wq' = SleepsAgain(wq, write_q, t) /\ pc' = pc
    <3>1. /\ wq.head[write_q] \in Task \ {t} /\ Runnable(wq', wq.head[write_q])
          /\ \A v \in Task \ {t} : Runnable(wq, v) => Runnable(wq', v)
      BY <2>5, SleepingAgain
    <3>2. wq.head[write_q] \in WriteSleepers /\ WriteSleepers' = WriteSleepers
      BY <2>5, <3>1, NoTaskAssumption DEF WriterQueue, Chain, WriteSleepers
    <3> QED
      BY <2>1, <2>3, <3>1, <3>2 DEF Awakened, Awake
  <2>6. CASE /\ InterruptibleReturns(wq, write_q, t) \in WaitQueues /\ pc' = pc
             /\ wq' = InterruptibleSleepOn(InterruptibleReturns(wq, write_q, t), write_q, t)
             /\ Waits(t, "write_sleep")
    <3>1. PICK w : w = InterruptibleReturns(wq, write_q, t)
      OBVIOUS
    <3>2. \A u \in Task \ {t} : Runnable(wq', u) <=> Runnable(w, u)
      BY <2>6, <3>1, OthersRunOn
    <3>3. \A u \in ReadSleepers : Runnable(wq, u) => Runnable(wq', u)
      BY <2>3, <2>4, <3>1, <3>2 DEF Runnable
    <3>4. out # << >>
      <4>1. LEFT(out) < SLEEP_LEFT
        BY <2>6 DEF Waits
      <4>2. SLEEP_LEFT \in 1 .. BUF - 1 /\ BUF \in Nat
        BY TtyAssumption
      <4> QED
        BY <4>1, <4>2 DEF LEFT
    <3> QED
      BY <2>1, <2>3, <3>3, <3>4 DEF Awakened, Awake
  <2>7. CASE /\ ~AnotherIsLast(wq, write_q, t) /\ wq' = InterruptibleReturns(wq, write_q, t)
             /\ pc' = [pc EXCEPT ![t] = "write"]
    <3>1. WriteSleepers' = WriteSleepers \ {t}
      BY <2>7 DEF WriteSleepers
    <3>2. WriteSleepers # {t} => \E u \in WriteSleepers \ {t} : Runnable(wq', u)
      <4>1. PICK S : S = WriteSleepers
        OBVIOUS
      <4>2. S \subseteq Task /\ t \in S /\ Chain(wq, write_q, S)
        BY <2>2, <4>1 DEF WriterQueue
      <4>3. PICK n : n = wq'
        OBVIOUS
      <4>4. ASSUME S # {t} PROVE \E u \in S \ {t} : Runnable(n, u)
        <5>1. t \in S /\ write_q \in Queue /\ wq \in WaitQueues
          BY <4>2
        <5>2. ~AnotherIsLast(wq, write_q, t) /\ n = InterruptibleReturns(wq, write_q, t)
          BY <2>7, <4>3
        <5> QED
          BY <4>2, <4>4, <5>1, <5>2, NextRuns
      <4> QED
        BY <4>1, <4>3, <4>4
    <3>3. \A u \in ReadSleepers : Runnable(wq, u) => Runnable(wq', u)
      BY <2>3, <2>4, <2>7
    <3>4. WriteSleepers' # {} => \E u \in WriteSleepers' : Runnable(wq', u)
      BY <3>1, <3>2
    <3> QED
      BY <2>1, <2>3, <3>3, <3>4 DEF Awakened, Awake
  <2> QED
    BY <2>1, <2>5, <2>6, <2>7
<1>16. ASSUME NEW t \in Task, NEW n \in 1 .. MAX_NR, NEW label,
             Call(t, n, label), label = "write" \/ (label = "read" /\ t = Reader)
      PROVE  Awakened'
  <2>1. /\ UNCHANGED <<cooked, out, transmits, wq, signal>> /\ pc' = [pc EXCEPT ![t] = label] /\ pc[t] = "user"
    BY <1>16 DEF Call, GoTo, input, output
  <2>2. ReadSleepers' = ReadSleepers /\ WriteSleepers' = WriteSleepers
    BY <1>16, <2>1 DEF ReadSleepers, WriteSleepers
  <2> QED
    BY <2>1, <2>2 DEF Awakened, Awake
<1>17. ASSUME NEW c \in Typed, Receive(c) PROVE Awakened'
  <2>1. wq' = WakeUp(wq, secondary) /\ pc' = pc /\ mode' = mode
    BY <1>17 DEF Receive
  <2>2. \A v \in Task : Runnable(wq', v) <=> Runnable(wq, v) \/ v = wq.head[secondary]
    BY <2>1, WakingUp
  <2>3. /\ ReadSleepers' = ReadSleepers /\ ReadSleepers \subseteq Task
        /\ WriteSleepers' = WriteSleepers /\ WriteSleepers \subseteq Task
    BY <2>1 DEF ReadSleepers, WriteSleepers
  <2>4. \A u \in ReadSleepers : Runnable(wq', u)
    BY <2>2, <2>3 DEF ReaderQueue
  <2>5. \A u \in WriteSleepers : Awake(u) => Awake(u)'
    <3>1. signal' \in {signal, {u \in Task : pc[u] # "user"}}
      BY <1>17, ReceiveRight
    <3>2. \A u \in signal : pc[u] # "user"
      BY DEF Control
    <3> QED
      BY <2>2, <2>3, <3>1, <3>2 DEF Awake
  <2>6. WriteSleepers # {} /\ out' = << >> /\ ~transmits' => out = << >> /\ ~transmits
    <3>1. WriteSleepers # {} => mode.serial
      BY DEF OnConsole
    <3>2. mode.serial /\ out' = << >> /\ ~transmits' => out = << >> /\ ~transmits
      BY <1>17, ReceiveRight
    <3> QED
      BY <3>1, <3>2
  <2> QED
    BY <2>3, <2>4, <2>5, <2>6 DEF Awakened, Awake
<1>18. ASSUME Transmit PROVE Awakened'
  <2>1. UNCHANGED <<pc, cooked, signal>> /\ (wq' = wq \/ wq' = WakesWriter)
    BY <1>18 DEF Transmit, input
  <2>2. wq.head[write_q] \in Task \cup {NoTask}
    BY DEF WaitQueues
  <2>3. \A v \in Task : Runnable(WakesWriter, v) <=> Runnable(wq, v) \/ v = wq.head[write_q]
    <3>1. PICK n : n = WakesWriter
      OBVIOUS
    <3>2. PICK h \in Task \cup {NoTask} : h = wq.head[write_q]
      BY <2>2
    <3>3. n = MakeRunning(wq, h)
      BY <3>1, <3>2 DEF WakesWriter
    <3>4. \A v \in Task : Runnable(n, v) <=> Runnable(wq, v) \/ v = h
      BY <3>3, MakingRunning
    <3> QED
      BY <3>1, <3>2, <3>4
  <2>4. /\ ReadSleepers' = ReadSleepers /\ ReadSleepers \subseteq Task
        /\ WriteSleepers' = WriteSleepers /\ WriteSleepers \subseteq Task
    BY <2>1 DEF ReadSleepers, WriteSleepers
  <2>5. out' = << >> => wq' = WakesWriter
    <3>1. SUFFICES ASSUME out' = << >>, out # << >> PROVE wq' = WakesWriter
      BY <1>18 DEF Transmit
    <3>2. out' = Tail(out) /\ Sent(Head(out)) /\ ~raced
      BY <1>18, <3>1 DEF Transmit
    <3>3. Len(out') = Len(out) - 1 /\ Len(out) \in Nat \ {0}
      BY <3>1, <3>2, SentRight
    <3>4. Len(out) - 1 = 0
      BY <3>1, <3>3
    <3> QED
      BY <1>18, <3>1, <3>4 DEF Transmit, MayWake
  <2>6. WriteSleepers # {} => wq.head[write_q] \in WriteSleepers
    BY ChainHead DEF WriterQueue
  <2>7. \A u \in ReadSleepers : Awake(u) => Awake(u)'
    BY <2>1, <2>3, <2>4 DEF Awake
  <2>8. out' = << >> /\ WriteSleepers # {} => \E u \in WriteSleepers : Awake(u)'
    BY <2>3, <2>4, <2>5, <2>6 DEF Awake
  <2> QED
    BY <2>1, <2>4, <2>7, <2>8 DEF Awakened
<1>19. ASSUME UNCHANGED vars PROVE Awakened'
  BY <1>19 DEF vars, ReadSleepers, WriteSleepers, Awakened, Awake
<1> QED
  BY <1>1, <1>2, <1>3, <1>4, <1>5, <1>6, <1>7, <1>8, <1>9, <1>10, <1>11, <1>12, <1>13, <1>14, <1>15, <1>16, <1>17, <1>18, <1>19
     DEF Next, Kernel, Reads, Writes, ReadCall, WriteCall

-----------------------------------------------------------------------------
LEMMA InvNext == IInv /\ [Next]_vars => IInv'
<1> SUFFICES ASSUME IInv, [Next]_vars PROVE IInv'
  OBVIOUS
<1>1. TypeOK' /\ Control' /\ Counts' /\ OnConsole'
  BY TypeNext, ControlNext, CountsNext, OnConsoleNext
<1>2. ReaderQueue' /\ WriterQueue' /\ Awakened'
  BY ReaderQueueNext, WriterQueueNext, AwakenedNext
<1> QED
  BY <1>1, <1>2 DEF IInv

LEMMA InvAlways == Spec => []IInv
BY InvInit, InvNext, PTL DEF Spec

\* Who is in the chain is reached, whatever else is in the set.
LEMMA ChainReaches ==
    ASSUME NEW w, NEW q, NEW S, Chain(w, q, S), NEW t \in S
    PROVE  Reachable(w, q, t)
<1> SUFFICES ASSUME NEW V \in SUBSET Task, w.head[q] \in V \cup {NoTask},
                    \A u \in V : w.tmp[u] \in V \cup {NoTask}
             PROVE  t \in V
  BY DEF Reachable
<1>1. w.head[q] \in (V \cap S) \cup {NoTask}
  BY DEF Chain
<1>2. \A u \in V \cap S : w.tmp[u] \in (V \cap S) \cup {NoTask}
  BY DEF Chain
<1>3. Closed(w, q, V \cap S) /\ V \cap S \in SUBSET S
  BY <1>1, <1>2 DEF Closed
<1>4. S \subseteq V \cap S
  BY <1>3 DEF Chain
<1> QED
  BY <1>4

LEMMA InvFinds == IInv => SleepersAreFound
<1> SUFFICES ASSUME IInv PROVE SleepersAreFound
  OBVIOUS
<1>1. /\ AsleepAt["read_sleep"] = secondary /\ AsleepAt["write_sleep"] = write_q
      /\ DOMAIN AsleepAt = {"read_sleep", "write_sleep"}
  BY DEF AsleepAt
<1>2. ASSUME NEW t \in ReadSleepers PROVE Reachable(wq, secondary, t)
  <2>1. t \in Task /\ (Runnable(wq, t) \/ wq.head[secondary] = t) /\ t # NoTask
    BY QueuesHere DEF IInv, ReaderQueue, ReadSleepers
  <2> SUFFICES ASSUME NEW V \in SUBSET Task, wq.head[secondary] \in V \cup {NoTask},
                      {u \in Task : Runnable(wq, u)} \subseteq V
               PROVE  t \in V
    BY DEF Reachable
  <2> QED
    BY <2>1
<1>3. ASSUME NEW t \in WriteSleepers PROVE Reachable(wq, write_q, t)
  BY ChainReaches DEF IInv, WriterQueue
<1>4. cooked # << >> /\ ReadSleepers # {} => \E t \in ReadSleepers : Awake(t)
  BY DEF IInv, Awakened
<1>5. out = << >> /\ ~transmits /\ WriteSleepers # {} => \E t \in WriteSleepers : Awake(t)
  BY DEF IInv, Awakened
<1>6. ASSUME NEW label \in {"read_sleep", "write_sleep"}, NEW sleepers,
             sleepers = {t \in Task : pc[t] = label}
      PROVE  /\ \A t \in sleepers : t \in signal \/ Reachable(wq, AsleepAt[label], t)
             /\ sleepers # {} /\ Awaited(label) => \E t \in sleepers : Awake(t)
  <2>1. CASE label = "read_sleep"
    <3>1. sleepers = ReadSleepers
      BY <1>6, <2>1 DEF ReadSleepers
    <3> QED
      BY <1>1, <1>2, <1>4, <2>1, <3>1 DEF Awaited
  <2>2. CASE label = "write_sleep"
    <3>1. sleepers = WriteSleepers
      BY <1>6, <2>2 DEF WriteSleepers
    <3> QED
      BY <1>1, <1>3, <1>5, <2>2, <3>1 DEF Awaited
  <2> QED
    BY <2>1, <2>2
<1> QED
  BY <1>1, <1>6 DEF SleepersAreFound

\* The rings hold at most BUF - 1 bytes, and every variable keeps its type.
THEOREM TypeCorrect == Spec => []TypeOK
<1>1. IInv => TypeOK
  BY DEF IInv
<1> QED
  BY <1>1, InvAlways, PTL

\* secondary.data is the number of line ends in the queue, however much is typed,
\* erased, killed and read in between: tty_read waits for a line exactly when there
\* is none.
THEOREM DataCountsTheLines == Spec => []DataCountsLines
<1>1. IInv => DataCountsLines
  BY DEF IInv, Counts, DataCountsLines
<1> QED
  BY <1>1, InvAlways, PTL

\* However many tasks write to a terminal, and however their bytes and the echo mix
\* in the queue, every byte that was accepted is there until it is sent, and once.
THEOREM OutputIsNeverLost == Spec => []OutputIsKept
<1>1. IInv => OutputIsKept
  BY DEF IInv, Counts, OutputIsKept
<1> QED
  BY <1>1, InvAlways, PTL

\* However many tasks sleep for room in a terminal's write queue, each can be reached
\* from the pointer through the tmp's of tasks that sleep there or run; the reader is
\* reached from secondary's; and where there is something to get up for, one is up.
THEOREM SleepersAreAlwaysFound == Spec => []SleepersAreFound
BY InvAlways, InvFinds, PTL
=============================================================================
