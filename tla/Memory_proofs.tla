---------------------------- MODULE Memory_proofs ----------------------------
(***************************************************************************)
(* Proofs about Memory: the types, the counts of the page map, and the      *)
(* isolation of the tasks, for any number of tasks and pages.               *)
(*                                                                         *)
(* Good is what every operator of Paging preserves: mem_map counts the uses *)
(* of a page, a page table, a task_struct and a page a sleeping task holds  *)
(* have no other user, a free page is clear, and a writable page is its     *)
(* task's own.  Each operator has a lemma (GetRight, TableRight, PutRight,  *)
(* FreeRight, FreeTablesRight, OpenedRight, ShareRight, CopyRight, ...) that *)
(* says so, and what it leaves in the pages of the other tasks.  IInv adds  *)
(* what the state of a task says of its memory; each action of Memory has a *)
(* lemma that it preserves IInv.                                            *)
(***************************************************************************)
EXTENDS Memory, FiniteSetTheorems, NaturalsInduction, TLAPS

(***************************************************************************)
(* Sets of numbers.                                                         *)
(***************************************************************************)
LEMMA HasLeast ==
    ASSUME NEW S, S \subseteq Nat, S # {}
    PROVE  \E x \in S : \A y \in S : x <= y
<1> DEFINE R == {ss \in Nat \X Nat : ss[1] < ss[2]}
<1>1. IsWellFoundedOn(R, Nat)
  BY NatLessThanWellFounded DEF OpToRel
<1>2. PICK x \in S : \A y \in S : ~(<<y, x>> \in R)
  BY <1>1, WFMin
<1>3. ASSUME NEW y \in S PROVE x <= y
  <2>1. ~(<<y, x>> \in R) /\ <<y, x>> \in Nat \X Nat
    BY <1>2
  <2> QED
    BY <2>1
<1> QED
  BY <1>3

LEMMA MinIsIn ==
    ASSUME NEW S, S \subseteq Nat, S # {}
    PROVE  Min(S) \in S
BY HasLeast DEF Min

\* The later an element, the fewer are behind it.
LEMMA LaterFalls ==
    ASSUME NEW S, S \subseteq Nat, IsFiniteSet(S), NEW x \in S, NEW y \in S, y > x
    PROVE  /\ Later(S, x) \in Nat /\ Later(S, y) \in Nat
           /\ Later(S, y) < Later(S, x)
<1> DEFINE X == {z \in S : z > x}
           Y == {z \in S : z > y}
<1>0. \A z \in S : z \in Nat
  OBVIOUS
<1>1. X \in SUBSET S /\ y \in X /\ y \notin Y
  BY <1>0
<1>1a. ASSUME NEW z \in Y PROVE z \in X
  <2>1. z \in Nat /\ x \in Nat /\ y \in Nat /\ z > y /\ z \in S
    BY <1>0
  <2> QED
    BY <2>1
<1>1b. Y \in SUBSET X
  BY <1>1a
<1>2. IsFiniteSet(X) /\ Cardinality(X) \in Nat
  BY <1>1, FS_Subset, FS_CardinalityType
<1>3. /\ IsFiniteSet(Y) /\ Cardinality(Y) <= Cardinality(X)
      /\ Cardinality(X) = Cardinality(Y) => X = Y
  BY <1>1b, <1>2, FS_Subset
<1>4. Cardinality(Y) \in Nat /\ X # Y
  BY <1>1, <1>3, FS_CardinalityType
<1>5. Later(S, x) = Cardinality(X) /\ Later(S, y) = Cardinality(Y)
  BY DEF Later
<1> HIDE DEF X, Y
<1> QED
  BY <1>2, <1>3, <1>4, <1>5

LEMMA EarlierRises ==
    ASSUME NEW S, S \subseteq Nat, IsFiniteSet(S), NEW x \in S, NEW y \in S, y > x
    PROVE  /\ Earlier(S, x) \in Nat /\ Earlier(S, y) \in Nat
           /\ Earlier(S, x) < Earlier(S, y)
<1> DEFINE X == {z \in S : z < x}
           Y == {z \in S : z < y}
<1>0. \A z \in S : z \in Nat
  OBVIOUS
<1>1. Y \in SUBSET S /\ x \in Y /\ x \notin X
  BY <1>0
<1>1a. ASSUME NEW z \in X PROVE z \in Y
  <2>1. z \in Nat /\ x \in Nat /\ y \in Nat /\ z < x /\ z \in S
    BY <1>0
  <2> QED
    BY <2>1
<1>1b. X \in SUBSET Y
  BY <1>1a
<1>2. IsFiniteSet(Y) /\ Cardinality(Y) \in Nat
  BY <1>1, FS_Subset, FS_CardinalityType
<1>3. /\ IsFiniteSet(X) /\ Cardinality(X) <= Cardinality(Y)
      /\ Cardinality(Y) = Cardinality(X) => Y = X
  BY <1>1b, <1>2, FS_Subset
<1>4. Cardinality(X) \in Nat /\ X # Y
  BY <1>1, <1>3, FS_CardinalityType
<1>5. Earlier(S, x) = Cardinality(X) /\ Earlier(S, y) = Cardinality(Y)
  BY DEF Earlier
<1> HIDE DEF X, Y
<1> QED
  BY <1>2, <1>3, <1>4, <1>5

LEMMA HasGreatest ==
    ASSUME NEW S, S \subseteq Nat, IsFiniteSet(S), S # {}
    PROVE  \E x \in S : \A y \in S : x >= y
<1> DEFINE L == {Later(S, x) : x \in S}
<1>1. ASSUME NEW x \in S PROVE Later(S, x) \in Nat
  <2>1. {z \in S : z > x} \in SUBSET S
    OBVIOUS
  <2> QED
    BY <2>1, FS_Subset, FS_CardinalityType DEF Later
<1>2. L \subseteq Nat /\ L # {}
  BY <1>1
<1>3. PICK n \in L : \A k \in L : n <= k
  BY <1>2, HasLeast
<1>4. PICK x \in S : n = Later(S, x)
  BY <1>3
<1>5. ASSUME NEW y \in S, y > x PROVE FALSE
  <2>1. Later(S, y) < Later(S, x) /\ Later(S, y) \in Nat /\ Later(S, x) \in Nat
    BY <1>5, LaterFalls
  <2>2. n <= Later(S, y)
    BY <1>3
  <2> QED
    BY <2>1, <2>2, <1>4
<1> QED
  BY <1>5

LEMMA MaxIsIn ==
    ASSUME NEW S, S \subseteq Nat, IsFiniteSet(S), S # {}
    PROVE  Max(S) \in S
BY HasGreatest DEF Max

(***************************************************************************)
(* How many elements of S a function takes to p.                            *)
(***************************************************************************)
Uses(S, f, p) == Cardinality({x \in S : f[x] = p})

Here(a, p) == IF a = p THEN 1 ELSE 0

LEMMA UsesType ==
    ASSUME NEW S, IsFiniteSet(S), NEW f, NEW p
    PROVE  /\ Uses(S, f, p) \in Nat
           /\ IsFiniteSet({x \in S : f[x] = p})
           /\ (\E x \in S : f[x] = p) <=> Uses(S, f, p) >= 1
<1> DEFINE X == {x \in S : f[x] = p}
<1>1. X \in SUBSET S
  OBVIOUS
<1>2. IsFiniteSet(X) /\ Cardinality(X) \in Nat /\ (Cardinality(X) = 0 <=> X = {})
  BY <1>1, FS_Subset, FS_CardinalityType, FS_EmptySet
<1>3. X # {} <=> \E x \in S : f[x] = p
  OBVIOUS
<1> HIDE DEF X
<1>4. X # {} <=> Cardinality(X) >= 1
  BY <1>2
<1> QED
  BY <1>2, <1>3, <1>4 DEF Uses, X

\* One element is taken elsewhere.
LEMMA UsesMove ==
    ASSUME NEW S, IsFiniteSet(S), NEW f, NEW g, NEW y \in S,
           \A x \in S \ {y} : g[x] = f[x], NEW p
    PROVE  Uses(S, g, p) + Here(f[y], p) = Uses(S, f, p) + Here(g[y], p)
<1> DEFINE R == {x \in S : x # y /\ f[x] = p}
           F == {x \in S : f[x] = p}
           G == {x \in S : g[x] = p}
<1>1. R \in SUBSET S /\ y \notin R
  OBVIOUS
<1>2. /\ IsFiniteSet(R) /\ Cardinality(R) \in Nat
      /\ Cardinality(R \cup {y}) = Cardinality(R) + 1
  BY <1>1, FS_Subset, FS_CardinalityType, FS_AddElement
<1>3. /\ F = IF f[y] = p THEN R \cup {y} ELSE R
      /\ G = IF g[y] = p THEN R \cup {y} ELSE R
  OBVIOUS
<1>4. Uses(S, f, p) = Cardinality(F) /\ Uses(S, g, p) = Cardinality(G)
  BY DEF Uses
<1> HIDE DEF R, F, G
<1>5. Cardinality(F) = Cardinality(R) + Here(f[y], p)
  BY <1>2, <1>3 DEF Here
<1>6. Cardinality(G) = Cardinality(R) + Here(g[y], p)
  BY <1>2, <1>3 DEF Here
<1> QED
  BY <1>2, <1>4, <1>5, <1>6 DEF Here

\* Two elements are taken to p.
LEMMA UsesTwo ==
    ASSUME NEW S, IsFiniteSet(S), NEW f, NEW x \in S, NEW y \in S, x # y,
           f[x] = f[y]
    PROVE  Uses(S, f, f[x]) >= 2
<1> DEFINE X == {z \in S : f[z] = f[x]}
           R == {z \in X : z # x}
<1>1. X \in SUBSET S /\ R \in SUBSET S /\ x \notin R /\ y \in R /\ X = R \cup {x}
  OBVIOUS
<1>2. IsFiniteSet(R) /\ Cardinality(R) \in Nat /\ Cardinality(R) # 0
  BY <1>1, FS_Subset, FS_CardinalityType, FS_EmptySet
<1>3. Uses(S, f, f[x]) = Cardinality(X)
  BY DEF Uses
<1> HIDE DEF X, R
<1>4. Cardinality(X) = Cardinality(R) + 1
  BY <1>1, <1>2, FS_AddElement
<1> QED
  BY <1>2, <1>3, <1>4

(***************************************************************************)
(* The pairs of a task and a virtual page, a task's row among them.         *)
(***************************************************************************)
Pairs == Task \X VPage

Row(f, t, p) == Cardinality({v \in VPage : f[<<t, v>>] = p})

LEMMA PairsAreFinite == IsFiniteSet(Task) /\ IsFiniteSet(VPage) /\ IsFiniteSet(Pairs)
BY PagingAssumption, FS_Product DEF Pairs

LEMMA RowType ==
    ASSUME NEW f, NEW t \in Task, NEW p
    PROVE  /\ Row(f, t, p) \in Nat
           /\ (\A v \in VPage : f[<<t, v>>] # p) => Row(f, t, p) = 0
<1> DEFINE V == {v \in VPage : f[<<t, v>>] = p}
<1>1. V \in SUBSET VPage
  OBVIOUS
<1>2. Cardinality(V) \in Nat
  BY <1>1, PairsAreFinite, FS_Subset, FS_CardinalityType
<1>3. (\A v \in VPage : f[<<t, v>>] # p) => V = {}
  OBVIOUS
<1> QED
  BY <1>2, <1>3, FS_EmptySet DEF Row

LEMMA RowIsUses ==
    ASSUME NEW f, NEW t \in Task, NEW p
    PROVE  Cardinality({x \in Pairs : x[1] = t /\ f[x] = p}) = Row(f, t, p)
<1> DEFINE X == {x \in Pairs : x[1] = t /\ f[x] = p}
           V == {v \in VPage : f[<<t, v>>] = p}
           b == [v \in V |-> <<t, v>>]
<1>1. V \in SUBSET VPage
  OBVIOUS
<1>2. IsFiniteSet(V)
  BY <1>1, PairsAreFinite, FS_Subset
<1>3. b \in [V -> X]
  BY DEF Pairs
<1>4. \A v, w \in V : b[v] = b[w] => v = w
  OBVIOUS
<1>5. ASSUME NEW x \in X PROVE \E v \in V : b[v] = x
  <2>1. x = <<t, x[2]>> /\ x[2] \in V
    BY DEF Pairs
  <2> QED
    BY <2>1
<1>6. b \in Bijection(V, X)
  BY <1>3, <1>4, <1>5 DEF Bijection, Injection, Surjection, IsInjective
<1>7. ExistsBijection(V, X)
  BY <1>6 DEF ExistsBijection
<1> HIDE DEF b
<1>8. Cardinality(X) = Cardinality(V)
  BY <1>2, <1>7, FS_Bijection
<1> QED
  BY <1>8 DEF Row

\* One task's row is changed.
LEMMA UsesRow ==
    ASSUME NEW f, NEW g, NEW t \in Task,
           \A x \in Pairs : x[1] # t => g[x] = f[x], NEW p
    PROVE  Uses(Pairs, g, p) + Row(f, t, p) = Uses(Pairs, f, p) + Row(g, t, p)
<1> DEFINE R == {x \in Pairs : x[1] # t /\ f[x] = p}
           F == {x \in Pairs : x[1] = t /\ f[x] = p}
           G == {x \in Pairs : x[1] = t /\ g[x] = p}
<1>1. R \in SUBSET Pairs /\ F \in SUBSET Pairs /\ G \in SUBSET Pairs
  OBVIOUS
<1>2. /\ IsFiniteSet(R) /\ Cardinality(R) \in Nat
      /\ IsFiniteSet(F) /\ Cardinality(F) \in Nat
      /\ IsFiniteSet(G) /\ Cardinality(G) \in Nat
  BY <1>1, PairsAreFinite, FS_Subset, FS_CardinalityType
<1>3. /\ {x \in Pairs : f[x] = p} = R \cup F /\ R \cap F = {}
      /\ {x \in Pairs : g[x] = p} = R \cup G /\ R \cap G = {}
  OBVIOUS
<1>4. Uses(Pairs, f, p) = Cardinality(R \cup F) /\ Uses(Pairs, g, p) = Cardinality(R \cup G)
  BY <1>3 DEF Uses
<1>5. Row(f, t, p) = Cardinality(F) /\ Row(g, t, p) = Cardinality(G)
  BY RowIsUses
<1> HIDE DEF R, F, G
<1>6. Cardinality(R \cup F) = Cardinality(R) + Cardinality(F) - Cardinality({})
  BY <1>2, <1>3, FS_Union
<1>7. Cardinality(R \cup G) = Cardinality(R) + Cardinality(G) - Cardinality({})
  BY <1>2, <1>3, FS_Union
<1>8. Cardinality({}) = 0
  BY FS_EmptySet
<1> QED
  BY <1>2, <1>4, <1>5, <1>6, <1>7, <1>8

(***************************************************************************)
(* The memory m with the pages h that sleeping tasks have got, and the      *)
(* pages s of the task_structs.                                             *)
(***************************************************************************)
MemType == [map : [Page -> Nat], dir : [Task -> [VPage -> 0 .. NR_PAGES]],
            pte : [Task -> [VPage -> Entry]], val : [Page -> {0} \cup Task \cup Exe]]

PageOf == [Task -> 0 .. NR_PAGES]

PteOf(m) == [x \in Pairs |-> m.pte[x[1]][x[2]].page]
DirOf(m) == [x \in Pairs |-> m.dir[x[1]][x[2]]]

Counted(m, h, s) ==
    \A p \in Page : m.map[p] = Uses(Pairs, PteOf(m), p) + Uses(Pairs, DirOf(m), p)
                             + Uses(Task, h, p) + Uses(Task, s, p)

LEMMA RefCountsAreUses == RefCounts <=> Counted(mem, held, struct)
<1>1. ASSUME NEW p \in Page
      PROVE  /\ Uses(Pairs, PteOf(mem), p)
                  = Cardinality({x \in Task \X VPage : mem.pte[x[1]][x[2]].page = p})
             /\ Uses(Pairs, DirOf(mem), p)
                  = Cardinality({x \in Task \X VPage : mem.dir[x[1]][x[2]] = p})
             /\ Uses(Task, held, p) = Cardinality({t \in Task : held[t] = p})
             /\ Uses(Task, struct, p) = Cardinality({t \in Task : struct[t] = p})
  <2>1. {x \in Pairs : PteOf(mem)[x] = p} = {x \in Task \X VPage : mem.pte[x[1]][x[2]].page = p}
    BY DEF PteOf, Pairs
  <2>2. {x \in Pairs : DirOf(mem)[x] = p} = {x \in Task \X VPage : mem.dir[x[1]][x[2]] = p}
    BY DEF DirOf, Pairs
  <2> QED
    BY <2>1, <2>2 DEF Uses
<1> QED
  BY <1>1 DEF RefCounts, Counted

LEMMA UsesTypes ==
    ASSUME NEW m, NEW h, NEW s, NEW p
    PROVE  /\ Uses(Pairs, PteOf(m), p) \in Nat /\ Uses(Pairs, DirOf(m), p) \in Nat
           /\ Uses(Task, h, p) \in Nat /\ Uses(Task, s, p) \in Nat
BY PairsAreFinite, UsesType

PteUses(m, p) == \E u \in Task, w \in VPage : m.pte[u][w].page = p
DirUses(m, p) == \E u \in Task, w \in VPage : m.dir[u][w] = p
TaskUses(h, p) == \E u \in Task : h[u] = p

LEMMA UseIsCounted ==
    ASSUME NEW m, NEW h, NEW p
    PROVE  /\ PteUses(m, p) <=> Uses(Pairs, PteOf(m), p) >= 1
           /\ DirUses(m, p) <=> Uses(Pairs, DirOf(m), p) >= 1
           /\ TaskUses(h, p) <=> Uses(Task, h, p) >= 1
<1>1. \A x \in Pairs : /\ x[1] \in Task /\ x[2] \in VPage
                        /\ PteOf(m)[x] = m.pte[x[1]][x[2]].page
                        /\ DirOf(m)[x] = m.dir[x[1]][x[2]]
  BY DEF PteOf, DirOf, Pairs
<1>2. ASSUME NEW u \in Task, NEW w \in VPage
      PROVE  \E x \in Pairs : x[1] = u /\ x[2] = w
  <2>1. <<u, w>> \in Pairs /\ <<u, w>>[1] = u /\ <<u, w>>[2] = w
    BY DEF Pairs
  <2> QED
    BY <2>1
<1>3. PteUses(m, p) <=> \E x \in Pairs : PteOf(m)[x] = p
  BY <1>1, <1>2 DEF PteUses
<1>4. DirUses(m, p) <=> \E x \in Pairs : DirOf(m)[x] = p
  BY <1>1, <1>2 DEF DirUses
<1>5. PteUses(m, p) <=> Uses(Pairs, PteOf(m), p) >= 1
  <2>1. PICK f : f = PteOf(m)
    OBVIOUS
  <2>2. (\E x \in Pairs : f[x] = p) <=> Uses(Pairs, f, p) >= 1
    BY PairsAreFinite, UsesType
  <2> QED
    BY <1>3, <2>1, <2>2
<1>6. DirUses(m, p) <=> Uses(Pairs, DirOf(m), p) >= 1
  <2>1. PICK f : f = DirOf(m)
    OBVIOUS
  <2>2. (\E x \in Pairs : f[x] = p) <=> Uses(Pairs, f, p) >= 1
    BY PairsAreFinite, UsesType
  <2> QED
    BY <1>4, <2>1, <2>2
<1>7. TaskUses(h, p) <=> Uses(Task, h, p) >= 1
  BY PairsAreFinite, UsesType DEF TaskUses
<1> QED
  BY <1>5, <1>6, <1>7

\* Two different uses of one kind are counted as two.
LEMMA TwoUses ==
    ASSUME NEW m, NEW h, NEW p
    PROVE  /\ \A t, u \in Task, v, w \in VPage :
                  m.pte[t][v].page = p /\ m.pte[u][w].page = p /\ <<t, v>> # <<u, w>>
                      => Uses(Pairs, PteOf(m), p) >= 2
           /\ \A t, u \in Task, v, w \in VPage :
                  m.dir[t][v] = p /\ m.dir[u][w] = p /\ <<t, v>> # <<u, w>>
                      => Uses(Pairs, DirOf(m), p) >= 2
           /\ \A t, u \in Task : h[t] = p /\ h[u] = p /\ t # u => Uses(Task, h, p) >= 2
<1>1. ASSUME NEW t \in Task, NEW u \in Task, NEW v \in VPage, NEW w \in VPage,
             m.pte[t][v].page = p, m.pte[u][w].page = p, <<t, v>> # <<u, w>>
      PROVE  Uses(Pairs, PteOf(m), p) >= 2
  <2> DEFINE x == <<t, v>>  y == <<u, w>>
  <2>1. x \in Pairs /\ y \in Pairs /\ x # y /\ PteOf(m)[x] = p /\ PteOf(m)[y] = p
    BY <1>1 DEF PteOf, Pairs
  <2> HIDE DEF x, y
  <2> QED
    BY <2>1, PairsAreFinite, UsesTwo
<1>2. ASSUME NEW t \in Task, NEW u \in Task, NEW v \in VPage, NEW w \in VPage,
             m.dir[t][v] = p, m.dir[u][w] = p, <<t, v>> # <<u, w>>
      PROVE  Uses(Pairs, DirOf(m), p) >= 2
  <2> DEFINE x == <<t, v>>  y == <<u, w>>
  <2>1. x \in Pairs /\ y \in Pairs /\ x # y /\ DirOf(m)[x] = p /\ DirOf(m)[y] = p
    BY <1>2 DEF DirOf, Pairs
  <2> HIDE DEF x, y
  <2> QED
    BY <2>1, PairsAreFinite, UsesTwo
<1>3. ASSUME NEW t \in Task, NEW u \in Task, h[t] = p, h[u] = p, t # u
      PROVE  Uses(Task, h, p) >= 2
  BY <1>3, PairsAreFinite, UsesTwo
<1> QED
  BY <1>1, <1>2, <1>3

\* A free page has no user, and a page that is counted once has one.
LEMMA UsersAreCounted ==
    ASSUME NEW m, NEW h, NEW s, Counted(m, h, s), NEW p \in Page
    PROVE  /\ m.map[p] \in Nat
           /\ PteUses(m, p) \/ DirUses(m, p) \/ TaskUses(h, p) \/ TaskUses(s, p)
                 <=> m.map[p] # 0
           /\ m.map[p] = 1 =>
                 /\ PteUses(m, p) => ~DirUses(m, p) /\ ~TaskUses(h, p) /\ ~TaskUses(s, p)
                 /\ DirUses(m, p) => ~TaskUses(h, p) /\ ~TaskUses(s, p)
                 /\ TaskUses(h, p) => ~TaskUses(s, p)
                 /\ \A t, u \in Task, v, w \in VPage :
                       m.pte[t][v].page = p /\ m.pte[u][w].page = p => t = u /\ v = w
                 /\ \A t, u \in Task, v, w \in VPage :
                       m.dir[t][v] = p /\ m.dir[u][w] = p => t = u /\ v = w
                 /\ \A t, u \in Task : h[t] = p /\ h[u] = p => t = u
                 /\ \A t, u \in Task : s[t] = p /\ s[u] = p => t = u
<1>1. PICK a, b, c, d : /\ a = Uses(Pairs, PteOf(m), p) /\ b = Uses(Pairs, DirOf(m), p)
                        /\ c = Uses(Task, h, p) /\ d = Uses(Task, s, p)
  OBVIOUS
<1>2. a \in Nat /\ b \in Nat /\ c \in Nat /\ d \in Nat /\ m.map[p] = a + b + c + d
  BY <1>1, UsesTypes DEF Counted
<1>3. /\ PteUses(m, p) <=> a >= 1
      /\ DirUses(m, p) <=> b >= 1
      /\ TaskUses(h, p) <=> c >= 1
      /\ TaskUses(s, p) <=> d >= 1
  BY <1>1, UseIsCounted
<1>4. a < 2 => \A t, u \in Task, v, w \in VPage :
                  m.pte[t][v].page = p /\ m.pte[u][w].page = p => t = u /\ v = w
  BY <1>1, <1>2, TwoUses
<1>5. b < 2 => \A t, u \in Task, v, w \in VPage :
                  m.dir[t][v] = p /\ m.dir[u][w] = p => t = u /\ v = w
  BY <1>1, <1>2, TwoUses
<1>6. /\ c < 2 => \A t, u \in Task : h[t] = p /\ h[u] = p => t = u
      /\ d < 2 => \A t, u \in Task : s[t] = p /\ s[u] = p => t = u
  BY <1>1, <1>2, TwoUses
<1>7. m.map[p] = 1 => a < 2 /\ b < 2 /\ c < 2 /\ d < 2
  BY <1>2
<1>8. m.map[p] = 1 => /\ a >= 1 => ~(b >= 1) /\ ~(c >= 1) /\ ~(d >= 1)
                      /\ b >= 1 => ~(c >= 1) /\ ~(d >= 1)
                      /\ c >= 1 => ~(d >= 1)
  BY <1>2
<1>9. m.map[p] \in Nat /\ (a >= 1 \/ b >= 1 \/ c >= 1 \/ d >= 1 <=> m.map[p] # 0)
  BY <1>2
<1> QED
  BY <1>3, <1>4, <1>5, <1>6, <1>7, <1>8, <1>9

(***************************************************************************)
(* Changes of one field.                                                    *)
(***************************************************************************)
SetMap(m, n, p, k) ==
    /\ n \in MemType /\ n.dir = m.dir /\ n.pte = m.pte /\ n.val = m.val
    /\ n.map[p] = k /\ \A q \in Page : q # p => n.map[q] = m.map[q]

SetDir(m, n, t, v, q) ==
    /\ n \in MemType /\ n.map = m.map /\ n.pte = m.pte /\ n.val = m.val
    /\ n.dir[t][v] = q
    /\ \A u \in Task, w \in VPage : u # t \/ w # v => n.dir[u][w] = m.dir[u][w]

SetPte(m, n, t, v, e) ==
    /\ n \in MemType /\ n.map = m.map /\ n.dir = m.dir /\ n.val = m.val
    /\ n.pte[t][v] = e
    /\ \A u \in Task, w \in VPage : u # t \/ w # v => n.pte[u][w] = m.pte[u][w]

SetVal(m, n, p, x) ==
    /\ n \in MemType /\ n.map = m.map /\ n.dir = m.dir /\ n.pte = m.pte
    /\ n.val[p] = x /\ \A q \in Page : q # p => n.val[q] = m.val[q]

LEMMA SetMapIs ==
    ASSUME NEW m \in MemType, NEW p \in Page, NEW k \in Nat
    PROVE  SetMap(m, [m EXCEPT !.map[p] = k], p, k)
BY DEF SetMap, MemType

LEMMA SetDirIs ==
    ASSUME NEW m \in MemType, NEW t \in Task, NEW v \in VPage, NEW q \in 0 .. NR_PAGES
    PROVE  SetDir(m, [m EXCEPT !.dir[t][v] = q], t, v, q)
BY DEF SetDir, MemType

LEMMA SetPteIs ==
    ASSUME NEW m \in MemType, NEW t \in Task, NEW v \in VPage, NEW e \in Entry
    PROVE  SetPte(m, [m EXCEPT !.pte[t][v] = e], t, v, e)
BY DEF SetPte, MemType

LEMMA SetValIs ==
    ASSUME NEW m \in MemType, NEW p \in Page, NEW x \in {0} \cup Task \cup Exe
    PROVE  SetVal(m, [m EXCEPT !.val[p] = x], p, x)
BY DEF SetVal, MemType

LEMMA EntryTypes ==
    /\ \A p \in 0 .. NR_PAGES : PageOr7(p) \in Entry
    /\ NotPresent \in Entry
    /\ \A e \in Entry : Protected(e) \in Entry /\ Protected(e).page = e.page
                        /\ Protected(e).dirty = e.dirty /\ ~Protected(e).writable
    /\ \A e \in Entry : e.page \in 0 .. NR_PAGES /\ e.dirty \in BOOLEAN /\ e.writable \in BOOLEAN
<1>1. 0 \in 0 .. NR_PAGES
  BY PagingAssumption
<1>2. ASSUME NEW p \in 0 .. NR_PAGES PROVE PageOr7(p) \in Entry
  BY DEF PageOr7, Entry
<1>3. NotPresent \in Entry
  BY <1>1 DEF NotPresent, Entry
<1>4. ASSUME NEW e \in Entry
      PROVE  /\ Protected(e) \in Entry /\ Protected(e).page = e.page
             /\ Protected(e).dirty = e.dirty /\ ~Protected(e).writable
             /\ e.page \in 0 .. NR_PAGES /\ e.dirty \in BOOLEAN /\ e.writable \in BOOLEAN
  BY DEF Protected, Entry
<1> QED
  BY <1>2, <1>3, <1>4

LEMMA PteMoves ==
    ASSUME NEW m \in MemType, NEW n, NEW t \in Task, NEW v \in VPage,
           \A u \in Task, w \in VPage : u # t \/ w # v => n.pte[u][w].page = m.pte[u][w].page,
           NEW p
    PROVE  Uses(Pairs, PteOf(n), p) + Here(m.pte[t][v].page, p)
              = Uses(Pairs, PteOf(m), p) + Here(n.pte[t][v].page, p)
<1>1. PICK f, g, y : f = PteOf(m) /\ g = PteOf(n) /\ y = <<t, v>>
  OBVIOUS
<1>2. y \in Pairs /\ f[y] = m.pte[t][v].page /\ g[y] = n.pte[t][v].page
  BY <1>1 DEF Pairs, PteOf
<1>3. ASSUME NEW x \in Pairs \ {y} PROVE g[x] = f[x]
  <2>1. x[1] \in Task /\ x[2] \in VPage /\ (x[1] # t \/ x[2] # v)
    BY <1>1 DEF Pairs
  <2> QED
    BY <1>1, <2>1 DEF PteOf
<1>4. Uses(Pairs, g, p) + Here(f[y], p) = Uses(Pairs, f, p) + Here(g[y], p)
  BY <1>2, <1>3, PairsAreFinite, UsesMove
<1> QED
  BY <1>1, <1>2, <1>4

LEMMA DirMoves ==
    ASSUME NEW m \in MemType, NEW n, NEW t \in Task, NEW v \in VPage,
           \A u \in Task, w \in VPage : u # t \/ w # v => n.dir[u][w] = m.dir[u][w],
           NEW p
    PROVE  Uses(Pairs, DirOf(n), p) + Here(m.dir[t][v], p)
              = Uses(Pairs, DirOf(m), p) + Here(n.dir[t][v], p)
<1>1. PICK f, g, y : f = DirOf(m) /\ g = DirOf(n) /\ y = <<t, v>>
  OBVIOUS
<1>2. y \in Pairs /\ f[y] = m.dir[t][v] /\ g[y] = n.dir[t][v]
  BY <1>1 DEF Pairs, DirOf
<1>3. ASSUME NEW x \in Pairs \ {y} PROVE g[x] = f[x]
  <2>1. x[1] \in Task /\ x[2] \in VPage /\ (x[1] # t \/ x[2] # v)
    BY <1>1 DEF Pairs
  <2> QED
    BY <1>1, <2>1 DEF DirOf
<1>4. Uses(Pairs, g, p) + Here(f[y], p) = Uses(Pairs, f, p) + Here(g[y], p)
  BY <1>2, <1>3, PairsAreFinite, UsesMove
<1> QED
  BY <1>1, <1>2, <1>4

LEMMA TaskMoves ==
    ASSUME NEW h \in PageOf, NEW t \in Task, NEW q \in 0 .. NR_PAGES, NEW p
    PROVE  /\ [h EXCEPT ![t] = q] \in PageOf
           /\ Uses(Task, [h EXCEPT ![t] = q], p) + Here(h[t], p)
                 = Uses(Task, h, p) + Here(q, p)
<1>1. PICK k : k = [h EXCEPT ![t] = q]
  OBVIOUS
<1>2. k \in PageOf /\ k[t] = q /\ \A u \in Task \ {t} : k[u] = h[u]
  BY <1>1 DEF PageOf
<1>3. Uses(Task, k, p) + Here(h[t], p) = Uses(Task, h, p) + Here(k[t], p)
  <2>1. IsFiniteSet(Task) /\ \A u \in Task \ {t} : k[u] = h[u]
    BY <1>2, PairsAreFinite
  <2> QED
    BY <2>1, UsesMove
<1> QED
  BY <1>1, <1>2, <1>3

LEMMA SamePtes ==
    ASSUME NEW m, NEW n,
           \A u \in Task, w \in VPage : n.pte[u][w].page = m.pte[u][w].page
    PROVE  PteOf(n) = PteOf(m)
BY DEF PteOf, Pairs

LEMMA SameDirs ==
    ASSUME NEW m, NEW n, n.dir = m.dir
    PROVE  DirOf(n) = DirOf(m)
BY DEF DirOf

(***************************************************************************)
(* A page is a page table, a task's that sleeps with it, or a task_struct,  *)
(* and then that only; or it is what some entries map, and only one if that *)
(* one is writable; or it is free and cleared.                              *)
(***************************************************************************)
Private(m, h, s) ==
    \A p \in Page : DirUses(m, p) \/ TaskUses(h, p) \/ TaskUses(s, p) => m.map[p] = 1

FreeIsClear(m) == \A p \in Page : m.map[p] = 0 => m.val[p] = 0

OwnWritable(m) ==
    \A t \in Task, v \in VPage :
        m.pte[t][v].writable => Present(m, t, v) /\ OnlyUser(m, t, v)

Good(m, h, s) ==
    /\ m \in MemType /\ h \in PageOf /\ s \in PageOf
    /\ Counted(m, h, s) /\ Private(m, h, s) /\ FreeIsClear(m) /\ OwnWritable(m)

\* The entry stays, and what is in the page.
Keeps(m, n, t, v) ==
    /\ n.pte[t][v].page = m.pte[t][v].page
    /\ n.pte[t][v].dirty = m.pte[t][v].dirty
    /\ Present(m, t, v) => n.val[m.pte[t][v].page] = m.val[m.pte[t][v].page]
    /\ HasTable(m, t, v) => HasTable(n, t, v)

LEMMA GoodSwap ==
    ASSUME NEW m, NEW h, NEW s, Good(m, h, s)
    PROVE  Good(m, s, h)
<1>1. Counted(m, s, h)
  <2>1. ASSUME NEW p \in Page
        PROVE m.map[p] = Uses(Pairs, PteOf(m), p) + Uses(Pairs, DirOf(m), p)
                         + Uses(Task, s, p) + Uses(Task, h, p)
    BY UsesTypes DEF Good, Counted
  <2> QED
    BY <2>1 DEF Counted
<1> QED
  BY <1>1 DEF Good, Private

LEMMA PtePages ==
    ASSUME NEW m \in MemType, NEW t \in Task, NEW v \in VPage
    PROVE  /\ m.pte[t][v] \in Entry /\ m.pte[t][v].page \in 0 .. NR_PAGES
           /\ Present(m, t, v) => m.pte[t][v].page \in Page
           /\ m.dir[t][v] \in 0 .. NR_PAGES
           /\ HasTable(m, t, v) => m.dir[t][v] \in Page
           /\ m.pte[t][v].writable \in BOOLEAN /\ m.pte[t][v].dirty \in BOOLEAN
<1>1. m.pte[t][v] \in Entry /\ m.dir[t][v] \in 0 .. NR_PAGES
  BY DEF MemType
<1> QED
  BY <1>1, PagingAssumption DEF Entry, Present, HasTable, Page

LEMMA NewPageIsFree ==
    ASSUME NEW m \in MemType, FreePages(m) # {}
    PROVE  NewPage(m) \in Page /\ m.map[NewPage(m)] = 0
<1>1. FreePages(m) \subseteq Nat /\ FreePages(m) \subseteq 1 .. NR_PAGES
  BY PagingAssumption DEF FreePages, Page
<1>2. IsFiniteSet(FreePages(m))
  <2>1. IsFiniteSet(1 .. NR_PAGES)
    BY PagingAssumption, FS_Interval
  <2>2. FreePages(m) \in SUBSET (1 .. NR_PAGES)
    BY <1>1
  <2> QED
    BY <2>1, <2>2, FS_Subset
<1>3. PICK p \in FreePages(m) : \A q \in FreePages(m) : p >= q
  BY <1>1, <1>2, HasGreatest
<1>4. \A q \in p + 1 .. NR_PAGES : m.map[q] # 0
  BY <1>1, <1>3, PagingAssumption DEF FreePages, Page
<1>5. NewPage(m) \in FreePages(m)
  BY <1>3, <1>4 DEF NewPage
<1> QED
  BY <1>5 DEF FreePages

\* What a page with a user is.
LEMMA UsersOfGood ==
    ASSUME NEW m, NEW h, NEW s, Good(m, h, s)
    PROVE  /\ \A t \in Task, v \in VPage :
                 Present(m, t, v) => m.map[m.pte[t][v].page] \in Nat \ {0}
           /\ \A t \in Task, v \in VPage : HasTable(m, t, v) => m.map[m.dir[t][v]] = 1
           /\ \A t \in Task : h[t] # 0 => h[t] \in Page /\ m.map[h[t]] = 1
           /\ \A t \in Task : s[t] # 0 => s[t] \in Page /\ m.map[s[t]] = 1
<1>1. m \in MemType /\ h \in PageOf /\ s \in PageOf /\ Private(m, h, s) /\ Counted(m, h, s)
  BY DEF Good
<1>2. ASSUME NEW t \in Task, NEW v \in VPage, Present(m, t, v)
      PROVE  m.map[m.pte[t][v].page] \in Nat \ {0}
  <2>1. m.pte[t][v].page \in Page /\ PteUses(m, m.pte[t][v].page)
    BY <1>1, <1>2, PtePages DEF PteUses
  <2> QED
    BY <1>1, <2>1, UsersAreCounted
<1>3. ASSUME NEW t \in Task, NEW v \in VPage, HasTable(m, t, v)
      PROVE  m.map[m.dir[t][v]] = 1
  BY <1>1, <1>3, PtePages DEF Private, DirUses
<1>4. ASSUME NEW t \in Task, h[t] # 0 PROVE h[t] \in Page /\ m.map[h[t]] = 1
  <2>1. h[t] \in Page
    BY <1>1, <1>4, PagingAssumption DEF PageOf, Page
  <2> QED
    BY <1>1, <2>1 DEF Private, TaskUses
<1>5. ASSUME NEW t \in Task, s[t] # 0 PROVE s[t] \in Page /\ m.map[s[t]] = 1
  <2>1. s[t] \in Page
    BY <1>1, <1>5, PagingAssumption DEF PageOf, Page
  <2> QED
    BY <1>1, <2>1 DEF Private, TaskUses
<1> QED
  BY <1>2, <1>3, <1>4, <1>5

LEMMA HereZero == \A p \in Page : Here(0, p) = 0
BY DEF Here, Page

(***************************************************************************)
(* get_free_page, for a task that sleeps with the page or for a             *)
(* task_struct.                                                             *)
(***************************************************************************)
LEMMA GetIs ==
    ASSUME NEW m \in MemType, FreePages(m) # {}
    PROVE  /\ NewPage(m) \in Page /\ m.map[NewPage(m)] = 0
           /\ SetMap(m, GetFreePage(m), NewPage(m), 1)
BY NewPageIsFree, SetMapIs DEF GetFreePage

LEMMA GetRight ==
    ASSUME NEW m, NEW h, NEW s, Good(m, h, s), FreePages(m) # {},
           NEW t \in Task, h[t] = 0
    PROVE  /\ Good(GetFreePage(m), [h EXCEPT ![t] = NewPage(m)], s)
           /\ GetFreePage(m).dir = m.dir
           /\ \A u \in Task, v \in VPage : Keeps(m, GetFreePage(m), u, v)
<1>1. /\ m \in MemType /\ h \in PageOf /\ s \in PageOf
      /\ Counted(m, h, s) /\ Private(m, h, s) /\ FreeIsClear(m) /\ OwnWritable(m)
  BY DEF Good
<1>2. PICK q, n, k : q = NewPage(m) /\ n = GetFreePage(m) /\ k = [h EXCEPT ![t] = q]
  OBVIOUS
<1>3. q \in Page /\ m.map[q] = 0 /\ SetMap(m, n, q, 1) /\ q \in 0 .. NR_PAGES
  BY <1>1, <1>2, GetIs, PagingAssumption DEF Page
<1>4. /\ k \in PageOf /\ k[t] = q /\ \A u \in Task : u # t => k[u] = h[u]
  BY <1>1, <1>2, <1>3 DEF PageOf
<1>5. Counted(n, k, s)
  <2>1. PteOf(n) = PteOf(m) /\ DirOf(n) = DirOf(m)
    BY <1>3, SamePtes, SameDirs DEF SetMap
  <2>2. ASSUME NEW p \in Page
        PROVE  n.map[p] = Uses(Pairs, PteOf(n), p) + Uses(Pairs, DirOf(n), p)
                             + Uses(Task, k, p) + Uses(Task, s, p)
    <3>1. Uses(Task, k, p) + Here(0, p) = Uses(Task, h, p) + Here(q, p)
      <4>1. Uses(Task, k, p) + Here(h[t], p) = Uses(Task, h, p) + Here(q, p)
        BY <1>1, <1>2, <1>3, TaskMoves, ZenonT(60)
      <4> QED
        BY <4>1
    <3>2. n.map[p] = m.map[p] + Here(q, p)
      BY <1>1, <1>3, UsersAreCounted DEF SetMap, Here
    <3>3. Here(0, p) = 0 /\ Here(q, p) \in Nat
      BY HereZero DEF Here
    <3>4. m.map[p] = Uses(Pairs, PteOf(m), p) + Uses(Pairs, DirOf(m), p)
                             + Uses(Task, h, p) + Uses(Task, s, p)
      BY <1>1 DEF Counted
    <3>5. /\ Uses(Pairs, PteOf(m), p) \in Nat /\ Uses(Pairs, DirOf(m), p) \in Nat
          /\ Uses(Task, h, p) \in Nat /\ Uses(Task, s, p) \in Nat /\ Uses(Task, k, p) \in Nat
      BY UsesTypes
    <3> QED
      BY <2>1, <3>1, <3>2, <3>3, <3>4, <3>5
  <2> QED
    BY <2>2 DEF Counted
<1>6. Private(n, k, s)
  <2>1. \A p \in Page : TaskUses(k, p) => p = q \/ TaskUses(h, p)
    BY <1>4 DEF TaskUses
  <2> QED
    BY <1>1, <1>3, <2>1 DEF Private, SetMap, DirUses
<1>7. FreeIsClear(n)
  BY <1>1, <1>3 DEF FreeIsClear, SetMap
<1>8. OwnWritable(n)
  <2>1. ASSUME NEW u \in Task, NEW v \in VPage, m.pte[u][v].writable
        PROVE  Present(n, u, v) /\ OnlyUser(n, u, v)
    <3>1. m.pte[u][v].page \in Page /\ m.map[m.pte[u][v].page] = 1
      BY <1>1, <2>1, PtePages DEF OwnWritable, OnlyUser
    <3>2. /\ m.pte[u][v].page # q /\ n.pte = m.pte
          /\ n.map[m.pte[u][v].page] = m.map[m.pte[u][v].page]
      <4>1. PICK p \in Page : p = m.pte[u][v].page /\ m.map[p] = 1
        BY <3>1
      <4>2. p # q
        BY <1>3, <4>1
      <4> QED
        BY <1>3, <4>1, <4>2 DEF SetMap
    <3>3. Present(m, u, v)
      BY <1>1, <2>1 DEF OwnWritable
    <3> QED
      BY <3>1, <3>2, <3>3 DEF OnlyUser, Present
  <2> QED
    BY <1>3, <2>1 DEF OwnWritable, SetMap
<1>9. \A u \in Task, v \in VPage : Keeps(m, n, u, v)
  BY <1>3 DEF SetMap, Keeps, HasTable
<1> QED
  BY <1>1, <1>2, <1>3, <1>4, <1>5, <1>6, <1>7, <1>8, <1>9 DEF Good, SetMap

(***************************************************************************)
(* The page table behind v.                                                 *)
(***************************************************************************)
LEMMA TableRight ==
    ASSUME NEW m, NEW h, NEW s, Good(m, h, s), NEW t \in Task, NEW v \in VPage,
           CanTable(m, t, v)
    PROVE  /\ Good(WithTable(m, t, v), h, s)
           /\ HasTable(WithTable(m, t, v), t, v)
           /\ WithTable(m, t, v).pte = m.pte
           /\ WithTable(m, t, v).val = m.val
           /\ \A u \in Task : u # t => WithTable(m, t, v).dir[u] = m.dir[u]
           /\ \A u \in Task, w \in VPage : Keeps(m, WithTable(m, t, v), u, w)
           /\ \A p \in Page : m.map[p] # 0 => WithTable(m, t, v).map[p] = m.map[p]
<1>1. /\ m \in MemType /\ h \in PageOf /\ s \in PageOf
      /\ Counted(m, h, s) /\ Private(m, h, s) /\ FreeIsClear(m) /\ OwnWritable(m)
  BY DEF Good
<1>2. CASE HasTable(m, t, v)
  BY <1>2 DEF WithTable, Keeps
<1>3. CASE ~HasTable(m, t, v)
  <2>1. FreePages(m) # {}
    BY <1>3 DEF CanTable
  <2>2. PICK q, g, n : q = NewPage(m) /\ g = GetFreePage(m) /\ n = [g EXCEPT !.dir[t][v] = q]
    OBVIOUS
  <2>3. q \in Page /\ m.map[q] = 0 /\ SetMap(m, g, q, 1) /\ q \in 0 .. NR_PAGES /\ q # 0
    BY <1>1, <2>1, <2>2, GetIs, PagingAssumption DEF Page
  <2>4. SetDir(g, n, t, v, q)
    BY <2>2, <2>3, SetDirIs DEF SetMap
  <2>5. /\ n \in MemType /\ n.pte = m.pte /\ n.val = m.val
        /\ n.map[q] = 1 /\ \A p \in Page : p # q => n.map[p] = m.map[p]
        /\ n.dir[t][v] = q
        /\ \A u \in Task, w \in VPage : u # t \/ w # v => n.dir[u][w] = m.dir[u][w]
    BY <2>3, <2>4 DEF SetMap, SetDir
  <2>6. n = WithTable(m, t, v)
    BY <1>3, <2>2 DEF WithTable
  <2>7. Counted(n, h, s)
    <3>1. PteOf(n) = PteOf(m)
      BY <2>5, SamePtes
    <3>2. ASSUME NEW p \in Page
          PROVE  n.map[p] = Uses(Pairs, PteOf(n), p) + Uses(Pairs, DirOf(n), p)
                               + Uses(Task, h, p) + Uses(Task, s, p)
      <4>1. Uses(Pairs, DirOf(n), p) + Here(0, p) = Uses(Pairs, DirOf(m), p) + Here(q, p)
        <5>1. m.dir[t][v] = 0
          BY <1>3 DEF HasTable
        <5> QED
          BY <1>1, <2>5, <5>1, DirMoves
      <4>2. n.map[p] = m.map[p] + Here(q, p)
        BY <1>1, <2>3, <2>5, UsersAreCounted DEF Here
      <4>3. Here(0, p) = 0 /\ Here(q, p) \in Nat
        BY HereZero DEF Here
      <4>4. m.map[p] = Uses(Pairs, PteOf(m), p) + Uses(Pairs, DirOf(m), p)
                               + Uses(Task, h, p) + Uses(Task, s, p)
        BY <1>1 DEF Counted
      <4>5. /\ Uses(Pairs, PteOf(m), p) \in Nat /\ Uses(Pairs, DirOf(m), p) \in Nat
            /\ Uses(Task, h, p) \in Nat /\ Uses(Task, s, p) \in Nat
            /\ Uses(Pairs, DirOf(n), p) \in Nat
        BY UsesTypes
      <4> QED
        BY <3>1, <4>1, <4>2, <4>3, <4>4, <4>5
    <3> QED
      BY <3>2 DEF Counted
  <2>8. Private(n, h, s)
    <3>1. \A p \in Page : DirUses(n, p) => p = q \/ DirUses(m, p)
      BY <2>5 DEF DirUses
    <3> QED
      BY <1>1, <2>3, <2>5, <3>1 DEF Private
  <2>9. FreeIsClear(n)
    BY <1>1, <2>3, <2>5 DEF FreeIsClear
  <2>10. OwnWritable(n)
    <3>1. ASSUME NEW u \in Task, NEW w \in VPage, m.pte[u][w].writable
          PROVE  Present(n, u, w) /\ OnlyUser(n, u, w)
      <4>1. m.pte[u][w].page \in Page /\ m.map[m.pte[u][w].page] = 1
        BY <1>1, <3>1, PtePages DEF OwnWritable, OnlyUser
      <4>2. /\ m.pte[u][w].page # q /\ n.pte = m.pte
            /\ n.map[m.pte[u][w].page] = m.map[m.pte[u][w].page]
        <5>1. PICK p \in Page : p = m.pte[u][w].page /\ m.map[p] = 1
          BY <4>1
        <5>2. p # q
          BY <2>3, <5>1
        <5> QED
          BY <2>5, <5>1, <5>2
      <4>3. Present(m, u, w)
        BY <1>1, <3>1 DEF OwnWritable
      <4> QED
        BY <4>1, <4>2, <4>3 DEF OnlyUser, Present
    <3> QED
      BY <2>5, <3>1 DEF OwnWritable
  <2>11. \A u \in Task : u # t => n.dir[u] = m.dir[u]
    BY <1>1, <2>5 DEF MemType
  <2>12. HasTable(n, t, v) /\ \A u \in Task, w \in VPage : Keeps(m, n, u, w)
    BY <2>3, <2>5 DEF Keeps, HasTable
  <2> QED
    BY <1>1, <2>3, <2>5, <2>6, <2>7, <2>8, <2>9, <2>10, <2>11, <2>12 DEF Good
<1> QED
  BY <1>2, <1>3

(***************************************************************************)
(* A page is put where there was none.                                      *)
(***************************************************************************)
LEMMA PutRight ==
    ASSUME NEW m, NEW h, NEW s, Good(m, h, s), NEW t \in Task, NEW v \in VPage,
           ~Present(m, t, v), h[t] # 0
    PROVE  LET n == [m EXCEPT !.pte[t][v] = PageOr7(h[t])]
           IN  /\ Good(n, [h EXCEPT ![t] = 0], s)
               /\ SetPte(m, n, t, v, PageOr7(h[t]))
               /\ \A u \in Task, w \in VPage : u # t \/ w # v => Keeps(m, n, u, w)
<1>1. /\ m \in MemType /\ h \in PageOf /\ s \in PageOf
      /\ Counted(m, h, s) /\ Private(m, h, s) /\ FreeIsClear(m) /\ OwnWritable(m)
  BY DEF Good
<1>2. PICK q, e, k, n : /\ q = h[t] /\ e = PageOr7(q) /\ k = [h EXCEPT ![t] = 0]
                        /\ n = [m EXCEPT !.pte[t][v] = e]
  OBVIOUS
<1>3. q \in Page /\ q \in 0 .. NR_PAGES /\ q # 0 /\ m.map[q] = 1 /\ 0 \in 0 .. NR_PAGES
  BY <1>1, <1>2, UsersOfGood, PagingAssumption DEF PageOf
<1>4. e \in Entry /\ e.page = q /\ e.writable /\ ~e.dirty
  BY <1>2, <1>3, EntryTypes DEF PageOr7
<1>5. SetPte(m, n, t, v, e)
  BY <1>1, <1>2, <1>4, SetPteIs
<1>6. k \in PageOf /\ k[t] = 0 /\ \A u \in Task : u # t => k[u] = h[u]
  BY <1>1, <1>2, <1>3 DEF PageOf
<1>7. Counted(n, k, s)
  <2>1. DirOf(n) = DirOf(m)
    BY <1>5, SameDirs DEF SetPte
  <2>2. ASSUME NEW p \in Page
        PROVE  n.map[p] = Uses(Pairs, PteOf(n), p) + Uses(Pairs, DirOf(n), p)
                             + Uses(Task, k, p) + Uses(Task, s, p)
    <3>1. Uses(Task, k, p) + Here(q, p) = Uses(Task, h, p) + Here(0, p)
      BY <1>1, <1>2, <1>3, TaskMoves, ZenonT(60)
    <3>2. Uses(Pairs, PteOf(n), p) + Here(0, p) = Uses(Pairs, PteOf(m), p) + Here(q, p)
      <4>1. /\ m.pte[t][v].page = 0 /\ n.pte[t][v].page = q
            /\ \A u \in Task, w \in VPage : u # t \/ w # v => n.pte[u][w].page = m.pte[u][w].page
        BY <1>4, <1>5 DEF SetPte, Present
      <4> QED
        BY <1>1, <4>1, PteMoves
    <3>3. Here(0, p) = 0 /\ Here(q, p) \in Nat
      BY HereZero DEF Here
    <3>4. n.map[p] = Uses(Pairs, PteOf(m), p) + Uses(Pairs, DirOf(m), p)
                             + Uses(Task, h, p) + Uses(Task, s, p)
      BY <1>1, <1>5 DEF Counted, SetPte
    <3>5. /\ Uses(Pairs, PteOf(m), p) \in Nat /\ Uses(Pairs, DirOf(m), p) \in Nat
          /\ Uses(Task, h, p) \in Nat /\ Uses(Task, s, p) \in Nat /\ Uses(Task, k, p) \in Nat
          /\ Uses(Pairs, PteOf(n), p) \in Nat
      BY UsesTypes
    <3> QED
      BY <2>1, <3>1, <3>2, <3>3, <3>4, <3>5
  <2> QED
    BY <2>2 DEF Counted
<1>8. Private(n, k, s)
  <2>1. \A p \in Page : TaskUses(k, p) => TaskUses(h, p)
    BY <1>6 DEF TaskUses, Page
  <2> QED
    BY <1>1, <1>5, <2>1 DEF Private, SetPte, DirUses
<1>9. FreeIsClear(n)
  BY <1>1, <1>5 DEF FreeIsClear, SetPte
<1>10. OwnWritable(n)
  BY <1>1, <1>3, <1>4, <1>5 DEF OwnWritable, SetPte, Present, OnlyUser
<1>11. \A u \in Task, w \in VPage : u # t \/ w # v => Keeps(m, n, u, w)
  BY <1>5 DEF SetPte, Keeps, HasTable
<1> QED
  BY <1>1, <1>2, <1>5, <1>6, <1>7, <1>8, <1>9, <1>10, <1>11 DEF Good, SetPte

\* What is in a page that is in use.
LEMMA ValRight ==
    ASSUME NEW m, NEW h, NEW s, Good(m, h, s), NEW p \in Page, m.map[p] # 0,
           NEW x \in {0} \cup Task \cup Exe
    PROVE  /\ Good([m EXCEPT !.val[p] = x], h, s)
           /\ SetVal(m, [m EXCEPT !.val[p] = x], p, x)
<1>1. /\ m \in MemType /\ h \in PageOf /\ s \in PageOf
      /\ Counted(m, h, s) /\ Private(m, h, s) /\ FreeIsClear(m) /\ OwnWritable(m)
  BY DEF Good
<1>2. PICK n : n = [m EXCEPT !.val[p] = x]
  OBVIOUS
<1>3. SetVal(m, n, p, x)
  BY <1>1, <1>2, SetValIs
<1>4. PteOf(n) = PteOf(m) /\ DirOf(n) = DirOf(m)
  BY <1>3, SamePtes, SameDirs DEF SetVal
<1>5. Counted(n, h, s)
  BY <1>1, <1>3, <1>4 DEF Counted, SetVal
<1>6. Private(n, h, s)
  BY <1>1, <1>3 DEF Private, SetVal, DirUses
<1>7. FreeIsClear(n) /\ OwnWritable(n)
  BY <1>1, <1>3 DEF FreeIsClear, OwnWritable, SetVal, Present, OnlyUser
<1> QED
  BY <1>1, <1>2, <1>3, <1>5, <1>6, <1>7 DEF Good, SetVal

(***************************************************************************)
(* free_page of a page a task has got.                                      *)
(***************************************************************************)
ClearedFrom(m, n) ==
    /\ n \in MemType /\ n.map = m.map /\ n.dir = m.dir /\ n.pte = m.pte
    /\ \A p \in Page : n.val[p] = IF m.map[p] = 0 THEN 0 ELSE m.val[p]

LEMMA ClearedIs ==
    ASSUME NEW m \in MemType
    PROVE  ClearedFrom(m, Cleared(m))
BY DEF ClearedFrom, Cleared, MemType

LEMMA FreeRight ==
    ASSUME NEW m, NEW h, NEW s, Good(m, h, s), NEW t \in Task, h[t] # 0
    PROVE  /\ Good(free_page(m, h[t]), [h EXCEPT ![t] = 0], s)
           /\ free_page(m, h[t]).dir = m.dir
           /\ \A u \in Task, w \in VPage : Keeps(m, free_page(m, h[t]), u, w)
<1>1. /\ m \in MemType /\ h \in PageOf /\ s \in PageOf
      /\ Counted(m, h, s) /\ Private(m, h, s) /\ FreeIsClear(m) /\ OwnWritable(m)
  BY DEF Good
<1>2. PICK q, k, g, n : /\ q = h[t] /\ k = [h EXCEPT ![t] = 0]
                        /\ g = [m EXCEPT !.map[q] = 0] /\ n = Cleared(g)
  OBVIOUS
<1>3. q \in Page /\ q \in 0 .. NR_PAGES /\ q # 0 /\ m.map[q] = 1 /\ 0 \in 0 .. NR_PAGES
  BY <1>1, <1>2, UsersOfGood, PagingAssumption DEF PageOf
<1>4. n = free_page(m, q)
  <2>1. m.map[q] - 1 = 0
    BY <1>3
  <2> QED
    BY <1>2, <2>1 DEF free_page
<1>5. SetMap(m, g, q, 0)
  BY <1>1, <1>2, <1>3, SetMapIs
<1>6. /\ n \in MemType /\ n.dir = m.dir /\ n.pte = m.pte
      /\ n.map[q] = 0 /\ \A p \in Page : p # q => n.map[p] = m.map[p]
      /\ \A p \in Page : n.val[p] = IF p = q THEN 0 ELSE m.val[p]
  <2>1. ClearedFrom(g, n)
    BY <1>2, <1>5, ClearedIs DEF SetMap
  <2>2. ASSUME NEW p \in Page PROVE n.val[p] = IF p = q THEN 0 ELSE m.val[p]
    BY <1>1, <1>5, <2>1 DEF SetMap, ClearedFrom, FreeIsClear
  <2> QED
    BY <1>5, <2>1, <2>2 DEF SetMap, ClearedFrom
<1>7. k \in PageOf /\ k[t] = 0 /\ \A u \in Task : u # t => k[u] = h[u]
  BY <1>1, <1>2, <1>3 DEF PageOf
<1>8. TaskUses(h, q) /\ ~PteUses(m, q) /\ ~DirUses(m, q) /\ ~TaskUses(s, q)
      /\ ~TaskUses(k, q)
  <2>1. TaskUses(h, q)
    BY <1>2 DEF TaskUses
  <2>2. ~PteUses(m, q) /\ ~DirUses(m, q) /\ ~TaskUses(s, q)
        /\ \A u \in Task : h[u] = q => u = t
    BY <1>1, <1>2, <1>3, <2>1, UsersAreCounted
  <2> QED
    BY <1>3, <1>7, <2>1, <2>2 DEF TaskUses
<1>9. Counted(n, k, s)
  <2>1. PteOf(n) = PteOf(m) /\ DirOf(n) = DirOf(m)
    BY <1>6, SamePtes, SameDirs
  <2>2. ASSUME NEW p \in Page
        PROVE  n.map[p] = Uses(Pairs, PteOf(n), p) + Uses(Pairs, DirOf(n), p)
                             + Uses(Task, k, p) + Uses(Task, s, p)
    <3>1. Uses(Task, k, p) + Here(q, p) = Uses(Task, h, p) + Here(0, p)
      BY <1>1, <1>2, <1>3, TaskMoves, ZenonT(60)
    <3>2. n.map[p] + Here(q, p) = m.map[p]
      BY <1>1, <1>3, <1>6, UsersAreCounted DEF Here
    <3>3. Here(0, p) = 0 /\ Here(q, p) \in Nat
      BY HereZero DEF Here
    <3>4. m.map[p] = Uses(Pairs, PteOf(m), p) + Uses(Pairs, DirOf(m), p)
                             + Uses(Task, h, p) + Uses(Task, s, p)
      BY <1>1 DEF Counted
    <3>5. /\ Uses(Pairs, PteOf(m), p) \in Nat /\ Uses(Pairs, DirOf(m), p) \in Nat
          /\ Uses(Task, h, p) \in Nat /\ Uses(Task, s, p) \in Nat /\ Uses(Task, k, p) \in Nat
      BY UsesTypes
    <3>6. n.map[p] \in Nat
      BY <1>6 DEF MemType
    <3> QED
      BY <2>1, <3>1, <3>2, <3>3, <3>4, <3>5, <3>6
  <2> QED
    BY <2>2 DEF Counted
<1>10. Private(n, k, s)
  <2>1. \A p \in Page : TaskUses(k, p) => TaskUses(h, p)
    BY <1>7 DEF TaskUses, Page
  <2>2. \A p \in Page : DirUses(n, p) <=> DirUses(m, p)
    BY <1>6 DEF DirUses
  <2> QED
    BY <1>1, <1>6, <1>8, <2>1, <2>2 DEF Private
<1>11. FreeIsClear(n)
  BY <1>1, <1>6 DEF FreeIsClear
<1>12. ASSUME NEW u \in Task, NEW w \in VPage, Present(m, u, w)
       PROVE  LET p == m.pte[u][w].page
              IN  p \in Page /\ n.map[p] = m.map[p] /\ n.val[p] = m.val[p]
  <2>1. PICK p \in Page : p = m.pte[u][w].page
    BY <1>1, <1>12, PtePages
  <2>2. p # q
    BY <1>8, <2>1 DEF PteUses
  <2> QED
    BY <1>6, <2>1, <2>2
<1>13. OwnWritable(n)
  <2>1. ASSUME NEW u \in Task, NEW w \in VPage, m.pte[u][w].writable
        PROVE  Present(n, u, w) /\ OnlyUser(n, u, w)
    <3>1. Present(m, u, w) /\ m.map[m.pte[u][w].page] = 1
      BY <1>1, <2>1 DEF OwnWritable, OnlyUser
    <3> QED
      BY <1>6, <1>12, <3>1 DEF OnlyUser, Present
  <2> QED
    BY <1>6, <2>1 DEF OwnWritable
<1>14. \A u \in Task, w \in VPage : Keeps(m, n, u, w)
  BY <1>6, <1>12 DEF Keeps, HasTable
<1> QED
  BY <1>1, <1>2, <1>4, <1>6, <1>7, <1>9, <1>10, <1>11, <1>13, <1>14 DEF Good

(***************************************************************************)
(* free_page_tables                                                         *)
(***************************************************************************)
Emptied(m, n, t) ==
    /\ \A v \in VPage : n.dir[t][v] = 0 /\ n.pte[t][v] = NotPresent
    /\ \A u \in Task : u # t => n.dir[u] = m.dir[u] /\ n.pte[u] = m.pte[u]
    /\ \A u \in Task, w \in VPage : u # t => Keeps(m, n, u, w)
    /\ (\E v \in VPage : HasTable(m, t, v)) => FreePages(n) # {}

LEMMA FreeTablesRight ==
    ASSUME NEW m, NEW h, NEW s, Good(m, h, s), NEW t \in Task
    PROVE  /\ Good(free_page_tables(m, t), h, s)
           /\ Emptied(m, free_page_tables(m, t), t)
<1>1. /\ m \in MemType /\ h \in PageOf /\ s \in PageOf
      /\ Counted(m, h, s) /\ Private(m, h, s) /\ FreeIsClear(m) /\ OwnWritable(m)
  BY DEF Good
<1>2. PICK map, dir, pte :
         /\ map = [p \in Page |->
                      m.map[p] - Cardinality({v \in VPage : m.pte[t][v].page = p})
                               - Cardinality({v \in VPage : m.dir[t][v] = p})]
         /\ dir = [m.dir EXCEPT ![t] = [v \in VPage |-> 0]]
         /\ pte = [m.pte EXCEPT ![t] = [v \in VPage |-> NotPresent]]
  OBVIOUS
<1>3. PICK g, n : /\ g = [m EXCEPT !.map = map, !.dir[t] = [v \in VPage |-> 0],
                                    !.pte[t] = [v \in VPage |-> NotPresent]]
                  /\ n = Cleared(g)
  OBVIOUS
<1>3a. g.map = map /\ g.dir = dir /\ g.pte = pte /\ g.val = m.val
  BY <1>1, <1>2, <1>3 DEF MemType
<1>4. n = free_page_tables(m, t)
  BY <1>2, <1>3 DEF free_page_tables
<1>5. /\ dir \in [Task -> [VPage -> 0 .. NR_PAGES]]
      /\ \A v \in VPage : dir[t][v] = 0
      /\ \A u \in Task : u # t => dir[u] = m.dir[u]
  BY <1>1, <1>2, PagingAssumption DEF MemType
<1>6. /\ pte \in [Task -> [VPage -> Entry]]
      /\ \A v \in VPage : pte[t][v] = NotPresent
      /\ \A u \in Task : u # t => pte[u] = m.pte[u]
  BY <1>1, <1>2, EntryTypes DEF MemType
<1>7. ASSUME NEW p \in Page
      PROVE  /\ map[p] = Uses(Pairs, PteOf(g), p) + Uses(Pairs, DirOf(g), p)
                          + Uses(Task, h, p) + Uses(Task, s, p)
             /\ map[p] \in Nat /\ map[p] <= m.map[p]
  <2>1. /\ Row(PteOf(m), t, p) = Cardinality({v \in VPage : m.pte[t][v].page = p})
        /\ Row(DirOf(m), t, p) = Cardinality({v \in VPage : m.dir[t][v] = p})
    <3>1. {v \in VPage : PteOf(m)[<<t, v>>] = p} = {v \in VPage : m.pte[t][v].page = p}
      BY DEF PteOf, Pairs
    <3>2. {v \in VPage : DirOf(m)[<<t, v>>] = p} = {v \in VPage : m.dir[t][v] = p}
      BY DEF DirOf, Pairs
    <3> QED
      BY <3>1, <3>2 DEF Row
  <2>2. Uses(Pairs, PteOf(g), p) + Row(PteOf(m), t, p)
           = Uses(Pairs, PteOf(m), p) + Row(PteOf(g), t, p)
    <3>1. \A x \in Pairs : x[1] # t => PteOf(g)[x] = PteOf(m)[x]
      BY <1>3a, <1>6 DEF PteOf, Pairs
    <3>2. PICK f1, g1 : f1 = PteOf(m) /\ g1 = PteOf(g)
      OBVIOUS
    <3>3. \A x \in Pairs : x[1] # t => g1[x] = f1[x]
      BY <3>1, <3>2
    <3>4. Uses(Pairs, g1, p) + Row(f1, t, p) = Uses(Pairs, f1, p) + Row(g1, t, p)
      BY <3>3, UsesRow
    <3> QED
      BY <3>2, <3>4
  <2>3. Uses(Pairs, DirOf(g), p) + Row(DirOf(m), t, p)
           = Uses(Pairs, DirOf(m), p) + Row(DirOf(g), t, p)
    <3>1. \A x \in Pairs : x[1] # t => DirOf(g)[x] = DirOf(m)[x]
      BY <1>3a, <1>5 DEF DirOf, Pairs
    <3>2. PICK f1, g1 : f1 = DirOf(m) /\ g1 = DirOf(g)
      OBVIOUS
    <3>3. \A x \in Pairs : x[1] # t => g1[x] = f1[x]
      BY <3>1, <3>2
    <3>4. Uses(Pairs, g1, p) + Row(f1, t, p) = Uses(Pairs, f1, p) + Row(g1, t, p)
      BY <3>3, UsesRow
    <3> QED
      BY <3>2, <3>4
  <2>4. Row(PteOf(g), t, p) = 0 /\ Row(DirOf(g), t, p) = 0
    <3>1. \A v \in VPage : PteOf(g)[<<t, v>>] = 0 /\ DirOf(g)[<<t, v>>] = 0
      BY <1>3a, <1>5, <1>6 DEF PteOf, DirOf, Pairs, NotPresent
    <3>2. p # 0
      BY DEF Page
    <3>3. PICK f1, g1 : f1 = PteOf(g) /\ g1 = DirOf(g)
      OBVIOUS
    <3>4. Row(f1, t, p) = 0 /\ Row(g1, t, p) = 0
      BY <3>1, <3>2, <3>3, RowType
    <3> QED
      BY <3>3, <3>4
  <2>5. m.map[p] = Uses(Pairs, PteOf(m), p) + Uses(Pairs, DirOf(m), p)
                          + Uses(Task, h, p) + Uses(Task, s, p)
    BY <1>1 DEF Counted
  <2>6. /\ Uses(Pairs, PteOf(m), p) \in Nat /\ Uses(Pairs, DirOf(m), p) \in Nat
        /\ Uses(Task, h, p) \in Nat /\ Uses(Task, s, p) \in Nat
        /\ Uses(Pairs, PteOf(g), p) \in Nat /\ Uses(Pairs, DirOf(g), p) \in Nat
    BY UsesTypes
  <2>7. Row(PteOf(m), t, p) \in Nat /\ Row(DirOf(m), t, p) \in Nat
    BY RowType
  <2>8. map[p] = m.map[p] - Row(PteOf(m), t, p) - Row(DirOf(m), t, p)
    BY <1>2, <2>1
  <2> QED
    BY <2>2, <2>3, <2>4, <2>5, <2>6, <2>7, <2>8
<1>8. g \in MemType
  <2>1. map \in [Page -> Nat]
    BY <1>2, <1>7
  <2> QED
    BY <1>1, <1>2, <1>3, <1>5, <1>6, <2>1 DEF MemType
<1>9. /\ n \in MemType /\ n.map = map /\ n.dir = dir /\ n.pte = pte
      /\ \A p \in Page : n.val[p] = IF map[p] = 0 THEN 0 ELSE m.val[p]
  <2>1. ClearedFrom(g, n)
    BY <1>3, <1>8, ClearedIs
  <2> QED
    BY <1>3a, <2>1 DEF ClearedFrom
<1>10. Counted(n, h, s)
  <2>1. PteOf(n) = PteOf(g) /\ DirOf(n) = DirOf(g)
    BY <1>3a, <1>9, SamePtes, SameDirs
  <2> QED
    BY <1>7, <1>9, <2>1 DEF Counted
<1>11. \A p \in Page : n.map[p] \in Nat /\ m.map[p] \in Nat /\ n.map[p] <= m.map[p]
  BY <1>1, <1>7, <1>9, UsersAreCounted
<1>12. Private(n, h, s)
  <2>1. \A p \in Page : DirUses(n, p) => DirUses(m, p)
    BY <1>5, <1>9 DEF DirUses, Page
  <2>2. ASSUME NEW p \in Page, DirUses(n, p) \/ TaskUses(h, p) \/ TaskUses(s, p)
        PROVE  n.map[p] = 1
    <3>1. m.map[p] = 1
      BY <1>1, <2>1, <2>2 DEF Private
    <3>2. n.map[p] # 0
      BY <1>10, <2>2, UsersAreCounted
    <3> QED
      BY <1>11, <3>1, <3>2
  <2> QED
    BY <2>2 DEF Private
<1>13. FreeIsClear(n)
  BY <1>9 DEF FreeIsClear
<1>14. ASSUME NEW u \in Task, NEW w \in VPage, u # t, Present(m, u, w)
       PROVE  LET p == m.pte[u][w].page
              IN  p \in Page /\ n.map[p] # 0 /\ n.val[p] = m.val[p]
  <2>1. PICK p \in Page : p = m.pte[u][w].page
    BY <1>1, <1>14, PtePages
  <2>2. PteUses(n, p)
    BY <1>6, <1>9, <1>14, <2>1 DEF PteUses
  <2>3. n.map[p] # 0
    BY <1>10, <2>2, UsersAreCounted
  <2> QED
    BY <1>9, <2>1, <2>3
<1>15. OwnWritable(n)
  <2>1. ASSUME NEW u \in Task, NEW w \in VPage, n.pte[u][w].writable
        PROVE  Present(n, u, w) /\ OnlyUser(n, u, w)
    <3>1. u # t /\ m.pte[u][w].writable /\ n.pte[u][w] = m.pte[u][w]
      BY <1>6, <1>9, <2>1 DEF NotPresent
    <3>2. Present(m, u, w) /\ m.map[m.pte[u][w].page] = 1
      BY <1>1, <3>1 DEF OwnWritable, OnlyUser
    <3>3. PICK p \in Page : p = m.pte[u][w].page /\ n.map[p] # 0
      BY <1>14, <3>1, <3>2
    <3>4. n.map[p] = 1
      BY <1>11, <3>2, <3>3
    <3> QED
      BY <3>1, <3>2, <3>3, <3>4 DEF Present, OnlyUser
  <2> QED
    BY <2>1 DEF OwnWritable
<1>16. ASSUME NEW v \in VPage, HasTable(m, t, v) PROVE FreePages(n) # {}
  <2>1. PICK p \in Page : p = m.dir[t][v]
    BY <1>1, <1>16, PtePages
  <2>2. DirUses(m, p) /\ m.map[p] = 1
    BY <1>1, <2>1 DEF DirUses, Private
  <2>3. /\ ~PteUses(m, p) /\ ~TaskUses(h, p) /\ ~TaskUses(s, p)
        /\ \A u \in Task, w \in VPage : m.dir[u][w] = p => u = t
    BY <1>1, <2>1, <2>2, UsersAreCounted
  <2>4. ~PteUses(n, p)
    BY <1>6, <1>9, <2>3 DEF PteUses, NotPresent, Page
  <2>5. ~DirUses(n, p)
    BY <1>5, <1>9, <2>3 DEF DirUses, Page
  <2>6. n.map[p] = 0
    BY <1>10, <2>3, <2>4, <2>5, UsersAreCounted
  <2> QED
    BY <2>6 DEF FreePages
<1>17. \A u \in Task, w \in VPage : u # t => Keeps(m, n, u, w)
  BY <1>5, <1>6, <1>9, <1>14 DEF Keeps, HasTable
<1>18. Emptied(m, n, t)
  BY <1>5, <1>6, <1>9, <1>16, <1>17 DEF Emptied
<1> QED
  BY <1>1, <1>4, <1>9, <1>10, <1>12, <1>13, <1>15, <1>18 DEF Good

(***************************************************************************)
(* un_wp_page, and a write.                                                 *)
(***************************************************************************)
Opened(m, n, t, v) ==
    /\ n.dir = m.dir
    /\ n.pte[t][v].writable /\ n.pte[t][v].page # 0
    /\ n.val[n.pte[t][v].page] = m.val[m.pte[t][v].page]
    /\ \A u \in Task, w \in VPage : u # t \/ w # v => Keeps(m, n, u, w)

LEMMA OpenedInPlace ==
    ASSUME NEW m, NEW h, NEW s, Good(m, h, s), NEW t \in Task, NEW v \in VPage,
           Present(m, t, v), OnlyUser(m, t, v)
    PROVE  /\ Good([m EXCEPT !.pte[t][v].writable = TRUE], h, s)
           /\ Opened(m, [m EXCEPT !.pte[t][v].writable = TRUE], t, v)
<1>1. /\ m \in MemType /\ h \in PageOf /\ s \in PageOf
      /\ Counted(m, h, s) /\ Private(m, h, s) /\ FreeIsClear(m) /\ OwnWritable(m)
  BY DEF Good
<1>2. PICK e, n : /\ e = [m.pte[t][v] EXCEPT !.writable = TRUE]
                  /\ n = [m EXCEPT !.pte[t][v] = e]
  OBVIOUS
<1>3. n = [m EXCEPT !.pte[t][v].writable = TRUE]
  BY <1>2
<1>4. e \in Entry /\ e.page = m.pte[t][v].page /\ e.writable
  BY <1>1, <1>2, PtePages DEF Entry
<1>5. SetPte(m, n, t, v, e)
  BY <1>1, <1>2, <1>4, SetPteIs
<1>6. \A u \in Task, w \in VPage : n.pte[u][w].page = m.pte[u][w].page
  BY <1>4, <1>5 DEF SetPte
<1>7. Counted(n, h, s)
  <2>1. PteOf(n) = PteOf(m) /\ DirOf(n) = DirOf(m)
    BY <1>5, <1>6, SamePtes, SameDirs DEF SetPte
  <2> QED
    BY <1>1, <1>5, <2>1 DEF Counted, SetPte
<1>8. Private(n, h, s) /\ FreeIsClear(n)
  BY <1>1, <1>5 DEF Private, FreeIsClear, SetPte, DirUses
<1>9. OwnWritable(n)
  BY <1>1, <1>4, <1>5 DEF OwnWritable, SetPte, Present, OnlyUser
<1>10. Opened(m, n, t, v)
  BY <1>4, <1>5 DEF Opened, SetPte, Keeps, HasTable, Present
<1> QED
  BY <1>1, <1>3, <1>5, <1>7, <1>8, <1>9, <1>10 DEF Good, SetPte

LEMMA OpenedByCopy ==
    ASSUME NEW m, NEW h, NEW s, Good(m, h, s), NEW t \in Task, NEW v \in VPage,
           Present(m, t, v), ~OnlyUser(m, t, v), FreePages(m) # {}
    PROVE  /\ Good(un_wp_page(m, t, v), h, s)
           /\ Opened(m, un_wp_page(m, t, v), t, v)
<1>1. /\ m \in MemType /\ h \in PageOf /\ s \in PageOf
      /\ Counted(m, h, s) /\ Private(m, h, s) /\ FreeIsClear(m) /\ OwnWritable(m)
  BY DEF Good
<1>2. PICK old, new, a, b, c, e :
         /\ old = m.pte[t][v].page /\ new = NewPage(m) /\ a = GetFreePage(m)
         /\ b = [a EXCEPT !.map[old] = @ - 1] /\ c = Cleared(b) /\ e = PageOr7(new)
  OBVIOUS
<1>3. PICK d, n : d = [c EXCEPT !.val[new] = m.val[old]] /\ n = [d EXCEPT !.pte[t][v] = e]
  OBVIOUS
<1>4. n = un_wp_page(m, t, v)
  BY <1>2, <1>3 DEF un_wp_page, free_page
<1>5. new \in Page /\ m.map[new] = 0 /\ SetMap(m, a, new, 1)
  BY <1>1, <1>2, GetIs
<1>6. old \in Page /\ m.map[old] \in Nat \ {0} /\ m.map[old] # 1 /\ old # new
  <2>1. old \in Page
    BY <1>1, <1>2, PtePages
  <2>2. m.map[old] \in Nat \ {0}
    BY <1>2, UsersOfGood
  <2>3. m.map[old] # 1
    BY <1>2 DEF OnlyUser
  <2>4. old # new
    BY <1>5, <2>2
  <2> QED
    BY <2>1, <2>2, <2>3, <2>4
<1>7. PICK k \in Nat \ {0} : k = m.map[old] - 1
  BY <1>6
<1>8. SetMap(a, b, old, k)
  <2>1. a.map[old] = m.map[old]
    BY <1>5, <1>6 DEF SetMap
  <2>2. b = [a EXCEPT !.map[old] = k]
    BY <1>2, <1>7, <2>1
  <2> QED
    BY <1>5, <1>6, <1>7, <2>2, SetMapIs DEF SetMap
<1>9. ClearedFrom(b, c)
  BY <1>2, <1>8, ClearedIs DEF SetMap
<1>10. /\ c.map[new] = 1 /\ c.map[old] = k
       /\ \A p \in Page : p # new /\ p # old => c.map[p] = m.map[p]
       /\ c \in MemType /\ c.dir = m.dir /\ c.pte = m.pte
  BY <1>5, <1>6, <1>8, <1>9 DEF SetMap, ClearedFrom
<1>11. \A p \in Page : c.val[p] = m.val[p]
  <2>1. ASSUME NEW p \in Page PROVE c.val[p] = m.val[p]
    <3>1. c.val[p] = IF b.map[p] = 0 THEN 0 ELSE m.val[p]
      BY <1>5, <1>8, <1>9 DEF SetMap, ClearedFrom
    <3>2. b.map[p] = 0 => m.map[p] = 0
      BY <1>5, <1>6, <1>7, <1>8 DEF SetMap
    <3> QED
      BY <1>1, <3>1, <3>2 DEF FreeIsClear
  <2> QED
    BY <2>1
<1>12. SetVal(c, d, new, m.val[old])
  <2>1. m.val[old] \in {0} \cup Task \cup Exe
    BY <1>1, <1>6 DEF MemType
  <2> QED
    BY <1>3, <1>5, <1>10, <2>1, SetValIs
<1>13. SetPte(d, n, t, v, e) /\ e.page = new /\ e.writable
  <2>1. e \in Entry /\ e.page = new /\ e.writable
    BY <1>2, <1>5, EntryTypes, PagingAssumption DEF PageOr7, Page
  <2> QED
    BY <1>3, <1>12, <2>1, SetPteIs DEF SetVal
<1>14. /\ n \in MemType /\ n.dir = m.dir /\ n.pte[t][v] = e
       /\ \A u \in Task, w \in VPage : u # t \/ w # v => n.pte[u][w] = m.pte[u][w]
       /\ n.map[new] = 1 /\ n.map[old] = k
       /\ \A p \in Page : p # new /\ p # old => n.map[p] = m.map[p]
       /\ n.val[new] = m.val[old]
       /\ \A p \in Page : p # new => n.val[p] = m.val[p]
  BY <1>10, <1>11, <1>12, <1>13 DEF SetVal, SetPte
<1>15. ~PteUses(m, new) /\ ~DirUses(m, new) /\ ~TaskUses(h, new) /\ ~TaskUses(s, new)
  BY <1>1, <1>5, UsersAreCounted
<1>16. ~DirUses(m, old) /\ ~TaskUses(h, old) /\ ~TaskUses(s, old)
  BY <1>1, <1>6 DEF Private
<1>17. Counted(n, h, s)
  <2>1. DirOf(n) = DirOf(m)
    BY <1>14, SameDirs
  <2>2. ASSUME NEW p \in Page
        PROVE  n.map[p] = Uses(Pairs, PteOf(n), p) + Uses(Pairs, DirOf(n), p)
                             + Uses(Task, h, p) + Uses(Task, s, p)
    <3>1. Uses(Pairs, PteOf(n), p) + Here(old, p) = Uses(Pairs, PteOf(m), p) + Here(new, p)
      <4>1. /\ m.pte[t][v].page = old /\ n.pte[t][v].page = new
            /\ \A u \in Task, w \in VPage : u # t \/ w # v => n.pte[u][w].page = m.pte[u][w].page
        BY <1>2, <1>13, <1>14
      <4> QED
        BY <1>1, <4>1, PteMoves
    <3>2. m.map[p] \in Nat
      BY <1>1, UsersAreCounted
    <3>3. n.map[p] + Here(old, p) = m.map[p] + Here(new, p)
      <4>1. CASE p = new
        BY <1>5, <1>6, <1>14, <4>1 DEF Here
      <4>2. CASE p = old
        <5>1. k + 1 = m.map[old] + 0
          BY <1>6, <1>7
        <5> QED
          BY <1>6, <1>14, <4>2, <5>1 DEF Here
      <4>3. CASE p # new /\ p # old
        BY <1>14, <4>3, <3>2 DEF Here
      <4> QED
        BY <4>1, <4>2, <4>3
    <3>4. m.map[p] = Uses(Pairs, PteOf(m), p) + Uses(Pairs, DirOf(m), p)
                             + Uses(Task, h, p) + Uses(Task, s, p)
      BY <1>1 DEF Counted
    <3>5. /\ Uses(Pairs, PteOf(m), p) \in Nat /\ Uses(Pairs, DirOf(m), p) \in Nat
          /\ Uses(Task, h, p) \in Nat /\ Uses(Task, s, p) \in Nat
          /\ Uses(Pairs, PteOf(n), p) \in Nat
      BY UsesTypes
    <3>6. n.map[p] \in Nat /\ Here(old, p) \in Nat /\ Here(new, p) \in Nat
      BY <1>14 DEF MemType, Here
    <3> QED
      <4>1. PICK i, j, a1, a2, a3, a4, a5, k1, k2 :
               /\ i = Here(old, p) /\ j = Here(new, p)
               /\ a1 = Uses(Pairs, PteOf(m), p) /\ a5 = Uses(Pairs, PteOf(n), p)
               /\ a2 = Uses(Pairs, DirOf(m), p) /\ a3 = Uses(Task, h, p)
               /\ a4 = Uses(Task, s, p) /\ k1 = m.map[p] /\ k2 = n.map[p]
        OBVIOUS
      <4>2. /\ a5 + i = a1 + j /\ k2 + i = k1 + j /\ k1 = a1 + a2 + a3 + a4
            /\ i \in Nat /\ j \in Nat /\ a1 \in Nat /\ a2 \in Nat /\ a3 \in Nat
            /\ a4 \in Nat /\ a5 \in Nat /\ k1 \in Nat /\ k2 \in Nat
        BY <3>1, <3>2, <3>3, <3>4, <3>5, <3>6, <4>1
      <4>3. k2 = a5 + a2 + a3 + a4
        BY <4>2
      <4> QED
        BY <2>1, <4>1, <4>3
  <2> QED
    BY <2>2 DEF Counted
<1>18. Private(n, h, s)
  <2>1. \A p \in Page : DirUses(n, p) <=> DirUses(m, p)
    BY <1>14 DEF DirUses
  <2> QED
    BY <1>1, <1>14, <1>15, <1>16, <2>1 DEF Private
<1>19. FreeIsClear(n)
  <2>1. ASSUME NEW p \in Page, n.map[p] = 0 PROVE n.val[p] = 0
    <3>1. p # new
      BY <1>14, <2>1
    <3>1a. p # old
      BY <1>7, <1>14, <2>1
    <3> QED
      BY <1>1, <1>14, <2>1, <3>1, <3>1a DEF FreeIsClear
  <2> QED
    BY <2>1 DEF FreeIsClear
<1>20. OwnWritable(n)
  <2>1. ASSUME NEW u \in Task, NEW w \in VPage, u # t \/ w # v, m.pte[u][w].writable
        PROVE  n.pte[u][w].page # 0 /\ n.map[n.pte[u][w].page] = 1
    <3>1. PICK p \in Page : p = m.pte[u][w].page
      BY <1>1, <2>1, PtePages DEF OwnWritable
    <3>2. m.map[p] = 1 /\ p # 0
      BY <1>1, <2>1, <3>1 DEF OwnWritable, OnlyUser, Page
    <3>3. p # new /\ p # old
      BY <1>5, <1>6, <3>2
    <3> QED
      BY <1>14, <2>1, <3>1, <3>2, <3>3
  <2>2. n.pte[t][v].page # 0 /\ n.map[n.pte[t][v].page] = 1
    BY <1>5, <1>13, <1>14 DEF Page
  <2> QED
    BY <1>14, <2>1, <2>2 DEF OwnWritable, Present, OnlyUser
<1>21. ASSUME NEW u \in Task, NEW w \in VPage, u # t \/ w # v
       PROVE  Keeps(m, n, u, w)
  <2>1. Present(m, u, w) => m.pte[u][w].page \in Page /\ m.pte[u][w].page # new
    BY <1>1, <1>15, PtePages DEF PteUses
  <2> QED
    BY <1>14, <1>21, <2>1 DEF Keeps, HasTable
<1>22. Opened(m, n, t, v)
  BY <1>2, <1>5, <1>13, <1>14, <1>21, SMTT(40) DEF Opened, Page
<1> QED
  BY <1>1, <1>4, <1>14, <1>17, <1>18, <1>19, <1>20, <1>22 DEF Good

LEMMA OpenedRight ==
    ASSUME NEW m, NEW h, NEW s, Good(m, h, s), NEW t \in Task, NEW v \in VPage,
           Present(m, t, v), CanUnWp(m, t, v)
    PROVE  /\ Good(un_wp_page(m, t, v), h, s)
           /\ Opened(m, un_wp_page(m, t, v), t, v)
<1>1. CASE OnlyUser(m, t, v)
  BY <1>1, OpenedInPlace DEF un_wp_page
<1>2. CASE ~OnlyUser(m, t, v)
  BY <1>2, OpenedByCopy DEF CanUnWp
<1> QED
  BY <1>1, <1>2

\* An entry that maps the same page, and is not made writable.
LEMMA EntryRight ==
    ASSUME NEW m, NEW h, NEW s, Good(m, h, s), NEW t \in Task, NEW v \in VPage,
           NEW e \in Entry, e.page = m.pte[t][v].page, e.writable => m.pte[t][v].writable
    PROVE  /\ Good([m EXCEPT !.pte[t][v] = e], h, s)
           /\ SetPte(m, [m EXCEPT !.pte[t][v] = e], t, v, e)
<1>1. /\ m \in MemType /\ h \in PageOf /\ s \in PageOf
      /\ Counted(m, h, s) /\ Private(m, h, s) /\ FreeIsClear(m) /\ OwnWritable(m)
  BY DEF Good
<1>2. PICK n : n = [m EXCEPT !.pte[t][v] = e]
  OBVIOUS
<1>3. SetPte(m, n, t, v, e)
  BY <1>1, <1>2, SetPteIs
<1>4. \A u \in Task, w \in VPage : n.pte[u][w].page = m.pte[u][w].page
  BY <1>3 DEF SetPte
<1>5. Counted(n, h, s)
  <2>1. PteOf(n) = PteOf(m) /\ DirOf(n) = DirOf(m)
    BY <1>3, <1>4, SamePtes, SameDirs DEF SetPte
  <2> QED
    BY <1>1, <1>3, <2>1 DEF Counted, SetPte
<1>6. Private(n, h, s) /\ FreeIsClear(n)
  BY <1>1, <1>3 DEF Private, FreeIsClear, SetPte, DirUses
<1>7. OwnWritable(n)
  <2>1. ASSUME NEW u \in Task, NEW w \in VPage, n.pte[u][w].writable
        PROVE  m.pte[u][w].writable
    BY <1>3, <2>1 DEF SetPte
  <2> QED
    BY <1>1, <1>3, <1>4, <2>1 DEF OwnWritable, SetPte, Present, OnlyUser
<1> QED
  BY <1>1, <1>2, <1>3, <1>5, <1>6, <1>7 DEF Good, SetPte

StoredIn(m, n, t, v, p) ==
    /\ n.dir = m.dir
    /\ n.pte[t][v].page = p /\ n.pte[t][v].dirty /\ n.val[p] = t
    /\ \A u \in Task, w \in VPage : m.pte[u][w].page # p => Keeps(m, n, u, w)
    /\ \A u \in Task, w \in VPage : n.pte[u][w].page = m.pte[u][w].page
    /\ \A u \in Task, w \in VPage : u # t => n.pte[u][w] = m.pte[u][w]

LEMMA StoredRight ==
    ASSUME NEW m, NEW h, NEW s, Good(m, h, s), NEW t \in Task, NEW v \in VPage,
           Present(m, t, v)
    PROVE  /\ Good(Stored(m, t, v), h, s)
           /\ StoredIn(m, Stored(m, t, v), t, v, m.pte[t][v].page)
<1>1. m \in MemType
  BY DEF Good
<1>0. PICK p \in Page : p = m.pte[t][v].page
  BY <1>1, PtePages
<1>2. PICK e, a, n :
         /\ p = m.pte[t][v].page /\ e = [m.pte[t][v] EXCEPT !.dirty = TRUE]
         /\ a = [m EXCEPT !.val[p] = t] /\ n = [a EXCEPT !.pte[t][v] = e]
  BY <1>0
<1>3. Good(a, h, s) /\ SetVal(m, a, p, t)
  <2>1. m.map[p] # 0 /\ t \in {0} \cup Task \cup Exe
    BY <1>2, UsersOfGood
  <2> QED
    BY <1>2, <2>1, ValRight
<1>4. e \in Entry /\ e.page = p /\ e.dirty /\ e.writable = m.pte[t][v].writable
  BY <1>1, <1>2, PtePages DEF Entry
<1>5. Good(n, h, s) /\ SetPte(a, n, t, v, e)
  <2>1. a.pte[t][v] = m.pte[t][v]
    BY <1>3 DEF SetVal
  <2>2. e.page = a.pte[t][v].page /\ (e.writable => a.pte[t][v].writable)
    BY <1>2, <1>4, <2>1
  <2>3. /\ Good([a EXCEPT !.pte[t][v] = e], h, s)
        /\ SetPte(a, [a EXCEPT !.pte[t][v] = e], t, v, e)
    <3>1. Good(a, h, s) /\ e \in Entry
      BY <1>3, <1>4
    <3> QED
      BY <2>2, <3>1, EntryRight
  <2> QED
    BY <1>2, <2>3
<1>6. n = Stored(m, t, v)
  <2>1. a.pte[t][v] = m.pte[t][v]
    BY <1>3 DEF SetVal
  <2>2. n = [a EXCEPT !.pte[t][v].dirty = TRUE]
    BY <1>2, <2>1
  <2> QED
    BY <1>2, <2>2 DEF Stored
<1>7. /\ n.dir = m.dir /\ n.pte[t][v] = e /\ n.val[p] = t
      /\ \A q \in Page : q # p => n.val[q] = m.val[q]
      /\ \A u \in Task, w \in VPage : u # t \/ w # v => n.pte[u][w] = m.pte[u][w]
  BY <1>3, <1>5 DEF SetVal, SetPte
<1>8. ASSUME NEW u \in Task, NEW w \in VPage, m.pte[u][w].page # p
      PROVE  Keeps(m, n, u, w)
  <2>1. Present(m, u, w) => m.pte[u][w].page \in Page
    BY <1>1, PtePages
  <2>2. u # t \/ w # v
    BY <1>2, <1>8
  <2> QED
    BY <1>7, <1>8, <2>1, <2>2 DEF Keeps, HasTable
<1>9. \A u \in Task, w \in VPage : n.pte[u][w].page = m.pte[u][w].page
  BY <1>2, <1>4, <1>7
<1>10. StoredIn(m, n, t, v, p)
  BY <1>4, <1>7, <1>8, <1>9 DEF StoredIn
<1> QED
  BY <1>2, <1>5, <1>6, <1>10

(***************************************************************************)
(* try_to_share                                                             *)
(***************************************************************************)
Added(m, e, t, v) == [[m EXCEPT !.pte[t][v] = e] EXCEPT !.map[e.page] = @ + 1]

AddedIn(m, n, e, t, v) ==
    /\ n.dir = m.dir /\ n.val = m.val /\ n.pte[t][v] = e
    /\ \A y \in Task, w \in VPage : y # t \/ w # v => n.pte[y][w] = m.pte[y][w]

LEMMA AddUserRight ==
    ASSUME NEW m, NEW h, NEW s, Good(m, h, s), NEW t \in Task, NEW u \in Task,
           NEW v \in VPage, ~Present(m, t, v), Present(m, u, v), NEW e,
           e = m.pte[u][v], ~e.writable
    PROVE  /\ Good(Added(m, e, t, v), h, s)
           /\ AddedIn(m, Added(m, e, t, v), e, t, v)
<1>1. /\ m \in MemType /\ h \in PageOf /\ s \in PageOf
      /\ Counted(m, h, s) /\ Private(m, h, s) /\ FreeIsClear(m) /\ OwnWritable(m)
  BY DEF Good
<1>0. PICK p \in Page : p = m.pte[u][v].page
  BY <1>1, PtePages
<1>2. e = m.pte[u][v] /\ p = e.page
  BY <1>0
<1>3. PICK a, n : a = [m EXCEPT !.pte[t][v] = e] /\ n = [a EXCEPT !.map[p] = @ + 1]
  OBVIOUS
<1>4. m.map[p] \in Nat \ {0} /\ e \in Entry /\ ~e.writable
  BY <1>1, <1>2, UsersOfGood, PtePages
<1>5. SetPte(m, a, t, v, e)
  BY <1>1, <1>3, <1>4, SetPteIs
<1>6. PICK k \in Nat \ {0, 1} : k = m.map[p] + 1
  BY <1>4
<1>7. SetMap(a, n, p, k)
  <2>1. a.map[p] = m.map[p]
    BY <1>5 DEF SetPte
  <2>2. n = [a EXCEPT !.map[p] = k]
    BY <1>3, <1>6, <2>1
  <2> QED
    BY <1>5, <1>6, <2>2, SetMapIs DEF SetPte
<1>8. /\ n \in MemType /\ n.dir = m.dir /\ n.val = m.val /\ n.pte[t][v] = e
      /\ \A y \in Task, w \in VPage : y # t \/ w # v => n.pte[y][w] = m.pte[y][w]
      /\ n.map[p] = k /\ \A q \in Page : q # p => n.map[q] = m.map[q]
  BY <1>5, <1>7 DEF SetPte, SetMap
<1>9. Counted(n, h, s)
  <2>1. DirOf(n) = DirOf(m)
    BY <1>8, SameDirs
  <2>2. ASSUME NEW q \in Page
        PROVE  n.map[q] = Uses(Pairs, PteOf(n), q) + Uses(Pairs, DirOf(n), q)
                             + Uses(Task, h, q) + Uses(Task, s, q)
    <3>1. Uses(Pairs, PteOf(n), q) + Here(0, q) = Uses(Pairs, PteOf(m), q) + Here(p, q)
      <4>1. /\ m.pte[t][v].page = 0 /\ n.pte[t][v].page = p
            /\ \A y \in Task, w \in VPage : y # t \/ w # v => n.pte[y][w].page = m.pte[y][w].page
        BY <1>2, <1>8 DEF Present
      <4> QED
        BY <1>1, <4>1, PteMoves
    <3>2. Here(0, q) = 0 /\ Here(p, q) \in Nat
      BY HereZero DEF Here
    <3>3. n.map[q] = m.map[q] + Here(p, q)
      <4>1. CASE q = p
        BY <1>6, <1>8, <4>1 DEF Here
      <4>2. CASE q # p
        <5>1. m.map[q] \in Nat
          BY <1>1, UsersAreCounted
        <5> QED
          BY <1>8, <4>2, <5>1 DEF Here
      <4> QED
        BY <4>1, <4>2
    <3>4. m.map[q] = Uses(Pairs, PteOf(m), q) + Uses(Pairs, DirOf(m), q)
                             + Uses(Task, h, q) + Uses(Task, s, q)
      BY <1>1 DEF Counted
    <3>5. /\ Uses(Pairs, PteOf(m), q) \in Nat /\ Uses(Pairs, DirOf(m), q) \in Nat
          /\ Uses(Task, h, q) \in Nat /\ Uses(Task, s, q) \in Nat
          /\ Uses(Pairs, PteOf(n), q) \in Nat
      BY UsesTypes
    <3> QED
      BY <2>1, <3>1, <3>2, <3>3, <3>4, <3>5
  <2> QED
    BY <2>2 DEF Counted
<1>10. PteUses(m, p)
  BY <1>2 DEF PteUses
<1>11. Private(n, h, s)
  <2>1. \A q \in Page : DirUses(n, q) <=> DirUses(m, q)
    BY <1>8 DEF DirUses
  <2>2. ~DirUses(m, p) /\ ~TaskUses(h, p) /\ ~TaskUses(s, p)
    BY <1>1, <1>10, UsersAreCounted DEF Private
  <2> QED
    BY <1>1, <1>8, <2>1, <2>2 DEF Private
<1>12. FreeIsClear(n)
  BY <1>1, <1>6, <1>8 DEF FreeIsClear
<1>13. OwnWritable(n)
  <2>1. ASSUME NEW y \in Task, NEW w \in VPage, n.pte[y][w].writable
        PROVE  Present(n, y, w) /\ OnlyUser(n, y, w)
    <3>1. (y # t \/ w # v) /\ n.pte[y][w] = m.pte[y][w] /\ m.pte[y][w].writable
      BY <1>4, <1>8, <2>1
    <3>2. Present(m, y, w) /\ m.map[m.pte[y][w].page] = 1
      BY <1>1, <3>1 DEF OwnWritable, OnlyUser
    <3>3. PICK q \in Page : q = m.pte[y][w].page
      BY <1>1, <3>2, PtePages
    <3>4. q # p
      <4>1. SUFFICES ASSUME q = p PROVE FALSE
        OBVIOUS
      <4>2. y = u /\ w = v
        <5>1. m.map[p] = 1 /\ m.pte[y][w].page = p /\ m.pte[u][v].page = p
          BY <1>2, <3>2, <3>3, <4>1
        <5> QED
          BY <1>1, <5>1, UsersAreCounted
      <4> QED
        BY <1>2, <1>4, <3>1, <4>2
    <3> QED
      BY <1>8, <3>1, <3>2, <3>3, <3>4 DEF Present, OnlyUser
  <2> QED
    BY <2>1 DEF OwnWritable
<1>14. Good(n, h, s)
  BY <1>1, <1>8, <1>9, <1>11, <1>12, <1>13 DEF Good
<1>15. AddedIn(m, n, e, t, v) /\ n = Added(m, e, t, v)
  BY <1>2, <1>3, <1>8 DEF AddedIn, Added
<1> QED
  BY <1>14, <1>15

LEMMA ShareRight ==
    ASSUME NEW m, NEW h, NEW s, Good(m, h, s), NEW t \in Task, NEW u \in Task, u # t,
           NEW v \in VPage, ~Present(m, t, v), Present(m, u, v), CanTable(m, t, v)
    PROVE  LET n == try_to_share(m, t, v, u)
           IN  /\ Good(n, h, s) /\ Present(n, t, v)
               /\ n.pte[t][v].dirty = m.pte[u][v].dirty
               /\ n.val[n.pte[t][v].page] = m.val[m.pte[u][v].page]
               /\ \A y \in Task : y # t => n.dir[y] = m.dir[y]
               /\ \A y \in Task, w \in VPage : y # t \/ w # v => Keeps(m, n, y, w)
<1>1. m \in MemType
  BY DEF Good
<1>2. PICK x, e, a : /\ x = WithTable(m, t, v) /\ e = Protected(m.pte[u][v])
                     /\ a = [x EXCEPT !.pte[u][v] = e]
  OBVIOUS
<1>3. PICK n : n = Added(a, e, t, v)
  OBVIOUS
<1>4. n = try_to_share(m, t, v, u)
  BY <1>2, <1>3 DEF try_to_share, Added
<1>5. /\ Good(x, h, s) /\ x.pte = m.pte /\ x.val = m.val
      /\ \A y \in Task : y # t => x.dir[y] = m.dir[y]
      /\ \A y \in Task, w \in VPage : Keeps(m, x, y, w)
  BY <1>2, TableRight
<1>6. /\ e \in Entry /\ e.page = m.pte[u][v].page /\ e.dirty = m.pte[u][v].dirty
      /\ ~e.writable
  BY <1>1, <1>2, PtePages, EntryTypes
<1>7. Good(a, h, s) /\ SetPte(x, a, u, v, e)
  BY <1>2, <1>5, <1>6, EntryRight
<1>8. /\ Good(n, h, s) /\ n.dir = a.dir /\ n.val = a.val /\ n.pte[t][v] = e
      /\ \A y \in Task, w \in VPage : y # t \/ w # v => n.pte[y][w] = a.pte[y][w]
  <2>1. a.pte[u][v] = e /\ ~Present(a, t, v) /\ Present(a, u, v)
    BY <1>5, <1>6, <1>7 DEF SetPte, Present
  <2>2. Good(n, h, s) /\ AddedIn(a, n, e, t, v)
    BY <1>3, <1>6, <1>7, <2>1, AddUserRight
  <2> QED
    BY <2>2 DEF AddedIn
<1>9. ASSUME NEW y \in Task, NEW w \in VPage, y # t \/ w # v
      PROVE  Keeps(m, n, y, w)
  <2>1. n.pte[y][w].page = m.pte[y][w].page /\ n.pte[y][w].dirty = m.pte[y][w].dirty
    BY <1>5, <1>6, <1>7, <1>8, <1>9 DEF SetPte
  <2>2. n.val = m.val /\ n.dir = x.dir
    BY <1>5, <1>7, <1>8 DEF SetPte
  <2> QED
    BY <1>5, <2>1, <2>2 DEF Keeps, HasTable
<1>10. Present(n, t, v) /\ n.pte[t][v].dirty = m.pte[u][v].dirty
       /\ n.val[n.pte[t][v].page] = m.val[m.pte[u][v].page]
  BY <1>5, <1>6, <1>7, <1>8 DEF SetPte, Present
<1>11. \A y \in Task : y # t => n.dir[y] = m.dir[y]
  BY <1>5, <1>7, <1>8 DEF SetPte
<1> QED
  BY <1>4, <1>8, <1>9, <1>10, <1>11

(***************************************************************************)
(* copy_page_tables.  The i-th page table of the parent gets the last free  *)
(* page but i, so no two get one page.                                      *)
(***************************************************************************)
LEMMA LaterOnto ==
    ASSUME NEW F, F \subseteq Nat, IsFiniteSet(F), NEW i \in Nat, i < Cardinality(F)
    PROVE  \E p \in F : Later(F, p) = i
<1>1. PICK N \in Nat : N = Cardinality(F)
  BY FS_CardinalityType
<1>2. ASSUME NEW p \in F PROVE Later(F, p) \in 0 .. N - 1
  <2> DEFINE L == {y \in F : y > p}
             R == F \ {p}
  <2>1. IsFiniteSet(R) /\ Cardinality(R) = N - 1
    BY <1>1, <1>2, FS_RemoveElement
  <2>2. L \in SUBSET R
    <3>1. \A y \in F : y \in Nat
      OBVIOUS
    <3>2. p \notin L
      BY <1>2, <3>1
    <3> QED
      BY <3>2
  <2>3. Later(F, p) = Cardinality(L)
    BY DEF Later
  <2> HIDE DEF L, R
  <2>4. IsFiniteSet(L) /\ Cardinality(L) <= Cardinality(R)
    BY <2>1, <2>2, FS_Subset
  <2>5. Cardinality(L) \in Nat
    BY <2>4, FS_CardinalityType
  <2> QED
    BY <1>1, <2>1, <2>3, <2>4, <2>5
<1>3. PICK f : f = [p \in F |-> Later(F, p)]
  OBVIOUS
<1>4. f \in [F -> 0 .. N - 1] /\ \A p \in F : f[p] = Later(F, p)
  BY <1>2, <1>3
<1>5. ASSUME NEW p \in F, NEW q \in F, f[p] = f[q] PROVE p = q
  <2>1. p \in Nat /\ q \in Nat
    OBVIOUS
  <2>2. CASE q > p
    <3>1. Later(F, q) < Later(F, p) /\ Later(F, q) \in Nat /\ Later(F, p) \in Nat
      BY <2>2, LaterFalls
    <3> QED
      BY <1>4, <1>5, <3>1
  <2>3. CASE p > q
    <3>1. Later(F, p) < Later(F, q) /\ Later(F, q) \in Nat /\ Later(F, p) \in Nat
      BY <2>3, LaterFalls
    <3> QED
      BY <1>4, <1>5, <3>1
  <2> QED
    BY <2>1, <2>2, <2>3
<1>6. f \in Injection(F, 0 .. N - 1)
  BY <1>4, <1>5 DEF Injection, IsInjective
<1>7. IsFiniteSet(0 .. N - 1) /\ Cardinality(0 .. N - 1) = N
  <2>1. PICK b \in Int : b = N - 1
    OBVIOUS
  <2>2. IsFiniteSet(0 .. b) /\ Cardinality(0 .. b) = IF 0 > b THEN 0 ELSE b - 0 + 1
    BY FS_Interval
  <2>3. (IF 0 > b THEN 0 ELSE b - 0 + 1) = N
    BY <2>1
  <2> QED
    BY <2>1, <2>2, <2>3
<1>8. f \in Surjection(F, 0 .. N - 1)
  BY <1>1, <1>6, <1>7, FS_Injection
<1>9. i \in 0 .. N - 1
  BY <1>1
<1>10. PICK p \in F : f[p] = i
  BY <1>8, <1>9 DEF Surjection
<1> QED
  BY <1>4, <1>10

LEMMA EarlierBound ==
    ASSUME NEW S, S \subseteq Nat, IsFiniteSet(S), NEW v \in S
    PROVE  Earlier(S, v) \in Nat /\ Earlier(S, v) < Cardinality(S)
<1> DEFINE L == {y \in S : y < v}
           R == S \ {v}
<1>1. IsFiniteSet(R) /\ Cardinality(R) = Cardinality(S) - 1 /\ Cardinality(S) \in Nat
  BY FS_RemoveElement, FS_CardinalityType
<1>2. L \in SUBSET R
  <2>1. \A y \in S : y \in Nat
    OBVIOUS
  <2>2. v \notin L
    BY <2>1
  <2> QED
    BY <2>2
<1>3. Earlier(S, v) = Cardinality(L)
  BY DEF Earlier
<1> HIDE DEF L, R
<1>4. IsFiniteSet(L) /\ Cardinality(L) <= Cardinality(R)
  BY <1>1, <1>2, FS_Subset
<1>5. Cardinality(L) \in Nat
  BY <1>4, FS_CardinalityType
<1> QED
  BY <1>1, <1>3, <1>4, <1>5

TableOf(m, t, v) == CHOOSE p \in FreePages(m) :
                        Later(FreePages(m), p) = Earlier(Tables(m, t), v)

LEMMA TablesDiffer ==
    ASSUME NEW m \in MemType, NEW t \in Task, CanCopy(m, t)
    PROVE  /\ \A v \in Tables(m, t) : TableOf(m, t, v) \in FreePages(m)
           /\ \A v, w \in Tables(m, t) : TableOf(m, t, v) = TableOf(m, t, w) => v = w
<1>1. PICK F, T : F = FreePages(m) /\ T = Tables(m, t)
  OBVIOUS
<1>2. F \subseteq Nat /\ IsFiniteSet(F)
  <2>1. F \in SUBSET (1 .. NR_PAGES)
    BY <1>1 DEF FreePages, Page
  <2>2. IsFiniteSet(1 .. NR_PAGES)
    BY PagingAssumption, FS_Interval
  <2>3. F \subseteq Nat
    BY <2>1
  <2>4. IsFiniteSet(F)
    BY <2>1, <2>2, FS_Subset
  <2> QED
    BY <2>3, <2>4
<1>3. T \subseteq Nat /\ IsFiniteSet(T)
  <2>1. T \in SUBSET VPage
    BY <1>1 DEF Tables
  <2> QED
    BY <2>1, PagingAssumption, FS_Subset
<1>4. Cardinality(T) \in Nat /\ Cardinality(F) \in Nat /\ Cardinality(T) <= Cardinality(F)
  BY <1>1, <1>2, <1>3, FS_CardinalityType DEF CanCopy
<1>5. ASSUME NEW v \in T
      PROVE  /\ TableOf(m, t, v) \in F
             /\ Later(F, TableOf(m, t, v)) = Earlier(T, v)
  <2>1. PICK i \in Nat : i = Earlier(T, v) /\ i < Cardinality(T)
    BY <1>3, EarlierBound
  <2>2. i < Cardinality(F)
    BY <1>4, <2>1
  <2>3. \E p \in F : Later(F, p) = Earlier(T, v)
    BY <1>2, <2>1, <2>2, LaterOnto
  <2> QED
    BY <1>1, <2>3 DEF TableOf
<1>6. ASSUME NEW v \in T, NEW w \in T, TableOf(m, t, v) = TableOf(m, t, w)
      PROVE  v = w
  <2>1. Earlier(T, v) = Earlier(T, w)
    BY <1>5, <1>6
  <2>2. v \in Nat /\ w \in Nat
    BY <1>3
  <2>3. CASE w > v
    <3>1. Earlier(T, v) < Earlier(T, w) /\ Earlier(T, v) \in Nat /\ Earlier(T, w) \in Nat
      BY <1>3, <2>3, EarlierRises
    <3> QED
      BY <2>1, <3>1
  <2>4. CASE v > w
    <3>1. Earlier(T, w) < Earlier(T, v) /\ Earlier(T, v) \in Nat /\ Earlier(T, w) \in Nat
      BY <1>3, <2>4, EarlierRises
    <3> QED
      BY <2>1, <3>1
  <2> QED
    BY <2>2, <2>3, <2>4
<1> QED
  BY <1>1, <1>5, <1>6

CopiedTo(m, n, t, c) ==
    /\ n.val = m.val
    /\ \A u \in Task : u # c => n.dir[u] = m.dir[u]
    /\ \A u \in Task, w \in VPage : u # c => Keeps(m, n, u, w)
    /\ \A v \in VPage : /\ n.pte[c][v].page = m.pte[t][v].page
                        /\ n.pte[c][v].dirty = m.pte[t][v].dirty
                        /\ HasTable(m, t, v) => HasTable(n, c, v)

LEMMA CopyRight ==
    ASSUME NEW m, NEW h, NEW s, Good(m, h, s), NEW t \in Task, NEW c \in Task, c # t,
           \A v \in VPage : m.dir[c][v] = 0 /\ m.pte[c][v] = NotPresent,
           CanCopy(m, t)
    PROVE  /\ Good(copy_page_tables(m, t, c), h, s)
           /\ CopiedTo(m, copy_page_tables(m, t, c), t, c)
<1>1. /\ m \in MemType /\ h \in PageOf /\ s \in PageOf
      /\ Counted(m, h, s) /\ Private(m, h, s) /\ FreeIsClear(m) /\ OwnWritable(m)
  BY DEF Good
<1>2. PICK T, taken, n : /\ T = Tables(m, t)
                         /\ taken = {TableOf(m, t, v) : v \in T}
                         /\ n = copy_page_tables(m, t, c)
  OBVIOUS
<1>3. /\ T \subseteq VPage /\ \A v \in VPage : v \in T <=> HasTable(m, t, v)
      /\ \A v \in T : /\ TableOf(m, t, v) \in Page /\ TableOf(m, t, v) \in taken
                      /\ m.map[TableOf(m, t, v)] = 0
      /\ \A v, w \in T : TableOf(m, t, v) = TableOf(m, t, w) => v = w
  BY <1>1, <1>2, TablesDiffer DEF Tables, FreePages
<1>4. \A p \in taken : p \in Page /\ m.map[p] = 0
  BY <1>2, <1>3
<1>5. ASSUME NEW p \in Page
      PROVE  CountedForChild(m, t, p) = m.map[p] + Row(PteOf(m), t, p)
  <2>1. {v \in VPage : PteOf(m)[<<t, v>>] = p} = {v \in VPage : m.pte[t][v].page = p}
    BY DEF PteOf, Pairs
  <2> QED
    BY <2>1 DEF Row, CountedForChild
<1>6. /\ n.map = [p \in Page |-> IF p \in taken THEN 1 ELSE CountedForChild(m, t, p)]
      /\ n.dir = [m.dir EXCEPT ![c] = [v \in VPage |->
                     IF v \in T THEN TableOf(m, t, v) ELSE 0]]
      /\ n.pte = [m.pte EXCEPT ![c] = [v \in VPage |-> Protected(m.pte[t][v])],
                               ![t] = [v \in VPage |-> Protected(m.pte[t][v])]]
      /\ n.val = m.val
      /\ n = [map |-> n.map, dir |-> n.dir, pte |-> n.pte, val |-> n.val]
  BY <1>2 DEF copy_page_tables, TableOf, ParentEntry
<1>7. /\ \A p \in taken : n.map[p] = 1
      /\ \A p \in Page : p \notin taken => n.map[p] = m.map[p] + Row(PteOf(m), t, p)
  BY <1>4, <1>5, <1>6
<1>8. /\ n.dir \in [Task -> [VPage -> 0 .. NR_PAGES]]
      /\ \A v \in VPage : n.dir[c][v] = IF v \in T THEN TableOf(m, t, v) ELSE 0
      /\ \A u \in Task : u # c => n.dir[u] = m.dir[u]
  <2>1. [v \in VPage |-> IF v \in T THEN TableOf(m, t, v) ELSE 0] \in [VPage -> 0 .. NR_PAGES]
    BY <1>3, PagingAssumption DEF Page
  <2> QED
    BY <1>1, <1>6, <2>1 DEF MemType
<1>9. /\ n.pte \in [Task -> [VPage -> Entry]]
      /\ \A v \in VPage : n.pte[c][v] = Protected(m.pte[t][v])
      /\ \A v \in VPage : n.pte[t][v] = Protected(m.pte[t][v])
      /\ \A u \in Task : u # c /\ u # t => n.pte[u] = m.pte[u]
  <2>1. \A v \in VPage : Protected(m.pte[t][v]) \in Entry
    BY <1>1, PtePages, EntryTypes
  <2>2. [v \in VPage |-> Protected(m.pte[t][v])] \in [VPage -> Entry]
    BY <2>1
  <2> QED
    BY <1>1, <1>6, <2>2 DEF MemType
<1>10. \A v \in VPage : /\ Protected(m.pte[t][v]).page = m.pte[t][v].page
                        /\ Protected(m.pte[t][v]).dirty = m.pte[t][v].dirty
                        /\ ~Protected(m.pte[t][v]).writable
  BY <1>1, PtePages, EntryTypes
<1>11. n \in MemType
  <2>1. ASSUME NEW p \in Page PROVE n.map[p] \in Nat
    <3>1. m.map[p] \in Nat /\ Row(PteOf(m), t, p) \in Nat
      BY <1>1, UsersAreCounted, RowType
    <3> QED
      BY <1>7, <3>1
  <2>2. n.map \in [Page -> Nat]
    BY <1>6, <2>1
  <2>3. m.val \in [Page -> {0} \cup Task \cup Exe]
    BY <1>1 DEF MemType
  <2> QED
    BY <1>6, <1>8, <1>9, <2>2, <2>3 DEF MemType
<1>12. ASSUME NEW p \in Page
       PROVE  Uses(Pairs, PteOf(n), p) = Uses(Pairs, PteOf(m), p) + Row(PteOf(m), t, p)
  <2>1. PICK f, g : f = PteOf(m) /\ g = PteOf(n)
    OBVIOUS
  <2>2. \A x \in Pairs : x[1] # c => g[x] = f[x]
    BY <1>9, <1>10, <2>1 DEF PteOf, Pairs
  <2>3. Uses(Pairs, g, p) + Row(f, c, p) = Uses(Pairs, f, p) + Row(g, c, p)
    BY <2>2, UsesRow
  <2>4. Row(f, c, p) = 0
    <3>1. \A v \in VPage : f[<<c, v>>] # p
      BY <2>1 DEF PteOf, Pairs, NotPresent, Page
    <3> QED
      BY <3>1, RowType
  <2>5. Row(g, c, p) = Row(f, t, p)
    <3>1. \A v \in VPage : g[<<c, v>>] = f[<<t, v>>]
      BY <1>9, <1>10, <2>1 DEF PteOf, Pairs
    <3>2. {v \in VPage : g[<<c, v>>] = p} = {v \in VPage : f[<<t, v>>] = p}
      BY <3>1
    <3> QED
      BY <3>2 DEF Row
  <2>6. Uses(Pairs, g, p) \in Nat /\ Uses(Pairs, f, p) \in Nat
    BY <2>1, UsesTypes
  <2> QED
    BY <2>1, <2>3, <2>4, <2>5, <2>6
<1>13. ASSUME NEW p \in Page
       PROVE  Uses(Pairs, DirOf(n), p)
                 = Uses(Pairs, DirOf(m), p) + (IF p \in taken THEN 1 ELSE 0)
  <2>1. PICK f, g : f = DirOf(m) /\ g = DirOf(n)
    OBVIOUS
  <2>2. \A x \in Pairs : x[1] # c => g[x] = f[x]
    BY <1>8, <2>1 DEF DirOf, Pairs
  <2>3. Uses(Pairs, g, p) + Row(f, c, p) = Uses(Pairs, f, p) + Row(g, c, p)
    BY <2>2, UsesRow
  <2>4. Row(f, c, p) = 0
    <3>1. \A v \in VPage : f[<<c, v>>] # p
      BY <2>1 DEF DirOf, Pairs, Page
    <3> QED
      BY <3>1, RowType
  <2>5. \A v \in VPage : g[<<c, v>>] = IF v \in T THEN TableOf(m, t, v) ELSE 0
    BY <1>8, <2>1 DEF DirOf, Pairs
  <2>6. Row(g, c, p) = IF p \in taken THEN 1 ELSE 0
    <3>1. CASE p \in taken
      <4>1. PICK v \in T : p = TableOf(m, t, v)
        BY <1>2, <3>1
      <4>2. {w \in VPage : g[<<c, w>>] = p} = {v}
        BY <1>3, <2>5, <4>1 DEF Page
      <4> QED
        BY <3>1, <4>2, FS_Singleton DEF Row
    <3>2. CASE p \notin taken
      <4>1. \A v \in VPage : g[<<c, v>>] # p
        BY <1>3, <2>5, <3>2 DEF Page
      <4> QED
        BY <3>2, <4>1, RowType
    <3> QED
      BY <3>1, <3>2
  <2>7. Uses(Pairs, g, p) \in Nat /\ Uses(Pairs, f, p) \in Nat
    BY <2>1, UsesTypes
  <2> QED
    BY <2>1, <2>3, <2>4, <2>6, <2>7
<1>14. ASSUME NEW p \in Page, ~PteUses(m, p)
       PROVE  Row(PteOf(m), t, p) = 0
  <2>1. PICK f : f = PteOf(m)
    OBVIOUS
  <2>2. \A v \in VPage : f[<<t, v>>] # p
    BY <1>14, <2>1 DEF PteOf, Pairs, PteUses
  <2> QED
    BY <2>1, <2>2, RowType
<1>15. Counted(n, h, s)
  <2>1. ASSUME NEW p \in Page
        PROVE  n.map[p] = Uses(Pairs, PteOf(n), p) + Uses(Pairs, DirOf(n), p)
                             + Uses(Task, h, p) + Uses(Task, s, p)
    <3>1. PICK a, b, d, e, r :
             /\ a = Uses(Pairs, PteOf(m), p) /\ b = Uses(Pairs, DirOf(m), p)
             /\ d = Uses(Task, h, p) /\ e = Uses(Task, s, p) /\ r = Row(PteOf(m), t, p)
      OBVIOUS
    <3>2. /\ a \in Nat /\ b \in Nat /\ d \in Nat /\ e \in Nat /\ r \in Nat
          /\ m.map[p] = a + b + d + e
      BY <1>1, <3>1, UsesTypes, RowType DEF Counted
    <3>3. CASE p \in taken
      <4>1. m.map[p] = 0 /\ n.map[p] = 1
        BY <1>4, <1>7, <3>3
      <4>2. ~PteUses(m, p)
        BY <1>1, <4>1, UsersAreCounted
      <4>3. r = 0 /\ a = 0 /\ b = 0 /\ d = 0 /\ e = 0
        <5>1. a + b + d + e = 0
          BY <3>2, <4>1
        <5>2. a = 0 /\ b = 0 /\ d = 0 /\ e = 0
          BY <3>2, <5>1
        <5>3. r = 0
          BY <1>14, <3>1, <4>2
        <5> QED
          BY <5>2, <5>3
      <4>4. Uses(Pairs, PteOf(n), p) = a + r /\ Uses(Pairs, DirOf(n), p) = b + 1
        BY <1>12, <1>13, <3>1, <3>3
      <4>5. n.map[p] = (a + r) + (b + 1) + d + e
        BY <4>1, <4>3
      <4> QED
        BY <3>1, <4>4, <4>5
    <3>4. CASE p \notin taken
      <4>1. n.map[p] = m.map[p] + r
        BY <1>7, <3>1, <3>4
      <4>2. Uses(Pairs, PteOf(n), p) = a + r /\ Uses(Pairs, DirOf(n), p) = b + 0
        BY <1>12, <1>13, <3>1, <3>4
      <4>3. n.map[p] = (a + r) + (b + 0) + d + e
        BY <3>2, <4>1
      <4> QED
        BY <3>1, <4>2, <4>3
    <3> QED
      BY <3>3, <3>4
  <2> QED
    BY <2>1 DEF Counted
<1>16. Private(n, h, s)
  <2>1. ASSUME NEW p \in Page, DirUses(n, p) PROVE p \in taken \/ DirUses(m, p)
    <3>1. PICK u \in Task, w \in VPage : n.dir[u][w] = p
      BY <2>1 DEF DirUses
    <3>2. CASE u = c
      BY <1>3, <1>8, <3>1, <3>2 DEF Page
    <3>3. CASE u # c
      BY <1>8, <3>1, <3>3 DEF DirUses
    <3> QED
      BY <3>2, <3>3
  <2>2. ASSUME NEW p \in Page, DirUses(m, p) \/ TaskUses(h, p) \/ TaskUses(s, p)
        PROVE  n.map[p] = 1
    <3>1. m.map[p] = 1
      BY <1>1, <2>2 DEF Private
    <3>2. p \notin taken
      BY <1>4, <3>1
    <3>3. ~PteUses(m, p)
      BY <1>1, <2>2, <3>1, UsersAreCounted
    <3>4. n.map[p] = 1 + 0
      BY <1>7, <1>14, <3>1, <3>2, <3>3
    <3> QED
      BY <3>4
  <2> QED
    BY <1>7, <2>1, <2>2 DEF Private
<1>17. FreeIsClear(n)
  <2>1. ASSUME NEW p \in Page, n.map[p] = 0 PROVE n.val[p] = 0
    <3>1. p \notin taken
      BY <1>7, <2>1
    <3>2. m.map[p] \in Nat /\ Row(PteOf(m), t, p) \in Nat
      BY <1>1, UsersAreCounted, RowType
    <3>3. m.map[p] = 0
      BY <1>7, <2>1, <3>1, <3>2
    <3> QED
      BY <1>1, <1>6, <3>3 DEF FreeIsClear
  <2> QED
    BY <2>1 DEF FreeIsClear
<1>18. OwnWritable(n)
  <2>1. ASSUME NEW u \in Task, NEW w \in VPage, n.pte[u][w].writable
        PROVE  Present(n, u, w) /\ OnlyUser(n, u, w)
    <3>1. u # t /\ u # c /\ n.pte[u][w] = m.pte[u][w]
      BY <1>9, <1>10, <2>1
    <3>2. PICK p \in Page : p = m.pte[u][w].page /\ m.map[p] = 1
      BY <1>1, <2>1, <3>1, PtePages DEF OwnWritable, OnlyUser
    <3>3. \A v \in VPage : m.pte[t][v].page # p
      BY <1>1, <3>1, <3>2, UsersAreCounted
    <3>4. Row(PteOf(m), t, p) = 0
      <4>1. PICK f : f = PteOf(m)
        OBVIOUS
      <4>2. \A v \in VPage : f[<<t, v>>] # p
        BY <3>3, <4>1 DEF PteOf, Pairs
      <4> QED
        BY <4>1, <4>2, RowType
    <3>5. p \notin taken
      BY <1>4, <3>2
    <3>6. n.map[p] = 1 + 0
      BY <1>7, <3>2, <3>4, <3>5
    <3> QED
      BY <3>1, <3>2, <3>6 DEF Present, OnlyUser, Page
  <2> QED
    BY <2>1 DEF OwnWritable
<1>19. ASSUME NEW u \in Task, NEW w \in VPage, u # c PROVE Keeps(m, n, u, w)
  BY <1>6, <1>8, <1>9, <1>10, <1>19 DEF Keeps, HasTable
<1>20. ASSUME NEW v \in VPage, HasTable(m, t, v) PROVE HasTable(n, c, v)
  BY <1>3, <1>8, <1>20 DEF HasTable, Page
<1>21. CopiedTo(m, n, t, c)
  BY <1>6, <1>8, <1>9, <1>10, <1>19, <1>20 DEF CopiedTo
<1> QED
  BY <1>1, <1>2, <1>11, <1>15, <1>16, <1>17, <1>18, <1>21 DEF Good

\* A copy that fails has write-protected some of the parent's pages.
LEMMA CopyFailsRight ==
    ASSUME NEW m, NEW h, NEW s, Good(m, h, s), NEW t \in Task
    PROVE  /\ Good(copy_page_tables_fails(m, t), h, s)
           /\ copy_page_tables_fails(m, t).dir = m.dir
           /\ \A u \in Task, w \in VPage : Keeps(m, copy_page_tables_fails(m, t), u, w)
<1>1. /\ m \in MemType /\ h \in PageOf /\ s \in PageOf
      /\ Counted(m, h, s) /\ Private(m, h, s) /\ FreeIsClear(m) /\ OwnWritable(m)
  BY DEF Good
<1>2. PICK row, n :
         /\ row = [v \in VPage |-> IF Earlier(Tables(m, t), v) < Cardinality(FreePages(m))
                                   THEN Protected(m.pte[t][v]) ELSE m.pte[t][v]]
         /\ n = [m EXCEPT !.pte[t] = row]
  OBVIOUS
<1>3. n = copy_page_tables_fails(m, t)
  BY <1>2 DEF copy_page_tables_fails
<1>4. ASSUME NEW v \in VPage
      PROVE  /\ row[v] \in Entry /\ row[v].page = m.pte[t][v].page
             /\ row[v].dirty = m.pte[t][v].dirty
             /\ row[v].writable => m.pte[t][v].writable
  <2>1. row[v] = Protected(m.pte[t][v]) \/ row[v] = m.pte[t][v]
    BY <1>2
  <2> QED
    BY <1>1, <2>1, PtePages, EntryTypes
<1>5. row \in [VPage -> Entry]
  BY <1>2, <1>4
<1>6. /\ n \in MemType /\ n.map = m.map /\ n.dir = m.dir /\ n.val = m.val
      /\ n.pte[t] = row /\ \A u \in Task : u # t => n.pte[u] = m.pte[u]
  BY <1>1, <1>2, <1>5 DEF MemType
<1>7. \A u \in Task, w \in VPage : /\ n.pte[u][w].page = m.pte[u][w].page
                                   /\ n.pte[u][w].dirty = m.pte[u][w].dirty
                                   /\ n.pte[u][w].writable => m.pte[u][w].writable
  BY <1>4, <1>6
<1>8. Counted(n, h, s)
  <2>1. PteOf(n) = PteOf(m) /\ DirOf(n) = DirOf(m)
    BY <1>6, <1>7, SamePtes, SameDirs
  <2> QED
    BY <1>1, <1>6, <2>1 DEF Counted
<1>9. Private(n, h, s) /\ FreeIsClear(n)
  BY <1>1, <1>6 DEF Private, FreeIsClear, DirUses
<1>10. OwnWritable(n)
  BY <1>1, <1>6, <1>7 DEF OwnWritable, Present, OnlyUser
<1>11. \A u \in Task, w \in VPage : Keeps(m, n, u, w)
  BY <1>6, <1>7 DEF Keeps, HasTable
<1> QED
  BY <1>1, <1>3, <1>6, <1>8, <1>9, <1>10, <1>11 DEF Good

-----------------------------------------------------------------------------
(***************************************************************************)
(* The invariant.  Slots says what a task's state says of its memory: the   *)
(* stack is always there, with its page table, so that do_execve finds a    *)
(* page for the new one.  Views says what a task finds in its pages; a page *)
(* that is not there yet is one of the executable, or empty.                *)
(***************************************************************************)
TaskTypes ==
    /\ status \in [Task -> {"unused", "alive", "zombie"}]
    /\ executable \in [Task -> Exe \cup {0}]
    /\ pc \in [Task -> {"user", "bread_page", "restart", "verified", "close"}]
    /\ target \in [Task -> VPage]
    /\ view \in [Task -> [VPage -> {0} \cup Task \cup Exe]]
    /\ disturbed \subseteq {"restart", "verified", "close"}

Empty(m, t) == \A v \in VPage : m.dir[t][v] = 0 /\ m.pte[t][v] = NotPresent

SlotOf(t) ==
    /\ status[t] # "alive" => Empty(mem, t) /\ pc[t] = "user"
    /\ status[t] = "unused" <=> struct[t] = 0
    /\ status[t] = "alive" => Present(mem, t, Stack) /\ HasTable(mem, t, Stack)
    /\ held[t] # 0 <=> pc[t] \in {"bread_page", "close"}
    /\ pc[t] = "bread_page" => target[t] \in Text /\ ~Present(mem, t, target[t])
    /\ pc[t] \in {"restart", "verified"} => Present(mem, t, target[t])

Shows(t, v) ==
    /\ Present(mem, t, v) => mem.val[mem.pte[t][v].page] = view[t][v]
    /\ Present(mem, t, v) /\ v \in Text /\ ~mem.pte[t][v].dirty
          => view[t][v] = executable[t]
    /\ ~Present(mem, t, v) => view[t][v] = IF v \in Text THEN executable[t] ELSE 0

ViewOf(t) ==
    /\ pc[t] \in {"user", "bread_page"}
    /\ status[t] = "alive" => \A v \in VPage : Shows(t, v)

IInv ==
    /\ TaskTypes
    /\ Good(mem, held, struct)
    /\ \A t \in Task : SlotOf(t)
    /\ disturbed = {} => \A t \in Task : ViewOf(t)

LEMMA StackIs == Stack \in VPage /\ Stack \notin Text
BY MemoryAssumption DEF Stack

(***************************************************************************)
(* A task that does not step, and what it has.                              *)
(***************************************************************************)
SameTask(u) ==
    /\ status'[u] = status[u] /\ executable'[u] = executable[u] /\ pc'[u] = pc[u]
    /\ target'[u] = target[u] /\ held'[u] = held[u] /\ struct'[u] = struct[u]
    /\ view'[u] = view[u]

SamePages(u) ==
    /\ mem'.dir[u] = mem.dir[u]
    /\ \A w \in VPage : /\ mem'.pte[u][w].page = mem.pte[u][w].page
                        /\ mem'.pte[u][w].dirty = mem.pte[u][w].dirty

SameContents(u) ==
    \A w \in VPage : Present(mem, u, w)
        => mem'.val[mem.pte[u][w].page] = mem.val[mem.pte[u][w].page]

LEMMA KeptPages ==
    ASSUME NEW u \in Task, mem'.dir[u] = mem.dir[u],
           \A w \in VPage : Keeps(mem, mem', u, w)
    PROVE  SamePages(u) /\ SameContents(u)
BY DEF SamePages, SameContents, Keeps

LEMMA KeepsTwice ==
    ASSUME NEW m, NEW a, NEW n, NEW u, NEW w, Keeps(m, a, u, w), Keeps(a, n, u, w)
    PROVE  Keeps(m, n, u, w)
BY DEF Keeps, Present

LEMMA SlotStays ==
    ASSUME IInv, NEW u \in Task, SameTask(u), SamePages(u), Good(mem, held, struct)'
    PROVE  SlotOf(u)'
<1>1. SlotOf(u) /\ mem' \in MemType /\ OwnWritable(mem') /\ mem \in MemType
  BY DEF IInv, Good
<1>2. \A w \in VPage : /\ Present(mem, u, w)' <=> Present(mem, u, w)
                       /\ HasTable(mem, u, w)' <=> HasTable(mem, u, w)
  BY DEF SamePages, Present, HasTable
<1>3. ASSUME status[u] # "alive" PROVE Empty(mem, u)'
  <2>1. ASSUME NEW v \in VPage PROVE mem'.dir[u][v] = 0 /\ mem'.pte[u][v] = NotPresent
    <3>1. mem.dir[u][v] = 0 /\ mem.pte[u][v] = NotPresent
      BY <1>1, <1>3 DEF SlotOf, Empty
    <3>2. mem'.pte[u][v].page = 0 /\ mem'.pte[u][v].dirty = FALSE
      BY <3>1 DEF SamePages, NotPresent
    <3>3. mem'.pte[u][v] \in Entry
      BY <1>1, PtePages
    <3>4. mem'.pte[u][v].writable = FALSE
      BY <1>1, <3>2, <3>3 DEF OwnWritable, Present, Entry
    <3> QED
      BY <3>1, <3>2, <3>3, <3>4 DEF SamePages, NotPresent, Entry
  <2> QED
    BY <2>1 DEF Empty
<1>4. status'[u] = status[u] /\ pc'[u] = pc[u] /\ target'[u] = target[u]
      /\ held'[u] = held[u] /\ struct'[u] = struct[u]
  BY DEF SameTask
<1>5. target[u] \in VPage
  BY DEF IInv, TaskTypes
<1> QED
  BY <1>1, <1>2, <1>3, <1>4, <1>5, StackIs DEF SlotOf

LEMMA ViewStays ==
    ASSUME NEW u \in Task, SameTask(u), SamePages(u), SameContents(u), ViewOf(u)
    PROVE  ViewOf(u)'
<1>1. ASSUME NEW v \in VPage, Shows(u, v) PROVE Shows(u, v)'
  BY <1>1 DEF Shows, SameTask, SamePages, SameContents, Present
<1> QED
  BY <1>1 DEF ViewOf, SameTask

\* The tasks in A step, the others are left as they were.
LEMMA IInvFrom ==
    ASSUME IInv, NEW A \in SUBSET Task, TaskTypes', Good(mem, held, struct)',
           \A u \in Task \ A : SameTask(u) /\ SamePages(u),
           \A u \in A : SlotOf(u)',
           disturbed' = {} => /\ disturbed = {}
                              /\ \A u \in Task \ A : SameContents(u)
                              /\ \A u \in A : ViewOf(u)'
    PROVE  IInv'
<1>1. \A u \in Task : SlotOf(u)'
  BY SlotStays
<1>2. ASSUME disturbed' = {} PROVE \A u \in Task : ViewOf(u)'
  <2>1. \A u \in Task : ViewOf(u)
    BY <1>2 DEF IInv
  <2> QED
    BY <1>2, <2>1, ViewStays
<1> QED
  BY <1>1, <1>2 DEF IInv

LEMMA TypeOKIs == TypeOK <=> TaskTypes /\ mem \in MemType /\ held \in PageOf /\ struct \in PageOf
BY DEF TypeOK, TaskTypes, MemType, PageOf

-----------------------------------------------------------------------------
(***************************************************************************)
(* do_exit, from memory whose other rows are as they were.                  *)
(***************************************************************************)
LEMMA ExitStep ==
    ASSUME IInv, NEW t \in Task, status[t] = "alive", NEW m,
           Good(m, [held EXCEPT ![t] = 0], struct),
           \A u \in Task \ {t} : m.dir[u] = mem.dir[u] /\ \A w \in VPage : Keeps(mem, m, u, w),
           do_exit(t, m)
    PROVE  IInv'
<1>1. TaskTypes /\ SlotOf(t) /\ held \in PageOf
  BY StackIs DEF IInv, Good
<1>2. /\ mem' = free_page_tables(m, t) /\ held' = [held EXCEPT ![t] = 0] /\ struct' = struct
      /\ status' = [status EXCEPT ![t] = "zombie"] /\ executable' = [executable EXCEPT ![t] = 0]
      /\ pc' = [pc EXCEPT ![t] = "user"] /\ target' = [target EXCEPT ![t] = Stack]
      /\ view' = [view EXCEPT ![t] = [v \in VPage |-> 0]] /\ disturbed' = disturbed
  BY DEF do_exit, ReturnToUser, GoTo
<1>3. Good(mem', held', struct') /\ Emptied(m, mem', t)
  <2>1. /\ Good(free_page_tables(m, t), [held EXCEPT ![t] = 0], struct)
        /\ Emptied(m, free_page_tables(m, t), t)
    BY FreeTablesRight
  <2> QED
    BY <1>2, <2>1
<1>4. TaskTypes'
  <2>1. /\ status' \in [Task -> {"unused", "alive", "zombie"}]
        /\ executable' \in [Task -> Exe \cup {0}]
    BY <1>1, <1>2 DEF TaskTypes
  <2>2. /\ pc' \in [Task -> {"user", "bread_page", "restart", "verified", "close"}]
        /\ target' \in [Task -> VPage]
    BY <1>1, <1>2, StackIs DEF TaskTypes
  <2>3. [v \in VPage |-> 0] \in [VPage -> {0} \cup Task \cup Exe]
    OBVIOUS
  <2>4. view' \in [Task -> [VPage -> {0} \cup Task \cup Exe]]
    BY <1>1, <1>2, <2>3 DEF TaskTypes
  <2> QED
    BY <1>1, <1>2, <2>1, <2>2, <2>4 DEF TaskTypes
<1>5. ASSUME NEW u \in Task \ {t} PROVE SameTask(u) /\ SamePages(u) /\ SameContents(u)
  <2>1. \A w \in VPage : Keeps(mem, mem', u, w)
    BY <1>3, KeepsTwice DEF Emptied
  <2>2. mem'.dir[u] = mem.dir[u]
    BY <1>3 DEF Emptied
  <2>3. SameTask(u)
    BY <1>1, <1>2 DEF SameTask, TaskTypes, PageOf
  <2> QED
    BY <2>1, <2>2, <2>3, KeptPages
<1>6. SlotOf(t)'
  <2>1. /\ status'[t] = "zombie" /\ pc'[t] = "user" /\ held'[t] = 0 /\ struct'[t] = struct[t]
    BY <1>1, <1>2 DEF TaskTypes, PageOf
  <2>2. Empty(mem, t)'
    BY <1>3 DEF Emptied, Empty
  <2> QED
    BY <1>1, <2>1, <2>2 DEF SlotOf
<1>7. ViewOf(t)'
  BY <1>1, <1>2 DEF ViewOf, TaskTypes
<1>8. Good(mem, held, struct)'
  BY <1>3
<1> QED
  BY <1>2, <1>4, <1>5, <1>6, <1>7, <1>8, IInvFrom, {t} \in SUBSET Task

LEMMA KeepsAll == \A m, u, w : Keeps(m, m, u, w)
BY DEF Keeps

LEMMA OomStep ==
    ASSUME IInv, NEW t \in Task, status[t] = "alive", held[t] = 0, oom(t)
    PROVE  IInv'
<1>1. [held EXCEPT ![t] = 0] = held
  BY DEF IInv, Good, PageOf
<1>2. Good(mem, [held EXCEPT ![t] = 0], struct)
  BY <1>1 DEF IInv
<1> QED
  BY <1>2, KeepsAll, ExitStep DEF oom

(***************************************************************************)
(* do_no_page                                                               *)
(***************************************************************************)
\* What a step of t that puts one page does to the other pages.
PutStep(t, v) ==
    /\ Good(mem, held, struct)'
    /\ \A u \in Task \ {t} : mem'.dir[u] = mem.dir[u]
    /\ \A u \in Task, w \in VPage : u # t \/ w # v => Keeps(mem, mem', u, w)
    /\ Present(mem', t, v)
    /\ \A u \in Task : u # t => held'[u] = held[u]
    /\ UNCHANGED <<status, executable, struct, view, disturbed>>

LEMMA PutStepIInv ==
    ASSUME IInv, NEW t \in Task, NEW v \in VPage, PutStep(t, v), status[t] = "alive",
           ~Present(mem, t, v), TaskTypes', pc'[t] = "user", held'[t] = 0,
           \A u \in Task : u # t => pc'[u] = pc[u] /\ target'[u] = target[u],
           disturbed = {} => Shows(t, v)'
    PROVE  IInv'
<1>1. ASSUME NEW u \in Task \ {t} PROVE SameTask(u) /\ SamePages(u) /\ SameContents(u)
  <2>1. SameTask(u)
    BY DEF SameTask, PutStep
  <2>2. mem'.dir[u] = mem.dir[u] /\ \A w \in VPage : Keeps(mem, mem', u, w)
    BY DEF PutStep
  <2> QED
    BY <2>1, <2>2, KeptPages
<1>2. SlotOf(t) /\ Stack # v
  BY StackIs DEF IInv, SlotOf
<1>3. SlotOf(t)'
  <2>1. Keeps(mem, mem', t, Stack)
    BY <1>2, StackIs DEF PutStep
  <2>2. Present(mem', t, Stack) /\ HasTable(mem', t, Stack)
    BY <1>2, <2>1 DEF SlotOf, Keeps, Present
  <2>3. status' = status /\ struct' = struct
    BY DEF PutStep
  <2> QED
    BY <1>2, <2>2, <2>3 DEF SlotOf
<1>4. ASSUME disturbed = {} PROVE ViewOf(t)'
  <2>1. ASSUME NEW w \in VPage, w # v PROVE Shows(t, w)'
    <3>1. Shows(t, w) /\ Keeps(mem, mem', t, w)
      BY <1>4, <2>1 DEF IInv, ViewOf, PutStep
    <3> QED
      BY <3>1 DEF Shows, Keeps, Present, PutStep
  <2> QED
    BY <1>4, <2>1 DEF ViewOf
<1>5. disturbed' = disturbed /\ Good(mem, held, struct)'
  BY DEF PutStep
<1> QED
  BY <1>1, <1>3, <1>4, <1>5, IInvFrom, {t} \in SUBSET Task

LEMMA FaultFacts ==
    ASSUME IInv, NEW t \in Task, NEW v \in VPage, Faults(t, v)
    PROVE  /\ status[t] = "alive" /\ pc[t] = "user" /\ held[t] = 0
           /\ ~Present(mem, t, v) /\ Good(mem, held, struct) /\ TaskTypes
           /\ mem \in MemType /\ held \in PageOf /\ struct \in PageOf
BY DEF IInv, Faults, At, SlotOf, Good

LEMMA EmptyPageStep ==
    ASSUME IInv, NEW t \in Task, NEW v \in VPage, EmptyPage(t, v)
    PROVE  IInv'
<1>1. Faults(t, v) /\ v \notin Text
  BY DEF EmptyPage
<1>2. /\ status[t] = "alive" /\ pc[t] = "user" /\ held[t] = 0
      /\ ~Present(mem, t, v) /\ Good(mem, held, struct) /\ TaskTypes
      /\ mem \in MemType /\ held \in PageOf /\ struct \in PageOf
  BY <1>1, FaultFacts
<1>3. CASE oom(t)
  BY <1>2, <1>3, OomStep
<1>4. CASE /\ FreePages(mem) # {} /\ CanTable(GetFreePage(mem), t, v)
           /\ mem' = put_page(GetFreePage(mem), t, v, NewPage(mem))
           /\ UNCHANGED <<process, pc, target, held, view, disturbed>>
  <2>1. PICK q, k, a, b : /\ q = NewPage(mem) /\ k = [held EXCEPT ![t] = q]
                          /\ a = GetFreePage(mem) /\ b = WithTable(a, t, v)
    OBVIOUS
  <2>2. /\ q \in Page /\ mem.map[q] = 0 /\ SetMap(mem, a, q, 1)
    BY <1>2, <1>4, <2>1, GetIs
  <2>3. /\ Good(a, k, struct) /\ a.dir = mem.dir
        /\ \A u \in Task, w \in VPage : Keeps(mem, a, u, w)
    BY <1>2, <1>4, <2>1, GetRight
  <2>4. /\ Good(b, k, struct) /\ b.pte = a.pte /\ b.val = a.val
        /\ \A u \in Task : u # t => b.dir[u] = a.dir[u]
        /\ \A u \in Task, w \in VPage : Keeps(a, b, u, w)
    BY <1>4, <2>1, <2>3, TableRight
  <2>5. k[t] = q /\ q # 0 /\ [k EXCEPT ![t] = 0] = held
    <3>1. k[t] = q /\ q # 0
      BY <1>2, <2>1, <2>2 DEF PageOf, Page
    <3>2. [k EXCEPT ![t] = 0] = held
      BY <1>2, <2>1, Zenon DEF PageOf
    <3> QED
      BY <3>1, <3>2
  <2>6. mem' = [b EXCEPT !.pte[t][v] = PageOr7(k[t])]
    BY <1>4, <2>1, <2>5 DEF put_page
  <2>7. ~Present(b, t, v)
    BY <1>2, <2>2, <2>4 DEF SetMap, Present
  <2>8. /\ Good(mem', held, struct) /\ SetPte(b, mem', t, v, PageOr7(q))
        /\ \A u \in Task, w \in VPage : u # t \/ w # v => Keeps(b, mem', u, w)
    BY <2>4, <2>5, <2>6, <2>7, PutRight
  <2>9. UNCHANGED <<status, executable, struct, pc, target, held, view, disturbed>>
    BY <1>4 DEF process
  <2>10. PutStep(t, v)
    <3>1. \A u \in Task, w \in VPage : u # t \/ w # v => Keeps(mem, mem', u, w)
      BY <2>3, <2>4, <2>8, KeepsTwice
    <3>2. \A u \in Task \ {t} : mem'.dir[u] = mem.dir[u]
      BY <2>3, <2>4, <2>8 DEF SetPte
    <3>3. Present(mem', t, v)
      BY <2>5, <2>8 DEF SetPte, Present, PageOr7
    <3> QED
      BY <2>8, <2>9, <3>1, <3>2, <3>3 DEF PutStep
  <2>11. ASSUME disturbed = {} PROVE Shows(t, v)'
    <3>1. mem'.val[q] = 0
      BY <1>2, <2>2, <2>4, <2>8 DEF SetMap, SetPte, Good, FreeIsClear
    <3>2. view[t][v] = 0
      BY <1>1, <1>2, <2>11 DEF IInv, ViewOf, Shows
    <3>3. mem'.pte[t][v].page = q
      BY <2>8 DEF SetPte, PageOr7
    <3>4. Present(mem', t, v)
      BY <2>10 DEF PutStep
    <3> QED
      BY <1>1, <2>9, <3>1, <3>2, <3>3, <3>4 DEF Shows
  <2> QED
    BY <1>2, <2>9, <2>10, <2>11, PutStepIInv DEF TaskTypes
<1> QED
  BY <1>3, <1>4 DEF EmptyPage

LEMMA SharePageStep ==
    ASSUME IInv, NEW t \in Task, NEW v \in VPage, SharePage(t, v)
    PROVE  IInv'
<1>1. Faults(t, v) /\ v \in Text /\ Sharers(t, v) # {}
  BY DEF SharePage
<1>2. /\ status[t] = "alive" /\ pc[t] = "user" /\ held[t] = 0
      /\ ~Present(mem, t, v) /\ Good(mem, held, struct) /\ TaskTypes
      /\ mem \in MemType /\ held \in PageOf /\ struct \in PageOf
  BY <1>1, FaultFacts
<1>3. CASE oom(t)
  BY <1>2, <1>3, OomStep
<1>4. CASE /\ CanTable(mem, t, v) /\ mem' = try_to_share(mem, t, v, Max(Sharers(t, v)))
           /\ UNCHANGED <<process, pc, target, held, view, disturbed>>
  <2>1. PICK u : u = Max(Sharers(t, v))
    OBVIOUS
  <2>2. u \in Sharers(t, v)
    <3>1. Sharers(t, v) \subseteq Task
      BY DEF Sharers
    <3>2. IsFiniteSet(Sharers(t, v)) /\ Sharers(t, v) \subseteq Nat
      BY <3>1, FS_Subset, PagingAssumption
    <3> QED
      BY <1>1, <2>1, <3>2, MaxIsIn
  <2>3. /\ u \in Task /\ u # t /\ status[u] = "alive" /\ executable[u] = executable[t]
        /\ Present(mem, u, v) /\ ~mem.pte[u][v].dirty
    BY <2>2 DEF Sharers, PresentAndClean
  <2>4. mem' = try_to_share(mem, t, v, u)
    BY <1>4, <2>1
  <2>5. /\ Good(mem', held, struct) /\ Present(mem', t, v)
        /\ mem'.val[mem'.pte[t][v].page] = mem.val[mem.pte[u][v].page]
        /\ \A y \in Task : y # t => mem'.dir[y] = mem.dir[y]
        /\ \A y \in Task, w \in VPage : y # t \/ w # v => Keeps(mem, mem', y, w)
    BY <1>2, <1>4, <2>3, <2>4, ShareRight
  <2>6. UNCHANGED <<status, executable, struct, pc, target, held, view, disturbed>>
    BY <1>4 DEF process
  <2>7. PutStep(t, v)
    BY <2>5, <2>6 DEF PutStep
  <2>8. ASSUME disturbed = {} PROVE Shows(t, v)'
    <3>1. Shows(u, v) /\ Shows(t, v)
      BY <1>2, <2>3, <2>8 DEF IInv, ViewOf
    <3>2. mem.val[mem.pte[u][v].page] = executable[t]
      BY <1>1, <2>3, <3>1 DEF Shows
    <3>3. view[t][v] = executable[t]
      BY <1>1, <1>2, <3>1 DEF Shows
    <3> QED
      BY <2>5, <2>6, <3>2, <3>3 DEF Shows
  <2> QED
    BY <1>2, <2>6, <2>7, <2>8, PutStepIInv DEF TaskTypes
<1> QED
  BY <1>1, <1>3, <1>4 DEF SharePage

\* A page of a task that is kept shows what it showed.
LEMMA ShowsStays ==
    ASSUME NEW u \in Task, NEW v \in VPage, Keeps(mem, mem', u, v), Shows(u, v),
           view'[u] = view[u], executable'[u] = executable[u]
    PROVE  Shows(u, v)'
BY DEF Shows, Keeps, Present

LEMMA StackStays ==
    ASSUME NEW t \in Task, Keeps(mem, mem', t, Stack), status[t] = "alive", SlotOf(t)
    PROVE  Present(mem', t, Stack) /\ HasTable(mem', t, Stack)
BY DEF SlotOf, Keeps, Present

LEMMA LoadPageStep ==
    ASSUME IInv, NEW t \in Task, NEW v \in VPage, LoadPage(t, v)
    PROVE  IInv'
<1>1. Faults(t, v) /\ v \in Text
  BY DEF LoadPage
<1>2. /\ status[t] = "alive" /\ pc[t] = "user" /\ held[t] = 0
      /\ ~Present(mem, t, v) /\ Good(mem, held, struct) /\ TaskTypes
      /\ mem \in MemType /\ held \in PageOf /\ struct \in PageOf
  BY <1>1, FaultFacts
<1>3. CASE oom(t)
  BY <1>2, <1>3, OomStep
<1>4. CASE /\ FreePages(mem) # {} /\ mem' = GetFreePage(mem)
           /\ held' = [held EXCEPT ![t] = NewPage(mem)]
           /\ target' = [target EXCEPT ![t] = v]
           /\ GoTo(t, "bread_page")
           /\ UNCHANGED <<process, view, disturbed>>
  <2>1. /\ Good(mem', held', struct) /\ mem'.dir = mem.dir
        /\ \A u \in Task, w \in VPage : Keeps(mem, mem', u, w)
    BY <1>2, <1>4, GetRight
  <2>2. UNCHANGED <<status, executable, struct, view, disturbed>>
    BY <1>4 DEF process
  <2>3. pc' = [pc EXCEPT ![t] = "bread_page"]
    BY <1>4 DEF GoTo
  <2>4. TaskTypes'
    BY <1>2, <1>4, <2>2, <2>3 DEF TaskTypes
  <2>5. ASSUME NEW u \in Task \ {t} PROVE SameTask(u) /\ SamePages(u) /\ SameContents(u)
    <3>1. SameTask(u)
      BY <1>2, <1>4, <2>2, <2>3 DEF SameTask, TaskTypes, PageOf
    <3> QED
      BY <2>1, <3>1, KeptPages
  <2>6. /\ pc'[t] = "bread_page" /\ target'[t] = v /\ held'[t] # 0
    <3>1. pc'[t] = "bread_page" /\ target'[t] = v
      BY <1>2, <1>4, <2>3 DEF TaskTypes
    <3>2. NewPage(mem) \in Page
      BY <1>2, <1>4, GetIs
    <3>3. held'[t] = NewPage(mem)
      BY <1>2, <1>4 DEF PageOf
    <3> QED
      BY <3>1, <3>2, <3>3 DEF Page
  <2>7. SlotOf(t)'
    <3>1. SlotOf(t)
      BY DEF IInv
    <3>2. Present(mem', t, Stack) /\ HasTable(mem', t, Stack)
      BY <1>2, <2>1, <3>1, StackIs, StackStays
    <3>3. ~Present(mem', t, v)
      BY <1>2, <2>1 DEF Keeps, Present
    <3> QED
      BY <1>1, <1>2, <2>2, <2>6, <3>1, <3>2, <3>3 DEF SlotOf
  <2>8. ASSUME disturbed = {} PROVE ViewOf(t)'
    <3>1. \A w \in VPage : Shows(t, w)
      BY <1>2, <2>8 DEF IInv, ViewOf
    <3>2. \A w \in VPage : Shows(t, w)'
      BY <2>1, <2>2, <3>1, ShowsStays
    <3> QED
      BY <2>6, <3>2 DEF ViewOf
  <2>9. Good(mem, held, struct)'
    BY <2>1, <2>2
  <2> QED
    BY <2>2, <2>4, <2>5, <2>7, <2>8, <2>9, IInvFrom, {t} \in SUBSET Task
<1> QED
  BY <1>1, <1>3, <1>4 DEF LoadPage

LEMMA PageReadStep ==
    ASSUME IInv, NEW t \in Task, PageRead(t)
    PROVE  IInv'
<1>1. At(t, "bread_page")
  BY DEF PageRead
<1>2. /\ status[t] = "alive" /\ pc[t] = "bread_page" /\ held[t] # 0
      /\ Good(mem, held, struct) /\ TaskTypes /\ mem \in MemType /\ held \in PageOf
  BY <1>1 DEF IInv, At, SlotOf, Good
<1>3. PICK v : v = target[t] /\ v \in Text /\ v \in VPage /\ ~Present(mem, t, v)
  BY <1>2 DEF IInv, SlotOf, TaskTypes
<1>4. PICK p : p = held[t] /\ p \in Page /\ mem.map[p] = 1 /\ p # 0
  BY <1>2, UsersOfGood
<1>5. CASE do_exit(t, free_page(mem, held[t]))
  <2>1. /\ Good(free_page(mem, held[t]), [held EXCEPT ![t] = 0], struct)
        /\ free_page(mem, held[t]).dir = mem.dir
        /\ \A u \in Task, w \in VPage : Keeps(mem, free_page(mem, held[t]), u, w)
    BY <1>2, FreeRight
  <2> QED
    BY <1>2, <1>5, <2>1, ExitStep
<1>6. CASE /\ CanTable(mem, t, target[t])
           /\ mem' = [put_page(mem, t, target[t], held[t]) EXCEPT
                          !.val[held[t]] = executable[t]]
           /\ held' = [held EXCEPT ![t] = 0]
           /\ ReturnToUser(t)
           /\ UNCHANGED <<process, view, disturbed>>
  <2>1. PICK b, n : /\ b = WithTable(mem, t, v) /\ n = [b EXCEPT !.pte[t][v] = PageOr7(p)]
    OBVIOUS
  <2>2. mem' = [n EXCEPT !.val[p] = executable[t]]
    BY <1>3, <1>4, <1>6, <2>1 DEF put_page
  <2>3. /\ Good(b, held, struct) /\ b.pte = mem.pte /\ b.val = mem.val
        /\ \A u \in Task : u # t => b.dir[u] = mem.dir[u]
        /\ \A u \in Task, w \in VPage : Keeps(mem, b, u, w)
        /\ b.map[p] = 1
    BY <1>2, <1>3, <1>4, <1>6, <2>1, TableRight
  <2>4. ~Present(b, t, v)
    BY <1>3, <2>3 DEF Present
  <2>5. /\ Good(n, held', struct) /\ SetPte(b, n, t, v, PageOr7(p))
        /\ \A u \in Task, w \in VPage : u # t \/ w # v => Keeps(b, n, u, w)
    <3>1. n = [b EXCEPT !.pte[t][v] = PageOr7(held[t])]
      BY <1>4, <2>1
    <3>2. held' = [held EXCEPT ![t] = 0]
      BY <1>6
    <3>3. /\ Good(n, [held EXCEPT ![t] = 0], struct) /\ SetPte(b, n, t, v, PageOr7(held[t]))
          /\ \A u \in Task, w \in VPage : u # t \/ w # v => Keeps(b, n, u, w)
      BY <1>2, <1>3, <2>3, <2>4, <3>1, PutRight
    <3> QED
      BY <1>4, <3>2, <3>3
  <2>6. executable[t] \in {0} \cup Task \cup Exe
    BY <1>2 DEF TaskTypes
  <2>7. n.map[p] # 0
    BY <2>3, <2>5 DEF SetPte
  <2>8. Good(mem', held', struct) /\ SetVal(n, mem', p, executable[t])
    BY <1>4, <2>2, <2>5, <2>6, <2>7, ValRight
  <2>9. UNCHANGED <<status, executable, struct, view, disturbed>>
    BY <1>6 DEF process
  <2>10. /\ pc' = [pc EXCEPT ![t] = "user"] /\ target' = [target EXCEPT ![t] = Stack]
    BY <1>6 DEF ReturnToUser, GoTo
  <2>11. ASSUME NEW u \in Task, NEW w \in VPage, u # t \/ w # v
         PROVE  Keeps(mem, mem', u, w)
    <3>1. Keeps(mem, n, u, w)
      BY <2>3, <2>5, <2>11, KeepsTwice
    <3>2. mem.pte[u][w].page # p
      <4>1. TaskUses(held, p)
        BY <1>4 DEF TaskUses
      <4>2. ~PteUses(mem, p)
        BY <1>2, <1>4, <4>1, UsersAreCounted DEF Good
      <4> QED
        BY <4>2 DEF PteUses
    <3>3. mem.pte[u][w].page \in 0 .. NR_PAGES
      BY <1>2, PtePages
    <3> QED
      BY <2>8, <3>1, <3>2, <3>3 DEF Keeps, SetVal, HasTable, Present, Page
  <2>12. PutStep(t, v)
    <3>1. Present(mem', t, v)
      BY <1>4, <2>5, <2>8 DEF SetPte, SetVal, Present, PageOr7
    <3>2. \A u \in Task \ {t} : mem'.dir[u] = mem.dir[u]
      BY <2>3, <2>5, <2>8 DEF SetPte, SetVal
    <3>3. \A u \in Task : u # t => held'[u] = held[u]
      BY <1>2, <1>6 DEF PageOf
    <3> QED
      BY <2>8, <2>9, <2>11, <3>1, <3>2, <3>3 DEF PutStep
  <2>13. TaskTypes'
    BY <1>2, <2>9, <2>10, StackIs DEF TaskTypes
  <2>14. /\ pc'[t] = "user" /\ held'[t] = 0
         /\ \A u \in Task : u # t => pc'[u] = pc[u] /\ target'[u] = target[u]
    BY <1>2, <1>6, <2>10 DEF TaskTypes, PageOf
  <2>15. ASSUME disturbed = {} PROVE Shows(t, v)'
    <3>1. view[t][v] = executable[t]
      BY <1>2, <1>3, <2>15 DEF IInv, ViewOf, Shows
    <3>2. mem'.pte[t][v].page = p /\ mem'.val[p] = executable[t]
      BY <2>5, <2>8 DEF SetPte, SetVal, PageOr7
    <3> QED
      BY <1>3, <1>4, <2>9, <3>1, <3>2 DEF Shows, Present
  <2> QED
    BY <1>2, <1>3, <2>12, <2>13, <2>14, <2>15, PutStepIInv
<1> QED
  BY <1>5, <1>6 DEF PageRead

(***************************************************************************)
(* A write, from memory in which t may write to v's page, or in the kernel. *)
(***************************************************************************)
LEMMA StoreStep ==
    ASSUME IInv, NEW t \in Task, NEW v \in VPage, status[t] = "alive",
           pc[t] \in {"user", "restart", "verified"},
           NEW a, Good(a, held, struct), a.dir = mem.dir, Present(a, t, v),
           \A u \in Task, w \in VPage : u # t \/ w # v => Keeps(mem, a, u, w),
           disturbed = {} => a.pte[t][v].writable,
           mem' = Stored(a, t, v), Sees(t, v), ReturnToUser(t),
           UNCHANGED <<process, held, disturbed>>
    PROVE  IInv'
<1>1. TaskTypes /\ SlotOf(t) /\ held \in PageOf /\ a \in MemType /\ Counted(a, held, struct)
  BY DEF IInv, Good
<1>2. PICK p : p = a.pte[t][v].page
  OBVIOUS
<1>3. p \in Page
  BY <1>1, <1>2, PtePages
<1>4. Good(mem', held, struct) /\ StoredIn(a, mem', t, v, p)
  BY <1>2, StoredRight
<1>5. /\ UNCHANGED <<status, executable, struct, held, disturbed>>
      /\ pc' = [pc EXCEPT ![t] = "user"] /\ target' = [target EXCEPT ![t] = Stack]
      /\ view' = [view EXCEPT ![t][v] = t]
  BY DEF process, Sees, ReturnToUser, GoTo
<1>6. TaskTypes'
  <2>1. /\ pc' \in [Task -> {"user", "bread_page", "restart", "verified", "close"}]
        /\ target' \in [Task -> VPage]
    BY <1>1, <1>5, StackIs DEF TaskTypes
  <2>2. view' \in [Task -> [VPage -> {0} \cup Task \cup Exe]]
    BY <1>1, <1>5 DEF TaskTypes
  <2> QED
    BY <1>1, <1>5, <2>1, <2>2 DEF TaskTypes
<1>7. ASSUME NEW u \in Task \ {t} PROVE SameTask(u) /\ SamePages(u)
  <2>1. SameTask(u)
    BY <1>1, <1>5 DEF SameTask, TaskTypes
  <2>2. ASSUME NEW w \in VPage PROVE /\ mem'.pte[u][w].page = mem.pte[u][w].page
                                     /\ mem'.pte[u][w].dirty = mem.pte[u][w].dirty
    BY <1>4 DEF StoredIn, Keeps
  <2>3. mem'.dir[u] = mem.dir[u]
    BY <1>4 DEF StoredIn
  <2> QED
    BY <2>1, <2>2, <2>3 DEF SamePages
<1>8. ASSUME disturbed = {}, NEW u \in Task, NEW w \in VPage, u # t \/ w # v
      PROVE  Keeps(mem, mem', u, w)
  <2>1. a.pte[t][v].writable /\ a.map[p] = 1
    BY <1>2, <1>8 DEF Good, OwnWritable, OnlyUser
  <2>2. a.pte[u][w].page # p
    BY <1>1, <1>2, <1>3, <1>8, <2>1, UsersAreCounted
  <2>3. Keeps(a, mem', u, w)
    BY <1>4, <2>2 DEF StoredIn
  <2> QED
    BY <1>8, <2>3, KeepsTwice
<1>9. ASSUME disturbed = {}, NEW u \in Task \ {t} PROVE SameContents(u)
  BY <1>8, <1>9 DEF SameContents, Keeps
<1>10. /\ pc'[t] = "user" /\ status'[t] = "alive" /\ held'[t] = 0 /\ struct'[t] # 0
  BY <1>1, <1>5 DEF TaskTypes, SlotOf
<1>11. Present(mem', t, v)
  BY <1>2, <1>4 DEF StoredIn, Present
<1>12. SlotOf(t)'
  <2>1. HasTable(mem', t, Stack)
    BY <1>1, <1>4, StackIs DEF SlotOf, HasTable, StoredIn
  <2>2. Present(mem', t, Stack)
    <3>1. CASE Stack # v
      BY <1>1, <1>4, <3>1, StackIs, SMTT(40) DEF SlotOf, StoredIn, Present, Keeps
    <3> QED
      BY <1>11, <3>1
  <2> QED
    BY <1>10, <2>1, <2>2 DEF SlotOf
<1>13. ASSUME disturbed = {} PROVE ViewOf(t)'
  <2>1. ASSUME NEW w \in VPage, w # v PROVE Shows(t, w)'
    <3>1. Keeps(mem, mem', t, w)
      BY <1>8, <1>13, <2>1
    <3>2. Shows(t, w)
      BY <1>13 DEF IInv, ViewOf
    <3>3. view'[t][w] = view[t][w] /\ executable'[t] = executable[t]
      BY <1>1, <1>5, <2>1 DEF TaskTypes
    <3> QED
      BY <3>1, <3>2, <3>3, SMTT(40) DEF Shows, Keeps, Present
  <2>2. Shows(t, v)'
    <3>1. view'[t][v] = t
      BY <1>1, <1>5 DEF TaskTypes
    <3>2. mem'.pte[t][v].page = p /\ mem'.val[p] = t /\ mem'.pte[t][v].dirty
      BY <1>4 DEF StoredIn
    <3> QED
      BY <1>11, <3>1, <3>2 DEF Shows
  <2> QED
    BY <1>10, <2>1, <2>2 DEF ViewOf
<1>14. Good(mem, held, struct)'
  BY <1>4, <1>5
<1> QED
  BY <1>5, <1>6, <1>7, <1>9, <1>12, <1>13, <1>14, IInvFrom, {t} \in SUBSET Task

LEMMA WriteStep ==
    ASSUME IInv, NEW t \in Task, NEW v \in VPage, NEW l \in {"user", "restart"},
           WriteFrom(t, v, l)
    PROVE  IInv'
<1>1. status[t] = "alive" /\ pc[t] = l /\ Present(mem, t, v)
  BY DEF WriteFrom, At
<1>2. Good(mem, held, struct) /\ held[t] = 0 /\ mem \in MemType
  BY <1>1 DEF IInv, SlotOf, Good
<1>3. CASE oom(t)
  BY <1>1, <1>2, <1>3, OomStep
<1>4. CASE /\ mem.pte[t][v].writable \/ CanUnWp(mem, t, v)
           /\ mem' = Stored(IF mem.pte[t][v].writable THEN mem
                             ELSE un_wp_page(mem, t, v), t, v)
           /\ Sees(t, v)
           /\ ReturnToUser(t)
           /\ UNCHANGED <<process, held, disturbed>>
  <2>1. CASE mem.pte[t][v].writable
    BY <1>1, <1>2, <1>4, <2>1, KeepsAll, StoreStep
  <2>2. CASE ~mem.pte[t][v].writable
    <3>1. PICK a : a = un_wp_page(mem, t, v)
      OBVIOUS
    <3>2. Good(a, held, struct) /\ Opened(mem, a, t, v)
      BY <1>1, <1>2, <1>4, <2>2, <3>1, OpenedRight
    <3>3. Present(a, t, v)
      BY <3>2 DEF Opened, Present
    <3>4. mem' = Stored(a, t, v)
      BY <1>4, <2>2, <3>1
    <3> QED
      BY <1>1, <1>4, <3>2, <3>3, <3>4, StoreStep DEF Opened
  <2> QED
    BY <2>1, <2>2
<1> QED
  BY <1>3, <1>4 DEF WriteFrom

LEMMA KernelWriteStep ==
    ASSUME IInv, NEW t \in Task, KernelWrite(t)
    PROVE  IInv'
<1>1. status[t] = "alive" /\ pc[t] = "verified"
  BY DEF KernelWrite, At
<1>2. Good(mem, held, struct) /\ Present(mem, t, target[t]) /\ target[t] \in VPage
  BY <1>1 DEF IInv, SlotOf, TaskTypes
<1>3. disturbed # {}
  BY <1>1 DEF IInv, ViewOf
<1> QED
  BY <1>1, <1>2, <1>3, KeepsAll, StoreStep DEF KernelWrite

(***************************************************************************)
(* A page is made writable, and the task is interrupted.                    *)
(***************************************************************************)
LEMMA OpenStep ==
    ASSUME IInv, NEW t \in Task, NEW v \in VPage, NEW l \in {"restart", "verified"},
           At(t, "user"), Present(mem, t, v), Good(mem', held, struct), mem'.dir = mem.dir,
           Present(mem', t, v),
           \A u \in Task, w \in VPage : u # t \/ w # v => Keeps(mem, mem', u, w),
           GoTo(t, l), target' = [target EXCEPT ![t] = v], Disturbs(l),
           UNCHANGED <<process, held, view>>
    PROVE  IInv'
<1>1. TaskTypes /\ SlotOf(t) /\ held \in PageOf /\ status[t] = "alive" /\ pc[t] = "user"
  BY DEF IInv, Good, At
<1>2. /\ UNCHANGED <<status, executable, struct, held, view>>
      /\ pc' = [pc EXCEPT ![t] = l] /\ disturbed' = disturbed \cup {l}
  BY DEF process, GoTo, Disturbs
<1>3. TaskTypes'
  <2>1. /\ pc' \in [Task -> {"user", "bread_page", "restart", "verified", "close"}]
        /\ target' \in [Task -> VPage] /\ disturbed' \subseteq {"restart", "verified", "close"}
    BY <1>1, <1>2 DEF TaskTypes
  <2> QED
    BY <1>1, <1>2, <2>1 DEF TaskTypes
<1>4. ASSUME NEW u \in Task \ {t} PROVE SameTask(u) /\ SamePages(u)
  <2>1. SameTask(u)
    BY <1>1, <1>2 DEF SameTask, TaskTypes
  <2> QED
    BY <2>1, KeptPages
<1>5. pc'[t] = l /\ target'[t] = v /\ held'[t] = 0
  BY <1>1, <1>2 DEF TaskTypes, SlotOf
<1>6. SlotOf(t)'
  <2>1. HasTable(mem', t, Stack)
    BY <1>1, StackIs DEF SlotOf, HasTable
  <2>2. Present(mem', t, Stack)
    <3>1. CASE Stack # v
      BY <1>1, <3>1, StackIs DEF SlotOf, Present, Keeps
    <3> QED
      BY <3>1
  <2> QED
    BY <1>1, <1>2, <1>5, <2>1, <2>2 DEF SlotOf
<1>7. disturbed' # {}
  BY <1>2
<1>8. Good(mem, held, struct)'
  BY <1>2
<1> QED
  BY <1>3, <1>4, <1>6, <1>7, <1>8, IInvFrom, {t} \in SUBSET Task

LEMMA WpFaultStep ==
    ASSUME IInv, NEW t \in Task, NEW v \in VPage, WpFault(t, v)
    PROVE  IInv'
<1>1. /\ At(t, "user") /\ Present(mem, t, v) /\ CanUnWp(mem, t, v)
      /\ mem' = un_wp_page(mem, t, v)
  BY DEF WpFault
<1>2. Good(mem', held, struct) /\ Opened(mem, mem', t, v)
  BY <1>1, OpenedRight DEF IInv
<1>3. Present(mem', t, v)
  BY <1>2 DEF Opened, Present
<1> QED
  BY <1>1, <1>2, <1>3, OpenStep DEF WpFault, Opened

LEMMA VerifyAreaStep ==
    ASSUME IInv, NEW t \in Task, NEW v \in VPage, VerifyArea(t, v)
    PROVE  IInv'
<1>1. At(t, "user") /\ Present(mem, t, v)
  BY DEF VerifyArea
<1>2. CASE mem.pte[t][v].writable
  <2>1. mem' = mem
    BY <1>2 DEF VerifyArea
  <2>2. Good(mem', held, struct)
    BY <2>1 DEF IInv
  <2> QED
    BY <1>1, <2>1, <2>2, KeepsAll, OpenStep, ZenonT(60) DEF VerifyArea
<1>3. CASE ~mem.pte[t][v].writable
  <2>1. CanUnWp(mem, t, v) /\ mem' = un_wp_page(mem, t, v)
    BY <1>3 DEF VerifyArea
  <2>2. Good(mem', held, struct) /\ Opened(mem, mem', t, v)
    BY <1>1, <2>1, OpenedRight DEF IInv
  <2>3. Present(mem', t, v)
    BY <2>2 DEF Opened, Present
  <2> QED
    BY <1>1, <2>2, <2>3, OpenStep DEF VerifyArea, Opened
<1> QED
  BY <1>2, <1>3

(***************************************************************************)
(* exit and release                                                         *)
(***************************************************************************)
LEMMA ExitIsRight ==
    ASSUME IInv, NEW t \in Task, Exit(t)
    PROVE  IInv'
<1>1. status[t] = "alive" /\ held[t] = 0
  BY DEF IInv, SlotOf, Exit, At
<1>2. oom(t)
  BY DEF Exit, oom
<1> QED
  BY <1>1, <1>2, OomStep

LEMMA EmptyStays ==
    ASSUME NEW m, NEW n, n \in MemType, OwnWritable(n), NEW u \in Task, Empty(m, u),
           n.dir[u] = m.dir[u], \A w \in VPage : Keeps(m, n, u, w)
    PROVE  Empty(n, u)
<1>1. ASSUME NEW v \in VPage PROVE n.dir[u][v] = 0 /\ n.pte[u][v] = NotPresent
  <2>1. n.dir[u][v] = 0 /\ n.pte[u][v].page = 0 /\ n.pte[u][v].dirty = FALSE
    BY DEF Empty, Keeps, NotPresent
  <2>2. n.pte[u][v] \in Entry
    BY PtePages
  <2>3. n.pte[u][v].writable = FALSE
    BY <2>1, <2>2 DEF OwnWritable, Present, Entry
  <2> QED
    BY <2>1, <2>2, <2>3 DEF NotPresent, Entry
<1> QED
  BY <1>1 DEF Empty

LEMMA ReleaseStep ==
    ASSUME IInv, NEW t \in Task, Release(t)
    PROVE  IInv'
<1>1. /\ status[t] = "zombie" /\ mem' = free_page(mem, struct[t])
      /\ struct' = [struct EXCEPT ![t] = 0] /\ status' = [status EXCEPT ![t] = "unused"]
      /\ UNCHANGED <<executable, pc, target, held, view, disturbed>>
  BY DEF Release
<1>2. /\ TaskTypes /\ Good(mem, held, struct) /\ SlotOf(t) /\ struct \in PageOf
  BY DEF IInv, Good
<1>3. struct[t] # 0 /\ pc[t] = "user" /\ held[t] = 0 /\ Empty(mem, t)
  BY <1>1, <1>2 DEF SlotOf
<1>4. /\ Good(mem', held, struct') /\ mem'.dir = mem.dir
      /\ \A u \in Task, w \in VPage : Keeps(mem, mem', u, w)
  <2>1. Good(mem, struct, held)
    BY <1>2, GoodSwap
  <2>2. /\ Good(mem', struct', held) /\ mem'.dir = mem.dir
        /\ \A u \in Task, w \in VPage : Keeps(mem, mem', u, w)
    BY <1>1, <1>3, <2>1, FreeRight
  <2> QED
    BY <2>2, GoodSwap
<1>5. TaskTypes'
  BY <1>1, <1>2 DEF TaskTypes
<1>6. ASSUME NEW u \in Task \ {t} PROVE SameTask(u) /\ SamePages(u) /\ SameContents(u)
  <2>1. SameTask(u)
    BY <1>1, <1>2 DEF SameTask, TaskTypes, PageOf
  <2> QED
    BY <1>4, <2>1, KeptPages
<1>7. Empty(mem', t)
  BY <1>3, <1>4, EmptyStays DEF Good
<1>8. status'[t] = "unused" /\ struct'[t] = 0 /\ pc'[t] = "user" /\ held'[t] = 0
  BY <1>1, <1>2, <1>3 DEF TaskTypes, PageOf
<1>9. SlotOf(t)'
  BY <1>7, <1>8 DEF SlotOf
<1>10. ViewOf(t)'
  BY <1>8 DEF ViewOf
<1>11. Good(mem, held, struct)'
  BY <1>1, <1>4
<1> QED
  BY <1>1, <1>5, <1>6, <1>9, <1>10, <1>11, IInvFrom, {t} \in SUBSET Task

(***************************************************************************)
(* fork                                                                     *)
(***************************************************************************)
LEMMA ForkStep ==
    ASSUME IInv, NEW t \in Task, Fork(t)
    PROVE  IInv'
<1>1. /\ At(t, "user") /\ Unused # {} /\ FreePages(mem) # {}
      /\ UNCHANGED <<pc, target, held, disturbed>>
  BY DEF Fork
<1>2. /\ TaskTypes /\ Good(mem, held, struct) /\ SlotOf(t) /\ struct \in PageOf
      /\ mem \in MemType /\ status[t] = "alive" /\ held \in PageOf
  BY <1>1 DEF IInv, Good, At
<1>3. PICK c : c = Min(Unused)
  OBVIOUS
<1>4. c \in Task /\ status[c] = "unused" /\ c # t
  <2>1. Unused \subseteq Nat
    BY PagingAssumption DEF Unused
  <2>2. c \in Unused
    BY <1>1, <1>3, <2>1, MinIsIn
  <2> QED
    BY <1>2, <2>2 DEF Unused
<1>5. Empty(mem, c) /\ struct[c] = 0 /\ pc[c] = "user" /\ held[c] = 0
  BY <1>4 DEF IInv, SlotOf
<1>6. PICK a, q, s : a = GetFreePage(mem) /\ q = NewPage(mem) /\ s = [struct EXCEPT ![c] = q]
  OBVIOUS
<1>7. q \in Page /\ q # 0 /\ SetMap(mem, a, q, 1)
  BY <1>1, <1>2, <1>6, GetIs DEF Page
<1>8. /\ Good(a, s, held) /\ a.dir = mem.dir
      /\ \A u \in Task, w \in VPage : Keeps(mem, a, u, w)
  <2>1. Good(mem, struct, held)
    BY <1>2, GoodSwap
  <2> QED
    BY <1>1, <1>4, <1>5, <1>6, <2>1, GetRight
<1>9. s[c] = q /\ [s EXCEPT ![c] = 0] = struct
  <2>1. s[c] = q
    BY <1>2, <1>4, <1>6 DEF PageOf
  <2>2. [s EXCEPT ![c] = 0] = struct
    BY <1>2, <1>4, <1>5, <1>6, Zenon DEF PageOf
  <2> QED
    BY <2>1, <2>2
<1>10. CASE CanCopy(a, t)
  <2>1. /\ mem' = copy_page_tables(a, t, c) /\ struct' = s
        /\ status' = [status EXCEPT ![c] = "alive"]
        /\ executable' = [executable EXCEPT ![c] = executable[t]]
        /\ view' = [view EXCEPT ![c] = view[t]]
    BY <1>3, <1>6, <1>10 DEF Fork
  <2>2. /\ Good(mem', held, struct') /\ CopiedTo(a, mem', t, c)
    <3>1. Good(a, held, s)
      BY <1>8, GoodSwap
    <3>2. \A v \in VPage : a.dir[c][v] = 0 /\ a.pte[c][v] = NotPresent
      BY <1>5, <1>7 DEF Empty, SetMap
    <3> QED
      BY <1>4, <1>10, <2>1, <3>1, <3>2, CopyRight
  <2>3. TaskTypes'
    <3>1. /\ status' \in [Task -> {"unused", "alive", "zombie"}]
          /\ executable' \in [Task -> Exe \cup {0}]
          /\ view' \in [Task -> [VPage -> {0} \cup Task \cup Exe]]
      BY <1>2, <2>1 DEF TaskTypes
    <3> QED
      BY <1>1, <1>2, <3>1 DEF TaskTypes
  <2>4. ASSUME NEW u \in Task \ {c} PROVE SameTask(u) /\ SamePages(u) /\ SameContents(u)
    <3>1. SameTask(u)
      BY <1>1, <1>2, <1>6, <2>1 DEF SameTask, TaskTypes, PageOf
    <3>2. mem'.dir[u] = mem.dir[u]
      BY <1>8, <2>2 DEF CopiedTo
    <3>3. \A w \in VPage : Keeps(mem, mem', u, w)
      BY <1>8, <2>2, KeepsTwice DEF CopiedTo
    <3> QED
      BY <3>1, <3>2, <3>3, KeptPages
  <2>5. /\ status'[c] = "alive" /\ struct'[c] = q /\ executable'[c] = executable[t]
        /\ view'[c] = view[t] /\ pc'[c] = "user" /\ held'[c] = 0
    BY <1>1, <1>2, <1>4, <1>5, <1>9, <2>1 DEF TaskTypes
  <2>6. ASSUME NEW v \in VPage
        PROVE  /\ mem'.pte[c][v].page = mem.pte[t][v].page
               /\ mem'.pte[c][v].dirty = mem.pte[t][v].dirty
               /\ Present(mem, t, v) =>
                    mem'.val[mem.pte[t][v].page] = mem.val[mem.pte[t][v].page]
               /\ HasTable(mem, t, v) => HasTable(mem', c, v)
    BY <1>8, <2>2 DEF CopiedTo, Keeps
  <2>7. SlotOf(c)'
    <3>1. Present(mem', c, Stack) /\ HasTable(mem', c, Stack)
      BY <1>2, <2>6, StackIs DEF SlotOf, Present
    <3> QED
      BY <1>7, <2>5, <3>1 DEF SlotOf
  <2>8. ASSUME disturbed = {} PROVE ViewOf(c)'
    <3>1. ASSUME NEW v \in VPage PROVE Shows(c, v)'
      <4>1. Shows(t, v)
        BY <1>2, <2>8 DEF IInv, ViewOf
      <4> QED
        BY <2>5, <2>6, <4>1 DEF Shows, Present
    <3> QED
      BY <2>5, <3>1 DEF ViewOf
  <2>9. Good(mem, held, struct)'
    BY <1>1, <2>2
  <2> QED
    BY <1>1, <1>4, <2>3, <2>4, <2>7, <2>8, <2>9, IInvFrom, {c} \in SUBSET Task
<1>11. CASE ~CanCopy(a, t)
  <2>1. /\ mem' = copy_page_tables_fails(free_page(a, q), t)
        /\ UNCHANGED <<process, view>>
    BY <1>3, <1>6, <1>11 DEF Fork
  <2>2. PICK b : b = free_page(a, q)
    OBVIOUS
  <2>3. /\ Good(b, struct, held) /\ b.dir = a.dir
        /\ \A u \in Task, w \in VPage : Keeps(a, b, u, w)
    BY <1>4, <1>7, <1>8, <1>9, <2>2, FreeRight
  <2>4. Good(b, held, struct)
    BY <2>3, GoodSwap
  <2>5. /\ Good(mem', held, struct) /\ mem'.dir = b.dir
        /\ \A u \in Task, w \in VPage : Keeps(b, mem', u, w)
    BY <2>1, <2>2, <2>4, CopyFailsRight
  <2>6. TaskTypes'
    BY <1>1, <1>2, <2>1 DEF TaskTypes, process
  <2>7. ASSUME NEW u \in Task PROVE SameTask(u) /\ SamePages(u) /\ SameContents(u)
    <3>1. SameTask(u)
      BY <1>1, <2>1 DEF SameTask, process
    <3>2. mem'.dir[u] = mem.dir[u]
      BY <1>8, <2>3, <2>5
    <3>3. \A w \in VPage : Keeps(mem, mem', u, w)
      BY <1>8, <2>3, <2>5, KeepsTwice
    <3> QED
      BY <3>1, <3>2, <3>3, KeptPages
  <2>8. Good(mem, held, struct)' /\ disturbed' = disturbed
    BY <1>1, <2>1, <2>5 DEF process
  <2> QED
    BY <2>6, <2>7, <2>8, IInvFrom, {} \in SUBSET Task
<1> QED
  BY <1>10, <1>11

(***************************************************************************)
(* exec: the stack had a page table, so when the old pages are freed there  *)
(* is one for the new stack.                                                *)
(***************************************************************************)
ImageOf(m, n, t) ==
    /\ Present(n, t, Stack) /\ HasTable(n, t, Stack) /\ n.val[n.pte[t][Stack].page] = t
    /\ \A w \in VPage : w # Stack => ~Present(n, t, w)
    /\ \A u \in Task : u # t => n.dir[u] = m.dir[u]
    /\ \A u \in Task, w \in VPage : u # t => Keeps(m, n, u, w)

LEMMA ImageRight ==
    ASSUME NEW m, NEW h, NEW s, Good(m, h, s), NEW t \in Task, h[t] # 0,
           HasTable(m, t, Stack)
    PROVE  /\ Good(NewImage(m, t, h[t]), [h EXCEPT ![t] = 0], s)
           /\ ImageOf(m, NewImage(m, t, h[t]), t)
<1>1. PICK p, f : p = h[t] /\ f = free_page_tables(m, t)
  OBVIOUS
<1>2. Good(f, h, s) /\ Emptied(m, f, t)
  BY <1>1, FreeTablesRight
<1>3. CanTable(f, t, Stack)
  BY <1>2, StackIs DEF Emptied, CanTable
<1>4. p \in Page /\ f.map[p] = 1 /\ p # 0
  BY <1>1, <1>2, UsersOfGood
<1>5. PICK b, n, x : /\ b = WithTable(f, t, Stack) /\ n = [b EXCEPT !.pte[t][Stack] = PageOr7(p)]
                     /\ x = [n EXCEPT !.val[p] = t]
  OBVIOUS
<1>6. x = NewImage(m, t, h[t])
  BY <1>1, <1>3, <1>5 DEF NewImage, put_page
<1>7. /\ Good(b, h, s) /\ HasTable(b, t, Stack) /\ b.pte = f.pte /\ b.val = f.val
      /\ \A u \in Task : u # t => b.dir[u] = f.dir[u]
      /\ \A u \in Task, w \in VPage : Keeps(f, b, u, w)
      /\ b.map[p] = 1
  BY <1>2, <1>3, <1>4, <1>5, StackIs, TableRight
<1>8. \A w \in VPage : ~Present(f, t, w) /\ ~Present(b, t, w)
  BY <1>2, <1>7 DEF Emptied, Present, NotPresent
<1>9. /\ Good(n, [h EXCEPT ![t] = 0], s) /\ SetPte(b, n, t, Stack, PageOr7(p))
      /\ \A u \in Task, w \in VPage : u # t \/ w # Stack => Keeps(b, n, u, w)
  <2>1. n = [b EXCEPT !.pte[t][Stack] = PageOr7(h[t])]
    BY <1>1, <1>5
  <2>2. /\ Good(n, [h EXCEPT ![t] = 0], s) /\ SetPte(b, n, t, Stack, PageOr7(h[t]))
        /\ \A u \in Task, w \in VPage : u # t \/ w # Stack => Keeps(b, n, u, w)
    BY <1>7, <1>8, <2>1, StackIs, PutRight
  <2> QED
    BY <1>1, <2>2
<1>10. n.map[p] # 0
  BY <1>7, <1>9 DEF SetPte
<1>11. Good(x, [h EXCEPT ![t] = 0], s) /\ SetVal(n, x, p, t)
  BY <1>4, <1>5, <1>9, <1>10, ValRight
<1>12. ASSUME NEW u \in Task, NEW w \in VPage, u # t PROVE Keeps(m, x, u, w)
  <2>1. Keeps(m, f, u, w)
    BY <1>2, <1>12 DEF Emptied
  <2>2. Keeps(f, n, u, w)
    BY <1>7, <1>9, <1>12, KeepsTwice
  <2>3. Keeps(m, n, u, w)
    BY <2>1, <2>2, KeepsTwice
  <2>4. m.pte[u][w].page # p
    <3>1. TaskUses(h, p)
      BY <1>1 DEF TaskUses
    <3>2. ~PteUses(f, p)
      BY <1>2, <1>4, <3>1, UsersAreCounted DEF Good
    <3> QED
      BY <2>1, <3>2 DEF PteUses, Keeps
  <2>5. m.pte[u][w].page \in 0 .. NR_PAGES
    BY PtePages DEF Good
  <2> QED
    BY <1>11, <2>3, <2>4, <2>5 DEF Keeps, SetVal, HasTable, Present, Page
<1>13. /\ Present(x, t, Stack) /\ HasTable(x, t, Stack) /\ x.val[x.pte[t][Stack].page] = t
  BY <1>4, <1>7, <1>9, <1>11 DEF SetPte, SetVal, Present, HasTable, PageOr7
<1>14. \A w \in VPage : w # Stack => ~Present(x, t, w)
  BY <1>8, <1>9, <1>11, StackIs DEF SetPte, SetVal, Present
<1>15. \A u \in Task : u # t => x.dir[u] = m.dir[u]
  BY <1>2, <1>7, <1>9, <1>11 DEF Emptied, SetPte, SetVal
<1>16. ImageOf(m, x, t)
  BY <1>12, <1>13, <1>14, <1>15 DEF ImageOf
<1> QED
  BY <1>6, <1>11, <1>16

LEMMA ImageStep ==
    ASSUME IInv, NEW t \in Task, status[t] = "alive",
           NEW m, m.dir = mem.dir, \A u \in Task, w \in VPage : Keeps(mem, m, u, w),
           Good(mem', held', struct), ImageOf(m, mem', t),
           held'[t] = 0, \A u \in Task : u # t => held'[u] = held[u],
           NEW e \in Exe \cup {0}, executable' = [executable EXCEPT ![t] = e],
           view' = [view EXCEPT ![t] = NewView(t, e)],
           pc' = [pc EXCEPT ![t] = "user"],
           UNCHANGED <<status, struct, target, disturbed>>
    PROVE  IInv'
<1>1. TaskTypes /\ SlotOf(t)
  BY DEF IInv
<1>2. TaskTypes'
  <2>1. NewView(t, e) \in [VPage -> {0} \cup Task \cup Exe]
    BY DEF NewView
  <2>2. view' \in [Task -> [VPage -> {0} \cup Task \cup Exe]]
    BY <1>1, <2>1 DEF TaskTypes
  <2>3. /\ pc' \in [Task -> {"user", "bread_page", "restart", "verified", "close"}]
        /\ executable' \in [Task -> Exe \cup {0}]
    BY <1>1 DEF TaskTypes
  <2> QED
    BY <1>1, <2>2, <2>3 DEF TaskTypes
<1>3. ASSUME NEW u \in Task \ {t} PROVE SameTask(u) /\ SamePages(u) /\ SameContents(u)
  <2>1. SameTask(u)
    BY <1>1 DEF SameTask, TaskTypes
  <2>2. mem'.dir[u] = mem.dir[u]
    BY DEF ImageOf
  <2>3. \A w \in VPage : Keeps(mem, mem', u, w)
    BY KeepsTwice DEF ImageOf
  <2> QED
    BY <2>1, <2>2, <2>3, KeptPages
<1>4. /\ pc'[t] = "user" /\ status'[t] = "alive" /\ executable'[t] = e
      /\ view'[t] = NewView(t, e) /\ struct'[t] = struct[t]
  BY <1>1 DEF TaskTypes
<1>5. SlotOf(t)'
  BY <1>1, <1>4 DEF SlotOf, ImageOf
<1>6. ViewOf(t)'
  <2>1. ASSUME NEW w \in VPage PROVE Shows(t, w)'
    <3>1. CASE w = Stack
      BY <1>4, <3>1, StackIs DEF Shows, ImageOf, NewView
    <3>2. CASE w # Stack
      BY <1>4, <3>2 DEF Shows, ImageOf, NewView
    <3> QED
      BY <3>1, <3>2
  <2> QED
    BY <1>4, <2>1 DEF ViewOf
<1>7. Good(mem, held, struct)'
  OBVIOUS
<1> QED
  BY <1>2, <1>3, <1>5, <1>6, <1>7, IInvFrom, {t} \in SUBSET Task

LEMMA ExecStep ==
    ASSUME IInv, NEW t \in Task, NEW e \in Exe, Exec(t, e)
    PROVE  IInv'
<1>1. /\ status[t] = "alive" /\ pc[t] = "user" /\ FreePages(mem) # {}
      /\ executable' = [executable EXCEPT ![t] = e]
      /\ mem' = NewImage(GetFreePage(mem), t, NewPage(mem))
      /\ view' = [view EXCEPT ![t] = NewView(t, e)]
      /\ UNCHANGED <<status, struct, pc, target, held, disturbed>>
  BY DEF Exec, At
<1>2. /\ TaskTypes /\ Good(mem, held, struct) /\ SlotOf(t) /\ held[t] = 0
      /\ mem \in MemType /\ held \in PageOf
  BY <1>1 DEF IInv, SlotOf, Good
<1>3. PICK a, q, k : a = GetFreePage(mem) /\ q = NewPage(mem) /\ k = [held EXCEPT ![t] = q]
  OBVIOUS
<1>4. q \in Page /\ q # 0
  BY <1>1, <1>2, <1>3, GetIs DEF Page
<1>5. /\ Good(a, k, struct) /\ a.dir = mem.dir
      /\ \A u \in Task, w \in VPage : Keeps(mem, a, u, w)
  BY <1>1, <1>2, <1>3, GetRight
<1>6. k[t] = q /\ [k EXCEPT ![t] = 0] = held
  <2>1. k[t] = q
    BY <1>2, <1>3 DEF PageOf
  <2>2. [k EXCEPT ![t] = 0] = held
    BY <1>2, <1>3, Zenon DEF PageOf
  <2> QED
    BY <2>1, <2>2
<1>7. HasTable(a, t, Stack)
  BY <1>1, <1>2, <1>5 DEF SlotOf, HasTable
<1>8. Good(mem', held, struct) /\ ImageOf(a, mem', t)
  <2>1. mem' = NewImage(a, t, k[t])
    BY <1>1, <1>3, <1>6
  <2>2. Good(mem', [k EXCEPT ![t] = 0], struct) /\ ImageOf(a, mem', t)
    BY <1>4, <1>5, <1>6, <1>7, <2>1, ImageRight
  <2> QED
    BY <1>6, <2>2
<1>9. pc' = [pc EXCEPT ![t] = "user"]
  BY <1>1, <1>2, Zenon DEF TaskTypes
<1>10. Good(mem', held', struct) /\ held'[t] = 0 /\ e \in Exe \cup {0}
  BY <1>1, <1>2, <1>8
<1> QED
  BY <1>1, <1>5, <1>8, <1>9, <1>10, ImageStep

LEMMA ExecGoesOnStep ==
    ASSUME IInv, NEW t \in Task, ExecGoesOn(t)
    PROVE  IInv'
<1>1. /\ status[t] = "alive" /\ pc[t] = "close"
      /\ mem' = NewImage(mem, t, held[t]) /\ held' = [held EXCEPT ![t] = 0]
      /\ view' = [view EXCEPT ![t] = NewView(t, executable[t])]
      /\ pc' = [pc EXCEPT ![t] = "user"]
      /\ UNCHANGED <<status, executable, struct, target, disturbed>>
  BY DEF ExecGoesOn, At, GoTo, process
<1>2. /\ TaskTypes /\ Good(mem, held, struct) /\ held[t] # 0 /\ HasTable(mem, t, Stack)
      /\ held \in PageOf
  BY <1>1 DEF IInv, SlotOf, Good
<1>3. Good(mem', held', struct) /\ ImageOf(mem, mem', t)
  BY <1>1, <1>2, ImageRight
<1>4. PICK e : e = executable[t]
  OBVIOUS
<1>5. e \in Exe \cup {0} /\ executable' = [executable EXCEPT ![t] = e]
  <2>1. e \in Exe \cup {0}
    BY <1>2, <1>4 DEF TaskTypes
  <2>2. executable' = [executable EXCEPT ![t] = e]
    BY <1>1, <1>2, <1>4, Zenon DEF TaskTypes
  <2> QED
    BY <2>1, <2>2
<1>6. held'[t] = 0 /\ \A u \in Task : u # t => held'[u] = held[u]
  BY <1>1, <1>2 DEF PageOf
<1>7. view' = [view EXCEPT ![t] = NewView(t, e)]
  BY <1>1, <1>4
<1> QED
  BY <1>1, <1>3, <1>5, <1>6, <1>7, KeepsAll, ImageStep

LEMMA ExecClosesStep ==
    ASSUME IInv, NEW t \in Task, NEW e \in Exe, ExecCloses(t, e)
    PROVE  IInv'
<1>1. /\ status[t] = "alive" /\ pc[t] = "user" /\ FreePages(mem) # {}
      /\ executable' = [executable EXCEPT ![t] = e]
      /\ mem' = GetFreePage(mem) /\ held' = [held EXCEPT ![t] = NewPage(mem)]
      /\ pc' = [pc EXCEPT ![t] = "close"] /\ disturbed' = disturbed \cup {"close"}
      /\ UNCHANGED <<status, struct, target, view>>
  BY DEF ExecCloses, At, GoTo, Disturbs
<1>2. /\ TaskTypes /\ Good(mem, held, struct) /\ SlotOf(t) /\ held[t] = 0
      /\ mem \in MemType /\ held \in PageOf
  BY <1>1 DEF IInv, SlotOf, Good
<1>3. /\ Good(mem', held', struct) /\ mem'.dir = mem.dir
      /\ \A u \in Task, w \in VPage : Keeps(mem, mem', u, w)
  BY <1>1, <1>2, GetRight
<1>4. TaskTypes'
  <2>1. /\ pc' \in [Task -> {"user", "bread_page", "restart", "verified", "close"}]
        /\ executable' \in [Task -> Exe \cup {0}]
        /\ disturbed' \subseteq {"restart", "verified", "close"}
    BY <1>1, <1>2 DEF TaskTypes
  <2> QED
    BY <1>1, <1>2, <2>1 DEF TaskTypes
<1>5. ASSUME NEW u \in Task \ {t} PROVE SameTask(u) /\ SamePages(u)
  <2>1. SameTask(u)
    BY <1>1, <1>2 DEF SameTask, TaskTypes, PageOf
  <2> QED
    BY <1>3, <2>1, KeptPages
<1>6. held'[t] # 0
  <2>1. NewPage(mem) \in Page /\ held'[t] = NewPage(mem)
    BY <1>1, <1>2, GetIs DEF PageOf
  <2> QED
    BY <2>1 DEF Page
<1>7. SlotOf(t)'
  <2>1. Present(mem', t, Stack) /\ HasTable(mem', t, Stack)
    BY <1>1, <1>2, <1>3, StackIs, StackStays
  <2>2. pc'[t] = "close"
    BY <1>1, <1>2 DEF TaskTypes
  <2> QED
    BY <1>1, <1>2, <1>6, <2>1, <2>2 DEF SlotOf
<1>8. Good(mem, held, struct)' /\ disturbed' # {}
  BY <1>1, <1>3
<1> QED
  BY <1>4, <1>5, <1>7, <1>8, IInvFrom, {t} \in SUBSET Task

-----------------------------------------------------------------------------
LEMMA OneUse ==
    ASSUME NEW S, IsFiniteSet(S), NEW f, NEW y \in S, \A x \in S \ {y} : f[x] = 0,
           NEW p \in Page
    PROVE  Uses(S, f, p) = Here(f[y], p)
<1>1. p # 0
  BY DEF Page
<1>2. CASE f[y] = p
  <2>1. {x \in S : f[x] = p} = {y}
    BY <1>1, <1>2
  <2> QED
    BY <1>2, <2>1, FS_Singleton DEF Uses, Here
<1>3. CASE f[y] # p
  <2>1. {x \in S : f[x] = p} = {}
    BY <1>1, <1>3
  <2> QED
    BY <1>3, <2>1, FS_EmptySet DEF Uses, Here
<1> QED
  BY <1>2, <1>3

\* Init, its pages named.
First(t, e, page, table, own) ==
    /\ mem = [map |-> [p \in Page |-> IF p >= own THEN 1 ELSE 0],
              dir |-> [u \in Task |-> [v \in VPage |->
                          IF u = t /\ v = Stack THEN table ELSE 0]],
              pte |-> [u \in Task |-> [v \in VPage |->
                          IF u = t /\ v = Stack THEN PageOr7(page) ELSE NotPresent]],
              val |-> [p \in Page |-> IF p = page THEN t ELSE 0]]
    /\ status = [u \in Task |-> IF u = t THEN "alive" ELSE "unused"]
    /\ executable = [u \in Task |-> IF u = t THEN e ELSE 0]
    /\ pc = [u \in Task |-> "user"]
    /\ target = [u \in Task |-> Stack]
    /\ held = [u \in Task |-> 0]
    /\ struct = [u \in Task |-> IF u = t THEN own ELSE 0]
    /\ view = [u \in Task |-> IF u = t THEN NewView(t, e) ELSE [v \in VPage |-> 0]]
    /\ disturbed = {}

LEMMA IInvInit == Init => IInv
<1> SUFFICES ASSUME Init PROVE IInv
  OBVIOUS
<1>1. PICK t : t = Min(Task)
  OBVIOUS
<1>2. t \in Task
  BY <1>1, MinIsIn, PagingAssumption, MemoryAssumption
<1>3. PICK page, table, own : page = NR_PAGES /\ table = NR_PAGES - 1 /\ own = NR_PAGES - 2
  OBVIOUS
<1>4. /\ page \in Page /\ table \in Page /\ own \in Page
      /\ page = own + 2 /\ table = own + 1 /\ page # 0 /\ table # 0 /\ own # 0
  BY <1>3, MemoryAssumption, PagingAssumption DEF Page
<1>5. PICK e \in Exe : First(t, e, page, table, own)
  BY <1>1, <1>3 DEF Init, First
<1>6. PageOr7(page) \in Entry /\ NotPresent \in Entry
  <2>1. page \in 0 .. NR_PAGES
    BY <1>4 DEF Page
  <2> QED
    BY <2>1, EntryTypes
<1>7. /\ \A p \in Page : mem.map[p] = IF p >= own THEN 1 ELSE 0
      /\ \A p \in Page : mem.val[p] = IF p = page THEN t ELSE 0
      /\ \A u \in Task, v \in VPage :
            /\ mem.dir[u][v] = IF u = t /\ v = Stack THEN table ELSE 0
            /\ mem.pte[u][v] = IF u = t /\ v = Stack THEN PageOr7(page) ELSE NotPresent
  BY <1>5 DEF First
<1>8. mem \in MemType
  <2>1. [p \in Page |-> IF p >= own THEN 1 ELSE 0] \in [Page -> Nat]
    OBVIOUS
  <2>2. [u \in Task |-> [v \in VPage |-> IF u = t /\ v = Stack THEN table ELSE 0]]
            \in [Task -> [VPage -> 0 .. NR_PAGES]]
    BY <1>4, PagingAssumption DEF Page
  <2>3. [u \in Task |-> [v \in VPage |->
            IF u = t /\ v = Stack THEN PageOr7(page) ELSE NotPresent]]
            \in [Task -> [VPage -> Entry]]
    BY <1>6
  <2>4. [p \in Page |-> IF p = page THEN t ELSE 0] \in [Page -> {0} \cup Task \cup Exe]
    BY <1>2
  <2> QED
    BY <1>5, <2>1, <2>2, <2>3, <2>4 DEF First, MemType
<1>9. held \in PageOf /\ struct \in PageOf
  BY <1>4, <1>5, PagingAssumption DEF First, PageOf, Page
<1>10. TaskTypes
  <2>1. status \in [Task -> {"unused", "alive", "zombie"}]
    BY <1>5 DEF First
  <2>2. executable \in [Task -> Exe \cup {0}]
    BY <1>5 DEF First
  <2>3. /\ pc \in [Task -> {"user", "bread_page", "restart", "verified", "close"}]
        /\ target \in [Task -> VPage] /\ disturbed \subseteq {"restart", "verified", "close"}
    BY <1>5, StackIs DEF First
  <2>4. NewView(t, e) \in [VPage -> {0} \cup Task \cup Exe]
    BY <1>2 DEF NewView
  <2>5. [v \in VPage |-> 0] \in [VPage -> {0} \cup Task \cup Exe]
    OBVIOUS
  <2>6. view \in [Task -> [VPage -> {0} \cup Task \cup Exe]]
    BY <1>5, <2>4, <2>5 DEF First
  <2> QED
    BY <2>1, <2>2, <2>3, <2>6 DEF TaskTypes
<1>11. Counted(mem, held, struct)
  <2>1. ASSUME NEW p \in Page
        PROVE  mem.map[p] = Uses(Pairs, PteOf(mem), p) + Uses(Pairs, DirOf(mem), p)
                          + Uses(Task, held, p) + Uses(Task, struct, p)
    <3>1. PICK y : y = <<t, Stack>>
      OBVIOUS
    <3>2. y \in Pairs /\ IsFiniteSet(Pairs) /\ IsFiniteSet(Task)
      BY <1>2, <3>1, StackIs, PairsAreFinite DEF Pairs
    <3>3. Uses(Pairs, PteOf(mem), p) = Here(page, p)
      <4>1. PICK f : f = PteOf(mem)
        OBVIOUS
      <4>2. \A x \in Pairs \ {y} : f[x] = 0
        BY <1>7, <3>1, <4>1 DEF PteOf, Pairs, NotPresent
      <4>3. f[y] = page
        BY <1>7, <3>1, <3>2, <4>1 DEF PteOf, Pairs, PageOr7
      <4> QED
        BY <3>2, <4>1, <4>2, <4>3, OneUse
    <3>4. Uses(Pairs, DirOf(mem), p) = Here(table, p)
      <4>1. PICK f : f = DirOf(mem)
        OBVIOUS
      <4>2. \A x \in Pairs \ {y} : f[x] = 0
        BY <1>7, <3>1, <4>1 DEF DirOf, Pairs
      <4>3. f[y] = table
        BY <1>7, <3>1, <3>2, <4>1 DEF DirOf, Pairs
      <4> QED
        BY <3>2, <4>1, <4>2, <4>3, OneUse
    <3>5. Uses(Task, held, p) = 0
      <4>1. \A u \in Task : held[u] = 0
        BY <1>5 DEF First
      <4>2. Uses(Task, held, p) = Here(held[t], p)
        BY <1>2, <3>2, <4>1, OneUse
      <4> QED
        BY <1>2, <4>1, <4>2, HereZero
    <3>6. Uses(Task, struct, p) = Here(own, p)
      <4>1. struct[t] = own /\ \A u \in Task \ {t} : struct[u] = 0
        BY <1>2, <1>5 DEF First
      <4> QED
        BY <1>2, <3>2, <4>1, OneUse
    <3>7. mem.map[p] = Here(page, p) + Here(table, p) + 0 + Here(own, p)
      <4>1. p \in Int /\ page \in Int /\ own \in Int /\ p <= page
        BY <1>3, PagingAssumption DEF Page
      <4> QED
        BY <1>4, <1>7, <4>1 DEF Here
    <3> QED
      BY <3>3, <3>4, <3>5, <3>6, <3>7
  <2> QED
    BY <2>1 DEF Counted
<1>12. Private(mem, held, struct)
  <2>1. ASSUME NEW p \in Page, DirUses(mem, p) \/ TaskUses(held, p) \/ TaskUses(struct, p)
        PROVE  mem.map[p] = 1
    <3>1. p # 0 /\ own \in Int
      BY <1>4 DEF Page
    <3>2. ~TaskUses(held, p)
      BY <1>5, <3>1 DEF First, TaskUses
    <3>3. TaskUses(struct, p) => p = own
      BY <1>5, <3>1 DEF First, TaskUses
    <3>4. DirUses(mem, p) => p = table
      BY <1>7, <3>1 DEF DirUses
    <3> QED
      BY <1>4, <1>7, <2>1, <3>1, <3>2, <3>3, <3>4
  <2> QED
    BY <2>1 DEF Private
<1>13. FreeIsClear(mem)
  <2>1. page >= own
    BY <1>4 DEF Page
  <2> QED
    BY <1>4, <1>7, <2>1 DEF FreeIsClear
<1>14. OwnWritable(mem)
  <2>1. mem.map[page] = 1
    <3>1. page >= own
      BY <1>4 DEF Page
    <3> QED
      BY <1>4, <1>7, <3>1
  <2>2. ASSUME NEW u \in Task, NEW v \in VPage, mem.pte[u][v].writable
        PROVE  mem.pte[u][v].page = page
    BY <1>7, <2>2 DEF NotPresent, PageOr7
  <2> QED
    BY <1>4, <2>1, <2>2 DEF OwnWritable, OnlyUser, Present
<1>15. ASSUME NEW u \in Task PROVE SlotOf(u)
  <2>1. CASE u = t
    <3>1. status[u] = "alive" /\ struct[u] = own /\ held[u] = 0 /\ pc[u] = "user"
      BY <1>2, <1>5, <2>1 DEF First
    <3>2. Present(mem, u, Stack) /\ HasTable(mem, u, Stack)
      BY <1>2, <1>4, <1>7, <2>1, StackIs DEF Present, HasTable, PageOr7
    <3> QED
      BY <1>4, <3>1, <3>2 DEF SlotOf
  <2>2. CASE u # t
    <3>1. status[u] = "unused" /\ struct[u] = 0 /\ held[u] = 0 /\ pc[u] = "user"
      BY <1>5, <2>2 DEF First
    <3>2. Empty(mem, u)
      BY <1>7, <2>2 DEF Empty
    <3> QED
      BY <3>1, <3>2 DEF SlotOf
  <2> QED
    BY <2>1, <2>2
<1>16. ASSUME NEW u \in Task PROVE ViewOf(u)
  <2>1. pc[u] = "user"
    BY <1>5 DEF First
  <2>2. ASSUME status[u] = "alive", NEW v \in VPage PROVE Shows(u, v)
    <3>1. u = t
      BY <1>5, <2>2 DEF First
    <3>2. view[t] = NewView(t, e) /\ executable[t] = e
      BY <1>2, <1>5 DEF First
    <3>3. CASE v = Stack
      <4>1. mem.pte[t][v].page = page /\ mem.val[page] = t
        BY <1>2, <1>4, <1>7, <3>3, StackIs DEF PageOr7
      <4>2. view[t][v] = t /\ v \notin Text
        BY <3>2, <3>3, StackIs DEF NewView
      <4> QED
        BY <1>4, <3>1, <4>1, <4>2 DEF Shows, Present
    <3>4. CASE v # Stack
      <4>1. ~Present(mem, t, v)
        BY <1>2, <1>7, <3>4 DEF Present, NotPresent
      <4>2. view[t][v] = IF v \in Text THEN e ELSE 0
        BY <3>2, <3>4 DEF NewView
      <4> QED
        BY <3>1, <3>2, <4>1, <4>2 DEF Shows
    <3> QED
      BY <3>3, <3>4
  <2> QED
    BY <2>1, <2>2 DEF ViewOf
<1>17. Good(mem, held, struct)
  BY <1>8, <1>9, <1>11, <1>12, <1>13, <1>14 DEF Good
<1> QED
  BY <1>10, <1>15, <1>16, <1>17 DEF IInv

LEMMA IInvNext == IInv /\ [Next]_vars => IInv'
<1> SUFFICES ASSUME IInv, [Next]_vars PROVE IInv'
  OBVIOUS
<1>1. CASE UNCHANGED vars
  <2>1. TaskTypes' /\ Good(mem, held, struct)'
    BY <1>1 DEF vars, IInv, TaskTypes
  <2>2. ASSUME NEW u \in Task PROVE SlotOf(u)' /\ (disturbed' = {} => ViewOf(u)')
    <3>1. SlotOf(u)'
      BY <1>1 DEF vars, IInv, SlotOf
    <3>2. disturbed' = {} => ViewOf(u)'
      BY <1>1 DEF vars, IInv, ViewOf, Shows
    <3> QED
      BY <3>1, <3>2
  <2> QED
    BY <2>1, <2>2 DEF IInv
<1>2. CASE Next
  <2>1. PICK t \in Task : Step(t)
    BY <1>2 DEF Next
  <2>2. ASSUME NEW v \in VPage, \/ EmptyPage(t, v) \/ SharePage(t, v) \/ LoadPage(t, v)
                                \/ Write(t, v) \/ WpFault(t, v) \/ VerifyArea(t, v)
        PROVE  IInv'
    BY <2>2, EmptyPageStep, SharePageStep, LoadPageStep, WriteStep, WpFaultStep,
       VerifyAreaStep DEF Write
  <2>3. ASSUME NEW e \in Exe, Exec(t, e) \/ ExecCloses(t, e) PROVE IInv'
    BY <2>3, ExecStep, ExecClosesStep
  <2>4. CASE Restart(t)
    <3>1. target[t] \in VPage
      BY DEF IInv, TaskTypes
    <3> QED
      BY <2>4, <3>1, WriteStep DEF Restart
  <2>5. CASE PageRead(t) \/ KernelWrite(t) \/ Fork(t) \/ Exit(t) \/ Release(t) \/ ExecGoesOn(t)
    BY <2>5, PageReadStep, KernelWriteStep, ForkStep, ExitIsRight, ReleaseStep, ExecGoesOnStep
  <2> QED
    BY <2>1, <2>2, <2>3, <2>4, <2>5 DEF Step
<1> QED
  BY <1>1, <1>2

LEMMA IInvAlways == Spec => []IInv
BY IInvInit, IInvNext, PTL DEF Spec

\* The page tables and the page map stay within their types on every path.
THEOREM TypeCorrect == Spec => []TypeOK
<1>1. IInv => TypeOK
  BY TypeOKIs DEF IInv, Good
<1> QED
  BY <1>1, IInvAlways, PTL

\* mem_map counts exactly the uses of every page, for any number of tasks and
\* pages, and whether or not fork, exec, sharing and copying run out of memory
\* half way: no page is leaked, and none is freed while it is in use.
THEOREM CountsAreRight == Spec => []RefCounts
<1>1. IInv => RefCounts
  BY RefCountsAreUses DEF IInv, Good
<1> QED
  BY <1>1, IInvAlways, PTL

\* A page that a task may write to is mapped by that task's entry alone.
THEOREM WritablePagesAreOwn == Spec => []WritableIsPrivate
<1>1. IInv => WritableIsPrivate
  BY DEF IInv, Good, OwnWritable, WritableIsPrivate
<1> QED
  BY <1>1, IInvAlways, PTL

\* A task finds in its memory what it wrote there, or what it inherited: other
\* tasks with the same pages cannot be noticed, as long as no task has been
\* interrupted between a write fault and its restart, between verify_area and
\* the kernel's write, or while do_execve closes files.
THEOREM TasksAreIsolated == Spec => []Isolation
<1>1. IInv => Isolation
  BY DEF IInv, ViewOf, Shows, Isolation
<1> QED
  BY <1>1, IInvAlways, PTL

=============================================================================
