-------------------------- MODULE PathBrokerProofs --------------------------
(* Proofs about PathBroker: for any policy, any filesystem the run may find, *)
(* and any sequence of requests through any links the workload plants.       *)
EXTENDS PathBroker, FiniteSetTheorems, SequenceTheorems, WellFoundedInduction, TLAPS

(* Induction over the naturals, on sets: of the numbers outside T there      *)
(* would be a least one.                                                     *)
LEMMA SetInduction ==
    ASSUME NEW T, 0 \in T, \A k \in Nat : k \in T => k + 1 \in T
    PROVE  Nat \subseteq T
<1> DEFINE R == OpToRel(<, Nat)
<1> SUFFICES ASSUME Nat \ T # {} PROVE FALSE
  OBVIOUS
<1>1. \A y, x \in Nat : y < x => <<y, x>> \in R
  BY DEF OpToRel
<1>2. IsWellFoundedOn(R, Nat)
  BY NatLessThanWellFounded
<1> HIDE DEF R
<1>3. PICK x \in Nat \ T : \A y \in Nat \ T : ~ (<<y, x>> \in R)
  BY <1>2, WFMin
<1>4. x # 0 /\ x - 1 \in Nat
  OBVIOUS
<1>5. x - 1 \in T
  <2>1. x - 1 < x /\ <<x - 1, x>> \in R
    BY <1>1, <1>4
  <2>2. QED
    BY <1>3, <1>4, <2>1
<1>6. x - 1 + 1 \in T
  BY <1>4, <1>5
<1>7. QED
  BY <1>6

---------------------------------------------------------------------------
(* Walks.                                                                    *)

Kinds == [Nodes -> {"free", "dir", "file", "link"}]
Entries == [Nodes -> [Names -> Nodes \cup {None}]]

(* The directories that the walk of a canonical path passes.                 *)
Walk(k, e, path, node) ==
    /\ node \in [0..Len(path) -> Nodes \cup {None}]
    /\ node[0] = Root
    /\ \A i \in 1..Len(path) : node[i] = DirIn(k, e, node[i - 1], path[i])

(* An entry leads to a node or to none.                                      *)
LEMMA DirInType ==
    ASSUME NEW k \in Kinds, NEW e \in Entries, NEW d \in Nodes \cup {None}, NEW n \in Names
    PROVE  /\ DirIn(k, e, d, n) \in Nodes \cup {None}
           /\ DirIn(k, e, d, n) # None =>
                d \in Nodes /\ e[d][n] = DirIn(k, e, d, n) /\ k[DirIn(k, e, d, n)] = "dir"
BY PathsAssumption DEF DirIn, Entries, Kinds, None

(* Every canonical path has a walk, as long as there are names to look up.   *)
LEMMA WalkExists ==
    ASSUME NEW k \in Kinds, NEW e \in Entries, NEW path \in Seq(Names)
    PROVE  \E node : Walk(k, e, path, node)
<1> DEFINE Upto(n, t) == /\ t \in [0..n -> Nodes \cup {None}] /\ t[0] = Root
                         /\ \A i \in 1..n : t[i] = DirIn(k, e, t[i - 1], path[i])
           T == {n \in Nat : n <= Len(path) => \E t : Upto(n, t)}
<1>0. Len(path) \in Nat /\ \A n \in Nat : n \in T <=> (n <= Len(path) => \E t : Upto(n, t))
  <2> HIDE DEF Upto
  <2> QED OBVIOUS
<1>1. 0 \in T
  <2>1. Upto(0, [i \in 0..0 |-> Root])
    BY PathsAssumption
  <2> HIDE DEF Upto
  <2>2. QED
    BY <1>0, <2>1
<1>2. ASSUME NEW n \in Nat, n \in T, n + 1 <= Len(path) PROVE \E t : Upto(n + 1, t)
  <2>1. PICK t : Upto(n, t)
    <3> HIDE DEF Upto, T
    <3> QED BY <1>0, <1>2
  <2> DEFINE x == DirIn(k, e, t[n], path[n + 1])
             u == [i \in 0..(n + 1) |-> IF i = n + 1 THEN x ELSE t[i]]
  <2>2. path[n + 1] \in Names /\ t[n] \in Nodes \cup {None}
    BY <1>2, <2>1
  <2>3. x \in Nodes \cup {None}
    BY <2>2, DirInType
  <2> HIDE DEF x
  <2>4. u \in [0..(n + 1) -> Nodes \cup {None}] /\ u[0] = Root
    BY <2>1, <2>3
  <2>5. \A i \in 1..n : u[i] = DirIn(k, e, u[i - 1], path[i])
    BY <2>1
  <2>6. u[n + 1] = DirIn(k, e, u[n + 1 - 1], path[n + 1])
    BY <2>1 DEF x
  <2>7. \A i \in 1..(n + 1) : i \in 1..n \/ i = n + 1
    OBVIOUS
  <2> HIDE DEF u
  <2>8. \A i \in 1..(n + 1) : u[i] = DirIn(k, e, u[i - 1], path[i])
    BY <2>5, <2>6, <2>7
  <2>9. Upto(n + 1, u)
    BY <2>4, <2>8
  <2>10. QED
    BY <2>9
<1> HIDE DEF Upto, T
<1>3. \A n \in Nat : n \in T => n + 1 \in T
  BY <1>0, <1>2
<1>4. Nat \subseteq T
  BY <1>1, <1>3, SetInduction
<1>5. PICK t : Upto(Len(path), t)
  BY <1>0, <1>4
<1>6. QED
  BY <1>5 DEF Walk, Upto

(* Two walks of paths that agree up to n agree up to n.                      *)
LEMMA WalksAgree ==
    ASSUME NEW k, NEW e, NEW path \in Seq(Names), NEW other \in Seq(Names),
           NEW t, NEW u, Walk(k, e, path, t), Walk(k, e, other, u),
           NEW n \in Nat, n <= Len(path), n <= Len(other), \A i \in 1..n : path[i] = other[i]
    PROVE  t[n] = u[n]
<1> DEFINE T == {i \in Nat : i <= n => t[i] = u[i]}
<1>1. 0 \in T
  BY DEF Walk
<1>2. \A i \in Nat : i \in T => i + 1 \in T
  <2> SUFFICES ASSUME NEW i \in Nat, i \in T, i + 1 <= n PROVE t[i + 1] = u[i + 1]
    OBVIOUS
  <2>1. i + 1 \in 1..n /\ i + 1 \in 1..Len(path) /\ i + 1 \in 1..Len(other) /\ i + 1 - 1 = i
    OBVIOUS
  <2>2. t[i + 1] = DirIn(k, e, t[i], path[i + 1]) /\ u[i + 1] = DirIn(k, e, u[i], other[i + 1])
    BY <2>1 DEF Walk
  <2>3. QED
    BY <2>1, <2>2
<1>3. Nat \subseteq T
  <2> HIDE DEF T
  <2> QED BY <1>1, <1>2, SetInduction
<1>4. QED
  BY <1>3

(* AtIn is where the walk ends.                                              *)
LEMMA AtWalk ==
    ASSUME NEW k \in Kinds, NEW e \in Entries, NEW path \in Seq(Names),
           NEW t, Walk(k, e, path, t)
    PROVE  AtIn(k, e, path) = t[Len(path)]
<1> DEFINE D(v) == v = [i \in 0..Len(path) |->
                          IF i = 0 THEN Root ELSE DirIn(k, e, v[i - 1], path[i])]
<1>1. D(t)
  <2>1. t = [i \in 0..Len(path) |-> t[i]]
    BY DEF Walk
  <2>2. \A i \in 0..Len(path) : t[i] = IF i = 0 THEN Root ELSE DirIn(k, e, t[i - 1], path[i])
    BY DEF Walk
  <2>3. QED
    BY <2>1, <2>2
<1>2. ASSUME NEW v, D(v) PROVE v = t
  <2> DEFINE T == {i \in Nat : i <= Len(path) => v[i] = t[i]}
  <2>0. \A i \in 0..Len(path) : v[i] = IF i = 0 THEN Root ELSE DirIn(k, e, v[i - 1], path[i])
    BY <1>2
  <2>1. 0 \in T
    BY <2>0 DEF Walk
  <2>2. \A i \in Nat : i \in T => i + 1 \in T
    <3> SUFFICES ASSUME NEW i \in Nat, i \in T, i + 1 <= Len(path) PROVE v[i + 1] = t[i + 1]
      OBVIOUS
    <3>1. i + 1 \in 1..Len(path) /\ i + 1 \in 0..Len(path) /\ i + 1 - 1 = i /\ i + 1 # 0
      OBVIOUS
    <3>2. t[i + 1] = DirIn(k, e, t[i], path[i + 1])
      BY <3>1 DEF Walk
    <3>3. v[i + 1] = DirIn(k, e, v[i], path[i + 1])
      BY <3>1, <2>0
    <3>4. QED
      BY <3>2, <3>3
  <2>3. Nat \subseteq T
    <3> HIDE DEF T
    <3> QED BY <2>1, <2>2, SetInduction
  <2>4. \A i \in 0..Len(path) : v[i] = t[i]
    BY <2>3
  <2>5. v = [i \in 0..Len(path) |-> v[i]] /\ t = [i \in 0..Len(path) |-> t[i]]
    BY <1>2 DEF Walk
  <2>6. QED
    BY <2>4, <2>5
<1>3. (CHOOSE v : D(v)) = t
  BY <1>1, <1>2
<1>4. QED
  BY <1>3 DEF AtIn

(* Where the walk of a path ends, and where that of its parents does.        *)
LEMMA AtFacts ==
    ASSUME NEW k \in Kinds, NEW e \in Entries, NEW path \in Seq(Names)
    PROVE  /\ AtIn(k, e, path) \in Nodes \cup {None}
           /\ path = <<>> => AtIn(k, e, path) = Root
           /\ path # <<>> =>
                /\ Parents(path) \in Seq(Names) /\ path[Len(path)] \in Names
                /\ AtIn(k, e, path) = DirIn(k, e, AtIn(k, e, Parents(path)), path[Len(path)])
<1>1. PICK t : Walk(k, e, path, t)
  BY WalkExists
<1>2. AtIn(k, e, path) = t[Len(path)] /\ Len(path) \in Nat
  BY <1>1, AtWalk
<1>3. AtIn(k, e, path) \in Nodes \cup {None}
  BY <1>1, <1>2 DEF Walk
<1>4. path = <<>> => AtIn(k, e, path) = Root
  BY <1>1, <1>2 DEF Walk
<1>5. ASSUME path # <<>>
      PROVE  /\ Parents(path) \in Seq(Names) /\ path[Len(path)] \in Names
             /\ AtIn(k, e, path) = DirIn(k, e, AtIn(k, e, Parents(path)), path[Len(path)])
  <2> DEFINE f == Parents(path)
             m == Len(path) - 1
  <2>1. Len(path) \in 1..Len(path) /\ m \in Nat /\ m <= Len(path)
    BY <1>5, <1>2
  <2>2. f \in Seq(Names) /\ Len(f) = m /\ \A i \in 1..m : f[i] = path[i]
    <3>1. \A i \in 1..m : path[i] \in Names
      BY <1>2
    <3>2. /\ SubSeq(path, 1, m) \in Seq(Names)
          /\ Len(SubSeq(path, 1, m)) = (IF 1 <= m THEN m - 1 + 1 ELSE 0)
          /\ \A i \in 1..(m - 1 + 1) : SubSeq(path, 1, m)[i] = path[1 + i - 1]
      <4>1. 1 \in 1..(Len(path) + 1) /\ 1 - 1 <= m
        BY <2>1, <1>2
      <4> HIDE DEF m
      <4>2. QED
        BY <2>1, <3>1, <4>1, SubSeqProperties
    <3> HIDE DEF m
    <3>3. m - 1 + 1 = m /\ \A i \in 1..m : 1 + i - 1 = i
      BY <2>1
    <3>4. QED
      BY <2>1, <3>2, <3>3 DEF Parents, m
  <2> HIDE DEF f
  <2>3. PICK u : Walk(k, e, f, u)
    BY <2>2, WalkExists
  <2>4. AtIn(k, e, f) = u[m]
    BY <2>2, <2>3, AtWalk
  <2>5. u[m] = t[m]
    <3>1. m <= Len(f)
      BY <2>1, <2>2
    <3>2. \A i \in 1..m : f[i] = path[i]
      BY <2>2
    <3> HIDE DEF m
    <3>3. f \in Seq(Names) /\ Walk(k, e, f, u) /\ Walk(k, e, path, t) /\ m \in Nat /\ m <= Len(path)
      BY <2>1, <2>2, <2>3, <1>1
    <3>4. QED
      BY <3>1, <3>2, <3>3, WalksAgree
  <2>6. t[Len(path)] = DirIn(k, e, t[m], path[Len(path)])
    BY <2>1, <1>1 DEF Walk
  <2>7. path[Len(path)] \in Names
    BY <2>1
  <2>8. QED
    BY <1>2, <2>2, <2>4, <2>5, <2>6, <2>7 DEF f
<1>6. QED
  BY <1>3, <1>4, <1>5

(* A filesystem in which protected nodes are reached through protected ones  *)
(* alone, and one that agrees with another on the protected nodes.           *)
Sealed(e) == \A d \in Nodes \ Protected, n \in Names : e[d][n] \notin Protected
Agree(k, e, k2, e2) == \A d \in Protected : e[d] = e2[d] /\ k[d] = k2[d]

(* A path to a protected node leads to it in every filesystem that agrees.   *)
LEMMA ProtectedPath ==
    ASSUME NEW k \in Kinds, NEW e \in Entries, NEW k2 \in Kinds, NEW e2 \in Entries,
           Sealed(e), Agree(k, e, k2, e2), NEW path \in Seq(Names),
           AtIn(k, e, path) \in Protected
    PROVE  AtIn(k2, e2, path) = AtIn(k, e, path)
<1>1. PICK t : Walk(k, e, path, t)
  BY WalkExists
<1>2. PICK u : Walk(k2, e2, path, u)
  BY WalkExists
<1> DEFINE m == Len(path)
<1>3. AtIn(k, e, path) = t[m] /\ AtIn(k2, e2, path) = u[m] /\ m \in Nat
  BY <1>1, <1>2, AtWalk
<1>4. None \notin Protected /\ Protected \subseteq Nodes
  BY PathsAssumption, ProtectedAssumption
<1>5. ASSUME NEW i \in 1..m, t[i] \in Protected
      PROVE  /\ t[i - 1] \in Protected
             /\ DirIn(k2, e2, t[i - 1], path[i]) = t[i]
  <2> DEFINE d == t[i - 1]
  <2>1. t[i] = DirIn(k, e, d, path[i]) /\ path[i] \in Names /\ d \in Nodes \cup {None}
    BY <1>1, <1>3 DEF Walk
  <2> HIDE DEF d
  <2>2. d \in Nodes /\ e[d][path[i]] = t[i] /\ k[t[i]] = "dir"
    BY <1>4, <1>5, <2>1, DirInType
  <2>3. d \in Protected
    BY <1>5, <2>1, <2>2 DEF Sealed
  <2>4. e2[d][path[i]] = t[i] /\ k2[t[i]] = "dir" /\ d # None /\ t[i] # None
    BY <1>4, <1>5, <2>2, <2>3 DEF Agree
  <2>5. QED
    BY <2>3, <2>4 DEF DirIn, d
<1>6. \A i \in 0..m : t[i] \in Protected
  <2> DEFINE T == {j \in Nat : j <= m => t[m - j] \in Protected}
  <2>1. 0 \in T
    BY <1>3
  <2>2. \A j \in Nat : j \in T => j + 1 \in T
    <3> SUFFICES ASSUME NEW j \in Nat, j \in T, j + 1 <= m PROVE t[m - (j + 1)] \in Protected
      OBVIOUS
    <3>1. m - j \in 1..m /\ m - j - 1 = m - (j + 1) /\ t[m - j] \in Protected
      BY <1>3
    <3>2. t[m - j - 1] \in Protected
      BY <1>5, <3>1
    <3>3. QED
      BY <3>1, <3>2
  <2>3. Nat \subseteq T
    <3> HIDE DEF T
    <3> QED BY <2>1, <2>2, SetInduction
  <2>4. \A i \in 0..m : m - i \in Nat /\ m - i <= m /\ m - (m - i) = i
    BY <1>3
  <2>5. QED
    BY <2>3, <2>4
<1>7. u[m] = t[m]
  <2> DEFINE T == {i \in Nat : i <= m => u[i] = t[i]}
  <2>1. 0 \in T
    BY <1>1, <1>2 DEF Walk
  <2>2. \A i \in Nat : i \in T => i + 1 \in T
    <3> SUFFICES ASSUME NEW i \in Nat, i \in T, i + 1 <= m PROVE u[i + 1] = t[i + 1]
      OBVIOUS
    <3>1. i + 1 \in 1..m /\ i + 1 \in 0..m /\ i + 1 - 1 = i
      BY <1>3
    <3>2. u[i + 1] = DirIn(k2, e2, u[i], path[i + 1])
      BY <1>2, <3>1 DEF Walk
    <3>3. DirIn(k2, e2, t[i], path[i + 1]) = t[i + 1]
      BY <1>5, <1>6, <3>1
    <3>4. QED
      BY <1>3, <3>1, <3>2, <3>3
  <2>3. Nat \subseteq T
    <3> HIDE DEF T
    <3> QED BY <2>1, <2>2, SetInduction
  <2>4. QED
    BY <1>3, <2>3
<1>8. QED
  BY <1>3, <1>7

---------------------------------------------------------------------------
(* Directories above a directory.                                            *)

Climb(s) == IF Root \in s THEN s ELSE s \cup {Parent(x) : x \in s}

(* What holds d and, but for the root, the parent of all it holds, holds all *)
(* the directories above d.                                                  *)
LEMMA AboveWithin ==
    ASSUME NEW S, NEW d \in S, \A x \in S \ {Root} : Parent(x) \in S
    PROVE  Above(d) \subseteq S
<1> DEFINE N == Cardinality(Nodes)
           D(v) == v = [k \in 0..N |-> IF k = 0 THEN {d} ELSE Climb(v[k - 1])]
           Upto(n, t) == /\ t \in [0..n -> SUBSET S] /\ t[0] = {d}
                         /\ \A i \in 1..n : t[i] = Climb(t[i - 1])
           T == {n \in Nat : \E t : Upto(n, t)}
<1>0. N \in Nat
  BY ProtectedAssumption, FS_CardinalityType
<1>1. \A s \in SUBSET S : Climb(s) \in SUBSET S
  BY DEF Climb
<1>2. 0 \in T
  <2>1. Upto(0, [i \in 0..0 |-> {d}])
    OBVIOUS
  <2> HIDE DEF Upto
  <2>2. QED
    BY <2>1
<1>3. \A n \in Nat : n \in T => n + 1 \in T
  <2> SUFFICES ASSUME NEW n \in Nat, n \in T PROVE \E t : Upto(n + 1, t)
    <3> HIDE DEF Upto
    <3> QED OBVIOUS
  <2>1. PICK t : Upto(n, t)
    <3> HIDE DEF Upto
    <3> QED OBVIOUS
  <2> DEFINE x == Climb(t[n])
             u == [i \in 0..(n + 1) |-> IF i = n + 1 THEN x ELSE t[i]]
  <2>2. x \in SUBSET S
    BY <1>1, <2>1
  <2> HIDE DEF x
  <2>3. u \in [0..(n + 1) -> SUBSET S] /\ u[0] = {d}
    BY <2>1, <2>2
  <2>4. \A i \in 1..n : u[i] = Climb(u[i - 1])
    BY <2>1
  <2>5. u[n + 1] = Climb(u[n + 1 - 1])
    BY <2>1 DEF x
  <2>6. \A i \in 1..(n + 1) : i \in 1..n \/ i = n + 1
    OBVIOUS
  <2> HIDE DEF u
  <2>7. \A i \in 1..(n + 1) : u[i] = Climb(u[i - 1])
    BY <2>4, <2>5, <2>6
  <2>8. Upto(n + 1, u)
    BY <2>3, <2>7
  <2>9. QED
    BY <2>8
<1>4. Nat \subseteq T
  <2> HIDE DEF T
  <2> QED BY <1>2, <1>3, SetInduction
<1>5. PICK t : Upto(N, t)
  <2> HIDE DEF Upto, N
  <2> QED BY <1>0, <1>4
<1> HIDE DEF T, N
<1>6. D(t)
  <2>1. t = [i \in 0..N |-> t[i]]
    BY <1>5
  <2>2. \A i \in 0..N : t[i] = IF i = 0 THEN {d} ELSE Climb(t[i - 1])
    BY <1>0, <1>5
  <2>3. QED
    BY <2>1, <2>2
<1>7. ASSUME NEW v, D(v) PROVE v = t
  <2> DEFINE V == {i \in Nat : i <= N => v[i] = t[i]}
  <2>0. \A i \in 0..N : v[i] = IF i = 0 THEN {d} ELSE Climb(v[i - 1])
    BY <1>7
  <2>1. 0 \in V
    <3>1. 0 \in 0..N
      BY <1>0
    <3>2. v[0] = {d} /\ t[0] = {d}
      BY <1>5, <2>0, <3>1
    <3>3. QED
      BY <3>2
  <2>2. \A i \in Nat : i \in V => i + 1 \in V
    <3> SUFFICES ASSUME NEW i \in Nat, i \in V, i + 1 <= N PROVE v[i + 1] = t[i + 1]
      OBVIOUS
    <3>1. i + 1 \in 1..N /\ i + 1 \in 0..N /\ i + 1 - 1 = i /\ i + 1 # 0 /\ v[i] = t[i]
      BY <1>0
    <3>2. t[i + 1] = Climb(t[i])
      BY <1>5, <3>1
    <3>3. v[i + 1] = Climb(v[i])
      BY <3>1, <2>0
    <3>4. QED
      BY <3>1, <3>2, <3>3
  <2>3. Nat \subseteq V
    <3> HIDE DEF V
    <3> QED BY <2>1, <2>2, SetInduction
  <2>4. \A i \in 0..N : v[i] = t[i]
    BY <1>0, <2>3
  <2>5. v = [i \in 0..N |-> v[i]] /\ t = [i \in 0..N |-> t[i]]
    BY <1>5, <1>7
  <2>6. QED
    BY <2>4, <2>5
<1>8. (CHOOSE v : D(v)) = t
  BY <1>6, <1>7
<1>9. Above(d) = t[N]
  BY <1>8 DEF Above, Climb, N
<1>10. QED
  BY <1>0, <1>5, <1>9

---------------------------------------------------------------------------
(* The invariant.                                                            *)

InitAt(p) == AtIn(InitKind, InitEntry, p)

(* What a node was found to be it stays, and it is not handed out as new.    *)
KindsStay == \A x \in Nodes : InitKind[x] # "free" => kind[x] = InitKind[x]

(* No entry of an unprotected directory is another name of an export root.   *)
ExportsApart ==
    \A p \in ExportPaths, d \in Nodes \ Protected, n \in Names : entry[d][n] # InitAt(p)

TreeInv == TypeOK /\ KindsStay /\ Untouched /\ Sealed(entry) /\ ExportsApart
Inv == TreeInv /\ OpenDeclared

(* The filesystem agrees with the one the run found on the protected nodes.  *)
LEMMA TreeAgrees ==
    ASSUME TreeInv
    PROVE  /\ kind \in Kinds /\ entry \in Entries /\ InitKind \in Kinds /\ InitEntry \in Entries
           /\ Sealed(entry) /\ Sealed(InitEntry)
           /\ Agree(kind, entry, InitKind, InitEntry) /\ Agree(InitKind, InitEntry, kind, entry)
<1>1. kind \in Kinds /\ entry \in Entries /\ InitKind \in Kinds /\ InitEntry \in Entries
  BY PathsAssumption DEF TreeInv, TypeOK, Kinds, Entries
<1>2. Sealed(entry) /\ Sealed(InitEntry)
  BY ProtectedAssumption DEF TreeInv, Sealed
<1>3. Agree(kind, entry, InitKind, InitEntry) /\ Agree(InitKind, InitEntry, kind, entry)
  BY DEF TreeInv, Untouched, Agree
<1>4. QED
  BY <1>1, <1>2, <1>3

(* The parent of a protected directory is protected.                         *)
LEMMA ProtectedParent ==
    ASSUME TreeInv, NEW d \in Protected, d # Root
    PROVE  Parent(d) \in Protected
<1>1. PICK p \in Nodes, n \in Names : InitEntry[p][n] = d
  BY ProtectedAssumption
<1>2. p \in Protected
  BY <1>1, ProtectedAssumption
<1>3. entry[p][n] = d
  BY <1>1, <1>2 DEF TreeInv, Untouched
<1>4. Parent(d) \in Nodes /\ \E m \in Names : entry[Parent(d)][m] = d
  <2> DEFINE P(q) == \E m \in Names : entry[q][m] = d
  <2>1. P(p) /\ Parent(d) = CHOOSE q \in Nodes : P(q)
    BY <1>3 DEF Parent
  <2> HIDE DEF P
  <2>2. Parent(d) \in Nodes /\ P(Parent(d))
    BY <2>1
  <2>3. QED
    BY <2>2 DEF P
<1>5. QED
  BY <1>4 DEF TreeInv, Sealed

(* A directory a request may change is not protected.                        *)
LEMMA RootsUnprotected ==
    ASSUME TreeInv, NEW roots \in SUBSET (ScratchPaths \cup ExportPaths), NEW d \in Nodes,
           Under(roots, d)
    PROVE  d \notin Protected
<1> SUFFICES ASSUME d \in Protected PROVE FALSE
  OBVIOUS
<1>1. PICK r \in roots : At(r) \in Above(d)
  BY DEF Under
<1>2. Above(d) \subseteq Protected
  BY ProtectedParent, AboveWithin
<1>3. AtIn(kind, entry, r) \in Protected /\ r \in Seq(Names)
  BY <1>1, <1>2, PathsAssumption DEF At
<1>4. AtIn(InitKind, InitEntry, r) = AtIn(kind, entry, r)
  BY <1>3, TreeAgrees, ProtectedPath
<1>5. QED
  BY <1>3, <1>4, ProtectedAssumption

(* An export root is where the run found it.                                 *)
LEMMA ExportStays ==
    ASSUME TreeInv, NEW p \in ExportPaths
    PROVE  /\ At(p) = InitAt(p) /\ InitAt(p) \in Nodes \ Protected
           /\ InitKind[InitAt(p)] = "dir"
<1>1. p \in Seq(Names) /\ p # <<>>
  BY PathsAssumption, ExportAssumption
<1>2. Parents(p) \in Seq(Names) /\ p[Len(p)] \in Names
  BY <1>1, TreeAgrees, AtFacts
<1> DEFINE q == AtIn(InitKind, InitEntry, Parents(p))
           n == p[Len(p)]
           x == InitAt(p)
<1>3. q \in Protected /\ q \in Nodes /\ q # None
  BY ExportAssumption, ProtectedAssumption, PathsAssumption
<1>4. AtIn(kind, entry, Parents(p)) = q
  BY <1>2, <1>3, TreeAgrees, ProtectedPath
<1>5. x = DirIn(InitKind, InitEntry, q, n) /\ AtIn(kind, entry, p) = DirIn(kind, entry, q, n)
  BY <1>1, <1>4, TreeAgrees, AtFacts DEF InitAt
<1>6. x \in Nodes /\ x # None /\ x \notin Protected
  BY <1>1, TreeAgrees, AtFacts, ExportAssumption, ProtectedAssumption DEF InitAt
<1> HIDE DEF q, n, x
<1>7. InitEntry[q][n] = x /\ InitKind[x] = "dir"
  BY <1>2, <1>3, <1>5, <1>6, TreeAgrees, DirInType DEF n
<1>8. entry[q][n] = x /\ kind[x] = "dir"
  BY <1>3, <1>6, <1>7 DEF TreeInv, Untouched, KindsStay
<1>9. AtIn(kind, entry, p) = x
  BY <1>3, <1>5, <1>6, <1>8 DEF DirIn
<1>10. QED
  BY <1>6, <1>7, <1>9 DEF At, x

(* No scratch root is an export root or holds one.                           *)
LEMMA ExportNotScratch ==
    ASSUME TreeInv, NEW p \in ExportPaths
    PROVE  ~Under(ScratchPaths, InitAt(p))
<1> DEFINE x == InitAt(p)
<1>1. x \in Nodes /\ x \notin Protected /\ x # None
  BY ExportStays, PathsAssumption
<1>2. x # Root
  BY <1>1, ProtectedAssumption
<1>3. Parent(x) \in Protected
  <2>1. p \in Seq(Names) /\ p # <<>>
    BY PathsAssumption, ExportAssumption
  <2>2. Parents(p) \in Seq(Names) /\ p[Len(p)] \in Names
    BY <2>1, TreeAgrees, AtFacts
  <2> DEFINE q == AtIn(InitKind, InitEntry, Parents(p))
             n == p[Len(p)]
  <2>3. q \in Protected /\ q \in Nodes /\ q # None
    BY ExportAssumption, ProtectedAssumption, PathsAssumption
  <2>4. x = DirIn(InitKind, InitEntry, q, n)
    BY <2>1, TreeAgrees, AtFacts DEF InitAt
  <2> HIDE DEF q, x
  <2>5. InitEntry[q][n] = x
    BY <1>1, <2>2, <2>3, <2>4, TreeAgrees, DirInType
  <2>6. entry[q][n] = x
    BY <2>3, <2>5 DEF TreeInv, Untouched
  <2> DEFINE P(y) == \E m \in Names : entry[y][m] = x
  <2>7. P(q) /\ Parent(x) = CHOOSE y \in Nodes : P(y)
    BY <1>2, <2>2, <2>6 DEF Parent
  <2> HIDE DEF P
  <2>8. Parent(x) \in Nodes /\ P(Parent(x))
    BY <2>3, <2>7
  <2>9. QED
    BY <2>8 DEF TreeInv, ExportsApart, P, x
<1>4. Above(x) \subseteq Protected \cup {x}
  <2>1. \A y \in (Protected \cup {x}) \ {Root} : Parent(y) \in Protected \cup {x}
    BY <1>3, ProtectedParent
  <2> HIDE DEF x
  <2>2. QED
    BY <2>1, AboveWithin
<1>5. ASSUME NEW r \in ScratchPaths PROVE At(r) \notin Protected
  <2>1. r \in Seq(Names)
    BY PathsAssumption
  <2>2. AtIn(kind, entry, r) \in Protected => AtIn(InitKind, InitEntry, r) = AtIn(kind, entry, r)
    BY <2>1, TreeAgrees, ProtectedPath
  <2>3. QED
    BY <2>2, ProtectedAssumption DEF At
<1>6. ASSUME NEW r \in ScratchPaths PROVE At(r) # x
  <2> SUFFICES ASSUME At(r) = x PROVE FALSE
    OBVIOUS
  <2>1. r \in Seq(Names)
    BY PathsAssumption
  <2>2. r # <<>>
    BY <1>2, <2>1, TreeAgrees, AtFacts DEF At
  <2> DEFINE d == AtIn(kind, entry, Parents(r))
             n == r[Len(r)]
  <2>3. Parents(r) \in Seq(Names) /\ n \in Names /\ x = DirIn(kind, entry, d, n)
    BY <2>1, <2>2, TreeAgrees, AtFacts DEF At
  <2>4. d \in Nodes \cup {None}
    BY <2>3, TreeAgrees, AtFacts
  <2> HIDE DEF n, x
  <2>5. d \in Nodes /\ entry[d][n] = x
    <3> HIDE DEF d
    <3> QED BY <1>1, <2>3, <2>4, TreeAgrees, DirInType
  <2>6. d \in Protected
    BY <2>3, <2>5 DEF TreeInv, ExportsApart, x
  <2>7. AtIn(InitKind, InitEntry, Parents(r)) = d
    BY <2>3, <2>6, TreeAgrees, ProtectedPath
  <2>8. InitEntry[d][n] = x /\ InitKind[x] = "dir"
    <3>1. InitEntry[d][n] = x
      BY <2>5, <2>6 DEF TreeInv, Untouched
    <3>2. QED
      BY <3>1, ExportStays DEF x
  <2>9. AtIn(InitKind, InitEntry, r) = DirIn(InitKind, InitEntry, d, n)
    BY <2>1, <2>2, <2>7, TreeAgrees, AtFacts DEF n
  <2>10. AtIn(InitKind, InitEntry, r) = x
    BY <1>1, <2>5, <2>8, <2>9, PathsAssumption DEF DirIn
  <2>11. QED
    BY <2>10, ExportAssumption DEF x, InitAt
<1>7. QED
  BY <1>4, <1>5, <1>6 DEF Under

---------------------------------------------------------------------------
(* Steps.                                                                    *)

(* What a request may do to the tree: only entries of unprotected            *)
(* directories change, and not to a protected node or an export root; only   *)
(* in scratch roots are they emptied.                                        *)
TreeStep ==
    /\ kind' \in Kinds /\ entry' \in Entries
    /\ target' \in [Nodes -> LinkTargets \cup {<<>>}]
    /\ \A x \in Nodes : kind[x] # "free" => kind'[x] = kind[x]
    /\ \A d \in Nodes, n \in Names : entry'[d][n] # entry[d][n] =>
          /\ d \notin Protected /\ entry'[d][n] \notin Protected
          /\ \A p \in ExportPaths : entry'[d][n] # InitAt(p)
          /\ entry'[d][n] = None => Under(ScratchPaths, d)

(* What it may hand out: a node, and a protected one only as declared.       *)
Declares(x, mode) ==
    \E p \in WritePaths \cup (IF mode = "read" THEN ReadPaths ELSE {}) :
        \E d \in Protected, n \in Names : IsPath(p, d, n) /\ entry[d][n] = x
HandStep ==
    \/ handed' = handed
    \/ \E x \in Nodes, mode \in Modes :
          /\ handed' = handed \cup {[node |-> x, mode |-> mode]}
          /\ x \in Protected => Declares(x, mode)

(* A protected directory's path and its entries outlast such a step.         *)
LEMMA DeclaredStays ==
    ASSUME TreeInv, TreeStep, NEW p \in WritePaths \cup ReadPaths,
           NEW d \in Protected, NEW n \in Names, IsPath(p, d, n)
    PROVE  IsPath(p, d, n)' /\ entry'[d][n] = entry[d][n]
<1>1. p \in Seq(Names) /\ p # <<>> /\ p[Len(p)] = n /\ AtIn(kind, entry, Parents(p)) = d
  BY PathsAssumption DEF IsPath, At
<1>2. Parents(p) \in Seq(Names)
  BY <1>1, TreeAgrees, AtFacts
<1>3. kind' \in Kinds /\ entry' \in Entries
  BY DEF TreeStep
<1>4. Agree(kind, entry, kind', entry')
  <2> SUFFICES ASSUME NEW c \in Protected PROVE entry[c] = entry'[c] /\ kind[c] = kind'[c]
    BY DEF Agree
  <2>1. c \in Nodes /\ InitKind[c] # "free"
    BY ProtectedAssumption
  <2>2. kind[c] = kind'[c]
    BY <2>1 DEF TreeStep, TreeInv, KindsStay
  <2>3. entry[c] \in [Names -> Nodes \cup {None}] /\ entry'[c] \in [Names -> Nodes \cup {None}]
    BY <1>3, <2>1, TreeAgrees DEF Entries
  <2>4. \A m \in Names : entry'[c][m] = entry[c][m]
    BY <2>1 DEF TreeStep
  <2>5. QED
    BY <2>2, <2>3, <2>4
<1>5. AtIn(kind', entry', Parents(p)) = d
  BY <1>1, <1>2, <1>3, <1>4, TreeAgrees, ProtectedPath
<1>6. QED
  BY <1>1, <1>4, <1>5 DEF IsPath, At, Agree

(* Such a step keeps the invariant.                                          *)
LEMMA StepInv ==
    ASSUME Inv, TreeStep, HandStep
    PROVE  Inv'
<1> USE DEF Inv
<1>1. TypeOK'
  <2>1. handed' \subseteq [node : Nodes, mode : Modes]
    BY DEF HandStep, TreeInv, TypeOK
  <2>2. QED
    BY <2>1 DEF TreeStep, TypeOK, Kinds, Entries
<1>2. KindsStay'
  BY DEF TreeInv, KindsStay, TreeStep
<1>3. Untouched'
  <2> SUFFICES ASSUME NEW c \in Protected PROVE entry'[c] = InitEntry[c] /\ kind'[c] = InitKind[c]
    BY DEF Untouched
  <2>1. c \in Nodes /\ InitKind[c] # "free"
    BY ProtectedAssumption
  <2>2. kind'[c] = InitKind[c]
    BY <1>2, <2>1 DEF KindsStay
  <2>3. entry[c] \in [Names -> Nodes \cup {None}] /\ entry'[c] \in [Names -> Nodes \cup {None}]
    BY <2>1, TreeAgrees DEF TreeStep, Entries
  <2>4. \A m \in Names : entry'[c][m] = entry[c][m]
    BY <2>1 DEF TreeStep
  <2>5. entry'[c] = entry[c]
    BY <2>3, <2>4
  <2>6. QED
    BY <2>2, <2>5 DEF TreeInv, Untouched
<1>4. Sealed(entry')
  BY DEF TreeInv, Sealed, TreeStep
<1>5. ExportsApart'
  BY DEF TreeInv, ExportsApart, TreeStep
<1>6. OpenDeclared'
  <2> SUFFICES ASSUME NEW h \in handed', h.node \in Protected
               PROVE  Declares(h.node, h.mode)'
    BY DEF OpenDeclared, Declares
  <2>1. Declares(h.node, h.mode)
    BY DEF OpenDeclared, Declares, HandStep
  <2>2. PICK p \in WritePaths \cup (IF h.mode = "read" THEN ReadPaths ELSE {}),
             d \in Protected, n \in Names : IsPath(p, d, n) /\ entry[d][n] = h.node
    BY <2>1 DEF Declares
  <2>3. p \in WritePaths \cup ReadPaths
    OBVIOUS
  <2>4. IsPath(p, d, n)' /\ entry'[d][n] = h.node
    BY <2>2, <2>3, DeclaredStays
  <2>5. QED
    BY <2>4 DEF Declares
<1>7. QED
  BY <1>1, <1>2, <1>3, <1>4, <1>5, <1>6 DEF TreeInv, Sealed

(* A directory in which a request may change entries.                        *)
LEMMA ParentFacts ==
    ASSUME TreeInv, NEW path
    PROVE  /\ ScratchParent(path) # None =>
                /\ ScratchParent(path) \in Nodes \ Protected
                /\ Under(ScratchPaths, ScratchParent(path))
           /\ NewParent(path) # None => NewParent(path) \in Nodes \ Protected
<1>1. ScratchPaths \in SUBSET (ScratchPaths \cup ExportPaths)
  OBVIOUS
<1>2. \A d \in Nodes : Under(ScratchPaths, d) => d \notin Protected
  BY <1>1, RootsUnprotected
<1>3. \A d \in Nodes : Under(ScratchPaths \cup ExportPaths, d) => d \notin Protected
  BY RootsUnprotected
<1>4. QED
  BY <1>2, <1>3 DEF ScratchParent, NewParent

(* Nodes that are neither protected nor an export root.                      *)
Plain(x) == x \notin Protected /\ \A p \in ExportPaths : x # InitAt(p)

(* An entry of an unprotected directory, nothing, and a free node are.       *)
LEMMA PlainFacts ==
    ASSUME TreeInv
    PROVE  /\ \A d \in Nodes \ Protected, n \in Names : Plain(entry[d][n])
           /\ Plain(None)
           /\ \A x \in Nodes : kind[x] = "free" => Plain(x)
<1>1. None \notin Nodes /\ Protected \subseteq Nodes
  BY PathsAssumption, ProtectedAssumption
<1>2. \A p \in ExportPaths : InitAt(p) \in Nodes /\ InitKind[InitAt(p)] = "dir"
  BY ExportStays
<1>3. \A d \in Nodes \ Protected, n \in Names : Plain(entry[d][n])
  BY DEF TreeInv, Sealed, ExportsApart, Plain
<1>4. Plain(None)
  BY <1>1, <1>2 DEF Plain
<1>5. ASSUME NEW x \in Nodes, kind[x] = "free" PROVE Plain(x)
  <2>1. InitKind[x] = "free"
    BY <1>5 DEF TreeInv, KindsStay
  <2>2. QED
    BY <1>2, <2>1, ProtectedAssumption DEF Plain
<1>6. QED
  BY <1>3, <1>4, <1>5

(* Making a node in an unprotected directory, and the node is new.           *)
LEMMA CreateStep ==
    ASSUME TreeInv, NEW d \in Nodes \ Protected, NEW n \in Names, NEW x \in Nodes,
           NEW k \in {"dir", "file", "link"}, NEW t \in LinkTargets \cup {<<>>},
           Create(d, n, x, k, t)
    PROVE  TreeStep /\ x \notin Protected
<1>1. kind[x] = "free" /\ Plain(x) /\ x # None
  BY PlainFacts, PathsAssumption DEF Create, Free
<1>2. kind \in Kinds /\ entry \in Entries /\ target \in [Nodes -> LinkTargets \cup {<<>>}]
  BY TreeAgrees DEF TreeInv, TypeOK
<1>3. /\ kind' = [kind EXCEPT ![x] = k] /\ target' = [target EXCEPT ![x] = t]
      /\ entry' = [entry EXCEPT ![d][n] = x]
  BY DEF Create
<1>4. kind' \in Kinds /\ \A y \in Nodes : kind[y] # "free" => kind'[y] = kind[y]
  BY <1>1, <1>2, <1>3 DEF Kinds
<1>5. target' \in [Nodes -> LinkTargets \cup {<<>>}]
  BY <1>2, <1>3
<1>6. entry' \in Entries
  BY <1>2, <1>3 DEF Entries
<1>7. \A c \in Nodes, m \in Names : entry'[c][m] # entry[c][m] => c = d /\ entry'[c][m] = x
  BY <1>2, <1>3 DEF Entries
<1>8. QED
  BY <1>1, <1>4, <1>5, <1>6, <1>7 DEF TreeStep, Plain

(* A step that only sets entries of unprotected directories, in scratch      *)
(* roots also to nothing.                                                    *)
LEMMA EntryStep ==
    ASSUME TreeInv, kind' = kind, target' = target, entry' \in Entries,
           \A d \in Nodes, n \in Names : entry'[d][n] # entry[d][n] =>
              /\ d \notin Protected /\ Plain(entry'[d][n])
              /\ entry'[d][n] = None => Under(ScratchPaths, d)
    PROVE  TreeStep
<1>1. kind' \in Kinds /\ target' \in [Nodes -> LinkTargets \cup {<<>>}]
  BY TreeAgrees DEF TreeInv, TypeOK
<1>2. QED
  BY <1>1 DEF TreeStep, Plain

(* Unlinking in a scratch root.                                              *)
LEMMA UnlinkStep ==
    ASSUME TreeInv, NEW path \in Requested, NEW n \in Names, Unlink(path, n)
    PROVE  TreeStep /\ HandStep
<1> DEFINE d == ScratchParent(path)
<1>1. d \in Nodes \ Protected /\ Under(ScratchPaths, d)
  BY ParentFacts DEF Unlink
<1>2. /\ entry' = [entry EXCEPT ![d][n] = None] /\ handed' = handed
      /\ kind' = kind /\ target' = target
  BY DEF Unlink
<1> HIDE DEF d
<1>3. entry \in Entries
  BY TreeAgrees
<1>4. entry' \in Entries
  BY <1>1, <1>2, <1>3 DEF Entries
<1>5. \A c \in Nodes, m \in Names : entry'[c][m] # entry[c][m] => c = d /\ entry'[c][m] = None
  BY <1>1, <1>2, <1>3 DEF Entries
<1>6. TreeStep
  BY <1>1, <1>2, <1>4, <1>5, PlainFacts, EntryStep
<1>7. QED
  BY <1>2, <1>6 DEF HandStep

(* Renaming out of a scratch root.                                           *)
LEMMA RenameStep ==
    ASSUME TreeInv, NEW path \in Requested, NEW n \in Names,
           NEW newPath \in Requested, NEW m \in Names, Rename(path, n, newPath, m)
    PROVE  TreeStep /\ HandStep
<1> DEFINE d == OldParent(path)
           e == NewParent(newPath)
           x == entry[d][n]
<1>1. d \in Nodes \ Protected /\ Under(ScratchPaths, d) /\ e \in Nodes \ Protected
  BY ParentFacts DEF Rename, OldParent
<1>2. /\ entry' = [entry EXCEPT ![d][n] = None, ![e][m] = x] /\ x # None
      /\ handed' = handed /\ kind' = kind /\ target' = target
  BY DEF Rename
<1> HIDE DEF d, e
<1>3. entry \in Entries /\ x \in Nodes \cup {None}
  BY <1>1, TreeAgrees DEF Entries
<1>4. Plain(x) /\ Plain(None)
  BY <1>1, PlainFacts
<1> HIDE DEF x
<1>5. entry' \in Entries
  BY <1>1, <1>2, <1>3 DEF Entries
<1>6. \A c \in Nodes, l \in Names : entry'[c][l] # entry[c][l] =>
        (c = d /\ entry'[c][l] = None) \/ (c = e /\ entry'[c][l] = x)
  BY <1>1, <1>2, <1>3 DEF Entries
<1>7. TreeStep
  BY <1>1, <1>2, <1>4, <1>5, <1>6, EntryStep
<1>8. QED
  BY <1>2, <1>7 DEF HandStep

(* Linking out of a scratch root.                                            *)
LEMMA LinkStep ==
    ASSUME TreeInv, NEW path \in Requested, NEW n \in Names,
           NEW newPath \in Requested, NEW m \in Names, Link(path, n, newPath, m)
    PROVE  TreeStep /\ HandStep
<1> DEFINE d == OldParent(path)
           e == NewParent(newPath)
           x == entry[d][n]
<1>1. d \in Nodes \ Protected /\ e \in Nodes \ Protected
  BY ParentFacts DEF Link, OldParent
<1>2. /\ entry' = [entry EXCEPT ![e][m] = x] /\ x # None
      /\ handed' = handed /\ kind' = kind /\ target' = target
  BY DEF Link
<1> HIDE DEF d, e
<1>3. entry \in Entries /\ x \in Nodes \cup {None}
  BY <1>1, TreeAgrees DEF Entries
<1>4. Plain(x)
  BY <1>1, PlainFacts
<1> HIDE DEF x
<1>5. entry' \in Entries
  BY <1>1, <1>2, <1>3 DEF Entries
<1>6. \A c \in Nodes, l \in Names : entry'[c][l] # entry[c][l] => c = e /\ entry'[c][l] = x
  BY <1>1, <1>2, <1>3 DEF Entries
<1>7. TreeStep
  BY <1>1, <1>2, <1>4, <1>5, <1>6, EntryStep
<1>8. QED
  BY <1>2, <1>7 DEF HandStep

(* Nothing is changed in the tree.                                           *)
LEMMA NoTreeStep == ASSUME TreeInv, UNCHANGED <<kind, entry, target>> PROVE TreeStep
BY TreeAgrees, EntryStep

(* Opening or creating in a scratch root hands out nothing protected.        *)
LEMMA ScratchOpenStep ==
    ASSUME TreeInv, NEW path \in Requested, NEW n \in Names, NEW mode \in Modes,
           NEW create \in BOOLEAN, ScratchOpen(path, n, mode, create)
    PROVE  TreeStep /\ HandStep
<1> DEFINE d == ScratchParent(path)
<1>1. d \in Nodes \ Protected /\ ScratchOpened(d, n, mode, create)
  BY ParentFacts DEF ScratchOpen
<1> HIDE DEF d
<1>2. ASSUME Openable(entry[d][n], mode), Hand(entry[d][n], mode),
             UNCHANGED <<kind, entry, target>>
      PROVE  TreeStep /\ HandStep
  <2>1. entry[d][n] \in Nodes \ Protected
    <3>1. entry[d][n] \in Nodes \cup {None} /\ entry[d][n] # None
      BY <1>1, <1>2, TreeAgrees DEF Entries, Openable
    <3>2. Plain(entry[d][n])
      BY <1>1, PlainFacts
    <3>3. QED
      BY <3>1, <3>2 DEF Plain
  <2>2. HandStep
    BY <1>2, <2>1 DEF Hand, HandStep
  <2>3. QED
    BY <1>2, <2>2, NoTreeStep
<1>3. ASSUME NEW x \in Nodes, Create(d, n, x, "file", <<>>), Hand(x, mode) \/ UNCHANGED handed
      PROVE  TreeStep /\ HandStep
  <2>1. TreeStep /\ x \notin Protected
    BY <1>1, <1>3, CreateStep
  <2>2. HandStep
    BY <1>3, <2>1 DEF Hand, HandStep
  <2>3. QED
    BY <2>1, <2>2
<1>4. QED
  BY <1>1, <1>2, <1>3 DEF ScratchOpened

(* Opening a declared path hands out what it declares.                       *)
LEMMA OpenStep ==
    ASSUME TreeInv, NEW path \in Requested, NEW n \in Names, NEW mode \in Modes,
           NEW create \in BOOLEAN, Open(path, n, mode, create)
    PROVE  TreeStep /\ HandStep
<1> DEFINE f == Final[Canonical(path), n, MaxFollow]
           d == f.dir
           m == f.name
<1>1. CASE ScratchOpen(path, n, mode, create)
  BY <1>1, ScratchOpenStep
<1>2. ASSUME d # None, IsAllowed(d, m, mode), Openable(entry[d][m], mode), Hand(entry[d][m], mode),
             UNCHANGED <<kind, entry, target>>
      PROVE  TreeStep /\ HandStep
  <2> HIDE DEF d, m
  <2>1. PICK p \in WritePaths \cup (IF mode = "read" THEN ReadPaths ELSE {}) : IsPath(p, d, m)
    BY <1>2 DEF IsAllowed, InList
  <2>2. p \in Seq(Names) /\ p # <<>> /\ p[Len(p)] = m /\ AtIn(kind, entry, Parents(p)) = d
    BY <2>1, PathsAssumption DEF IsPath, At
  <2>3. Parents(p) \in Seq(Names) /\ m \in Names
    BY <2>2, TreeAgrees, AtFacts
  <2>4. d \in Nodes
    BY <1>2, <2>2, <2>3, TreeAgrees, AtFacts
  <2>5. entry[d][m] \in Nodes
    BY <1>2, <2>3, <2>4, TreeAgrees DEF Entries, Openable
  <2>6. ASSUME entry[d][m] \in Protected PROVE Declares(entry[d][m], mode)
    <3>1. d \in Protected
      BY <2>3, <2>4, <2>6, TreeAgrees DEF Sealed
    <3>2. QED
      BY <2>1, <2>3, <3>1 DEF Declares
  <2>7. HandStep
    BY <1>2, <2>5, <2>6 DEF Hand, HandStep
  <2>8. QED
    BY <1>2, <2>7, NoTreeStep
<1>3. QED
  BY <1>1, <1>2 DEF Open

(* Every request is such a step.                                             *)
LEMMA NextStep == ASSUME TreeInv, Next PROVE TreeStep /\ HandStep
<1>1. PICK path \in Requested, n \in Names :
        \/ Mkdir(path, n)
        \/ \E t \in LinkTargets : Symlink(path, n, t)
        \/ Unlink(path, n)
        \/ \E newPath \in Requested, m \in Names :
              Rename(path, n, newPath, m) \/ Link(path, n, newPath, m)
        \/ \E mode \in Modes, create \in BOOLEAN : Open(path, n, mode, create)
  BY DEF Next
<1> DEFINE d == ScratchParent(path)
<1>2. CASE Mkdir(path, n)
  <2>1. PICK x \in Nodes : Create(d, n, x, "dir", <<>>)
    BY <1>2 DEF Mkdir
  <2>2. d \in Nodes \ Protected /\ handed' = handed
    BY <1>2, ParentFacts DEF Mkdir
  <2>3. QED
    BY <2>1, <2>2, CreateStep DEF HandStep
<1>3. ASSUME NEW t \in LinkTargets, Symlink(path, n, t) PROVE TreeStep /\ HandStep
  <2>1. PICK x \in Nodes : Create(d, n, x, "link", t)
    BY <1>3 DEF Symlink
  <2>2. d \in Nodes \ Protected /\ handed' = handed
    BY <1>3, ParentFacts DEF Symlink
  <2>3. QED
    BY <2>1, <2>2, CreateStep DEF HandStep
<1>4. QED
  BY <1>1, <1>2, <1>3, UnlinkStep, RenameStep, LinkStep, OpenStep

---------------------------------------------------------------------------
(* The theorems.                                                             *)

(* The invariant holds when the run starts ...                               *)
LEMMA InitInv == Init => Inv
<1> SUFFICES ASSUME Init PROVE Inv
  OBVIOUS
<1> USE DEF Init
<1>1. TypeOK
  BY PathsAssumption DEF TypeOK
<1>2. KindsStay /\ Untouched /\ OpenDeclared
  BY DEF KindsStay, Untouched, OpenDeclared
<1>3. Sealed(entry)
  BY ProtectedAssumption DEF Sealed
<1>4. ExportsApart
  BY ExportAssumption DEF ExportsApart, InitAt
<1>5. QED
  BY <1>1, <1>2, <1>3, <1>4 DEF Inv, TreeInv

(* ... every request keeps it ...                                            *)
LEMMA NextInv == Inv /\ [Next]_vars => Inv'
<1> SUFFICES ASSUME Inv, [Next]_vars PROVE Inv'
  OBVIOUS
<1>1. CASE Next
  BY <1>1, NextStep, StepInv DEF Inv
<1>2. CASE UNCHANGED vars
  <2>1. TreeStep /\ HandStep
    BY <1>2, NoTreeStep DEF vars, HandStep, Inv
  <2>2. QED
    BY <2>1, StepInv
<1>3. QED
  BY <1>1, <1>2

(* ... so it always holds.                                                   *)
LEMMA SpecInv == Spec => []Inv
BY InitInv, NextInv, PTL DEF Spec

(* Every variable keeps its type; in particular every descriptor handed out  *)
(* refers to a node.                                                         *)
THEOREM TypeCorrect == Spec => []TypeOK
<1>1. Inv => TypeOK
  BY DEF Inv, TreeInv
<1>2. QED
  BY <1>1, SpecInv, PTL

(* For any policy, filesystem and sequence of requests, no directory outside *)
(* the scratch and export roots ever changes.                                *)
THEOREM RootsConfine == Spec => []Untouched
<1>1. Inv => Untouched
  BY DEF Inv, TreeInv
<1>2. QED
  BY <1>1, SpecInv, PTL

(* For any of them, a descriptor of a file outside the roots was declared.   *)
THEOREM OpensDeclared == Spec => []OpenDeclared
<1>1. Inv => OpenDeclared
  BY DEF Inv
<1>2. QED
  BY <1>1, SpecInv, PTL

(* For any of them, no request empties an entry of an export root.           *)
THEOREM PublicationsStay == Spec => PublishedStays
<1> DEFINE A == \A p \in ExportPaths, n \in Names :
                  entry[At(p)][n] # None => entry'[At(p)][n] # None
<1>1. ASSUME Inv, [Next]_vars PROVE [A]_vars
  <2>1. CASE Next
    <3> SUFFICES ASSUME NEW p \in ExportPaths, NEW n \in Names,
                        entry[At(p)][n] # None, entry'[At(p)][n] = None
                 PROVE  FALSE
      OBVIOUS
    <3> DEFINE x == InitAt(p)
    <3>1. At(p) = x /\ x \in Nodes
      BY <1>1, ExportStays DEF Inv
    <3>2. TreeStep
      BY <1>1, <2>1, NextStep DEF Inv
    <3> HIDE DEF x
    <3>3. Under(ScratchPaths, x)
      BY <3>1, <3>2 DEF TreeStep
    <3>4. QED
      BY <1>1, <3>3, ExportNotScratch DEF Inv, x
  <2>2. QED
    BY <1>1, <2>1
<1>2. QED
  BY <1>1, SpecInv, PTL DEF Spec, PublishedStays
=============================================================================
