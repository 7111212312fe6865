------------------------- MODULE StaticMountsProofs -------------------------
(* Proofs about StaticMounts: for any set of runs with any policies, on any  *)
(* disk, interleaved and killed in any way.                                  *)
EXTENDS StaticMounts, SequenceTheorems, WellFoundedInduction, TLAPS

(* Induction over the naturals, on sets: a set without a least element       *)
(* outside it has them all.                                                  *)
LEMMA SetInduction ==
    ASSUME NEW T, 0 \in T, \A k \in Nat : k \in T => k + 1 \in T
    PROVE  Nat \subseteq T
<1> DEFINE R == OpToRel(<, Nat)
<1> SUFFICES ASSUME Nat \ T # {} PROVE FALSE
  OBVIOUS
<1>1. \A y, x \in Nat : y < x => <<y, x>> \in R
  BY DEF OpToRel
<1>2. IsWellFoundedOn(R, Nat)
  BY NatLessThanWellFounded
<1> HIDE DEF R
<1>3. PICK x \in Nat \ T : \A y \in Nat \ T : ~ (<<y, x>> \in R)
  BY <1>2, WFMin
<1>4. x # 0 /\ x - 1 \in Nat
  OBVIOUS
<1>5. x - 1 \in T
  <2>1. x - 1 < x /\ <<x - 1, x>> \in R
    BY <1>1, <1>4
  <2>2. QED
    BY <1>3, <1>4, <2>1
<1>6. x - 1 + 1 \in T
  BY <1>4, <1>5
<1>7. QED
  BY <1>6

(* The same with all smaller numbers at hand.                                *)
LEMMA StrongInduction ==
    ASSUME NEW T, \A k \in Nat : (\A j \in Nat : j < k => j \in T) => k \in T
    PROVE  Nat \subseteq T
<1> DEFINE U == {k \in Nat : \A j \in Nat : j <= k => j \in T}
<1>1. 0 \in U
  <2>1. 0 \in T
    OBVIOUS
  <2>2. QED
    BY <2>1
<1>2. \A k \in Nat : k \in U => k + 1 \in U
  <2> SUFFICES ASSUME NEW k \in Nat, k \in U PROVE k + 1 \in U
    OBVIOUS
  <2>1. \A j \in Nat : j < k + 1 => j <= k
    OBVIOUS
  <2>2. \A j \in Nat : j < k + 1 => j \in T
    BY <2>1
  <2>3. k + 1 \in T
    BY <2>2
  <2>4. \A j \in Nat : j <= k + 1 => j < k + 1 \/ j = k + 1
    OBVIOUS
  <2>5. QED
    BY <2>2, <2>3, <2>4
<1>3. Nat \subseteq U
  <2> HIDE DEF U
  <2> QED BY <1>1, <1>2, SetInduction
<1>4. QED
  BY <1>3

---------------------------------------------------------------------------
(* Paths.                                                                    *)

(* Induction over paths, name by name.                                       *)
LEMMA PathInduction ==
    ASSUME NEW T, <<>> \in T, \A p \in Paths, x \in Names : p \in T => Append(p, x) \in T
    PROVE  Paths \subseteq T
<1> DEFINE U == {k \in Nat : \A p \in Paths : Len(p) = k => p \in T}
<1>1. 0 \in U
  <2>1. \A p \in Paths : Len(p) = 0 => p = <<>>
    BY EmptySeq DEF Paths
  <2>2. QED
    BY <2>1
<1>2. \A k \in Nat : k \in U => k + 1 \in U
  <2> SUFFICES ASSUME NEW k \in Nat, k \in U, NEW p \in Paths, Len(p) = k + 1 PROVE p \in T
    OBVIOUS
  <2>1. p # <<>>
    <3>1. Len(<<>>) = 0 /\ k + 1 # 0
      OBVIOUS
    <3>2. QED
      BY <3>1
  <2>2. PICK s \in Paths, x \in Names : p = Append(s, x)
    BY <2>1, SequenceEmptyOrAppend DEF Paths
  <2>3. Len(s) \in Nat /\ Len(p) = Len(s) + 1
    BY <2>2, AppendProperties, LenProperties DEF Paths
  <2>4. Len(s) = k
    BY <2>3
  <2>5. s \in T
    BY <2>4
  <2>6. QED
    BY <2>2, <2>5
<1>3. Nat \subseteq U
  <2> HIDE DEF U
  <2> QED BY <1>1, <1>2, SetInduction
<1>4. \A p \in Paths : Len(p) \in Nat
  BY LenProperties DEF Paths
<1>5. QED
  BY <1>3, <1>4

(* A longer path.                                                            *)
LEMMA AppendFacts ==
    ASSUME NEW p \in Paths, NEW x \in Names
    PROVE  /\ Append(p, x) \in Paths /\ Append(p, x) # <<>> /\ Len(Append(p, x)) = Len(p) + 1
           /\ Len(p) \in Nat /\ Append(p, x)[Len(p) + 1] = x
           /\ \A i \in 1..Len(p) : Append(p, x)[i] = p[i]
BY DEF Paths

LEMMA AppendSame ==
    ASSUME NEW p \in Paths, NEW q \in Paths, NEW x \in Names, NEW y \in Names,
           Append(p, x) = Append(q, y)
    PROVE  p = q /\ x = y
BY AppendInjective DEF Paths

LEMMA ConcatAppend ==
    ASSUME NEW p \in Paths, NEW q \in Paths, NEW x \in Names
    PROVE  /\ Append(p \o q, x) = p \o Append(q, x) /\ p \o q \in Paths
           /\ p \o <<>> = p /\ <<>> \o p = p
<1>1. p \in Seq(Names) /\ q \in Seq(Names) /\ <<x>> \in Seq(Names) /\ p \o q \in Seq(Names)
  BY ConcatProperties DEF Paths
<1>2. Append(p \o q, x) = (p \o q) \o <<x>> /\ Append(q, x) = q \o <<x>>
  BY <1>1, AppendIsConcat
<1>3. (p \o q) \o <<x>> = p \o (q \o <<x>>)
  BY <1>1, ConcatAssociative
<1>4. p \o <<>> = p /\ <<>> \o p = p
  BY <1>1, ConcatEmptySeq
<1>5. QED
  BY <1>1, <1>2, <1>3, <1>4 DEF Paths

LEMMA AppendConcat ==
    ASSUME NEW p \in Paths, NEW q \in Paths, NEW x \in Names
    PROVE  Append(p \o q, x) = p \o Append(q, x)
<1>1. p \in Seq(Names) /\ q \in Seq(Names)
  BY DEF Paths
<1>2. QED
  BY <1>1

(* What it is to be a prefix.                                                *)
LEMMA PrefixFacts ==
    ASSUME NEW p \in Paths, NEW q \in Paths
    PROVE  IsPrefix(p, q) <=> Len(p) <= Len(q) /\ \A i \in 1..Len(p) : p[i] = q[i]
<1>0. Len(p) \in Nat /\ Len(q) \in Nat /\ p \in Seq(Names) /\ q \in Seq(Names)
  BY DEF Paths
<1>1. ASSUME Len(p) <= Len(q) PROVE SubSeq(p, 1, Len(p)) = SubSeq(q, 1, Len(p)) <=> \A i \in 1..Len(p) : p[i] = q[i]
  <2>1. SubSeq(p, 1, Len(p)) = [i \in 1..Len(p) |-> p[i]]
    BY <1>0
  <2>2. SubSeq(q, 1, Len(p)) = [i \in 1..Len(p) |-> q[i]]
    BY <1>0, <1>1
  <2>3. QED
    BY <2>1, <2>2
<1>2. QED
  BY <1>1 DEF IsPrefix

---------------------------------------------------------------------------
(* Places and walks.                                                         *)

(* The mounts passed from a place to the topmost one.                        *)
LEMMA FollowFacts ==
    ASSUME NEW n, Len(n.mounts) \in Nat, NEW p
    PROVE  \E top : /\ top[0] = p
                    /\ \A k \in 1..Len(n.mounts) : top[k] = Covered(n, top[k - 1])
                    /\ Follow(n, p) = top[Len(n.mounts)]
<1> DEFINE D(m, f) == f = [k \in 0..m |-> IF k = 0 THEN p ELSE Covered(n, f[k - 1])]
           T == {m \in Nat : \E f : D(m, f)}
<1>1. 0 \in T
  <2>1. D(0, [k \in 0..0 |-> p])
    OBVIOUS
  <2>2. QED
    BY <2>1
<1>2. ASSUME NEW m \in Nat, m \in T PROVE m + 1 \in T
  <2>1. PICK f : D(m, f)
    BY <1>2
  <2> DEFINE h == [k \in 0..(m + 1) |-> IF k = m + 1 THEN Covered(n, f[m]) ELSE f[k]]
             g == [k \in 0..(m + 1) |-> IF k = 0 THEN p ELSE Covered(n, h[k - 1])]
  <2>2. ASSUME NEW k \in 0..(m + 1) PROVE h[k] = g[k]
    <3>1. CASE k = m + 1
      <4>1. k # 0 /\ k - 1 = m /\ m \in 0..(m + 1) /\ m # m + 1
        BY <3>1
      <4>2. h[m] = f[m]
        BY <4>1
      <4>3. h[k] = Covered(n, f[m]) /\ g[k] = Covered(n, h[m])
        BY <3>1, <4>1
      <4>4. QED
        BY <4>2, <4>3
    <3>2. CASE k # m + 1 /\ k # 0
      <4>1. k \in 0..m /\ k - 1 \in 0..(m + 1) /\ k - 1 # m + 1
        BY <3>2
      <4>2. h[k] = f[k] /\ h[k - 1] = f[k - 1]
        BY <3>2, <4>1
      <4>3. f[k] = Covered(n, f[k - 1])
        BY <2>1, <3>2, <4>1
      <4>4. g[k] = Covered(n, h[k - 1])
        BY <3>2
      <4>5. QED
        BY <4>2, <4>3, <4>4
    <3>3. CASE k = 0
      <4>1. 0 \in 0..m /\ 0 # m + 1
        OBVIOUS
      <4>2. f[0] = p
        BY <2>1, <4>1
      <4>3. QED
        BY <3>3, <4>1, <4>2
    <3>4. QED
      BY <3>1, <3>2, <3>3
  <2>3. D(m + 1, h)
    BY <2>2
  <2>4. m + 1 \in Nat
    OBVIOUS
  <2> HIDE DEF D, h
  <2>5. QED
    BY <2>3, <2>4
<1>3. Nat \subseteq T
  <2> HIDE DEF T
  <2> QED BY <1>1, <1>2, SetInduction
<1> DEFINE top == CHOOSE f : D(Len(n.mounts), f)
<1>4. D(Len(n.mounts), top)
  <2>1. \E f : D(Len(n.mounts), f)
    BY <1>3
  <2> HIDE DEF D
  <2>2. QED
    BY <2>1
<1>5. Follow(n, p) = top[Len(n.mounts)]
  BY DEF Follow
<1>6. 0 \in 0..Len(n.mounts) /\ \A k \in 1..Len(n.mounts) : k \in 0..Len(n.mounts) /\ k # 0
  OBVIOUS
<1> HIDE DEF top
<1>7. top[0] = p /\ \A k \in 1..Len(n.mounts) : top[k] = Covered(n, top[k - 1])
  BY <1>4, <1>6
<1>8. QED
  BY <1>5, <1>7

(* What holds of a place and of the mount over it holds of the topmost one.  *)
LEMMA FollowIn ==
    ASSUME NEW n, Len(n.mounts) \in Nat, NEW p, NEW G, p \in G,
           \A q \in G : Covered(n, q) \in G
    PROVE  Follow(n, p) \in G
<1>1. PICK top : /\ top[0] = p
                 /\ \A k \in 1..Len(n.mounts) : top[k] = Covered(n, top[k - 1])
                 /\ Follow(n, p) = top[Len(n.mounts)]
  BY FollowFacts
<1> DEFINE T == {k \in Nat : k <= Len(n.mounts) => top[k] \in G}
<1>2. 0 \in T
  BY <1>1
<1>3. ASSUME NEW k \in Nat, k \in T, k + 1 <= Len(n.mounts) PROVE top[k + 1] \in G
  <2>1. k + 1 \in 1..Len(n.mounts) /\ k + 1 - 1 = k /\ k <= Len(n.mounts)
    BY <1>3
  <2>2. top[k + 1] = Covered(n, top[k]) /\ top[k] \in G
    BY <1>1, <1>3, <2>1
  <2>3. QED
    BY <2>2
<1>4. Nat \subseteq T
  <2>1. \A k \in Nat : k \in T => k + 1 \in T
    BY <1>3
  <2> HIDE DEF T
  <2> QED BY <1>2, <2>1, SetInduction
<1>5. QED
  BY <1>1, <1>4

(* Where nothing is mounted, a place is its own top.                         *)
LEMMA FollowSelf ==
    ASSUME NEW n, Len(n.mounts) \in Nat, NEW p, Over(n, p) = {}
    PROVE  Follow(n, p) = p
<1>1. \A q \in {p} : Covered(n, q) \in {p}
  BY DEF Covered
<1>2. Follow(n, p) \in {p}
  BY <1>1, FollowIn
<1>3. QED
  BY <1>2

(* The places passed on the way along a path.                                *)
LEMMA WalkFacts ==
    ASSUME NEW n, NEW d, NEW path \in Paths
    PROVE  \E place : /\ place[0] = Root(n, n.root)
                      /\ \A k \in 1..Len(path) : place[k] = Enter(n, d, place[k - 1], path[k])
                      /\ Walk(n, d, path) = place[Len(path)]
<1> DEFINE D(m, f) == f = [k \in 0..m |-> IF k = 0 THEN Root(n, n.root) ELSE Enter(n, d, f[k - 1], path[k])]
           T == {m \in Nat : \E f : D(m, f)}
<1>0. Len(path) \in Nat
  BY DEF Paths
<1>1. 0 \in T
  <2>1. D(0, [k \in 0..0 |-> Root(n, n.root)])
    OBVIOUS
  <2>2. QED
    BY <2>1
<1>2. ASSUME NEW m \in Nat, m \in T PROVE m + 1 \in T
  <2>1. PICK f : D(m, f)
    BY <1>2
  <2> DEFINE h == [k \in 0..(m + 1) |-> IF k = m + 1 THEN Enter(n, d, f[m], path[m + 1]) ELSE f[k]]
             g == [k \in 0..(m + 1) |-> IF k = 0 THEN Root(n, n.root) ELSE Enter(n, d, h[k - 1], path[k])]
  <2>2. ASSUME NEW k \in 0..(m + 1) PROVE h[k] = g[k]
    <3>1. CASE k = m + 1
      <4>1. k # 0 /\ k - 1 = m /\ m \in 0..(m + 1) /\ m # m + 1
        BY <3>1
      <4>2. h[m] = f[m]
        BY <4>1
      <4>3. h[k] = Enter(n, d, f[m], path[k]) /\ g[k] = Enter(n, d, h[m], path[k])
        BY <3>1, <4>1
      <4>4. QED
        BY <4>2, <4>3
    <3>2. CASE k # m + 1 /\ k # 0
      <4>1. k \in 0..m /\ k - 1 \in 0..(m + 1) /\ k - 1 # m + 1
        BY <3>2
      <4>2. h[k] = f[k] /\ h[k - 1] = f[k - 1]
        BY <3>2, <4>1
      <4>3. f[k] = Enter(n, d, f[k - 1], path[k])
        BY <2>1, <3>2, <4>1
      <4>4. g[k] = Enter(n, d, h[k - 1], path[k])
        BY <3>2
      <4>5. QED
        BY <4>2, <4>3, <4>4
    <3>3. CASE k = 0
      <4>1. 0 \in 0..m /\ 0 # m + 1
        OBVIOUS
      <4>2. f[0] = Root(n, n.root)
        BY <2>1, <4>1
      <4>3. QED
        BY <3>3, <4>1, <4>2
    <3>4. QED
      BY <3>1, <3>2, <3>3
  <2>3. D(m + 1, h)
    BY <2>2
  <2>4. m + 1 \in Nat
    OBVIOUS
  <2> HIDE DEF D, h
  <2>5. QED
    BY <2>3, <2>4
<1>3. Nat \subseteq T
  <2> HIDE DEF T
  <2> QED BY <1>1, <1>2, SetInduction
<1> DEFINE place == CHOOSE f : D(Len(path), f)
<1>4. D(Len(path), place)
  <2>1. \E f : D(Len(path), f)
    BY <1>0, <1>3
  <2> HIDE DEF D
  <2>2. QED
    BY <2>1
<1>5. Walk(n, d, path) = place[Len(path)]
  BY DEF Walk
<1>6. 0 \in 0..Len(path) /\ \A k \in 1..Len(path) : k \in 0..Len(path) /\ k # 0
  BY <1>0
<1> HIDE DEF place
<1>7. place[0] = Root(n, n.root) /\ \A k \in 1..Len(path) : place[k] = Enter(n, d, place[k - 1], path[k])
  BY <1>4, <1>6
<1>8. QED
  BY <1>5, <1>7

(* A walk of no names ends at the root.                                      *)
LEMMA WalkEmpty ==
    ASSUME NEW n, NEW d
    PROVE  Walk(n, d, <<>>) = Root(n, n.root)
<1>1. <<>> \in Paths /\ Len(<<>>) = 0
  BY DEF Paths
<1>2. QED
  BY <1>1, WalkFacts

(* A walk of one name more takes one step more.                              *)
LEMMA WalkAppend ==
    ASSUME NEW n, NEW d, NEW path \in Paths, NEW x \in Names
    PROVE  Walk(n, d, Append(path, x)) = Enter(n, d, Walk(n, d, path), x)
<1> DEFINE longer == Append(path, x)
           m == Len(path)
<1>0. /\ longer \in Paths /\ Len(longer) = m + 1 /\ m \in Nat /\ longer[m + 1] = x
      /\ \A i \in 1..m : longer[i] = path[i]
  BY AppendFacts
<1> HIDE DEF longer, m
<1>1. PICK f : /\ f[0] = Root(n, n.root)
               /\ \A k \in 1..m : f[k] = Enter(n, d, f[k - 1], path[k])
               /\ Walk(n, d, path) = f[m]
  BY WalkFacts DEF m
<1>2. PICK g : /\ g[0] = Root(n, n.root)
               /\ \A k \in 1..(m + 1) : g[k] = Enter(n, d, g[k - 1], longer[k])
               /\ Walk(n, d, longer) = g[m + 1]
  <2>1. PICK g : /\ g[0] = Root(n, n.root)
                 /\ \A k \in 1..Len(longer) : g[k] = Enter(n, d, g[k - 1], longer[k])
                 /\ Walk(n, d, longer) = g[Len(longer)]
    <3>1. longer \in Paths
      BY <1>0, Zenon
    <3>2. QED
      BY <3>1, WalkFacts, Zenon
  <2>2. QED
    BY <1>0, <2>1
<1> DEFINE T == {k \in Nat : k <= m => f[k] = g[k]}
<1>3. 0 \in T
  BY <1>1, <1>2
<1>4. ASSUME NEW k \in Nat, k \in T, k + 1 <= m PROVE f[k + 1] = g[k + 1]
  <2>1. k + 1 \in 1..m /\ k + 1 \in 1..(m + 1) /\ k + 1 - 1 = k /\ k <= m
    BY <1>0, <1>4
  <2>2. f[k + 1] = Enter(n, d, f[k], path[k + 1]) /\ g[k + 1] = Enter(n, d, g[k], longer[k + 1])
    BY <1>1, <1>2, <2>1
  <2>3. longer[k + 1] = path[k + 1] /\ f[k] = g[k]
    BY <1>0, <1>4, <2>1
  <2>4. QED
    BY <2>2, <2>3
<1>5. Nat \subseteq T
  <2>1. \A k \in Nat : k \in T => k + 1 \in T
    BY <1>4
  <2> HIDE DEF T
  <2> QED BY <1>3, <2>1, SetInduction
<1>6. f[m] = g[m]
  BY <1>0, <1>5
<1>7. m + 1 \in 1..(m + 1) /\ m + 1 - 1 = m
  BY <1>0
<1>8. g[m + 1] = Enter(n, d, g[m], x)
  BY <1>0, <1>2, <1>7
<1>9. QED
  BY <1>1, <1>2, <1>6, <1>8 DEF longer

(* What holds at the root, and of a name further, and of the mount over a    *)
(* place, holds where a walk ends.                                           *)
LEMMA WalkIn ==
    ASSUME NEW n, Len(n.mounts) \in Nat, NEW d, NEW G,
           Root(n, n.root) \in G, \A q \in G : Covered(n, q) \in G,
           \A q \in G, x \in Names : Kind(n, d, In(q, x)) # "none" => In(q, x) \in G
    PROVE  \A path \in Paths : Walk(n, d, path) \in G \cup {Nowhere}
<1> DEFINE T == {p \in Paths : Walk(n, d, p) \in G \cup {Nowhere}}
<1>1. <<>> \in T
  <2>1. <<>> \in Paths
    BY DEF Paths
  <2>2. QED
    BY <2>1, WalkEmpty
<1>2. ASSUME NEW p \in Paths, NEW x \in Names, p \in T PROVE Append(p, x) \in T
  <2> DEFINE w == Walk(n, d, p)
  <2>1. Walk(n, d, Append(p, x)) = Enter(n, d, w, x) /\ Append(p, x) \in Paths
    BY WalkAppend, AppendFacts
  <2>2. CASE w = Nowhere \/ Kind(n, d, In(w, x)) = "none"
    BY <2>1, <2>2 DEF Enter
  <2>3. CASE ~(w = Nowhere \/ Kind(n, d, In(w, x)) = "none")
    <3>1. w \in G
      BY <1>2, <2>3
    <3> HIDE DEF w
    <3>2. In(w, x) \in G
      BY <2>3, <3>1
    <3>3. Follow(n, In(w, x)) \in G
      BY <3>2, FollowIn
    <3>4. QED
      BY <2>1, <2>3, <3>3 DEF Enter
  <2>4. QED
    BY <2>2, <2>3
<1>3. Paths \subseteq T
  <2>1. \A p \in Paths, x \in Names : p \in T => Append(p, x) \in T
    BY <1>2
  <2> HIDE DEF T
  <2> QED BY <1>1, <2>1, PathInduction
<1>4. QED
  BY <1>3

---------------------------------------------------------------------------
(* Types, and what the operations on a namespace change.                     *)

Place == [mnt : Nat, path : Paths]
Tags == {<<"host">>, <<"root">>, <<"detached">>} \cup {<<t, k>> : t \in {"tmpfs", "bind", "proc"}, k \in Nat}
FsTypes == {"disk", "tmpfs", "proc"}
MountType == [parent : Nat, on : Paths, fs : FsTypes, base : Paths, ro : BOOLEAN, made : Tags]
NsType == [root : Nat, mounts : Seq(MountType)]
DiskOk(d) == <<>> \in DOMAIN d /\ \A q \in DOMAIN d : q \in Paths /\ d[q] \in {"dir", "file", "other"}

(* The tags of mounts.                                                       *)
LEMMA TagFacts ==
    ASSUME NEW k \in Nat, NEW t \in {"tmpfs", "bind", "proc"}
    PROVE  /\ <<t, k>> \in Tags /\ <<t, k>> # <<"detached">>
           /\ <<"host">> \in Tags /\ <<"root">> \in Tags /\ <<"detached">> \in Tags
           /\ <<"host">> # <<"detached">> /\ <<"root">> # <<"detached">>
<1>1. <<t, k>> # <<"detached">>
  <2>1. Len(<<t, k>>) = 2 /\ Len(<<"detached">>) = 1
    OBVIOUS
  <2>2. QED
    BY <2>1
<1>2. QED
  BY <1>1 DEF Tags

LEMMA NsFacts ==
    ASSUME NEW n \in NsType
    PROVE  /\ Len(n.mounts) \in Nat /\ DOMAIN n.mounts = 1..Len(n.mounts) /\ n.root \in Nat
           /\ n.mounts \in Seq(MountType)
           /\ \A i \in 1..Len(n.mounts) :
                /\ n.mounts[i] \in MountType
                /\ n.mounts[i].parent \in Nat /\ n.mounts[i].on \in Paths /\ n.mounts[i].fs \in FsTypes
                /\ n.mounts[i].base \in Paths /\ n.mounts[i].ro \in BOOLEAN /\ n.mounts[i].made \in Tags
<1>1. n.mounts \in Seq(MountType) /\ n.root \in Nat
  BY DEF NsType
<1>2. Len(n.mounts) \in Nat /\ DOMAIN n.mounts = 1..Len(n.mounts)
  BY <1>1
<1>3. \A i \in 1..Len(n.mounts) : n.mounts[i] \in MountType
  BY <1>1, <1>2
<1>4. \A m \in MountType : /\ m.parent \in Nat /\ m.on \in Paths /\ m.fs \in FsTypes
                           /\ m.base \in Paths /\ m.ro \in BOOLEAN /\ m.made \in Tags
  BY DEF MountType
<1>5. QED
  BY <1>1, <1>2, <1>3, <1>4

(* Where a walk may end.                                                     *)
LEMMA WalkType ==
    ASSUME NEW n \in NsType, n.root \in DOMAIN n.mounts, NEW d, NEW path \in Paths
    PROVE  /\ Walk(n, d, path) \in Place
           /\ Walk(n, d, path) = Nowhere \/ Walk(n, d, path).mnt \in DOMAIN n.mounts
<1> DEFINE G == {p \in Place : p.mnt \in DOMAIN n.mounts}
<1>1. \A i \in DOMAIN n.mounts : Root(n, i) \in G
  <2>1. \A i \in DOMAIN n.mounts : n.mounts[i].base \in Paths /\ i \in Nat
    BY NsFacts
  <2>2. QED
    BY <2>1 DEF Root, Place
<1>2. \A q \in G : Covered(n, q) \in G
  <2> SUFFICES ASSUME NEW q \in G, Over(n, q) # {} PROVE Covered(n, q) \in G
    BY DEF Covered
  <2>1. (CHOOSE i \in Over(n, q) : TRUE) \in DOMAIN n.mounts
    BY DEF Over
  <2>2. QED
    BY <1>1, <2>1 DEF Covered
<1>3. \A q \in G, x \in Names : In(q, x) \in G
  <2>1. \A q \in G : q.path \in Paths /\ q.mnt \in Nat
    BY DEF Place
  <2>2. \A q \in G, x \in Names : Append(q.path, x) \in Paths
    BY <2>1, AppendFacts
  <2>3. QED
    BY <2>1, <2>2 DEF In, Place
<1>4. Len(n.mounts) \in Nat
  BY NsFacts
<1>5. Walk(n, d, path) \in G \cup {Nowhere}
  <2> HIDE DEF G
  <2> QED BY <1>1, <1>2, <1>3, <1>4, WalkIn
<1>6. Nowhere \in Place
  BY DEF Nowhere, Place, Paths
<1>7. QED
  BY <1>5, <1>6

(* A place of some kind is somewhere.                                        *)
LEMMA KindFacts ==
    ASSUME NEW n, NEW d, NEW p, Kind(n, d, p) # "none"
    PROVE  p # Nowhere
BY DEF Kind

(* Namespace c is n with one mount more.                                     *)
Added(n, c, m) ==
    /\ c \in NsType /\ c.root = n.root /\ Len(c.mounts) = Len(n.mounts) + 1
    /\ \A i \in 1..Len(n.mounts) : c.mounts[i] = n.mounts[i]
    /\ c.mounts[Len(n.mounts) + 1] = m

LEMMA MountFacts ==
    ASSUME NEW n \in NsType, NEW p \in Place, NEW fs \in FsTypes, NEW base \in Paths,
           NEW ro \in BOOLEAN, NEW made \in Tags
    PROVE  Added(n, Mount(n, p, fs, base, ro, made),
                 [parent |-> p.mnt, on |-> p.path, fs |-> fs, base |-> base, ro |-> ro, made |-> made])
<1> DEFINE m == [parent |-> p.mnt, on |-> p.path, fs |-> fs, base |-> base, ro |-> ro, made |-> made]
           q == Append(n.mounts, m)
<1>1. m \in MountType
  BY DEF MountType, Place
<1>2. n.mounts \in Seq(MountType) /\ n.root \in Nat /\ Len(n.mounts) \in Nat
  BY NsFacts
<1> HIDE DEF m
<1>3. q \in Seq(MountType) /\ Len(q) = Len(n.mounts) + 1 /\ q[Len(n.mounts) + 1] = m
      /\ \A i \in 1..Len(n.mounts) : q[i] = n.mounts[i]
  BY <1>1, <1>2, AppendProperties
<1>4. Mount(n, p, fs, base, ro, made) = [n EXCEPT !.mounts = q]
  BY DEF Mount, m
<1>5. [n EXCEPT !.mounts = q] \in NsType /\ [n EXCEPT !.mounts = q].root = n.root
      /\ [n EXCEPT !.mounts = q].mounts = q
  <2> HIDE DEF q
  <2> QED BY <1>2, <1>3 DEF NsType
<1> HIDE DEF q
<1>6. Added(n, [n EXCEPT !.mounts = q], m)
  BY <1>3, <1>5 DEF Added
<1>7. QED
  BY <1>4, <1>6 DEF m

(* A bind mount, with the mount it is made of.                               *)
LEMMA BindFacts ==
    ASSUME NEW n \in NsType, n.root \in DOMAIN n.mounts, NEW d,
           NEW source \in Paths, NEW target \in Paths, NEW made \in Tags,
           Walk(n, d, source) # Nowhere
    PROVE  LET s == Walk(n, d, source)
               t == Walk(n, d, target)
           IN  Added(n, BindMount(n, d, source, target, made),
                     [parent |-> t.mnt, on |-> t.path, fs |-> n.mounts[s.mnt].fs, base |-> s.path,
                      ro |-> n.mounts[s.mnt].ro, made |-> made])
<1> DEFINE s == Walk(n, d, source)
           t == Walk(n, d, target)
           m == n.mounts[s.mnt]
<1>1. s \in Place /\ t \in Place /\ s.mnt \in DOMAIN n.mounts
  BY WalkType
<1>2. m.fs \in FsTypes /\ m.ro \in BOOLEAN
  BY <1>1, NsFacts
<1>3. s.path \in Paths
  BY <1>1 DEF Place
<1>4. BindMount(n, d, source, target, made) = Mount(n, t, m.fs, s.path, m.ro, made)
  BY DEF BindMount
<1>5. Added(n, Mount(n, t, m.fs, s.path, m.ro, made),
            [parent |-> t.mnt, on |-> t.path, fs |-> m.fs, base |-> s.path, ro |-> m.ro, made |-> made])
  <2>1. t \in Place
    BY <1>1, Zenon
  <2> HIDE DEF s, t, m
  <2>2. QED
    BY <1>2, <1>3, <2>1, MountFacts, Zenon
<1>6. QED
  BY <1>4, <1>5, Zenon

(* Two mounts that differ in being read-only at most.                        *)
Alike(m, c) ==
    /\ m.parent = c.parent /\ m.on = c.on /\ m.fs = c.fs /\ m.base = c.base /\ m.made = c.made
    /\ m.ro => c.ro

(* Namespace c is n with mount w read-only.                                  *)
Protected(n, c, w) ==
    /\ c \in NsType /\ c.root = n.root /\ Len(c.mounts) = Len(n.mounts)
    /\ \A i \in 1..Len(n.mounts) : Alike(n.mounts[i], c.mounts[i])
    /\ \A i \in 1..Len(n.mounts) : i # w => c.mounts[i] = n.mounts[i]
    /\ c.mounts[w].ro = TRUE

LEMMA RemountFacts ==
    ASSUME NEW n \in NsType, NEW d, NEW target, Walk(n, d, target).mnt \in DOMAIN n.mounts
    PROVE  Protected(n, Remount(n, d, target), Walk(n, d, target).mnt)
<1> DEFINE w == Walk(n, d, target).mnt
           m == [n.mounts[w] EXCEPT !.ro = TRUE]
           q == [n.mounts EXCEPT ![w] = m]
<1>1. n.mounts \in Seq(MountType) /\ n.root \in Nat /\ w \in 1..Len(n.mounts) /\ Len(n.mounts) \in Nat
  BY NsFacts
<1>2. n.mounts[w] \in MountType
  BY <1>1
<1>3. m \in MountType /\ Alike(n.mounts[w], m) /\ m.ro = TRUE
  BY <1>2 DEF MountType, Alike
<1> HIDE DEF w, m
<1>4. q \in Seq(MountType) /\ Len(q) = Len(n.mounts) /\ q[w] = m
      /\ \A i \in 1..Len(n.mounts) : i # w => q[i] = n.mounts[i]
  BY <1>1, <1>3
<1>5. Remount(n, d, target) = [n EXCEPT !.mounts = q]
  BY DEF Remount, w, m
<1>6. [n EXCEPT !.mounts = q] \in NsType /\ [n EXCEPT !.mounts = q].root = n.root
      /\ [n EXCEPT !.mounts = q].mounts = q
  <2> HIDE DEF q
  <2> QED BY <1>1, <1>4 DEF NsType
<1>7. \A i \in 1..Len(n.mounts) : Alike(n.mounts[i], q[i])
  <2> HIDE DEF q
  <2>1. \A i \in 1..Len(n.mounts) : i # w => Alike(n.mounts[i], q[i])
    BY <1>4 DEF Alike
  <2>2. QED
    BY <1>3, <1>4, <2>1
<1> HIDE DEF q
<1>8. Protected(n, [n EXCEPT !.mounts = q], w)
  BY <1>3, <1>4, <1>6, <1>7 DEF Protected
<1>9. QED
  BY <1>5, <1>8, Zenon DEF w

(* The mounts below some.                                                    *)
Inherits(n, S) == \A i \in DOMAIN n.mounts : n.mounts[i].parent \in S => i \in S

LEMMA BelowFacts ==
    ASSUME NEW n, NEW some, some \subseteq DOMAIN n.mounts
    PROVE  /\ Below(n, some) \subseteq DOMAIN n.mounts /\ some \subseteq Below(n, some)
           /\ Inherits(n, Below(n, some))
           /\ \A S \in SUBSET DOMAIN n.mounts : some \subseteq S /\ Inherits(n, S) => Below(n, some) \subseteq S
BY Zenon DEF Below, Inherits

LEMMA DetachFacts ==
    ASSUME NEW n \in NsType, NEW gone, gone \subseteq DOMAIN n.mounts
    PROVE  LET c == Detach(n, gone)
               B == Below(n, gone)
           IN
           /\ c \in NsType /\ c.root = n.root /\ Len(c.mounts) = Len(n.mounts)
           /\ DOMAIN c.mounts = DOMAIN n.mounts
           /\ \A i \in 1..Len(n.mounts) :
                /\ i \notin B => c.mounts[i] = n.mounts[i]
                /\ i \in B => c.mounts[i].parent = 0 /\ c.mounts[i].made = <<"detached">>
                /\ c.mounts[i].on = n.mounts[i].on /\ c.mounts[i].fs = n.mounts[i].fs
                /\ c.mounts[i].base = n.mounts[i].base
<1> DEFINE B == Below(n, gone)
           g(i) == [n.mounts[i] EXCEPT !.parent = 0, !.made = <<"detached">>]
           q == [i \in DOMAIN n.mounts |-> IF i \in B THEN g(i) ELSE n.mounts[i]]
<1>1. /\ n.mounts \in Seq(MountType) /\ n.root \in Nat /\ Len(n.mounts) \in Nat
      /\ DOMAIN n.mounts = 1..Len(n.mounts) /\ \A i \in 1..Len(n.mounts) : n.mounts[i] \in MountType
  BY NsFacts
<1>2. ASSUME NEW i \in 1..Len(n.mounts)
      PROVE  /\ g(i) \in MountType /\ g(i).parent = 0 /\ g(i).made = <<"detached">>
             /\ g(i).on = n.mounts[i].on /\ g(i).fs = n.mounts[i].fs /\ g(i).base = n.mounts[i].base
  <2>1. <<"detached">> \in Tags
    BY DEF Tags
  <2>2. n.mounts[i] \in MountType
    BY <1>1
  <2>3. QED
    BY <2>1, <2>2 DEF MountType
<1> HIDE DEF B, g
<1>3. /\ q \in Seq(MountType) /\ Len(q) = Len(n.mounts) /\ DOMAIN q = DOMAIN n.mounts
      /\ \A i \in 1..Len(n.mounts) : q[i] = IF i \in B THEN g(i) ELSE n.mounts[i]
  <2>1. \A i \in 1..Len(n.mounts) : q[i] \in MountType
    BY <1>1, <1>2
  <2>2. q = [i \in 1..Len(n.mounts) |-> q[i]]
    BY <1>1
  <2>3. q \in Seq(MountType) /\ Len(q) = Len(n.mounts)
    <3>1. q \in [1..Len(n.mounts) -> MountType]
      BY <2>1, <2>2
    <3> HIDE DEF q
    <3>2. QED
      BY <1>1, <3>1
  <2>4. QED
    BY <1>1, <2>3
<1>4. Detach(n, gone) = [n EXCEPT !.mounts = q]
  BY DEF Detach, B, g
<1>5. [n EXCEPT !.mounts = q] \in NsType /\ [n EXCEPT !.mounts = q].root = n.root
      /\ [n EXCEPT !.mounts = q].mounts = q
  <2> HIDE DEF q
  <2> QED BY <1>1, <1>3 DEF NsType
<1> HIDE DEF q
<1>6. ASSUME NEW i \in 1..Len(n.mounts)
      PROVE  /\ i \notin B => q[i] = n.mounts[i]
             /\ i \in B => q[i].parent = 0 /\ q[i].made = <<"detached">>
             /\ q[i].on = n.mounts[i].on /\ q[i].fs = n.mounts[i].fs
             /\ q[i].base = n.mounts[i].base
  BY <1>2, <1>3
<1>7. QED
  BY <1>3, <1>4, <1>5, <1>6 DEF B

(* Namespace c is n with root new, and the old root at put_old.              *)
Turned(n, c, new, put_old) ==
    /\ c \in NsType /\ c.root = new.mnt /\ Len(c.mounts) = Len(n.mounts)
    /\ \A i \in 1..Len(n.mounts) :
        /\ i \notin {new.mnt, n.root} => c.mounts[i] = n.mounts[i]
        /\ c.mounts[i].fs = n.mounts[i].fs /\ c.mounts[i].base = n.mounts[i].base
        /\ c.mounts[i].made = n.mounts[i].made /\ c.mounts[i].ro = n.mounts[i].ro
    /\ c.mounts[new.mnt].parent = 0 /\ c.mounts[n.root].parent = put_old.mnt
    /\ c.mounts[n.root].on = put_old.path /\ c.mounts[new.mnt].on = <<>>

LEMMA PivotFacts ==
    ASSUME NEW n \in NsType, NEW new \in Place, NEW put_old \in Place,
           n.root \in DOMAIN n.mounts, new.mnt \in DOMAIN n.mounts, new.mnt # n.root
    PROVE  Turned(n, PivotRoot(n, new, put_old), new, put_old)
<1> DEFINE a == new.mnt
           b == n.root
           g == [n.mounts[a] EXCEPT !.parent = 0, !.on = <<>>]
           h == [n.mounts[b] EXCEPT !.parent = put_old.mnt, !.on = put_old.path]
           q == [n.mounts EXCEPT ![a].parent = 0, ![a].on = <<>>, ![b].parent = put_old.mnt, ![b].on = put_old.path]
           c == PivotRoot(n, new, put_old)
<1>1. /\ n.mounts \in Seq(MountType) /\ Len(n.mounts) \in Nat /\ a \in 1..Len(n.mounts) /\ b \in 1..Len(n.mounts)
      /\ n.mounts[a] \in MountType /\ n.mounts[b] \in MountType /\ a # b /\ a \in Nat
  BY NsFacts
<1>2. put_old.mnt \in Nat /\ put_old.path \in Paths /\ <<>> \in Paths
  BY DEF Place, Paths
<1>3. /\ g \in MountType /\ g.parent = 0 /\ g.on = <<>> /\ g.fs = n.mounts[a].fs /\ g.base = n.mounts[a].base
      /\ g.made = n.mounts[a].made /\ g.ro = n.mounts[a].ro
  BY <1>1, <1>2 DEF MountType
<1>4. /\ h \in MountType /\ h.parent = put_old.mnt /\ h.on = put_old.path /\ h.fs = n.mounts[b].fs
      /\ h.base = n.mounts[b].base /\ h.made = n.mounts[b].made /\ h.ro = n.mounts[b].ro
  BY <1>1, <1>2 DEF MountType
<1>5. q = [n.mounts EXCEPT ![a] = g, ![b] = h]
  BY <1>1
<1>6. c = [root |-> a, mounts |-> q]
  BY DEF PivotRoot
<1> HIDE DEF a, b, g, h, q, c
<1>7. /\ q \in Seq(MountType) /\ Len(q) = Len(n.mounts) /\ q[a] = g /\ q[b] = h
      /\ \A i \in 1..Len(n.mounts) : i \notin {a, b} => q[i] = n.mounts[i]
  <2>1. [n.mounts EXCEPT ![a] = g] \in Seq(MountType) /\ Len([n.mounts EXCEPT ![a] = g]) = Len(n.mounts)
    BY <1>1, <1>3
  <2>2. QED
    BY <1>1, <1>3, <1>4, <1>5, <2>1
<1>8. c \in NsType /\ c.root = a /\ c.mounts = q
  BY <1>1, <1>6, <1>7 DEF NsType
<1>9. ASSUME NEW i \in 1..Len(n.mounts)
      PROVE  /\ i \notin {a, b} => q[i] = n.mounts[i]
             /\ q[i].fs = n.mounts[i].fs /\ q[i].base = n.mounts[i].base
             /\ q[i].made = n.mounts[i].made /\ q[i].ro = n.mounts[i].ro
  <2>1. CASE i \notin {a, b}
    BY <1>7, <2>1
  <2>2. CASE i = a
    BY <1>3, <1>7, <2>2
  <2>3. CASE i = b
    BY <1>4, <1>7, <2>3
  <2>4. QED
    BY <2>1, <2>2, <2>3
<1>10. QED
  BY <1>3, <1>4, <1>7, <1>8, <1>9 DEF Turned, a, b, c

---------------------------------------------------------------------------
(* The shapes a namespace goes through.                                      *)

(* A tree: all that is not taken away hangs below the root.                  *)
Tree(n) ==
    /\ n \in NsType /\ n.root \in DOMAIN n.mounts
    /\ n.mounts[n.root].parent = 0 /\ n.mounts[n.root].made # <<"detached">>
    /\ \A i \in DOMAIN n.mounts : i # n.root =>
        /\ n.mounts[i].parent = 0 <=> n.mounts[i].made = <<"detached">>
        /\ n.mounts[i].parent # 0 =>
            /\ n.mounts[i].parent \in DOMAIN n.mounts
            /\ n.mounts[i].parent = n.root \/ n.mounts[n.mounts[i].parent].parent # 0

(* The host's tree, with more mounts on it but none on the way to root.      *)
Host(n) == n.root = 1 /\ n.mounts[1].base = <<>> /\ n.mounts[1].fs = "disk"
Off(n, i, root) == n.mounts[i].parent < i /\ (root # None /\ n.mounts[i].parent = 1 => ~IsPrefix(n.mounts[i].on, root))
Early(n, root) == Tree(n) /\ Host(n) /\ \A i \in DOMAIN n.mounts : Off(n, i, root)

(* The same, and root is mounted on itself last, unless it was taken away.   *)
Bound(n, root) ==
    LET K == Len(n.mounts) IN
    /\ Tree(n) /\ Host(n) /\ K > 1
    /\ n.mounts[K].base = root /\ n.mounts[K].fs = "disk" /\ n.mounts[K].on = root
    /\ n.mounts[K].parent \in {0, 1}
    /\ \A i \in 1..(K - 1) : Off(n, i, root)

(* That mount is the root, and the host's tree is on a directory in it,      *)
(* unless it was taken away.                                                 *)
Pivoted(n, root) ==
    LET K == Len(n.mounts) IN
    /\ Tree(n) /\ K > 1 /\ n.root = K
    /\ n.mounts[K].base = root /\ n.mounts[K].fs = "disk"
    /\ n.mounts[1].parent \in {0, K} /\ n.mounts[1].on = Append(root, OldRoot) /\ n.mounts[1].base = <<>>
    /\ \A i \in 2..(K - 1) : n.mounts[i].parent < i /\ (n.mounts[i].parent = 1 => n.mounts[i].on # <<>>)

(* Only that mount is left.                                                  *)
Alone(n, root) ==
    /\ Tree(n) /\ n.mounts[n.root].base = root /\ n.mounts[n.root].fs = "disk"
    /\ \A i \in DOMAIN n.mounts : n.mounts[i].parent = 0

LEMMA HostFacts ==
    ASSUME NEW root
    PROVE  Early(HostNs, root)
<1> DEFINE m == [parent |-> 0, on |-> <<>>, fs |-> "disk", base |-> <<>>, ro |-> FALSE, made |-> <<"host">>]
<1>1. m \in MountType /\ <<"host">> # <<"detached">>
  <2>1. <<>> \in Paths /\ "disk" \in FsTypes /\ <<"host">> \in Tags
    BY DEF Paths, FsTypes, Tags
  <2>2. <<"host">> # <<"detached">>
    BY TagFacts
  <2>3. QED
    BY <2>1, <2>2 DEF MountType
<1>2. HostNs = [root |-> 1, mounts |-> <<m>>]
  BY DEF HostNs
<1>3. m.parent = 0 /\ m.base = <<>> /\ m.fs = "disk" /\ m.made = <<"host">>
  OBVIOUS
<1> HIDE DEF m
<1>4. <<m>> \in Seq(MountType) /\ DOMAIN <<m>> = {1} /\ <<m>>[1] = m
  BY <1>1
<1>5. HostNs \in NsType /\ HostNs.root = 1 /\ HostNs.mounts = <<m>>
  BY <1>2, <1>4 DEF NsType
<1>6. Tree(HostNs) /\ Host(HostNs)
  BY <1>1, <1>3, <1>4, <1>5 DEF Tree, Host
<1>7. \A i \in DOMAIN HostNs.mounts : Off(HostNs, i, root)
  BY <1>3, <1>4, <1>5 DEF Off
<1>8. QED
  BY <1>6, <1>7 DEF Early

(* A walk ends nowhere or at a mount that is not taken away, and at the      *)
(* first one along the names that were walked.                               *)
LEMMA WalkTree ==
    ASSUME NEW n, Tree(n), NEW d, NEW path \in Paths, Walk(n, d, path) # Nowhere
    PROVE  LET w == Walk(n, d, path) IN
           /\ w \in Place /\ w.mnt \in DOMAIN n.mounts
           /\ w.mnt = n.root \/ n.mounts[w.mnt].parent # 0
<1> DEFINE G == {p \in Place : p.mnt \in DOMAIN n.mounts /\ (p.mnt = n.root \/ n.mounts[p.mnt].parent # 0)}
           w == Walk(n, d, path)
<1>0. /\ n \in NsType /\ n.root \in DOMAIN n.mounts /\ Len(n.mounts) \in Nat /\ DOMAIN n.mounts = 1..Len(n.mounts)
      /\ \A i \in DOMAIN n.mounts : n.mounts[i].base \in Paths /\ i \in Nat /\ i # 0
  BY NsFacts DEF Tree
<1>1. Root(n, n.root) \in G
  BY <1>0 DEF Root, Place
<1>2. \A q \in G : Covered(n, q) \in G
  <2> SUFFICES ASSUME NEW q \in G, Over(n, q) # {} PROVE Covered(n, q) \in G
    BY DEF Covered
  <2>1. PICK i \in Over(n, q) : Covered(n, q) = Root(n, i)
    BY DEF Covered
  <2>2. i \in DOMAIN n.mounts /\ n.mounts[i].parent = q.mnt /\ q.mnt # 0
    BY <1>0 DEF Over
  <2>3. Root(n, i) \in G
    BY <1>0, <2>2 DEF Root, Place
  <2>4. QED
    BY <2>1, <2>3
<1>3. \A q \in G, x \in Names : In(q, x) \in G
  <2>1. \A q \in G : q.path \in Paths /\ q.mnt \in Nat
    BY DEF Place
  <2>2. \A q \in G, x \in Names : Append(q.path, x) \in Paths
    BY <2>1, AppendFacts
  <2>3. QED
    BY <2>1, <2>2 DEF In, Place
<1>4. w \in G \cup {Nowhere}
  <2> HIDE DEF G
  <2> QED BY <1>0, <1>1, <1>2, <1>3, WalkIn
<1>5. QED
  BY <1>4

LEMMA WalkHome ==
    ASSUME NEW n, Tree(n), NEW d
    PROVE  \A path \in Paths :
             LET w == Walk(n, d, path) IN
             w # Nowhere /\ w.mnt = n.root => w.path = n.mounts[n.root].base \o path
<1> DEFINE base == n.mounts[n.root].base
           T == {p \in Paths : LET w == Walk(n, d, p) IN w # Nowhere /\ w.mnt = n.root => w.path = base \o p}
<1>0. /\ n \in NsType /\ n.root \in DOMAIN n.mounts /\ Len(n.mounts) \in Nat /\ base \in Paths /\ n.root # 0
      /\ DOMAIN n.mounts = 1..Len(n.mounts) /\ n.mounts[n.root].parent = 0
  BY NsFacts DEF Tree
<1>1. <<>> \in T
  <2>1. Walk(n, d, <<>>) = Root(n, n.root) /\ base \o <<>> = base /\ <<>> \in Paths
    BY <1>0, WalkEmpty DEF Paths
  <2>2. Walk(n, d, <<>>).path = base \o <<>>
    BY <2>1 DEF Root
  <2>3. QED
    BY <2>1, <2>2
<1>2. ASSUME NEW p \in Paths, NEW x \in Names, p \in T PROVE Append(p, x) \in T
  <2> DEFINE w == Walk(n, d, p)
             v == Walk(n, d, Append(p, x))
  <2>1. v = Enter(n, d, w, x) /\ Append(p, x) \in Paths
    BY WalkAppend, AppendFacts
  <2> SUFFICES ASSUME v # Nowhere, v.mnt = n.root PROVE v.path = base \o Append(p, x)
    BY <2>1
  <2>2. w # Nowhere /\ v = Follow(n, In(w, x))
    BY <2>1 DEF Enter
  <2>3. w.mnt \in DOMAIN n.mounts
    BY <2>2, WalkTree
  <2> HIDE DEF w, v
  <2> DEFINE G == {In(w, x)} \cup {q \in [mnt : DOMAIN n.mounts, path : Paths] : q.mnt # n.root}
  <2>4. \A q \in G : Covered(n, q) \in G
    <3> SUFFICES ASSUME NEW q \in G, Over(n, q) # {} PROVE Covered(n, q) \in G
      BY DEF Covered
    <3>1. PICK i \in Over(n, q) : Covered(n, q) = Root(n, i)
      BY DEF Covered
    <3>2. q.mnt \in DOMAIN n.mounts
      BY <2>3 DEF In
    <3>3. i \in DOMAIN n.mounts /\ n.mounts[i].parent = q.mnt /\ q.mnt # 0
      BY <1>0, <3>2 DEF Over
    <3>4. i # n.root /\ n.mounts[i].base \in Paths
      BY <1>0, <3>3, NsFacts
    <3>5. QED
      BY <3>1, <3>3, <3>4 DEF Root
  <2>5. v \in G
    <3>1. In(w, x) \in G
      OBVIOUS
    <3> HIDE DEF G
    <3>2. QED
      BY <1>0, <2>2, <2>4, <3>1, FollowIn
  <2>6. v = In(w, x)
    BY <2>5
  <2>7. v.path = Append(w.path, x) /\ w.mnt = n.root
    BY <2>6 DEF In
  <2>8. w.path = base \o p
    BY <1>2, <2>2, <2>7 DEF w
  <2>9. Append(base \o p, x) = base \o Append(p, x)
    <3>1. base \in Paths
      BY <1>0, Zenon
    <3> HIDE DEF base
    <3>2. QED
      BY <3>1, AppendConcat, Zenon
  <2>10. QED
    BY <2>7, <2>8, <2>9
<1>3. Paths \subseteq T
  <2>1. \A p \in Paths, x \in Names : p \in T => Append(p, x) \in T
    BY <1>2
  <2> HIDE DEF T
  <2> QED BY <1>1, <2>1, PathInduction
<1>4. QED
  BY <1>3

(* One mount more, at the end of a walk.                                     *)
Grown(n, c, w) ==
    LET K == Len(n.mounts) IN
    /\ c \in NsType /\ c.root = n.root /\ Len(c.mounts) = K + 1
    /\ \A i \in 1..K : Alike(n.mounts[i], c.mounts[i])
    /\ c.mounts[K + 1].parent = w.mnt /\ c.mounts[K + 1].on = w.path
    /\ c.mounts[K + 1].made # <<"detached">>

LEMMA GrownTree ==
    ASSUME NEW n, Tree(n), NEW d, NEW path \in Paths, Walk(n, d, path) # Nowhere,
           NEW c, Grown(n, c, Walk(n, d, path))
    PROVE  Tree(c)
<1> DEFINE w == Walk(n, d, path)
           K == Len(n.mounts)
<1>1. /\ w.mnt \in DOMAIN n.mounts /\ (w.mnt = n.root \/ n.mounts[w.mnt].parent # 0)
  BY WalkTree
<1> HIDE DEF w
<1>2. K \in Nat /\ DOMAIN n.mounts = 1..K /\ n.root \in 1..K
  BY NsFacts DEF Tree
<1>3. c \in NsType /\ c.root = n.root /\ Len(c.mounts) = K + 1 /\ DOMAIN c.mounts = 1..(K + 1)
  BY NsFacts DEF Grown
<1>4. ASSUME NEW i \in 1..K
      PROVE  c.mounts[i].parent = n.mounts[i].parent /\ c.mounts[i].made = n.mounts[i].made
  BY <1>4 DEF Grown, Alike
<1>5. /\ c.mounts[K + 1].parent = w.mnt /\ c.mounts[K + 1].made # <<"detached">> /\ w.mnt \in 1..K /\ w.mnt # 0
      /\ w.mnt = n.root \/ c.mounts[w.mnt].parent # 0
  BY <1>1, <1>2, <1>4 DEF Grown, w
<1> HIDE DEF K
<1>6. ASSUME NEW i \in DOMAIN c.mounts, i # c.root
      PROVE  /\ c.mounts[i].parent = 0 <=> c.mounts[i].made = <<"detached">>
             /\ c.mounts[i].parent # 0 =>
                  /\ c.mounts[i].parent \in DOMAIN c.mounts
                  /\ c.mounts[i].parent = c.root \/ c.mounts[c.mounts[i].parent].parent # 0
  <2>1. CASE i = K + 1
    <3>1. w.mnt \in 1..(K + 1)
      BY <1>2, <1>5
    <3>2. QED
      BY <1>3, <1>5, <2>1, <3>1
  <2>2. CASE i # K + 1
    <3>1. i \in 1..K /\ i # n.root
      BY <1>2, <1>3, <1>6, <2>2
    <3>2. /\ n.mounts[i].parent = 0 <=> n.mounts[i].made = <<"detached">>
          /\ n.mounts[i].parent # 0 =>
               /\ n.mounts[i].parent \in 1..K
               /\ n.mounts[i].parent = n.root \/ n.mounts[n.mounts[i].parent].parent # 0
      BY <1>2, <3>1 DEF Tree
    <3>3. n.mounts[i].parent \in 1..K => n.mounts[i].parent \in 1..(K + 1)
      BY <1>2
    <3>4. QED
      BY <1>3, <1>4, <3>1, <3>2, <3>3
  <2>3. QED
    BY <2>1, <2>2
<1>7. n.root \in 1..(K + 1)
  BY <1>2
<1>8. c.mounts[c.root].parent = 0 /\ c.mounts[c.root].made # <<"detached">>
  BY <1>2, <1>3, <1>4 DEF Tree
<1>9. QED
  BY <1>3, <1>6, <1>7, <1>8 DEF Tree

(* The host's tree stays that when the walk was not along the way to root.   *)
LEMMA GrownEarly ==
    ASSUME NEW n, NEW root, Early(n, root), NEW d, NEW path \in Paths, Walk(n, d, path) # Nowhere,
           NEW c, Grown(n, c, Walk(n, d, path)), root # None => ~IsPrefix(path, root)
    PROVE  Early(c, root)
<1> DEFINE w == Walk(n, d, path)
           K == Len(n.mounts)
<1>1. Tree(n) /\ Tree(c)
  BY GrownTree DEF Early
<1>2. K \in Nat /\ DOMAIN n.mounts = 1..K /\ n.root = 1 /\ 1 \in 1..K
  BY <1>1, NsFacts DEF Tree, Early, Host
<1>3. c.root = n.root /\ DOMAIN c.mounts = 1..(K + 1)
  BY NsFacts DEF Grown
<1>4. Host(c)
  BY <1>2, <1>3 DEF Host, Early, Grown, Alike
<1>5. w.mnt \in 1..K /\ (w.mnt = 1 => w.path = path)
  <2>1. w.mnt = 1 => w.path = n.mounts[1].base \o path
    BY <1>1, <1>2, WalkHome
  <2>2. n.mounts[1].base = <<>> /\ <<>> \o path = path
    BY ConcatEmptySeq DEF Early, Host, Paths
  <2>3. w.mnt \in 1..K
    BY <1>1, <1>2, WalkTree
  <2>4. QED
    BY <2>1, <2>2, <2>3
<1> HIDE DEF w
<1>6. ASSUME NEW i \in 1..(K + 1) PROVE Off(c, i, root)
  <2>1. CASE i = K + 1
    <3>1. c.mounts[i].parent = w.mnt /\ c.mounts[i].on = w.path
      BY <2>1 DEF Grown, w
    <3>2. w.mnt < i
      BY <1>2, <1>5, <2>1
    <3>3. QED
      BY <1>5, <3>1, <3>2 DEF Off
  <2>2. CASE i # K + 1
    <3>1. i \in 1..K
      BY <1>2, <2>2
    <3>2. Off(n, i, root) /\ Alike(n.mounts[i], c.mounts[i])
      BY <1>2, <3>1 DEF Early, Grown
    <3>3. QED
      BY <3>2 DEF Off, Alike
  <2>3. QED
    BY <2>1, <2>2
<1>7. QED
  BY <1>1, <1>3, <1>4, <1>6 DEF Early

(* The directory under some mounts is removed: what goes was attached, and   *)
(* all that hung below it goes too.                                          *)
LEMMA LoseFacts ==
    ASSUME NEW n, Tree(n), NEW path
    PROVE  LET c == LoseMountpoint(n, path) IN
           /\ Tree(c) /\ c.root = n.root /\ Len(c.mounts) = Len(n.mounts) /\ DOMAIN c.mounts = DOMAIN n.mounts
           /\ \A i \in DOMAIN n.mounts :
                /\ c.mounts[i].parent \in {0, n.mounts[i].parent} /\ c.mounts[i].on = n.mounts[i].on
                /\ c.mounts[i].fs = n.mounts[i].fs /\ c.mounts[i].base = n.mounts[i].base
<1> DEFINE gone == {i \in DOMAIN n.mounts :
                      /\ n.mounts[i].parent # 0 /\ n.mounts[i].on = path
                      /\ n.mounts[n.mounts[i].parent].fs = "disk"}
           B == Below(n, gone)
           S == {i \in DOMAIN n.mounts : n.mounts[i].parent # 0}
           c == LoseMountpoint(n, path)
<1>1. c = Detach(n, gone)
  BY DEF LoseMountpoint
<1>2. n \in NsType /\ DOMAIN n.mounts = 1..Len(n.mounts) /\ n.root \in DOMAIN n.mounts
  BY NsFacts DEF Tree
<1>3. gone \subseteq DOMAIN n.mounts /\ gone \subseteq S /\ S \subseteq DOMAIN n.mounts
  OBVIOUS
<1>4. \A i \in DOMAIN n.mounts : n.mounts[i].parent \in S => i \in S
  BY <1>2
<1> HIDE DEF gone
<1>5. B \subseteq S /\ B \subseteq DOMAIN n.mounts /\ Inherits(n, B)
  <2> HIDE DEF S
  <2>1. Inherits(n, S)
    BY <1>4 DEF Inherits
  <2>2. QED
    BY <1>3, <2>1, BelowFacts
<1>6. /\ c \in NsType /\ c.root = n.root /\ Len(c.mounts) = Len(n.mounts)
      /\ DOMAIN c.mounts = DOMAIN n.mounts
      /\ \A i \in DOMAIN n.mounts :
           /\ i \notin B => c.mounts[i] = n.mounts[i]
           /\ i \in B => c.mounts[i].parent = 0 /\ c.mounts[i].made = <<"detached">>
           /\ c.mounts[i].on = n.mounts[i].on /\ c.mounts[i].fs = n.mounts[i].fs
           /\ c.mounts[i].base = n.mounts[i].base
  BY <1>1, <1>2, <1>3, DetachFacts
<1>7. n.root \notin B
  BY <1>5 DEF Tree
<1> HIDE DEF c, B, S
<1>8. c.mounts[c.root].parent = 0 /\ c.mounts[c.root].made # <<"detached">>
  BY <1>2, <1>6, <1>7 DEF Tree
<1>9. ASSUME NEW i \in DOMAIN c.mounts, i # c.root
      PROVE  /\ c.mounts[i].parent = 0 <=> c.mounts[i].made = <<"detached">>
             /\ c.mounts[i].parent # 0 =>
                  /\ c.mounts[i].parent \in DOMAIN c.mounts
                  /\ c.mounts[i].parent = c.root \/ c.mounts[c.mounts[i].parent].parent # 0
  <2>1. CASE i \in B
    BY <1>6, <2>1
  <2>2. CASE i \notin B
    <3>1. i \in DOMAIN n.mounts /\ c.mounts[i] = n.mounts[i] /\ i # n.root
      BY <1>6, <1>9, <2>2
    <3>2. /\ n.mounts[i].parent = 0 <=> n.mounts[i].made = <<"detached">>
          /\ n.mounts[i].parent # 0 =>
               /\ n.mounts[i].parent \in DOMAIN n.mounts
               /\ n.mounts[i].parent = n.root \/ n.mounts[n.mounts[i].parent].parent # 0
      BY <3>1 DEF Tree
    <3>3. n.mounts[i].parent \notin B
      BY <1>5, <2>2, <3>1 DEF Inherits
    <3>4. QED
      BY <1>6, <3>1, <3>2, <3>3
  <2>3. QED
    BY <2>1, <2>2
<1>10. Tree(c)
  BY <1>2, <1>6, <1>8, <1>9 DEF Tree
<1>11. ASSUME NEW i \in DOMAIN n.mounts PROVE c.mounts[i].parent \in {0, n.mounts[i].parent}
  BY <1>6
<1>12. QED
  BY <1>6, <1>10, <1>11 DEF c

LEMMA LoseShapes ==
    ASSUME NEW n, NEW path, NEW root
    PROVE  LET c == LoseMountpoint(n, path) IN
           /\ Early(n, root) => Early(c, root)
           /\ Bound(n, root) => Bound(c, root)
           /\ Pivoted(n, root) => Pivoted(c, root)
           /\ Alone(n, root) => Alone(c, root)
<1> DEFINE c == LoseMountpoint(n, path)
           K == Len(n.mounts)
<1> SUFFICES ASSUME Tree(n)
             PROVE  /\ Early(n, root) => Early(c, root)
                    /\ Bound(n, root) => Bound(c, root)
                    /\ Pivoted(n, root) => Pivoted(c, root)
                    /\ Alone(n, root) => Alone(c, root)
  BY DEF Early, Bound, Pivoted, Alone
<1>1. /\ Tree(c) /\ c.root = n.root /\ Len(c.mounts) = K /\ DOMAIN c.mounts = DOMAIN n.mounts
      /\ \A i \in DOMAIN n.mounts :
           /\ c.mounts[i].parent \in {0, n.mounts[i].parent} /\ c.mounts[i].on = n.mounts[i].on
           /\ c.mounts[i].fs = n.mounts[i].fs /\ c.mounts[i].base = n.mounts[i].base
  BY LoseFacts
<1>2. K \in Nat /\ DOMAIN n.mounts = 1..K /\ n.root \in 1..K /\ \A i \in 1..K : n.mounts[i].parent \in Nat
  BY NsFacts DEF Tree
<1> HIDE DEF c, K
<1>3. \A i \in 1..K : Off(n, i, root) => Off(c, i, root)
  <2> SUFFICES ASSUME NEW i \in 1..K, Off(n, i, root) PROVE Off(c, i, root)
    OBVIOUS
  <2>1. c.mounts[i].parent < i
    BY <1>1, <1>2 DEF Off
  <2>2. QED
    BY <1>1, <1>2, <2>1 DEF Off
<1>4. 1 \in 1..K /\ K \in 1..K
  BY <1>2
<1>5. Host(n) => Host(c)
  BY <1>1, <1>2, <1>4 DEF Host
<1>6. Early(n, root) => Early(c, root)
  BY <1>1, <1>2, <1>3, <1>5 DEF Early
<1>7. Bound(n, root) => Bound(c, root)
  <2> SUFFICES ASSUME Bound(n, root) PROVE Bound(c, root)
    OBVIOUS
  <2>1. /\ Host(n) /\ K > 1
        /\ n.mounts[K].base = root /\ n.mounts[K].fs = "disk" /\ n.mounts[K].on = root
        /\ n.mounts[K].parent \in {0, 1}
        /\ \A i \in 1..(K - 1) : Off(n, i, root)
    BY DEF Bound, K
  <2>2. \A i \in 1..(K - 1) : i \in 1..K
    BY <1>2
  <2>3. \A i \in 1..(K - 1) : Off(c, i, root)
    BY <1>3, <2>1, <2>2
  <2>4. c.mounts[K].base = root /\ c.mounts[K].fs = "disk" /\ c.mounts[K].on = root /\ c.mounts[K].parent \in {0, 1}
    BY <1>1, <1>2, <1>4, <2>1
  <2>5. QED
    BY <1>1, <1>5, <2>1, <2>3, <2>4 DEF Bound
<1>8. Pivoted(n, root) => Pivoted(c, root)
  <2> SUFFICES ASSUME Pivoted(n, root) PROVE Pivoted(c, root)
    OBVIOUS
  <2>1. /\ K > 1 /\ n.root = K
        /\ n.mounts[K].base = root /\ n.mounts[K].fs = "disk"
        /\ n.mounts[1].parent \in {0, K} /\ n.mounts[1].on = Append(root, OldRoot) /\ n.mounts[1].base = <<>>
        /\ \A i \in 2..(K - 1) : n.mounts[i].parent < i /\ (n.mounts[i].parent = 1 => n.mounts[i].on # <<>>)
    BY DEF Pivoted, K
  <2>2. \A i \in 2..(K - 1) : i \in 1..K
    BY <1>2
  <2>3. ASSUME NEW i \in 2..(K - 1)
        PROVE  c.mounts[i].parent < i /\ (c.mounts[i].parent = 1 => c.mounts[i].on # <<>>)
    BY <1>1, <1>2, <2>1, <2>2
  <2>4. /\ c.mounts[K].base = root /\ c.mounts[K].fs = "disk"
        /\ c.mounts[1].parent \in {0, K} /\ c.mounts[1].on = Append(root, OldRoot) /\ c.mounts[1].base = <<>>
    BY <1>1, <1>2, <1>4, <2>1
  <2>5. QED
    BY <1>1, <2>1, <2>3, <2>4 DEF Pivoted
<1>9. Alone(n, root) => Alone(c, root)
  BY <1>1, <1>2 DEF Alone
<1>10. QED
  BY <1>6, <1>7, <1>8, <1>9 DEF c

(* The way to root passes no mount but one at its end.                       *)
LEMMA PrefixStep ==
    ASSUME NEW p \in Paths, NEW x \in Names, NEW root \in Paths, IsPrefix(Append(p, x), root)
    PROVE  IsPrefix(p, root) /\ p # root
<1>1. Append(p, x) \in Paths /\ Len(Append(p, x)) = Len(p) + 1 /\ Len(p) \in Nat
      /\ \A i \in 1..Len(p) : Append(p, x)[i] = p[i]
  BY AppendFacts
<1>2. Len(root) \in Nat
  BY DEF Paths
<1>3. Len(p) + 1 <= Len(root) /\ \A i \in 1..(Len(p) + 1) : Append(p, x)[i] = root[i]
  BY <1>1, PrefixFacts
<1>4. \A i \in 1..Len(p) : i \in 1..(Len(p) + 1)
  BY <1>1
<1>5. Len(p) <= Len(root) /\ \A i \in 1..Len(p) : p[i] = root[i]
  BY <1>1, <1>2, <1>3, <1>4
<1>6. QED
  BY <1>1, <1>2, <1>3, <1>5, PrefixFacts

LEMMA PrefixSelf ==
    ASSUME NEW p \in Paths
    PROVE  IsPrefix(p, p) /\ IsPrefix(<<>>, p)
<1>1. Len(p) \in Nat /\ Len(<<>>) = 0 /\ <<>> \in Paths
  BY DEF Paths
<1>2. QED
  BY <1>1, PrefixFacts

LEMMA WalkToRoot ==
    ASSUME NEW n, Tree(n), Host(n), NEW d, NEW root \in Paths,
           \A i \in DOMAIN n.mounts : n.mounts[i].parent = 1 /\ IsPrefix(n.mounts[i].on, root) =>
                /\ n.mounts[i].on = root /\ n.mounts[i].base = root
                /\ \A j \in DOMAIN n.mounts : n.mounts[j].parent # i
    PROVE  LET w == Walk(n, d, root) IN
           w # Nowhere => /\ w.path = root /\ w.mnt \in DOMAIN n.mounts
                          /\ w.mnt = 1 \/ (n.mounts[w.mnt].parent = 1 /\ n.mounts[w.mnt].on = root)
<1> DEFINE ends == {i \in DOMAIN n.mounts : n.mounts[i].parent = 1 /\ n.mounts[i].on = root}
           At(p) == [mnt |-> 1, path |-> p]
           Good(p) == {At(p), Nowhere} \cup (IF p = root THEN {[mnt |-> i, path |-> root] : i \in ends} ELSE {})
           T == {p \in Paths : IsPrefix(p, root) => Walk(n, d, p) \in Good(p)}
<1>0. n.root = 1 /\ n.mounts[1].base = <<>> /\ Len(n.mounts) \in Nat /\ 1 \in DOMAIN n.mounts
  BY NsFacts DEF Tree, Host
<1>1. <<>> \in T
  <2>1. Walk(n, d, <<>>) = At(<<>>)
    BY <1>0, WalkEmpty DEF Root
  <2>2. <<>> \in Paths
    BY DEF Paths
  <2>3. QED
    BY <2>1, <2>2
<1>2. ASSUME NEW p \in Paths, NEW x \in Names, p \in T PROVE Append(p, x) \in T
  <2> DEFINE w == Walk(n, d, p)
             a == Append(p, x)
             G == {At(a)} \cup (IF a = root THEN {[mnt |-> i, path |-> root] : i \in ends} ELSE {})
  <2>1. Walk(n, d, a) = Enter(n, d, w, x) /\ a \in Paths
    BY WalkAppend, AppendFacts
  <2> SUFFICES ASSUME IsPrefix(a, root), Walk(n, d, a) # Nowhere PROVE Walk(n, d, a) \in G
    BY <2>1
  <2>2. IsPrefix(p, root) /\ p # root
    BY PrefixStep
  <2>3. w \in {At(p), Nowhere}
    BY <1>2, <2>2
  <2>4. w = At(p) /\ Walk(n, d, a) = Follow(n, In(w, x))
    BY <2>1, <2>3 DEF Enter
  <2>5. In(w, x) = At(a)
    BY <2>4 DEF In
  <2> HIDE DEF a, w
  <2>6. ASSUME NEW q \in G, Over(n, q) # {} PROVE Covered(n, q) \in G
    <3>1. PICK i \in Over(n, q) : Covered(n, q) = Root(n, i)
      BY <2>6 DEF Covered
    <3>2. i \in DOMAIN n.mounts /\ n.mounts[i].parent = q.mnt /\ n.mounts[i].on = q.path
      BY DEF Over
    <3>3. CASE q = At(a)
      <4>1. n.mounts[i].parent = 1 /\ n.mounts[i].on = a
        BY <3>2, <3>3
      <4>2. n.mounts[i].on = root /\ n.mounts[i].base = root
        BY <3>2, <4>1
      <4>3. i \in ends /\ a = root /\ Root(n, i) = [mnt |-> i, path |-> root]
        BY <3>2, <4>1, <4>2 DEF Root
      <4> HIDE DEF ends
      <4>4. QED
        BY <3>1, <4>3
    <3>4. CASE q # At(a)
      <4>1. PICK j \in ends : q = [mnt |-> j, path |-> root]
        <5> HIDE DEF ends
        <5> QED BY <3>4
      <4>2. n.mounts[j].parent = 1 /\ n.mounts[j].on = root /\ j \in DOMAIN n.mounts
        BY <4>1
      <4>3. n.mounts[i].parent # j
        BY <3>2, <4>2, PrefixSelf
      <4>4. QED
        BY <3>2, <4>1, <4>3
    <3>5. QED
      BY <3>3, <3>4
  <2>7. \A q \in G : Covered(n, q) \in G
    <3>1. \A q \in G : Over(n, q) = {} => Covered(n, q) \in G
      BY DEF Covered
    <3>2. QED
      BY <2>6, <3>1
  <2>8. Follow(n, At(a)) \in G
    <3>1. At(a) \in G
      OBVIOUS
    <3> HIDE DEF G
    <3>2. QED
      BY <1>0, <2>7, <3>1, FollowIn
  <2>9. QED
    BY <2>4, <2>5, <2>8
<1>3. Paths \subseteq T
  <2>1. \A p \in Paths, x \in Names : p \in T => Append(p, x) \in T
    BY <1>2
  <2> HIDE DEF T
  <2> QED BY <1>1, <2>1, PathInduction
<1>4. Walk(n, d, root) \in Good(root)
  BY <1>3, PrefixSelf
<1>5. QED
  BY <1>0, <1>4

(* RootBind puts root on itself.                                             *)
LEMMA RootBound ==
    ASSUME NEW n, NEW root \in Paths, root # None, Early(n, root), NEW d, Walk(n, d, root) # Nowhere
    PROVE  Bound(BindMount(n, d, root, root, <<"root">>), root)
<1> DEFINE w == Walk(n, d, root)
           K == Len(n.mounts)
           c == BindMount(n, d, root, root, <<"root">>)
<1>1. /\ Tree(n) /\ Host(n) /\ n.root = 1 /\ n.mounts[1].fs = "disk" /\ n \in NsType /\ n.root \in DOMAIN n.mounts
      /\ \A i \in DOMAIN n.mounts : Off(n, i, root)
  BY DEF Early, Tree, Host
<1>2. K \in Nat /\ DOMAIN n.mounts = 1..K /\ 1 \in 1..K
  BY <1>1, NsFacts
<1>3. w.path = root /\ w.mnt = 1
  <2>1. \A i \in DOMAIN n.mounts : n.mounts[i].parent = 1 => ~IsPrefix(n.mounts[i].on, root)
    BY <1>1 DEF Off
  <2>2. w.path = root /\ w.mnt \in DOMAIN n.mounts
           /\ (w.mnt = 1 \/ (n.mounts[w.mnt].parent = 1 /\ n.mounts[w.mnt].on = root))
    BY <1>1, <2>1, WalkToRoot
  <2>3. QED
    BY <2>1, <2>2, PrefixSelf
<1>4. <<"root">> \in Tags /\ <<"root">> # <<"detached">>
  BY TagFacts
<1>5. /\ c \in NsType /\ c.root = n.root /\ Len(c.mounts) = K + 1
      /\ \A i \in 1..K : c.mounts[i] = n.mounts[i]
      /\ c.mounts[K + 1] = [parent |-> w.mnt, on |-> w.path, fs |-> n.mounts[w.mnt].fs, base |-> w.path,
                            ro |-> n.mounts[w.mnt].ro, made |-> <<"root">>]
  <2>1. Added(n, c, [parent |-> w.mnt, on |-> w.path, fs |-> n.mounts[w.mnt].fs, base |-> w.path,
                     ro |-> n.mounts[w.mnt].ro, made |-> <<"root">>])
    BY <1>1, <1>4, BindFacts, Zenon
  <2> HIDE DEF c, w
  <2>2. QED
    BY <2>1 DEF Added
<1>6. Grown(n, c, w)
  BY <1>4, <1>5 DEF Grown, Alike
<1>7. Tree(c)
  BY <1>1, <1>6, GrownTree
<1> HIDE DEF c, w, K
<1>8. Host(c)
  BY <1>1, <1>2, <1>5 DEF Host
<1>9. c.mounts[K + 1].base = root /\ c.mounts[K + 1].fs = "disk" /\ c.mounts[K + 1].on = root /\ c.mounts[K + 1].parent = 1
  BY <1>1, <1>3, <1>5
<1>10. \A i \in 1..K : Off(c, i, root)
  BY <1>1, <1>2, <1>5 DEF Off
<1>11. K + 1 - 1 = K /\ K + 1 > 1
  BY <1>2
<1> DEFINE L == Len(c.mounts)
<1>12. L = K + 1 /\ L - 1 = K /\ L > 1
  <2>1. L = K + 1
    BY <1>5, Zenon
  <2> HIDE DEF L
  <2>2. QED
    BY <1>2, <2>1
<1>13. /\ c.mounts[L].base = root /\ c.mounts[L].fs = "disk" /\ c.mounts[L].on = root /\ c.mounts[L].parent \in {0, 1}
       /\ \A i \in 1..(L - 1) : Off(c, i, root)
  BY <1>9, <1>10, <1>12
<1>14. Bound(c, root)
  <2> HIDE DEF L
  <2> QED BY <1>7, <1>8, <1>12, <1>13 DEF Bound, L
<1>15. QED
  BY <1>14 DEF c

(* Then the way to root leads to root on the disk or on that mount.          *)
LEMMA WalkBound ==
    ASSUME NEW n, NEW root \in Paths, root # None, Bound(n, root), NEW d, Walk(n, d, root) # Nowhere
    PROVE  Walk(n, d, root) \in Place /\ Walk(n, d, root).path = root /\ Walk(n, d, root).mnt \in {1, Len(n.mounts)}
<1> DEFINE w == Walk(n, d, root)
           K == Len(n.mounts)
<1>1. /\ Tree(n) /\ Host(n) /\ n.mounts[K].on = root /\ n.mounts[K].base = root /\ n.mounts[K].parent \in {0, 1}
      /\ \A i \in 1..(K - 1) : Off(n, i, root)
      /\ K > 1
  BY DEF Bound
<1>2. K \in Nat /\ DOMAIN n.mounts = 1..K /\ \A i \in 1..K : n.mounts[i].parent \in Nat
  BY <1>1, NsFacts DEF Tree
<1>3. w \in Place
  BY <1>1, WalkTree
<1> HIDE DEF K, w
<1>4. \A i \in 1..K : n.mounts[i].parent = 1 /\ IsPrefix(n.mounts[i].on, root) => i = K
  <2>1. \A i \in 1..K : i # K => i \in 1..(K - 1)
    BY <1>2
  <2>2. QED
    BY <1>1, <2>1 DEF Off
<1>5. \A j \in 1..K : n.mounts[j].parent # K
  <2>1. \A j \in 1..(K - 1) : n.mounts[j].parent < j /\ n.mounts[j].parent \in Nat
    BY <1>1, <1>2 DEF Off
  <2>2. \A j \in 1..K : j = K \/ j \in 1..(K - 1)
    BY <1>2
  <2>3. QED
    BY <1>1, <1>2, <2>1, <2>2
<1>6. w.path = root /\ w.mnt \in DOMAIN n.mounts /\ (w.mnt = 1 \/ (n.mounts[w.mnt].parent = 1 /\ n.mounts[w.mnt].on = root))
  BY <1>1, <1>2, <1>4, <1>5, WalkToRoot DEF w
<1>7. w.mnt = 1 \/ w.mnt = K
  BY <1>2, <1>4, <1>6, PrefixSelf
<1>8. QED
  BY <1>3, <1>6, <1>7 DEF w, K

(* RootPivot makes it the root.                                              *)
LEMMA RootPivoted ==
    ASSUME NEW n, NEW root \in Paths, root # None, Bound(n, root), NEW d,
           CanPivot(n, d, Walk(n, d, root), In(Walk(n, d, root), OldRoot))
    PROVE  Pivoted(PivotRoot(n, Walk(n, d, root), In(Walk(n, d, root), OldRoot)), root)
<1> DEFINE w == Walk(n, d, root)
           old == In(w, OldRoot)
           K == Len(n.mounts)
           c == PivotRoot(n, w, old)
<1>1. /\ Tree(n) /\ Host(n) /\ n.root = 1 /\ n.mounts[1].base = <<>> /\ n \in NsType
      /\ n.mounts[K].base = root /\ n.mounts[K].fs = "disk"
      /\ \A i \in 1..(K - 1) : Off(n, i, root)
      /\ K > 1
  BY DEF Bound, Tree, Host
<1>2. /\ K \in Nat /\ DOMAIN n.mounts = 1..K /\ 1 \in 1..K /\ K \in 1..K
      /\ \A i \in 1..K : n.mounts[i].parent \in Nat
  BY <1>1, NsFacts
<1>3. w # Nowhere /\ w.mnt # 1 /\ n.mounts[w.mnt].parent # 0
  BY <1>1 DEF CanPivot
<1>4. w \in Place /\ w.path = root /\ w.mnt = K
  BY <1>3, WalkBound
<1> HIDE DEF w
<1>5. old \in Place /\ old.mnt = K /\ old.path = Append(root, OldRoot)
  <2>1. Append(root, OldRoot) \in Paths
    BY JobAssumption, AppendFacts
  <2>2. QED
    BY <1>2, <1>4, <2>1 DEF In, Place
<1> HIDE DEF old
<1>6. /\ c \in NsType /\ c.root = K /\ Len(c.mounts) = K
      /\ \A i \in 1..K :
           /\ i \notin {K, 1} => c.mounts[i] = n.mounts[i]
           /\ c.mounts[i].fs = n.mounts[i].fs /\ c.mounts[i].base = n.mounts[i].base
           /\ c.mounts[i].made = n.mounts[i].made
      /\ c.mounts[K].parent = 0 /\ c.mounts[1].parent = K /\ c.mounts[1].on = Append(root, OldRoot)
  <2>1. w.mnt \in DOMAIN n.mounts /\ w.mnt # n.root /\ n.root \in DOMAIN n.mounts
    BY <1>1, <1>2, <1>3, <1>4
  <2>2. /\ c \in NsType /\ c.root = w.mnt /\ Len(c.mounts) = Len(n.mounts)
        /\ \A i \in 1..Len(n.mounts) :
             /\ i \notin {w.mnt, n.root} => c.mounts[i] = n.mounts[i]
             /\ c.mounts[i].fs = n.mounts[i].fs /\ c.mounts[i].base = n.mounts[i].base
             /\ c.mounts[i].made = n.mounts[i].made /\ c.mounts[i].ro = n.mounts[i].ro
        /\ c.mounts[w.mnt].parent = 0 /\ c.mounts[n.root].parent = old.mnt
        /\ c.mounts[n.root].on = old.path
    <3>1. Turned(n, c, w, old)
      BY <1>1, <1>4, <1>5, <2>1, PivotFacts, Zenon
    <3> HIDE DEF c
    <3>2. QED
      BY <3>1 DEF Turned
  <2> HIDE DEF c, K
  <2>3. QED
    BY <1>1, <1>4, <1>5, <2>2 DEF K
<1>7. DOMAIN c.mounts = 1..K
  BY <1>6, NsFacts
<1> HIDE DEF c, K
<1>8. c.mounts[K].made # <<"detached">>
  <2>1. K # n.root
    BY <1>1, <1>2
  <2>2. n.mounts[K].parent # 0
    BY <1>3, <1>4
  <2>3. QED
    BY <1>1, <1>2, <1>6, <2>1, <2>2 DEF Tree
<1>9. c.mounts[1].made # <<"detached">>
  BY <1>1, <1>2, <1>6 DEF Tree
<1>10. ASSUME NEW i \in 2..(K - 1)
       PROVE  c.mounts[i] = n.mounts[i] /\ i \in 1..K /\ i # 1 /\ n.mounts[i].parent < i
              /\ (n.mounts[i].parent = 1 => n.mounts[i].on # <<>>)
  <2>1. i \in 1..(K - 1) /\ i \in 1..K /\ i \notin {K, 1}
    BY <1>2
  <2>2. Off(n, i, root) /\ c.mounts[i] = n.mounts[i]
    BY <1>1, <1>6, <2>1
  <2>3. QED
    BY <2>1, <2>2, PrefixSelf DEF Off
<1>11. ASSUME NEW i \in 1..K, i # K
       PROVE  /\ c.mounts[i].parent = 0 <=> c.mounts[i].made = <<"detached">>
              /\ c.mounts[i].parent # 0 =>
                   /\ c.mounts[i].parent \in 1..K
                   /\ c.mounts[i].parent = K \/ c.mounts[c.mounts[i].parent].parent # 0
  <2>1. CASE i = 1
    BY <1>1, <1>2, <1>6, <1>9, <2>1
  <2>2. CASE i # 1
    <3>1. i \in 2..(K - 1)
      BY <1>2, <1>11, <2>2
    <3>2. c.mounts[i] = n.mounts[i] /\ n.mounts[i].parent < i
      BY <1>10, <3>1
    <3>3. /\ n.mounts[i].parent = 0 <=> n.mounts[i].made = <<"detached">>
          /\ n.mounts[i].parent # 0 =>
               /\ n.mounts[i].parent \in 1..K
               /\ n.mounts[i].parent = 1 \/ n.mounts[n.mounts[i].parent].parent # 0
      BY <1>1, <1>2, <2>2 DEF Tree
    <3>4. n.mounts[i].parent # K
      BY <1>2, <3>1, <3>2
    <3>5. n.mounts[i].parent \in 1..K => n.mounts[i].parent = 1 \/ c.mounts[n.mounts[i].parent] = n.mounts[n.mounts[i].parent]
      BY <1>6, <3>4
    <3>6. QED
      BY <1>1, <1>2, <1>6, <3>2, <3>3, <3>5
  <2>3. QED
    BY <2>1, <2>2
<1>12. Tree(c)
  BY <1>2, <1>6, <1>7, <1>8, <1>11 DEF Tree
<1>13. c.mounts[K].base = root /\ c.mounts[K].fs = "disk" /\ c.mounts[1].base = <<>>
  BY <1>1, <1>2, <1>6
<1>14. QED
  BY <1>1, <1>6, <1>10, <1>12, <1>13 DEF Pivoted, c, w, old

(* One name from the root.                                                   *)
LEMMA WalkOne ==
    ASSUME NEW n, NEW d, Walk(n, d, <<OldRoot>>) # Nowhere
    PROVE  Walk(n, d, <<OldRoot>>) = Follow(n, In(Root(n, n.root), OldRoot))
<1>1. <<>> \in Paths /\ Append(<<>>, OldRoot) = <<OldRoot>> /\ OldRoot \in Names
  BY JobAssumption DEF Paths
<1>2. Walk(n, d, <<OldRoot>>) = Enter(n, d, Root(n, n.root), OldRoot)
  BY <1>1, WalkAppend, WalkEmpty
<1>3. QED
  BY <1>2 DEF Enter

(* RootDetach takes away all but the root: what is on the directory can only *)
(* be the host's tree, and everything else hangs below that.                 *)
LEMMA RootAlone ==
    ASSUME NEW n, NEW root \in Paths, Pivoted(n, root), NEW d,
           Walk(n, d, <<OldRoot>>) # Nowhere, Walk(n, d, <<OldRoot>>).mnt # n.root
    PROVE  Alone(Detach(n, {Walk(n, d, <<OldRoot>>).mnt}), root)
<1> DEFINE w == Walk(n, d, <<OldRoot>>)
           K == Len(n.mounts)
           old == [mnt |-> K, path |-> Append(root, OldRoot)]
           host == [mnt |-> 1, path |-> <<>>]
           c == Detach(n, {1})
           B == Below(n, {1})
<1>1. /\ Tree(n) /\ n \in NsType /\ n.root = K
      /\ n.mounts[K].base = root /\ n.mounts[K].fs = "disk" /\ n.mounts[K].parent = 0
      /\ n.mounts[1].parent \in {0, K} /\ n.mounts[1].base = <<>>
      /\ \A i \in 2..(K - 1) : n.mounts[i].parent < i /\ (n.mounts[i].parent = 1 => n.mounts[i].on # <<>>)
      /\ K > 1
  BY DEF Pivoted, Tree
<1>2. /\ K \in Nat /\ DOMAIN n.mounts = 1..K /\ 1 \in 1..K /\ K \in 1..K
      /\ \A i \in 1..K : n.mounts[i].parent \in Nat
  BY <1>1, NsFacts
<1>3. w = Follow(n, old)
  BY <1>1, WalkOne DEF Root, In
<1> HIDE DEF w, K
<1>4. \A i \in 1..K : i = 1 \/ i = K \/ i \in 2..(K - 1)
  BY <1>2
<1>5. Over(n, host) = {}
  <2> SUFFICES ASSUME NEW i \in 1..K, n.mounts[i].parent = 1, n.mounts[i].on = <<>> PROVE FALSE
    BY <1>2 DEF Over
  <2>1. i # K /\ i # 1
    BY <1>1, <1>2
  <2>2. QED
    BY <1>1, <1>4, <2>1
<1>6. Over(n, old) \subseteq {1}
  <2> SUFFICES ASSUME NEW i \in 1..K, n.mounts[i].parent = K PROVE i = 1
    BY <1>2 DEF Over
  <2>1. i # K
    BY <1>1, <1>2
  <2>2. i \notin 2..(K - 1)
    <3> SUFFICES ASSUME i \in 2..(K - 1) PROVE FALSE
      OBVIOUS
    <3>1. n.mounts[i].parent < i
      BY <1>1
    <3>2. QED
      BY <1>2, <3>1
  <2>3. QED
    BY <1>4, <2>1, <2>2
<1>7. Covered(n, old) \in {old, host} /\ Covered(n, host) = host
  <2>1. Covered(n, host) = host
    BY <1>5 DEF Covered
  <2>2. CASE Over(n, old) = {}
    BY <2>1, <2>2 DEF Covered
  <2>3. CASE Over(n, old) # {}
    <3>1. (CHOOSE i \in Over(n, old) : TRUE) = 1
      BY <1>6, <2>3
    <3>2. QED
      BY <1>1, <2>1, <2>3, <3>1 DEF Covered, Root
  <2>4. QED
    BY <2>2, <2>3
<1>8. w \in {old, host}
  <2>1. \A q \in {old, host} : Covered(n, q) \in {old, host}
    BY <1>7
  <2> HIDE DEF old, host
  <2>2. QED
    BY <1>2, <1>3, <2>1, FollowIn DEF K
<1>9. w.mnt = 1
  BY <1>1, <1>8 DEF w
<1>10. {1} \subseteq DOMAIN n.mounts /\ B \subseteq DOMAIN n.mounts /\ 1 \in B /\ Inherits(n, B)
       /\ \A S \in SUBSET DOMAIN n.mounts : {1} \subseteq S /\ Inherits(n, S) => B \subseteq S
  BY <1>2, BelowFacts
<1>11. K \notin B
  <2> DEFINE S == DOMAIN n.mounts \ {K}
  <2>1. {1} \subseteq S
    BY <1>1, <1>2
  <2>2. Inherits(n, S)
    <3> SUFFICES ASSUME NEW i \in DOMAIN n.mounts, n.mounts[i].parent \in S PROVE i # K
      BY DEF Inherits
    <3>1. n.mounts[i].parent # 0
      BY <1>2
    <3>2. QED
      BY <1>1, <3>1
  <2>3. QED
    BY <1>10, <2>1, <2>2
<1>12. \A i \in 1..K : i # K /\ n.mounts[i].parent # 0 => i \in B
  <2> DEFINE T == {i \in Nat : i \in 1..K /\ i # K /\ n.mounts[i].parent # 0 => i \in B}
  <2>1. ASSUME NEW k \in Nat, \A j \in Nat : j < k => j \in T PROVE k \in T
    <3> SUFFICES ASSUME k \in 1..K, k # K, n.mounts[k].parent # 0 PROVE k \in B
      OBVIOUS
    <3>1. CASE k = 1
      BY <1>10, <3>1
    <3>2. CASE k # 1
      <4> DEFINE p == n.mounts[k].parent
      <4>1. k \in 2..(K - 1)
        BY <1>4, <3>2
      <4>2. p < k /\ p \in Nat
        BY <1>1, <1>2, <4>1
      <4>3. p \in 1..K /\ p # K /\ (p = K \/ n.mounts[p].parent # 0)
        <5>1. p \in 1..K /\ (p = K \/ n.mounts[p].parent # 0)
          BY <1>1, <1>2, <3>2 DEF Tree
        <5>2. QED
          BY <1>2, <4>1, <4>2, <5>1
      <4>4. p \in B
        BY <2>1, <4>2, <4>3
      <4>5. QED
        BY <1>2, <1>10, <4>4 DEF Inherits
    <3>3. QED
      BY <3>1, <3>2
  <2>2. Nat \subseteq T
    <3> HIDE DEF T
    <3> QED BY <2>1, StrongInduction
  <2>3. QED
    BY <1>2, <2>2
<1>13. /\ c \in NsType /\ c.root = n.root /\ DOMAIN c.mounts = 1..K
       /\ \A i \in 1..K :
            /\ i \notin B => c.mounts[i] = n.mounts[i]
            /\ i \in B => c.mounts[i].parent = 0 /\ c.mounts[i].made = <<"detached">>
            /\ c.mounts[i].fs = n.mounts[i].fs /\ c.mounts[i].base = n.mounts[i].base
  BY <1>1, <1>2, <1>10, DetachFacts DEF K
<1> HIDE DEF c, B
<1>14. c.mounts[K] = n.mounts[K]
  BY <1>2, <1>11, <1>13
<1>15. ASSUME NEW i \in 1..K, i # K PROVE c.mounts[i].parent = 0 /\ c.mounts[i].made = <<"detached">>
  <2>1. CASE i \in B
    BY <1>13, <2>1
  <2>2. CASE i \notin B
    <3>1. n.mounts[i].parent = 0 /\ c.mounts[i] = n.mounts[i]
      BY <1>12, <1>13, <1>15, <2>2
    <3>2. n.mounts[i].made = <<"detached">>
      BY <1>1, <1>2, <1>15, <3>1 DEF Tree
    <3>3. QED
      BY <3>1, <3>2
  <2>3. QED
    BY <2>1, <2>2
<1>16. Tree(c)
  BY <1>1, <1>2, <1>13, <1>14, <1>15 DEF Tree
<1>17. Alone(c, root)
  BY <1>1, <1>13, <1>14, <1>15, <1>16 DEF Alone
<1>18. QED
  BY <1>9, <1>17 DEF c, w

(* Then every walk ends in root.                                             *)
LEMMA WalkAlone ==
    ASSUME NEW n, NEW root \in Paths, Alone(n, root), NEW d, NEW path \in Paths, Walk(n, d, path) # Nowhere
    PROVE  Walk(n, d, path).mnt = n.root /\ Walk(n, d, path).path = root \o path
<1>1. Tree(n) /\ n.mounts[n.root].base = root /\ \A i \in DOMAIN n.mounts : n.mounts[i].parent = 0
  BY DEF Alone
<1>2. Walk(n, d, path).mnt = n.root
  BY <1>1, WalkTree
<1>3. QED
  BY <1>1, <1>2, WalkHome

LEMMA ConcatPrefix ==
    ASSUME NEW p \in Paths, NEW q \in Paths
    PROVE  IsPrefix(p, p \o q)
<1>1. p \o q \in Seq(Names) /\ Len(p \o q) = Len(p) + Len(q) /\ Len(p) \in Nat /\ Len(q) \in Nat
  BY ConcatProperties DEF Paths
<1>2. \A i \in 1..(Len(p) + Len(q)) : (p \o q)[i] = IF i <= Len(p) THEN p[i] ELSE q[i - Len(p)]
  BY ConcatProperties DEF Paths
<1>3. \A i \in 1..Len(p) : (p \o q)[i] = p[i]
  BY <1>1, <1>2
<1>4. p \o q \in Paths /\ Len(p) <= Len(p \o q)
  BY <1>1 DEF Paths
<1>5. \A i \in 1..Len(p) : p[i] = (p \o q)[i]
  BY <1>3
<1> DEFINE s == p \o q
<1> HIDE DEF s
<1>6. s \in Paths /\ Len(p) <= Len(s) /\ \A i \in 1..Len(p) : p[i] = s[i]
  BY <1>4, <1>5 DEF s
<1>7. IsPrefix(p, s)
  BY <1>6, PrefixFacts
<1>8. QED
  BY <1>7 DEF s

---------------------------------------------------------------------------
(* The inductive invariant: the shape of a namespace at each step.           *)

EarlySteps == {"off", "probe", "namespace", "tmpfs", "bind", "proc", "root_bind", "refused", "denied", "failed", "killed"}
RootSteps == {"root_bind", "root_mkdir", "root_pivot", "root_detach", "root_rmdir"}
Steps == EarlySteps \cup RootSteps \cup {"cwd", "running"}

Shape(root, step, n, c) ==
    /\ step \in EarlySteps => Early(n, root)
    /\ step \in {"root_mkdir", "root_pivot"} => Bound(n, root)
    /\ step = "root_detach" => Pivoted(n, root)
    /\ step = "root_rmdir" => Alone(n, root)
    /\ step \in {"cwd", "running"} => (IF root = None THEN Early(n, root) ELSE Alone(n, root))
    /\ step \in RootSteps => root # None
    /\ step = "running" /\ root # None => c.mnt = n.root /\ IsPrefix(root, c.path)

(* A rule of the list is next, or the list is done.                          *)
Listed(p, step) ==
    IF step = "tmpfs" THEN Len(p.tmpfs) ELSE IF step = "bind" THEN Len(p.bind)
    ELSE IF step = "proc" THEN Len(p.proc) ELSE 0

RunOk(r) == Shape(job[r].root, pc[r], ns[r], cwd[r]) /\ at[r] \in 1..(1 + Listed(job[r], pc[r]))

(* What is on the disk but was not, or was and is not.                       *)
DiskKept ==
    \E d \in Disks : \A q \in DOMAIN d \cup DOMAIN disk :
        \/ q \in DOMAIN d /\ q \in DOMAIN disk /\ disk[q] = d[q]
        \/ \E r \in Runs : job[r].root # None /\ q = Append(job[r].root, OldRoot)

Inv ==
    /\ job \in Jobs /\ DiskOk(disk) /\ DiskKept
    /\ pc \in [Runs -> Steps] /\ at \in [Runs -> Nat] /\ ns \in [Runs -> NsType] /\ cwd \in [Runs -> Place]
    /\ \A r \in Runs : RunOk(r)

(* What the constants give for a run.                                        *)
LEMMA PolicyFacts ==
    ASSUME job \in Jobs, NEW r \in Runs
    PROVE  /\ PolicyOk(job[r])
           /\ Len(job[r].tmpfs) \in Nat /\ Len(job[r].bind) \in Nat /\ Len(job[r].proc) \in Nat
           /\ job[r].root = None \/ job[r].root \in Paths
           /\ job[r].cwd = None \/ job[r].cwd \in Paths
           /\ \A i \in 1..Len(job[r].tmpfs) : job[r].tmpfs[i] \in Paths
           /\ \A i \in 1..Len(job[r].proc) : job[r].proc[i] \in Paths
           /\ \A i \in 1..Len(job[r].bind) : /\ job[r].bind[i].source \in Paths /\ job[r].bind[i].target \in Paths
                                             /\ job[r].bind[i].read_only \in BOOLEAN
           /\ job[r].root # None =>
                /\ \A i \in 1..Len(job[r].tmpfs) : ~IsPrefix(job[r].tmpfs[i], job[r].root)
                /\ \A i \in 1..Len(job[r].proc) : ~IsPrefix(job[r].proc[i], job[r].root)
                /\ \A i \in 1..Len(job[r].bind) : ~IsPrefix(job[r].bind[i].target, job[r].root)
<1> DEFINE p == job[r]
           B == [source : Paths, target : Paths, read_only : BOOLEAN]
<1>1. PolicyOk(p)
  BY JobAssumption
<1> HIDE DEF p
<1>2. p.tmpfs \in Seq(Paths) /\ p.proc \in Seq(Paths) /\ p.bind \in Seq(B)
      /\ (p.root = None \/ p.root \in Paths) /\ (p.cwd = None \/ p.cwd \in Paths)
  BY <1>1 DEF PolicyOk
<1>3. /\ Len(p.tmpfs) \in Nat /\ Len(p.bind) \in Nat /\ Len(p.proc) \in Nat
      /\ DOMAIN p.tmpfs = 1..Len(p.tmpfs) /\ DOMAIN p.proc = 1..Len(p.proc) /\ DOMAIN p.bind = 1..Len(p.bind)
      /\ \A i \in 1..Len(p.tmpfs) : p.tmpfs[i] \in Paths
      /\ \A i \in 1..Len(p.proc) : p.proc[i] \in Paths
      /\ \A i \in 1..Len(p.bind) : p.bind[i] \in B
  <2> HIDE DEF B
  <2>1. \A S : \A s \in Seq(S) : Len(s) \in Nat /\ DOMAIN s = 1..Len(s) /\ \A i \in 1..Len(s) : s[i] \in S
    OBVIOUS
  <2>2. QED
    BY <1>2, <2>1, Zenon
<1>4. \A b \in B : b.source \in Paths /\ b.target \in Paths /\ b.read_only \in BOOLEAN
  OBVIOUS
<1>5. ASSUME p.root # None
      PROVE  /\ \A i \in 1..Len(p.tmpfs) : ~IsPrefix(p.tmpfs[i], p.root)
             /\ \A i \in 1..Len(p.proc) : ~IsPrefix(p.proc[i], p.root)
             /\ \A i \in 1..Len(p.bind) : ~IsPrefix(p.bind[i].target, p.root)
  <2>1. \A t \in Range(p.tmpfs) \cup Range(p.proc) \cup {p.bind[i].target : i \in DOMAIN p.bind} : ~IsPrefix(t, p.root)
    BY <1>1, <1>5 DEF PolicyOk
  <2>2. \A i \in 1..Len(p.tmpfs) : p.tmpfs[i] \in Range(p.tmpfs)
    BY <1>3 DEF Range
  <2>3. \A i \in 1..Len(p.proc) : p.proc[i] \in Range(p.proc)
    BY <1>3 DEF Range
  <2>4. \A i \in 1..Len(p.bind) : p.bind[i].target \in {p.bind[k].target : k \in DOMAIN p.bind}
    BY <1>3
  <2>5. QED
    BY <2>1, <2>2, <2>3, <2>4
<1>6. QED
  BY <1>1, <1>2, <1>3, <1>4, <1>5 DEF p

LEMMA ShapeNs ==
    ASSUME NEW root, NEW step \in Steps, NEW n, NEW c, Shape(root, step, n, c)
    PROVE  Tree(n) /\ n \in NsType
<1>1. Tree(n)
  BY DEF Shape, Early, Bound, Pivoted, Alone, Steps, RootSteps, EarlySteps
<1>2. QED
  BY <1>1 DEF Tree

(* Only run r moves, and nothing on the disk.                                *)
LEMMA OneMoves ==
    ASSUME Inv, NEW r \in Runs, UNCHANGED <<job, disk>>,
           pc' \in [Runs -> Steps], at' \in [Runs -> Nat], ns' \in [Runs -> NsType], cwd' \in [Runs -> Place],
           \A q \in Runs : q # r => pc'[q] = pc[q] /\ at'[q] = at[q] /\ ns'[q] = ns[q] /\ cwd'[q] = cwd[q],
           RunOk(r)'
    PROVE  Inv'
<1>1. \A q \in Runs : RunOk(q)'
  <2> SUFFICES ASSUME NEW q \in Runs, q # r PROVE RunOk(q)'
    OBVIOUS
  <2>1. RunOk(q)
    BY DEF Inv
  <2>2. pc'[q] = pc[q] /\ at'[q] = at[q] /\ ns'[q] = ns[q] /\ cwd'[q] = cwd[q] /\ job' = job
    OBVIOUS
  <2>3. QED
    BY <2>1, <2>2 DEF RunOk
<1>2. job' \in Jobs /\ DiskOk(disk')
  BY DEF Inv
<1>3. DiskKept'
  BY DEF Inv, DiskKept
<1>4. QED
  BY <1>1, <1>2, <1>3 DEF Inv

LEMMA GoInv ==
    ASSUME Inv, NEW r \in Runs, NEW next \in Steps, NEW n, Go(r, next, n), Shape(job[r].root, next, n, cwd[r])
    PROVE  Inv'
<1>1. n \in NsType
  BY ShapeNs
<1>2. /\ pc' = [pc EXCEPT ![r] = next] /\ at' = [at EXCEPT ![r] = 1] /\ ns' = [ns EXCEPT ![r] = n]
      /\ UNCHANGED <<job, disk, cwd>>
  BY DEF Go
<1>3. pc \in [Runs -> Steps] /\ at \in [Runs -> Nat] /\ ns \in [Runs -> NsType] /\ cwd \in [Runs -> Place]
  BY DEF Inv
<1>4. pc' \in [Runs -> Steps] /\ at' \in [Runs -> Nat] /\ ns' \in [Runs -> NsType] /\ cwd' \in [Runs -> Place]
  BY <1>1, <1>2, <1>3
<1>5. \A q \in Runs : q # r => pc'[q] = pc[q] /\ at'[q] = at[q] /\ ns'[q] = ns[q] /\ cwd'[q] = cwd[q]
  BY <1>2, <1>3
<1>6. pc'[r] = next /\ at'[r] = 1 /\ ns'[r] = n /\ cwd' = cwd /\ job' = job
  BY <1>2, <1>3
<1>7. Listed(job[r], next) \in Nat
  BY PolicyFacts DEF Listed, Inv
<1>8. 1 \in 1..(1 + Listed(job[r], next))
  BY <1>7
<1>9. RunOk(r)'
  BY <1>6, <1>8 DEF RunOk
<1>10. QED
  BY <1>2, <1>4, <1>5, <1>9, OneMoves

LEMMA FailInv ==
    ASSUME Inv, NEW r \in Runs, NEW next \in {"failed", "killed", "refused", "denied", "namespace", "tmpfs"}, Go(r, next, HostNs)
    PROVE  Inv'
<1>1. next \in Steps
  BY DEF Steps, EarlySteps
<1>2. Shape(job[r].root, next, HostNs, cwd[r])
  BY HostFacts DEF Shape, RootSteps
<1>3. QED
  BY <1>1, <1>2, GoInv

LEMMA StepInv ==
    ASSUME Inv, NEW r \in Runs, NEW n, Step(r, n), pc[r] \in {"tmpfs", "bind", "proc"},
           at[r] <= Listed(job[r], pc[r]), Early(n, job[r].root)
    PROVE  Inv'
<1>1. n \in NsType
  BY DEF Early, Tree
<1>2. /\ at' = [at EXCEPT ![r] = @ + 1] /\ ns' = [ns EXCEPT ![r] = n] /\ UNCHANGED <<job, disk, cwd, pc>>
  BY DEF Step
<1>3. pc \in [Runs -> Steps] /\ at \in [Runs -> Nat] /\ ns \in [Runs -> NsType] /\ cwd \in [Runs -> Place]
  BY DEF Inv
<1>4. pc' \in [Runs -> Steps] /\ at' \in [Runs -> Nat] /\ ns' \in [Runs -> NsType] /\ cwd' \in [Runs -> Place]
  BY <1>1, <1>2, <1>3
<1>5. \A q \in Runs : q # r => pc'[q] = pc[q] /\ at'[q] = at[q] /\ ns'[q] = ns[q] /\ cwd'[q] = cwd[q]
  BY <1>2, <1>3
<1>6. pc' = pc /\ at'[r] = at[r] + 1 /\ ns'[r] = n /\ cwd' = cwd /\ job' = job
  BY <1>2, <1>3
<1>7. Listed(job[r], pc[r]) \in Nat /\ at[r] \in Nat
  BY <1>3, PolicyFacts DEF Listed, Inv
<1>8. at[r] + 1 \in 1..(1 + Listed(job[r], pc[r]))
  BY <1>7
<1>9. Shape(job[r].root, pc[r], n, cwd[r])
  BY DEF Shape, RootSteps
<1>10. RunOk(r)'
  BY <1>6, <1>8, <1>9 DEF RunOk
<1>11. QED
  BY <1>2, <1>4, <1>5, <1>10, OneMoves

---------------------------------------------------------------------------
(* Every action keeps it.                                                    *)

LEMMA InitInv ==
    ASSUME Init
    PROVE  Inv
<1>1. job \in Jobs /\ disk \in Disks /\ DiskOk(disk)
  BY JobAssumption DEF Init, DiskOk
<1>2. /\ pc = [r \in Runs |-> "off"] /\ at = [r \in Runs |-> 1]
      /\ ns = [r \in Runs |-> HostNs] /\ cwd = [r \in Runs |-> Nowhere]
  BY DEF Init
<1>3. HostNs \in NsType /\ Nowhere \in Place /\ "off" \in Steps
  BY HostFacts DEF Early, Tree, Nowhere, Place, Paths, Steps, EarlySteps
<1>4. DiskKept
  BY <1>1 DEF DiskKept
<1>5. ASSUME NEW r \in Runs PROVE RunOk(r)
  <2>1. Shape(job[r].root, "off", HostNs, cwd[r])
    BY HostFacts DEF Shape, RootSteps
  <2>2. Listed(job[r], "off") = 0
    BY DEF Listed
  <2>3. QED
    BY <1>2, <2>1, <2>2 DEF RunOk
<1>6. QED
  BY <1>1, <1>2, <1>3, <1>4, <1>5 DEF Inv

LEMMA StartInv ==
    ASSUME Inv, NEW r \in Runs, Start(r)
    PROVE  Inv'
<1>1. pc[r] = "off" /\ pc' = [pc EXCEPT ![r] = "probe"] /\ UNCHANGED <<job, disk, at, ns, cwd>>
  BY DEF Start
<1>2. pc \in [Runs -> Steps] /\ at \in [Runs -> Nat] /\ ns \in [Runs -> NsType] /\ cwd \in [Runs -> Place] /\ RunOk(r)
  BY DEF Inv
<1>3. "probe" \in Steps
  BY DEF Steps, EarlySteps
<1>4. pc' \in [Runs -> Steps] /\ pc'[r] = "probe" /\ \A q \in Runs : q # r => pc'[q] = pc[q]
  BY <1>1, <1>2, <1>3
<1>5. Shape(job[r].root, "probe", ns[r], cwd[r])
  BY <1>1, <1>2 DEF RunOk, Shape, EarlySteps, RootSteps
<1>6. at[r] \in 1..(1 + Listed(job[r], "probe"))
  BY <1>1, <1>2 DEF RunOk, Listed
<1>7. RunOk(r)'
  BY <1>1, <1>4, <1>5, <1>6 DEF RunOk
<1>8. QED
  BY <1>1, <1>2, <1>4, <1>7, OneMoves

LEMMA PreflightInv ==
    ASSUME Inv, NEW r \in Runs, Preflight(r)
    PROVE  Inv'
<1>1. CASE ~NeedsNamespace(job[r]) /\ Go(r, "cwd", HostNs)
  <2>1. job[r].root = None
    BY <1>1 DEF NeedsNamespace
  <2>2. Shape(job[r].root, "cwd", HostNs, cwd[r]) /\ "cwd" \in Steps
    BY <2>1, HostFacts DEF Shape, RootSteps, EarlySteps, Steps
  <2>3. QED
    BY <1>1, <2>2, GoInv
<1>2. CASE Go(r, "namespace", HostNs)
  BY <1>2, FailInv
<1>3. CASE Go(r, "refused", HostNs)
  BY <1>3, FailInv
<1>4. QED
  BY <1>1, <1>2, <1>3 DEF Preflight

LEMMA NamespaceInv ==
    ASSUME Inv, NEW r \in Runs, Namespace(r)
    PROVE  Inv'
BY FailInv DEF Namespace

(* The namespace of a run that mounts.                                       *)
LEMMA MountingFacts ==
    ASSUME Inv, NEW r \in Runs, pc[r] \in {"tmpfs", "bind", "proc", "root_bind"}
    PROVE  /\ Early(ns[r], job[r].root) /\ ns[r] \in NsType /\ ns[r].root \in DOMAIN ns[r].mounts /\ Tree(ns[r])
           /\ at[r] \in Nat /\ at[r] \in 1..(1 + Listed(job[r], pc[r])) /\ job \in Jobs
<1>1. RunOk(r) /\ at[r] \in Nat /\ job \in Jobs
  BY DEF Inv
<1>2. Early(ns[r], job[r].root)
  BY <1>1 DEF RunOk, Shape, EarlySteps
<1>3. QED
  BY <1>1, <1>2 DEF RunOk, Early, Tree

(* A mount of a file system of its own.                                      *)
LEMMA NewMountEarly ==
    ASSUME NEW n, NEW root, Early(n, root), NEW d, NEW path \in Paths, Walk(n, d, path) # Nowhere,
           root # None => ~IsPrefix(path, root), NEW fs \in FsTypes, NEW made \in Tags, made # <<"detached">>
    PROVE  Early(Mount(n, Walk(n, d, path), fs, <<>>, FALSE, made), root)
<1> DEFINE w == Walk(n, d, path)
           c == Mount(n, w, fs, <<>>, FALSE, made)
<1>1. n \in NsType /\ w \in Place /\ <<>> \in Paths
  <2>1. Tree(n) /\ n \in NsType
    BY DEF Early, Tree
  <2>2. QED
    BY <2>1, WalkTree DEF Paths
<1>2. /\ c \in NsType /\ c.root = n.root /\ Len(c.mounts) = Len(n.mounts) + 1
      /\ \A i \in 1..Len(n.mounts) : c.mounts[i] = n.mounts[i]
      /\ c.mounts[Len(n.mounts) + 1] =
           [parent |-> w.mnt, on |-> w.path, fs |-> fs, base |-> <<>>, ro |-> FALSE, made |-> made]
  <2> HIDE DEF w
  <2>1. Added(n, c, [parent |-> w.mnt, on |-> w.path, fs |-> fs, base |-> <<>>, ro |-> FALSE, made |-> made])
    BY <1>1, MountFacts, Zenon
  <2> HIDE DEF c
  <2>2. QED
    BY <2>1 DEF Added
<1>3. Grown(n, c, w)
  <2> HIDE DEF c, w
  <2>1. \A i \in 1..Len(n.mounts) : Alike(n.mounts[i], c.mounts[i])
    BY <1>2 DEF Alike
  <2>2. /\ c.mounts[Len(n.mounts) + 1].parent = w.mnt /\ c.mounts[Len(n.mounts) + 1].on = w.path
        /\ c.mounts[Len(n.mounts) + 1].made = made
    BY <1>2
  <2>3. QED
    BY <1>2, <2>1, <2>2 DEF Grown
<1>4. QED
  BY <1>3, GrownEarly

LEMMA TmpfsInv ==
    ASSUME Inv, NEW r \in Runs, Tmpfs(r)
    PROVE  Inv'
<1> DEFINE p == job[r]
           path == p.tmpfs[at[r]]
           place == Walk(ns[r], disk, path)
           n == Mount(ns[r], place, "tmpfs", <<>>, FALSE, <<"tmpfs", at[r]>>)
<1>0. pc[r] = "tmpfs"
  BY DEF Tmpfs
<1>1. Early(ns[r], p.root) /\ at[r] \in Nat /\ at[r] >= 1 /\ job \in Jobs /\ Listed(p, pc[r]) = Len(p.tmpfs)
  BY <1>0, MountingFacts DEF Listed
<1>2. CASE Go(r, "bind", ns[r])
  <2>1. Shape(p.root, "bind", ns[r], cwd[r]) /\ "bind" \in Steps
    BY <1>1 DEF Shape, RootSteps, EarlySteps, Steps
  <2>2. QED
    BY <1>2, <2>1, GoInv
<1>3. CASE Fail(r)
  BY <1>3, FailInv DEF Fail
<1>4. CASE at[r] <= Len(p.tmpfs) /\ Kind(ns[r], disk, place) = "dir" /\ Step(r, n)
  <2>1. at[r] \in 1..Len(p.tmpfs)
    BY <1>1, <1>4, PolicyFacts
  <2>2. path \in Paths /\ (p.root # None => ~IsPrefix(path, p.root))
    BY <1>1, <2>1, PolicyFacts
  <2>3. place # Nowhere
    BY <1>4, KindFacts
  <2>4. <<"tmpfs", at[r]>> \in Tags /\ <<"tmpfs", at[r]>> # <<"detached">> /\ "tmpfs" \in FsTypes
    BY <1>1, TagFacts DEF FsTypes
  <2>5. Early(n, p.root)
    BY <1>1, <2>2, <2>3, <2>4, NewMountEarly
  <2>6. QED
    BY <1>0, <1>1, <1>4, <2>5, StepInv
<1>5. QED
  BY <1>2, <1>3, <1>4 DEF Tmpfs

LEMMA ProcInv ==
    ASSUME Inv, NEW r \in Runs, Proc(r)
    PROVE  Inv'
<1> DEFINE p == job[r]
           path == p.proc[at[r]]
           place == Walk(ns[r], disk, path)
           n == Mount(ns[r], place, "proc", <<>>, FALSE, <<"proc", at[r]>>)
           next == IF p.root = None THEN "cwd" ELSE "root_bind"
<1>0. pc[r] = "proc"
  BY DEF Proc
<1>1. Early(ns[r], p.root) /\ at[r] \in Nat /\ at[r] >= 1 /\ job \in Jobs /\ Listed(p, pc[r]) = Len(p.proc)
  BY <1>0, MountingFacts DEF Listed
<1>2. CASE Go(r, next, ns[r])
  <2>1. Shape(p.root, next, ns[r], cwd[r]) /\ next \in Steps
    BY <1>1 DEF Shape, RootSteps, EarlySteps, Steps
  <2>2. QED
    BY <1>2, <2>1, GoInv
<1>3. CASE Fail(r)
  BY <1>3, FailInv DEF Fail
<1>4. CASE at[r] <= Len(p.proc) /\ Kind(ns[r], disk, place) = "dir" /\ Step(r, n)
  <2>1. at[r] \in 1..Len(p.proc)
    BY <1>1, <1>4, PolicyFacts
  <2>2. path \in Paths /\ (p.root # None => ~IsPrefix(path, p.root))
    BY <1>1, <2>1, PolicyFacts
  <2>3. place # Nowhere
    BY <1>4, KindFacts
  <2>4. <<"proc", at[r]>> \in Tags /\ <<"proc", at[r]>> # <<"detached">> /\ "proc" \in FsTypes
    BY <1>1, TagFacts DEF FsTypes
  <2>5. Early(n, p.root)
    BY <1>1, <2>2, <2>3, <2>4, NewMountEarly
  <2>6. QED
    BY <1>0, <1>1, <1>4, <2>5, StepInv
<1>5. QED
  BY <1>2, <1>3, <1>4 DEF Proc

(* What two mounts that are alike do not tell apart.                         *)
LEMMA AlikeEarly ==
    ASSUME NEW n, NEW root, Early(n, root), NEW c, c \in NsType, c.root = n.root, Len(c.mounts) = Len(n.mounts),
           \A i \in 1..Len(n.mounts) : Alike(n.mounts[i], c.mounts[i])
    PROVE  Early(c, root)
<1>1. n \in NsType /\ Tree(n) /\ Host(n) /\ n.root = 1 /\ n.root \in DOMAIN n.mounts
  BY DEF Early, Tree, Host
<1>2. DOMAIN n.mounts = 1..Len(n.mounts) /\ DOMAIN c.mounts = 1..Len(n.mounts)
  BY <1>1, NsFacts
<1>3. ASSUME NEW i \in DOMAIN n.mounts
      PROVE  /\ c.mounts[i].parent = n.mounts[i].parent /\ c.mounts[i].on = n.mounts[i].on
             /\ c.mounts[i].fs = n.mounts[i].fs /\ c.mounts[i].base = n.mounts[i].base
             /\ c.mounts[i].made = n.mounts[i].made
  BY <1>2 DEF Alike
<1>4. Host(c)
  BY <1>1, <1>3 DEF Host
<1>5. Tree(c)
  BY <1>1, <1>2, <1>3, SMTT(40) DEF Tree
<1>6. \A i \in DOMAIN c.mounts : Off(c, i, root)
  <2>1. \A i \in DOMAIN n.mounts : Off(n, i, root)
    BY DEF Early
  <2>2. QED
    BY <1>2, <1>3, <2>1 DEF Off
<1>7. QED
  BY <1>4, <1>5, <1>6 DEF Early

(* A bind mount, made read-only or not.                                      *)
LEMMA RemountEarly ==
    ASSUME NEW b, NEW root, Early(b, root), NEW d, NEW target
    PROVE  Early(Remount(b, d, target), root)
<1> DEFINE n == Remount(b, d, target)
           w == Walk(b, d, target).mnt
<1>1. b \in NsType
  BY DEF Early, Tree
<1>2. CASE w \in DOMAIN b.mounts
  <2>1. /\ n \in NsType /\ n.root = b.root /\ Len(n.mounts) = Len(b.mounts)
        /\ \A i \in 1..Len(b.mounts) : Alike(b.mounts[i], n.mounts[i])
        /\ \A i \in 1..Len(b.mounts) : i # w => n.mounts[i] = b.mounts[i]
        /\ n.mounts[w].ro = TRUE
    <3>1. Protected(b, n, w)
      BY <1>1, <1>2, RemountFacts, Zenon
    <3> HIDE DEF n, w
    <3>2. QED
      BY <3>1 DEF Protected
  <2> HIDE DEF n
  <2>2. Early(n, root)
    BY <2>1, AlikeEarly
  <2>3. QED
    BY <2>2 DEF n
<1>3. CASE w \notin DOMAIN b.mounts
  <2> DEFINE m == [b.mounts[w] EXCEPT !.ro = TRUE]
             q == [b.mounts EXCEPT ![w] = m]
  <2>1. n = [b EXCEPT !.mounts = q]
    BY DEF Remount
  <2> HIDE DEF m, w
  <2>2. b.mounts \in Seq(MountType) /\ b = [root |-> b.root, mounts |-> b.mounts]
    BY <1>1 DEF NsType
  <2>3. b.mounts = [i \in DOMAIN b.mounts |-> b.mounts[i]]
    BY <2>2
  <2>4. q = b.mounts
    BY <1>3, <2>3
  <2>5. [b EXCEPT !.mounts = b.mounts] = b
    BY <2>2
  <2> HIDE DEF q
  <2>6. n = b
    BY <2>1, <2>4, <2>5
  <2>7. QED
    BY <2>6
<1>4. QED
  BY <1>2, <1>3

LEMMA BindEarly ==
    ASSUME NEW n, NEW root, Early(n, root), NEW d, NEW source \in Paths, NEW target \in Paths,
           Walk(n, d, source) # Nowhere, Walk(n, d, target) # Nowhere,
           root # None => ~IsPrefix(target, root), NEW made \in Tags, made # <<"detached">>
    PROVE  Early(BindMount(n, d, source, target, made), root)
<1> DEFINE w == Walk(n, d, target)
           s == Walk(n, d, source)
           m == n.mounts[s.mnt]
           K == Len(n.mounts)
           b == BindMount(n, d, source, target, made)
<1>1. n \in NsType /\ n.root \in DOMAIN n.mounts
  BY DEF Early, Tree
<1>2. /\ b \in NsType /\ b.root = n.root /\ Len(b.mounts) = K + 1
      /\ \A i \in 1..K : b.mounts[i] = n.mounts[i]
      /\ b.mounts[K + 1] = [parent |-> w.mnt, on |-> w.path, fs |-> m.fs, base |-> s.path,
                            ro |-> m.ro, made |-> made]
  <2>1. Added(n, b, [parent |-> w.mnt, on |-> w.path, fs |-> m.fs, base |-> s.path, ro |-> m.ro, made |-> made])
    BY <1>1, BindFacts, Zenon
  <2> HIDE DEF b, w, s, m
  <2>2. QED
    BY <2>1 DEF Added
<1>3. Grown(n, b, w)
  <2> HIDE DEF b, w, s, m, K
  <2>1. b.mounts[K + 1].parent = w.mnt /\ b.mounts[K + 1].on = w.path /\ b.mounts[K + 1].made = made
    BY <1>2
  <2>2. \A i \in 1..K : Alike(n.mounts[i], b.mounts[i])
    BY <1>2 DEF Alike
  <2>3. QED
    BY <1>2, <2>1, <2>2 DEF Grown, K
<1>4. QED
  BY <1>3, GrownEarly

LEMMA BindInv ==
    ASSUME Inv, NEW r \in Runs, Bind(r)
    PROVE  Inv'
<1> DEFINE p == job[r]
           rule == p.bind[at[r]]
           source == Kind(ns[r], disk, Walk(ns[r], disk, rule.source))
           target == Kind(ns[r], disk, Walk(ns[r], disk, rule.target))
           b == BindMount(ns[r], disk, rule.source, rule.target, <<"bind", at[r]>>)
           n == ReadOnly(b, disk, rule)
<1>0. pc[r] = "bind"
  BY DEF Bind
<1>1. Early(ns[r], p.root) /\ at[r] \in Nat /\ at[r] >= 1 /\ job \in Jobs /\ Listed(p, pc[r]) = Len(p.bind)
  BY <1>0, MountingFacts DEF Listed
<1>2. CASE Go(r, "proc", ns[r])
  <2>1. Shape(p.root, "proc", ns[r], cwd[r]) /\ "proc" \in Steps
    BY <1>1 DEF Shape, RootSteps, EarlySteps, Steps
  <2>2. QED
    BY <1>2, <2>1, GoInv
<1>3. CASE Fail(r)
  BY <1>3, FailInv DEF Fail
<1>4. CASE at[r] <= Len(p.bind) /\ source \in {"dir", "file"} /\ target # "none" /\ Step(r, n)
  <2>1. at[r] \in 1..Len(p.bind)
    <3>1. Len(p.bind) \in Nat
      BY <1>1, PolicyFacts, Zenon
    <3> HIDE DEF p
    <3>2. QED
      BY <1>1, <1>4, <3>1
  <2>2. /\ rule.source \in Paths /\ rule.target \in Paths
        /\ (p.root # None => ~IsPrefix(rule.target, p.root))
    BY <1>1, <2>1, PolicyFacts
  <2>3. Walk(ns[r], disk, rule.source) # Nowhere /\ Walk(ns[r], disk, rule.target) # Nowhere
    BY <1>4, KindFacts
  <2>4. <<"bind", at[r]>> \in Tags /\ <<"bind", at[r]>> # <<"detached">>
    BY <1>1, TagFacts
  <2>5. Early(b, p.root)
    BY <1>1, <2>2, <2>3, <2>4, BindEarly
  <2> HIDE DEF b
  <2>6. Early(n, p.root)
    BY <2>5, RemountEarly DEF ReadOnly
  <2> HIDE DEF n
  <2>7. QED
    BY <1>0, <1>1, <1>4, <2>6, StepInv
<1>5. QED
  BY <1>2, <1>3, <1>4 DEF Bind

(* The run that changes its root.                                            *)
LEMMA RootFacts ==
    ASSUME Inv, NEW r \in Runs, pc[r] \in RootSteps
    PROVE  /\ job[r].root # None /\ job[r].root \in Paths /\ RunOk(r)
           /\ pc[r] = "root_bind" => Early(ns[r], job[r].root)
           /\ pc[r] \in {"root_mkdir", "root_pivot"} => Bound(ns[r], job[r].root)
           /\ pc[r] = "root_detach" => Pivoted(ns[r], job[r].root)
           /\ pc[r] = "root_rmdir" => Alone(ns[r], job[r].root)
<1>1. RunOk(r) /\ job \in Jobs
  BY DEF Inv
<1>2. job[r].root # None
  BY <1>1 DEF RunOk, Shape
<1>3. job[r].root \in Paths
  BY <1>1, <1>2, PolicyFacts
<1>4. QED
  BY <1>1, <1>2, <1>3 DEF RunOk, Shape, EarlySteps

LEMMA RootBindInv ==
    ASSUME Inv, NEW r \in Runs, RootBind(r)
    PROVE  Inv'
<1> DEFINE root == job[r].root
           n == BindMount(ns[r], disk, root, root, <<"root">>)
<1>1. pc[r] = "root_bind" /\ root # None /\ root \in Paths /\ Early(ns[r], root)
  BY RootFacts DEF RootBind, RootSteps
<1>2. CASE Fail(r)
  BY <1>2, FailInv DEF Fail
<1>3. CASE Kind(ns[r], disk, Walk(ns[r], disk, root)) = "dir" /\ Go(r, "root_mkdir", n)
  <2>1. Walk(ns[r], disk, root) # Nowhere
    BY <1>3, KindFacts
  <2>2. Bound(n, root)
    BY <1>1, <2>1, RootBound
  <2>3. Shape(root, "root_mkdir", n, cwd[r]) /\ "root_mkdir" \in Steps
    BY <1>1, <2>2 DEF Shape, RootSteps, EarlySteps, Steps
  <2> HIDE DEF n
  <2>4. QED
    BY <1>3, <2>3, GoInv
<1>4. QED
  BY <1>2, <1>3 DEF RootBind

(* The directory for the old root appears on the disk, or was there.         *)
LEMMA MadeDir ==
    ASSUME Inv, NEW r \in Runs, job[r].root # None, job[r].root \in Paths, job' = job,
           disk' = [q \in DOMAIN disk \cup {Append(job[r].root, OldRoot)} |->
                       IF q \in DOMAIN disk THEN disk[q] ELSE "dir"]
    PROVE  DiskOk(disk') /\ DiskKept'
<1> DEFINE old == Append(job[r].root, OldRoot)
<1>1. old \in Paths
  BY JobAssumption, AppendFacts
<1>2. DiskOk(disk')
  BY <1>1 DEF DiskOk, Inv
<1>3. PICK d \in Disks : \A q \in DOMAIN d \cup DOMAIN disk :
        \/ q \in DOMAIN d /\ q \in DOMAIN disk /\ disk[q] = d[q]
        \/ \E x \in Runs : job[x].root # None /\ q = Append(job[x].root, OldRoot)
  BY DEF Inv, DiskKept
<1>4. ASSUME NEW q \in DOMAIN d \cup DOMAIN disk'
      PROVE  \/ q \in DOMAIN d /\ q \in DOMAIN disk' /\ disk'[q] = d[q]
             \/ \E x \in Runs : job'[x].root # None /\ q = Append(job'[x].root, OldRoot)
  <2>1. CASE q = old
    BY <2>1
  <2>2. CASE q # old
    <3>1. q \in DOMAIN d \cup DOMAIN disk /\ (q \in DOMAIN disk => q \in DOMAIN disk' /\ disk'[q] = disk[q])
      BY <2>2
    <3>2. \/ q \in DOMAIN d /\ q \in DOMAIN disk /\ disk[q] = d[q]
          \/ \E x \in Runs : job[x].root # None /\ q = Append(job[x].root, OldRoot)
      BY <1>3, <3>1
    <3>3. QED
      BY <3>1, <3>2
  <2>3. QED
    BY <2>1, <2>2
<1>5. DiskKept'
  BY <1>4 DEF DiskKept
<1>6. QED
  BY <1>2, <1>5

LEMMA RootMkdirInv ==
    ASSUME Inv, NEW r \in Runs, RootMkdir(r)
    PROVE  Inv'
<1> DEFINE root == job[r].root
           w == Walk(ns[r], disk, root)
           old == Append(w.path, OldRoot)
<1>1. pc[r] = "root_mkdir" /\ root # None /\ root \in Paths /\ Bound(ns[r], root) /\ RunOk(r)
  BY RootFacts DEF RootMkdir, RootSteps
<1>2. CASE Fail(r)
  BY <1>2, FailInv DEF Fail
<1>3. CASE /\ w # Nowhere
           /\ disk' = [q \in DOMAIN disk \cup {old} |-> IF q \in DOMAIN disk THEN disk[q] ELSE "dir"]
           /\ pc' = [pc EXCEPT ![r] = "root_pivot"]
           /\ UNCHANGED <<job, kernel, at, ns, cwd, met>>
  <2>1. old = Append(root, OldRoot)
    BY <1>1, <1>3, WalkBound
  <2>2. DiskOk(disk') /\ DiskKept'
    BY <1>1, <1>3, <2>1, MadeDir
  <2>3. pc \in [Runs -> Steps] /\ at \in [Runs -> Nat] /\ ns \in [Runs -> NsType] /\ cwd \in [Runs -> Place]
        /\ job \in Jobs /\ \A q \in Runs : RunOk(q)
    BY DEF Inv
  <2>4. pc' \in [Runs -> Steps] /\ pc'[r] = "root_pivot" /\ \A q \in Runs : q # r => pc'[q] = pc[q]
    BY <1>3, <2>3 DEF Steps, RootSteps
  <2>5. Shape(root, "root_pivot", ns[r], cwd[r])
    BY <1>1 DEF Shape, EarlySteps, RootSteps
  <2>6. at[r] \in 1..(1 + Listed(job[r], "root_pivot"))
    BY <1>1 DEF RunOk, Listed
  <2>7. RunOk(r)'
    BY <1>3, <2>4, <2>5, <2>6 DEF RunOk
  <2>8. ASSUME NEW q \in Runs, q # r PROVE RunOk(q)'
    BY <1>3, <2>3, <2>4, <2>8 DEF RunOk
  <2>9. QED
    BY <1>3, <2>2, <2>3, <2>4, <2>7, <2>8 DEF Inv
<1>4. QED
  BY <1>2, <1>3 DEF RootMkdir

LEMMA RootPivotInv ==
    ASSUME Inv, NEW r \in Runs, RootPivot(r)
    PROVE  Inv'
<1> DEFINE root == job[r].root
           w == Walk(ns[r], disk, root)
           old == In(w, OldRoot)
           n == PivotRoot(ns[r], w, old)
<1>1. pc[r] = "root_pivot" /\ root # None /\ root \in Paths /\ Bound(ns[r], root)
  BY RootFacts DEF RootPivot, RootSteps
<1>2. CASE Fail(r)
  BY <1>2, FailInv DEF Fail
<1>3. CASE CanPivot(ns[r], disk, w, old) /\ Go(r, "root_detach", n)
  <2>1. Pivoted(n, root)
    BY <1>1, <1>3, RootPivoted
  <2>2. Shape(root, "root_detach", n, cwd[r]) /\ "root_detach" \in Steps
    BY <1>1, <2>1 DEF Shape, RootSteps, EarlySteps, Steps
  <2> HIDE DEF n
  <2>3. QED
    BY <1>3, <2>2, GoInv
<1>4. QED
  BY <1>2, <1>3 DEF RootPivot

LEMMA RootDetachInv ==
    ASSUME Inv, NEW r \in Runs, RootDetach(r)
    PROVE  Inv'
<1> DEFINE root == job[r].root
           w == Walk(ns[r], disk, <<OldRoot>>)
           n == Detach(ns[r], {w.mnt})
<1>1. pc[r] = "root_detach" /\ root # None /\ root \in Paths /\ Pivoted(ns[r], root)
  BY RootFacts DEF RootDetach, RootSteps
<1>2. CASE Fail(r)
  BY <1>2, FailInv DEF Fail
<1>3. CASE w # Nowhere /\ w.mnt # ns[r].root /\ Go(r, "root_rmdir", n)
  <2>1. Alone(n, root)
    BY <1>1, <1>3, RootAlone
  <2>2. Shape(root, "root_rmdir", n, cwd[r]) /\ "root_rmdir" \in Steps
    BY <1>1, <2>1 DEF Shape, RootSteps, EarlySteps, Steps
  <2> HIDE DEF n
  <2>3. QED
    BY <1>3, <2>2, GoInv
<1>4. QED
  BY <1>2, <1>3 DEF RootDetach

LEMMA OldRootPath ==
    OldRoot \in Names /\ <<OldRoot>> \in Paths
BY JobAssumption DEF Paths

LEMMA OldRootWalk ==
    ASSUME NEW n, NEW root \in Paths, Alone(n, root), NEW d, Walk(n, d, <<OldRoot>>) # Nowhere
    PROVE  Walk(n, d, <<OldRoot>>).path = root \o <<OldRoot>>
BY OldRootPath, WalkAlone, Zenon

(* rmdir takes the directory away, and the mounts on it in every run.        *)
LEMMA RootRmdirInv ==
    ASSUME Inv, NEW r \in Runs, RootRmdir(r)
    PROVE  Inv'
<1> DEFINE root == job[r].root
           old == Walk(ns[r], disk, <<OldRoot>>)
<1>1. pc[r] = "root_rmdir" /\ root # None /\ root \in Paths /\ Alone(ns[r], root) /\ RunOk(r)
  BY RootFacts DEF RootRmdir, RootSteps
<1>2. CASE Fail(r)
  BY <1>2, FailInv DEF Fail
<1>3. CASE /\ CanRemove(ns[r], disk, old)
           /\ disk' = [q \in DOMAIN disk \ {old.path} |-> disk[q]]
           /\ ns' = [q \in Runs |-> LoseMountpoint(ns[q], old.path)]
           /\ pc' = [pc EXCEPT ![r] = "cwd"]
           /\ UNCHANGED <<job, kernel, at, cwd, met>>
  <2>1. old.path = Append(root, OldRoot)
    <3>1. old # Nowhere
      BY <1>3, KindFacts DEF CanRemove
    <3>2. old.path = root \o <<OldRoot>>
      <4>1. root \in Paths /\ Alone(ns[r], root)
        BY <1>1, Zenon
      <4> HIDE DEF root
      <4>2. QED
        BY <3>1, <4>1, OldRootWalk, Zenon
    <3>3. root \o <<OldRoot>> = Append(root, OldRoot)
      BY <1>1, OldRootPath, AppendIsConcat DEF Paths
    <3>4. QED
      BY <3>2, <3>3
  <2>2. pc \in [Runs -> Steps] /\ at \in [Runs -> Nat] /\ ns \in [Runs -> NsType] /\ cwd \in [Runs -> Place]
        /\ job \in Jobs /\ DiskOk(disk) /\ \A q \in Runs : RunOk(q)
    BY DEF Inv
  <2> HIDE DEF old
  <2>3. DiskOk(disk')
    <3>1. Append(root, OldRoot) # <<>>
      BY <1>1, OldRootPath, AppendFacts
    <3>2. DOMAIN disk' = DOMAIN disk \ {old.path} /\ \A q \in DOMAIN disk' : disk'[q] = disk[q]
      BY <1>3
    <3>3. QED
      BY <2>1, <2>2, <3>1, <3>2 DEF DiskOk
  <2>4. DiskKept'
    <3>1. PICK d \in Disks : \A q \in DOMAIN d \cup DOMAIN disk :
            \/ q \in DOMAIN d /\ q \in DOMAIN disk /\ disk[q] = d[q]
            \/ \E x \in Runs : job[x].root # None /\ q = Append(job[x].root, OldRoot)
      BY DEF Inv, DiskKept
    <3>2. ASSUME NEW q \in DOMAIN d \cup DOMAIN disk'
          PROVE  \/ q \in DOMAIN d /\ q \in DOMAIN disk' /\ disk'[q] = d[q]
                 \/ \E x \in Runs : job'[x].root # None /\ q = Append(job'[x].root, OldRoot)
      <4>1. CASE q = old.path
        BY <1>1, <1>3, <2>1, <4>1
      <4>2. CASE q # old.path
        <5>1. q \in DOMAIN d \cup DOMAIN disk /\ (q \in DOMAIN disk => q \in DOMAIN disk' /\ disk'[q] = disk[q])
          BY <1>3, <4>2
        <5>2. \/ q \in DOMAIN d /\ q \in DOMAIN disk /\ disk[q] = d[q]
              \/ \E x \in Runs : job[x].root # None /\ q = Append(job[x].root, OldRoot)
          BY <3>1, <5>1
        <5>3. QED
          BY <1>3, <5>1, <5>2
      <4>3. QED
        BY <4>1, <4>2
    <3>3. QED
      BY <3>2 DEF DiskKept
  <2>5. pc' \in [Runs -> Steps] /\ pc'[r] = "cwd" /\ \A q \in Runs : q # r => pc'[q] = pc[q]
    BY <1>3, <2>2 DEF Steps
  <2>6. ASSUME NEW q \in Runs
        PROVE  ns'[q] = LoseMountpoint(ns[q], old.path) /\ Shape(job[q].root, pc[q], ns'[q], cwd[q]) /\ Tree(ns'[q])
    <3>1. ns'[q] = LoseMountpoint(ns[q], old.path)
      BY <1>3
    <3>2. Shape(job[q].root, pc[q], ns[q], cwd[q]) /\ pc[q] \in Steps
      BY <2>2 DEF RunOk
    <3>3. Tree(ns[q])
      BY <3>2, ShapeNs
    <3>4. Tree(ns'[q]) /\ ns'[q].root = ns[q].root
      BY <3>1, <3>3, LoseFacts
    <3>5. /\ Early(ns[q], job[q].root) => Early(ns'[q], job[q].root)
          /\ Bound(ns[q], job[q].root) => Bound(ns'[q], job[q].root)
          /\ Pivoted(ns[q], job[q].root) => Pivoted(ns'[q], job[q].root)
          /\ Alone(ns[q], job[q].root) => Alone(ns'[q], job[q].root)
      BY <3>1, LoseShapes
    <3>6. QED
      BY <3>1, <3>2, <3>4, <3>5 DEF Shape
  <2>7. ns' \in [Runs -> NsType]
    BY <1>3, <2>6 DEF Tree
  <2>8. ASSUME NEW q \in Runs, q # r PROVE RunOk(q)'
    BY <1>3, <2>2, <2>5, <2>6, <2>8 DEF RunOk
  <2>9. RunOk(r)'
    <3>1. Shape(root, "cwd", ns'[r], cwd[r])
      <4>1. Alone(ns'[r], root)
        BY <1>1, <2>6 DEF Shape
      <4>2. QED
        BY <1>1, <4>1 DEF Shape, EarlySteps, RootSteps
    <3>2. at[r] \in 1..(1 + Listed(job[r], "cwd"))
      BY <1>1 DEF RunOk, Listed
    <3>3. QED
      BY <1>3, <2>5, <3>1, <3>2 DEF RunOk
  <2>10. QED
    BY <1>3, <2>2, <2>3, <2>4, <2>5, <2>7, <2>8, <2>9 DEF Inv
<1>4. QED
  BY <1>2, <1>3 DEF RootRmdir

LEMMA CwdInv ==
    ASSUME Inv, NEW r \in Runs, Cwd(r)
    PROVE  Inv'
<1> DEFINE root == job[r].root
           path == IF job[r].cwd = None THEN <<>> ELSE job[r].cwd
           place == Walk(ns[r], disk, path)
<1>1. pc[r] = "cwd" /\ RunOk(r) /\ job \in Jobs
  BY DEF Cwd, Inv
<1>2. CASE Fail(r)
  BY <1>2, FailInv DEF Fail
<1>3. CASE /\ Kind(ns[r], disk, place) = "dir"
           /\ pc' = [pc EXCEPT ![r] = "running"] /\ cwd' = [cwd EXCEPT ![r] = place]
           /\ UNCHANGED <<job, kernel, disk, at, ns, met>>
  <2>1. path \in Paths
    <3>1. <<>> \in Paths
      BY DEF Paths
    <3>2. QED
      BY <1>1, <3>1, PolicyFacts
  <2>2. place # Nowhere
    BY <1>3, KindFacts
  <2>3. IF root = None THEN Early(ns[r], root) ELSE Alone(ns[r], root)
    BY <1>1 DEF RunOk, Shape
  <2>4. Tree(ns[r])
    BY <2>3 DEF Early, Alone
  <2>5. place \in Place
    BY <2>1, <2>2, <2>4, WalkTree
  <2>6. ASSUME root # None PROVE place.mnt = ns[r].root /\ IsPrefix(root, place.path)
    <3>1. root \in Paths
      BY <1>1, <2>6, PolicyFacts
    <3>2. place.mnt = ns[r].root /\ place.path = root \o path
      <4>1. Alone(ns[r], root)
        BY <2>3, <2>6
      <4> HIDE DEF path, root
      <4>2. QED
        BY <2>1, <2>2, <3>1, <4>1, WalkAlone, Zenon
    <3>3. QED
      BY <2>1, <3>1, <3>2, ConcatPrefix
  <2> HIDE DEF place
  <2>7. pc \in [Runs -> Steps] /\ at \in [Runs -> Nat] /\ ns \in [Runs -> NsType] /\ cwd \in [Runs -> Place]
    BY DEF Inv
  <2>8. /\ pc' \in [Runs -> Steps] /\ pc'[r] = "running" /\ cwd' \in [Runs -> Place] /\ cwd'[r] = place
        /\ \A q \in Runs : q # r => pc'[q] = pc[q] /\ cwd'[q] = cwd[q]
    BY <1>3, <2>5, <2>7 DEF Steps
  <2>9. Shape(root, "running", ns[r], place)
    BY <2>3, <2>6 DEF Shape, EarlySteps, RootSteps
  <2>10. at[r] \in 1..(1 + Listed(job[r], "running"))
    BY <1>1 DEF RunOk, Listed
  <2>11. RunOk(r)'
    BY <1>3, <2>8, <2>9, <2>10 DEF RunOk
  <2>12. QED
    BY <1>3, <2>7, <2>8, <2>11, OneMoves
<1>4. QED
  BY <1>2, <1>3 DEF Cwd

LEMMA StutterInv ==
    ASSUME Inv, UNCHANGED vars
    PROVE  Inv'
<1>1. /\ job' = job /\ disk' = disk /\ pc' = pc /\ at' = at /\ ns' = ns /\ cwd' = cwd
  BY DEF vars
<1>2. \A r \in Runs : RunOk(r)'
  BY <1>1 DEF Inv, RunOk
<1>3. DiskKept'
  BY <1>1 DEF Inv, DiskKept
<1>4. QED
  BY <1>1, <1>2, <1>3 DEF Inv

LEMMA NextInv ==
    ASSUME Inv, [Next]_vars
    PROVE  Inv'
<1>1. ASSUME NEW r \in Runs, Killed(r) PROVE Inv'
  BY <1>1, FailInv DEF Killed
<1>2. ASSUME NEW r \in Runs,
             \/ Start(r) \/ Preflight(r) \/ Namespace(r) \/ Tmpfs(r) \/ Bind(r) \/ Proc(r)
             \/ RootBind(r) \/ RootMkdir(r) \/ RootPivot(r) \/ RootDetach(r) \/ RootRmdir(r) \/ Cwd(r)
      PROVE  Inv'
  BY <1>2, StartInv, PreflightInv, NamespaceInv, TmpfsInv, BindInv, ProcInv, RootBindInv, RootMkdirInv,
     RootPivotInv, RootDetachInv, RootRmdirInv, CwdInv
<1>3. QED
  BY <1>1, <1>2, StutterInv DEF Next

LEMMA AlwaysInv == Spec => []Inv
BY InitInv, NextInv, PTL DEF Spec

---------------------------------------------------------------------------
(* Whatever runs beside it and is killed at whatever step: every mount of a  *)
(* run hangs in the run's own tree, and nothing changes on the disk but      *)
(* directories for an old root.                                              *)
THEOREM TypeCorrect == Spec => []TypeOK
<1>1. Inv => TypeOK
  <2> SUFFICES ASSUME Inv PROVE TypeOK
    OBVIOUS
  <2>1. ASSUME NEW r \in Runs
        PROVE  /\ pc[r] \in Steps
               /\ \A i \in DOMAIN ns[r].mounts :
                    LET m == ns[r].mounts[i] IN
                    /\ m.parent \in 0..Len(ns[r].mounts)
                    /\ m.parent = 0 => i = ns[r].root \/ m.made = <<"detached">>
                    /\ m.parent # 0 => m.made # <<"detached">>
               /\ at[r] \in 1..(1 + Len(job[r].tmpfs) + Len(job[r].bind) + Len(job[r].proc))
    <3>1. pc[r] \in Steps /\ RunOk(r) /\ job \in Jobs /\ at[r] \in Nat
      BY DEF Inv
    <3>2. Tree(ns[r]) /\ ns[r] \in NsType
      BY <3>1, ShapeNs DEF RunOk
    <3> DEFINE n == ns[r]
               K == Len(n.mounts)
    <3>3. K \in Nat /\ DOMAIN n.mounts = 1..K /\ n.root \in 1..K
      BY <3>2, NsFacts DEF Tree
    <3>4. ASSUME NEW i \in DOMAIN n.mounts
          PROVE  /\ n.mounts[i].parent \in 0..K
                 /\ n.mounts[i].parent = 0 => i = n.root \/ n.mounts[i].made = <<"detached">>
                 /\ n.mounts[i].parent # 0 => n.mounts[i].made # <<"detached">>
      <4> HIDE DEF K, n
      <4>0. Tree(n)
        BY <3>2 DEF n
      <4>1. CASE i = n.root
        BY <3>3, <4>0, <4>1 DEF Tree
      <4>2. CASE i # n.root
        <5>1. /\ n.mounts[i].parent = 0 <=> n.mounts[i].made = <<"detached">>
              /\ n.mounts[i].parent # 0 => n.mounts[i].parent \in DOMAIN n.mounts
          BY <4>0, <4>2, Zenon DEF Tree
        <5>2. n.mounts[i].parent \in 0..K
          BY <3>3, <5>1
        <5>3. QED
          BY <5>1, <5>2, Zenon
      <4>3. QED
        BY <4>1, <4>2
    <3>5. at[r] \in 1..(1 + Len(job[r].tmpfs) + Len(job[r].bind) + Len(job[r].proc))
      <4>1. Len(job[r].tmpfs) \in Nat /\ Len(job[r].bind) \in Nat /\ Len(job[r].proc) \in Nat
        BY <3>1, PolicyFacts
      <4> DEFINE a == Len(job[r].tmpfs)
                 b == Len(job[r].bind)
                 c == Len(job[r].proc)
                 l == Listed(job[r], pc[r])
      <4>2. l \in {a, b, c, 0}
        BY DEF Listed
      <4>3. at[r] \in 1..(1 + l)
        BY <3>1 DEF RunOk
      <4> HIDE DEF a, b, c, l
      <4>4. a \in Nat /\ b \in Nat /\ c \in Nat
        BY <4>1 DEF a, b, c
      <4>5. at[r] \in 1..(1 + a + b + c)
        BY <4>2, <4>3, <4>4
      <4>6. QED
        BY <4>5 DEF a, b, c
    <3>6. QED
      BY <3>1, <3>4, <3>5
  <2>2. DiskKept
    BY DEF Inv
  <2>3. QED
    BY <2>1, <2>2 DEF TypeOK, DiskKept, Steps, EarlySteps, RootSteps
<1>2. QED
  BY <1>1, AlwaysInv, PTL

(* A workload with a runtime.root is started only when nothing of the host's *)
(* tree outside that root is in its namespace, and in that root: pivot_root, *)
(* umount2 and rmdir fail closed whatever the other runs do to the directory *)
(* they share.                                                               *)
THEOREM OldRootAlwaysGone == Spec => []OldRootGone
<1>1. Inv => OldRootGone
  <2> SUFFICES ASSUME Inv, NEW r \in Runs, pc[r] = "running", job[r].root # None
               PROVE  /\ \A i \in DOMAIN ns[r].mounts :
                           LET m == ns[r].mounts[i] IN
                           m.made = <<"detached">> \/ m.fs # "disk" \/ IsPrefix(job[r].root, m.base)
                      /\ cwd[r].mnt = ns[r].root /\ IsPrefix(job[r].root, cwd[r].path)
    BY DEF OldRootGone
  <2>1. RunOk(r) /\ job \in Jobs
    BY DEF Inv
  <2>2. Alone(ns[r], job[r].root) /\ cwd[r].mnt = ns[r].root /\ IsPrefix(job[r].root, cwd[r].path)
    BY <2>1 DEF RunOk, Shape
  <2>3. job[r].root \in Paths
    BY <2>1, PolicyFacts
  <2>4. \A i \in DOMAIN ns[r].mounts : i # ns[r].root => ns[r].mounts[i].made = <<"detached">>
    BY <2>2 DEF Alone, Tree
  <2>5. IsPrefix(job[r].root, ns[r].mounts[ns[r].root].base)
    BY <2>2, <2>3, PrefixSelf DEF Alone
  <2>6. QED
    BY <2>2, <2>4, <2>5
<1>2. QED
  BY <1>1, AlwaysInv, PTL

---------------------------------------------------------------------------
(* Where a walk ends when one mount more is made.                            *)

(* A mount is on one that was made before.                                   *)
Ordered(n) == n \in NsType /\ \A i \in DOMAIN n.mounts : n.mounts[i].parent < i

LEMMA CoveredFacts ==
    ASSUME NEW n, Ordered(n), NEW q, q.mnt \in DOMAIN n.mounts, Over(n, q) # {}
    PROVE  \E i \in DOMAIN n.mounts : Covered(n, q) = Root(n, i) /\ n.mounts[i].parent = q.mnt /\ q.mnt < i /\ i \in Over(n, q)
<1>1. PICK i \in Over(n, q) : Covered(n, q) = Root(n, i)
  BY DEF Covered
<1>2. i \in DOMAIN n.mounts /\ n.mounts[i].parent = q.mnt
  BY DEF Over
<1>3. QED
  BY <1>1, <1>2 DEF Ordered

(* The topmost mount is reached, since each is newer than the one below.     *)
LEMMA FollowTop ==
    ASSUME NEW n, Ordered(n), NEW q, q.mnt \in DOMAIN n.mounts
    PROVE  Over(n, Follow(n, q)) = {} /\ Follow(n, q).mnt \in DOMAIN n.mounts
<1> DEFINE K == Len(n.mounts)
<1>1. K \in Nat /\ DOMAIN n.mounts = 1..K
  BY NsFacts DEF Ordered
<1>2. PICK top : /\ top[0] = q /\ \A k \in 1..K : top[k] = Covered(n, top[k - 1])
                 /\ Follow(n, q) = top[K]
  BY <1>1, FollowFacts
<1> DEFINE Up(k) == top[k].mnt \in 1..K /\ (Over(n, top[k]) = {} \/ top[k].mnt >= k + 1)
           T == {k \in Nat : k <= K => Up(k)}
<1> HIDE DEF K
<1>3. 0 \in T
  BY <1>1, <1>2
<1>4. ASSUME NEW k \in Nat, k \in T, k + 1 <= K
      PROVE  Up(k + 1)
  <2>1. k <= K /\ k + 1 \in 1..K /\ k + 1 - 1 = k
    BY <1>1, <1>4
  <2>2. top[k].mnt \in 1..K /\ (Over(n, top[k]) = {} \/ top[k].mnt >= k + 1) /\ top[k + 1] = Covered(n, top[k])
    BY <1>2, <1>4, <2>1
  <2>3. CASE Over(n, top[k]) = {}
    <3>1. top[k + 1] = top[k]
      BY <2>2, <2>3 DEF Covered
    <3>2. QED
      BY <2>2, <2>3, <3>1
  <2>4. CASE Over(n, top[k]) # {}
    <3>1. PICK i \in 1..K : Covered(n, top[k]) = Root(n, i) /\ top[k].mnt < i
      BY <1>1, <2>2, <2>4, CoveredFacts
    <3>2. top[k + 1].mnt = i
      BY <2>2, <3>1 DEF Root
    <3>3. QED
      BY <1>1, <2>2, <2>4, <3>1, <3>2
  <2>5. QED
    BY <2>3, <2>4
<1>5. Nat \subseteq T
  <2>1. \A k \in Nat : k \in T => k + 1 \in T
    <3> HIDE DEF Up
    <3> QED BY <1>4
  <2> HIDE DEF T
  <2> QED BY <1>3, <2>1, SetInduction
<1>6. top[K].mnt \in 1..K /\ (Over(n, top[K]) = {} \/ top[K].mnt >= K + 1)
  <2>1. Up(K)
    <3> HIDE DEF Up
    <3> QED BY <1>1, <1>5
  <2>2. QED
    BY <2>1
<1>7. Over(n, top[K]) = {}
  BY <1>1, <1>6
<1>8. QED
  BY <1>1, <1>2, <1>6, <1>7

(* The mount over a place has the same top.                                  *)
LEMMA FollowStep ==
    ASSUME NEW n, Ordered(n), NEW q, q.mnt \in DOMAIN n.mounts
    PROVE  Follow(n, Covered(n, q)) = Follow(n, q)
<1> DEFINE K == Len(n.mounts)
           c == Covered(n, q)
<1>1. K \in Nat /\ DOMAIN n.mounts = 1..K /\ K >= 1
  BY NsFacts DEF Ordered
<1>2. PICK top : /\ top[0] = q /\ \A k \in 1..K : top[k] = Covered(n, top[k - 1])
                 /\ Follow(n, q) = top[K]
  BY <1>1, FollowFacts
<1>3. PICK up : /\ up[0] = c /\ \A k \in 1..K : up[k] = Covered(n, up[k - 1])
                /\ Follow(n, c) = up[K]
  BY <1>1, FollowFacts
<1> DEFINE T == {k \in Nat : k + 1 <= K => up[k] = top[k + 1]}
<1>4. Over(n, top[K]) = {}
  BY <1>2, FollowTop
<1> HIDE DEF K
<1>5. 0 \in T
  <2>1. 1 \in 1..K /\ 1 - 1 = 0 /\ 0 + 1 = 1
    BY <1>1
  <2>2. top[1] = Covered(n, top[0])
    BY <1>2, <2>1
  <2>3. QED
    BY <1>2, <1>3, <2>1, <2>2
<1>6. ASSUME NEW k \in Nat, k \in T, k + 1 + 1 <= K PROVE up[k + 1] = top[k + 1 + 1]
  <2>1. k + 1 <= K /\ k + 1 \in 1..K /\ k + 1 + 1 \in 1..K /\ k + 1 - 1 = k /\ k + 1 + 1 - 1 = k + 1
    BY <1>1, <1>6
  <2>2. up[k] = top[k + 1] /\ up[k + 1] = Covered(n, up[k]) /\ top[k + 1 + 1] = Covered(n, top[k + 1])
    BY <1>2, <1>3, <1>6, <2>1
  <2>3. QED
    BY <2>2
<1>7. Nat \subseteq T
  <2>1. \A k \in Nat : k \in T => k + 1 \in T
    BY <1>6
  <2> HIDE DEF T
  <2> QED BY <1>5, <2>1, SetInduction
<1>8. up[K - 1] = top[K]
  <2>1. K - 1 \in Nat /\ K - 1 + 1 = K
    BY <1>1
  <2>2. QED
    BY <1>1, <1>7, <2>1
<1>9. up[K] = Covered(n, up[K - 1])
  BY <1>1, <1>3
<1>10. up[K] = top[K]
  BY <1>4, <1>8, <1>9 DEF Covered
<1>11. QED
  BY <1>2, <1>3, <1>10

(* One mount more, on w: what was at w is now on the new mount, and nothing  *)
(* else changes.  A mount on "/" is over no place that a walk comes to.      *)
LEMMA FollowGrown ==
    ASSUME NEW n, Ordered(n), NEW c, NEW w, w \in Place, w.mnt \in DOMAIN n.mounts, Grown(n, c, w),
           Over(n, w) = {} \/ w.mnt = 1
    PROVE  \A q \in Place : q.mnt \in DOMAIN n.mounts /\ (q # w \/ Over(n, w) = {}) =>
             Follow(c, q) = IF Follow(n, q) = w THEN Root(c, Len(n.mounts) + 1) ELSE Follow(n, q)
<1> DEFINE K == Len(n.mounts)
           new == Root(c, K + 1)
           P(q) == Follow(c, q) = IF Follow(n, q) = w THEN new ELSE Follow(n, q)
           T == {j \in Nat : \A q \in Place : q.mnt \in 1..K /\ q.mnt + j >= K /\ (q # w \/ Over(n, w) = {}) => P(q)}
<1>1. /\ K \in Nat /\ DOMAIN n.mounts = 1..K /\ n \in NsType
      /\ c \in NsType /\ Len(c.mounts) = K + 1 /\ DOMAIN c.mounts = 1..(K + 1)
  BY NsFacts DEF Ordered, Grown
<1>2. /\ \A i \in 1..K : /\ c.mounts[i].parent = n.mounts[i].parent /\ c.mounts[i].on = n.mounts[i].on
                         /\ c.mounts[i].base = n.mounts[i].base
      /\ c.mounts[K + 1].parent = w.mnt /\ c.mounts[K + 1].on = w.path
  BY DEF Grown, Alike
<1>3. \A i \in 1..K : i \in 1..(K + 1) /\ Root(c, i) = Root(n, i) /\ Root(n, i) \in Place
  <2>1. \A i \in 1..K : n.mounts[i].base \in Paths /\ i \in Nat /\ i \in 1..(K + 1)
    BY <1>1, NsFacts
  <2>2. QED
    BY <1>2, <2>1 DEF Root, Place
<1> HIDE DEF K
<1>4. Ordered(c)
  <2> SUFFICES ASSUME NEW i \in 1..(K + 1) PROVE c.mounts[i].parent < i
    BY <1>1 DEF Ordered
  <2>1. CASE i = K + 1
    BY <1>1, <1>2, <2>1
  <2>2. CASE i # K + 1
    <3>1. i \in 1..K
      BY <1>1, <2>2
    <3>2. QED
      BY <1>1, <1>2, <3>1 DEF Ordered
  <2>3. QED
    BY <2>1, <2>2
<1>5. ASSUME NEW q \in Place, q.mnt \in 1..K, q # w PROVE Over(c, q) = Over(n, q) /\ Covered(c, q) = Covered(n, q)
  <2>1. q = [mnt |-> q.mnt, path |-> q.path] /\ w = [mnt |-> w.mnt, path |-> w.path]
    BY DEF Place
  <2>2. ~(w.mnt = q.mnt /\ w.path = q.path)
    BY <1>5, <2>1
  <2>3. \A i \in 1..(K + 1) : i = K + 1 \/ i \in 1..K
    BY <1>1
  <2>4. Over(c, q) = Over(n, q)
    BY <1>1, <1>2, <1>3, <2>2, <2>3 DEF Over
  <2>5. CASE Over(n, q) = {}
    BY <2>4, <2>5 DEF Covered
  <2>6. CASE Over(n, q) # {}
    <3> DEFINE i == CHOOSE i \in Over(n, q) : TRUE
    <3>1. i \in 1..K
      BY <1>1, <2>6 DEF Over
    <3>2. Covered(n, q) = Root(n, i) /\ Covered(c, q) = Root(c, i)
      BY <2>4, <2>6 DEF Covered
    <3> HIDE DEF i
    <3>3. QED
      BY <1>3, <2>4, <3>1, <3>2
  <2>7. QED
    BY <2>4, <2>5, <2>6
<1>6. ASSUME Over(n, w) = {} PROVE P(w)
  <2>1. Follow(n, w) = w
    BY <1>1, <1>6, FollowSelf DEF K
  <2>2. Over(c, w) = {K + 1}
    <3>1. \A i \in 1..(K + 1) : i = K + 1 \/ i \in 1..K
      BY <1>1
    <3>2. \A i \in 1..K : i \notin Over(n, w)
      BY <1>6
    <3>3. \A i \in 1..K : ~(c.mounts[i].parent = w.mnt /\ c.mounts[i].on = w.path)
      BY <1>1, <1>2, <3>2 DEF Over
    <3>4. K + 1 \in 1..(K + 1)
      BY <1>1
    <3>5. QED
      BY <1>1, <1>2, <3>1, <3>3, <3>4 DEF Over
  <2>3. Covered(c, w) = new
    <3>1. (CHOOSE i \in Over(c, w) : TRUE) = K + 1
      BY <2>2
    <3>2. QED
      BY <2>2, <3>1 DEF Covered
  <2>4. Follow(c, w) = Follow(c, new)
    <3>1. w.mnt \in DOMAIN c.mounts
      BY <1>1, <1>3
    <3>2. QED
      BY <1>4, <2>3, <3>1, FollowStep
  <2>5. Over(c, new) = {}
    <3> SUFFICES ASSUME NEW i \in 1..(K + 1), c.mounts[i].parent = K + 1 PROVE FALSE
      BY <1>1 DEF Over, Root
    <3>1. c.mounts[i].parent < i
      BY <1>1, <1>4 DEF Ordered
    <3>2. QED
      BY <1>1, <3>1
  <2>6. Follow(c, new) = new
    BY <1>1, <2>5, FollowSelf
  <2>7. QED
    BY <2>1, <2>4, <2>6
<1> HIDE DEF new
<1>7. ASSUME NEW j \in Nat, \A k \in Nat : k < j => k \in T PROVE j \in T
  <2> SUFFICES ASSUME NEW q \in Place, q.mnt \in 1..K, q.mnt + j >= K, q # w \/ Over(n, w) = {} PROVE P(q)
    OBVIOUS
  <2>1. CASE q = w
    BY <1>6, <2>1
  <2>2. CASE q # w /\ Over(n, q) = {}
    <3>1. Over(c, q) = {}
      BY <1>5, <2>2
    <3>2. Follow(n, q) = q /\ Follow(c, q) = q
      BY <1>1, <2>2, <3>1, FollowSelf DEF K
    <3>3. QED
      BY <2>2, <3>2
  <2>3. CASE q # w /\ Over(n, q) # {}
    <3>1. PICK i \in 1..K : Covered(n, q) = Root(n, i) /\ q.mnt < i
      BY <1>1, <2>3, CoveredFacts
    <3> DEFINE z == Root(n, i)
    <3>2. z \in Place /\ z.mnt = i /\ Covered(c, q) = z
      <4>1. z.mnt = i
        BY DEF Root
      <4>2. QED
        BY <1>3, <1>5, <2>3, <3>1, <4>1
    <3>3. q.mnt \in DOMAIN c.mounts
      BY <1>1, <1>3
    <3>4. Follow(n, q) = Follow(n, z) /\ Follow(c, q) = Follow(c, z)
      BY <1>1, <1>4, <3>1, <3>2, <3>3, FollowStep
    <3>5. z # w \/ Over(n, w) = {}
      <4>1. i # 1
        BY <1>1, <3>1
      <4>2. QED
        BY <3>2, <4>1
    <3>6. PICK k \in Nat : k < j /\ i + k >= K
      <4>1. CASE i = K
        <5>1. q.mnt < K /\ q.mnt + j >= K
          BY <3>1, <4>1
        <5>2. 0 < j /\ i + 0 >= K
          BY <1>1, <4>1, <5>1
        <5>3. QED
          BY <5>2
      <4>2. CASE i # K
        <5>1. K - i \in Nat /\ K - i < j /\ i + (K - i) >= K
          BY <1>1, <3>1, <4>2
        <5>2. QED
          BY <5>1
      <4>3. QED
        BY <4>1, <4>2
    <3>7. k \in T
      BY <1>7, <3>6
    <3> HIDE DEF z
    <3>8. P(z)
      BY <3>2, <3>5, <3>6, <3>7
    <3>9. QED
      BY <3>4, <3>8
  <2>4. QED
    BY <2>1, <2>2, <2>3
<1>8. Nat \subseteq T
  <2> HIDE DEF T
  <2> QED BY <1>7, StrongInduction
<1>9. \A q \in Place : q.mnt \in 1..K /\ (q # w \/ Over(n, w) = {}) => P(q)
  <2> SUFFICES ASSUME NEW q \in Place, q.mnt \in 1..K, q # w \/ Over(n, w) = {} PROVE P(q)
    OBVIOUS
  <2>1. K \in T /\ q.mnt + K >= K
    BY <1>1, <1>8
  <2>2. QED
    BY <2>1
<1>10. QED
  BY <1>1, <1>9 DEF new, K

(* Walks that end at the same place are the same walk.                       *)
Inj(n, d) == \A s, t \in Paths : Walk(n, d, s) = Walk(n, d, t) /\ Walk(n, d, s) # Nowhere => s = t

LEMMA WalkStep ==
    ASSUME NEW n, Tree(n), NEW d, NEW s \in Paths, NEW x \in Names, Walk(n, d, Append(s, x)) # Nowhere
    PROVE  LET v == Walk(n, d, s) IN
           /\ v # Nowhere /\ v \in Place /\ v.mnt \in DOMAIN n.mounts
           /\ In(v, x) \in Place /\ In(v, x).mnt = v.mnt /\ In(v, x).path # <<>>
           /\ Kind(n, d, In(v, x)) # "none"
           /\ Walk(n, d, Append(s, x)) = Follow(n, In(v, x))
<1> DEFINE v == Walk(n, d, s)
<1>1. Walk(n, d, Append(s, x)) = Enter(n, d, v, x)
  BY WalkAppend
<1>2. v # Nowhere /\ Kind(n, d, In(v, x)) # "none" /\ Walk(n, d, Append(s, x)) = Follow(n, In(v, x))
  BY <1>1 DEF Enter
<1>3. v \in Place /\ v.mnt \in DOMAIN n.mounts
  BY <1>2, WalkTree
<1> HIDE DEF v
<1>4. v.path \in Paths /\ v.mnt \in Nat
  BY <1>3 DEF Place
<1>5. Append(v.path, x) \in Paths /\ Append(v.path, x) # <<>>
  BY <1>4, AppendFacts
<1>6. In(v, x) \in Place /\ In(v, x).mnt = v.mnt /\ In(v, x).path # <<>>
  BY <1>4, <1>5 DEF In, Place
<1>7. QED
  BY <1>2, <1>3, <1>6 DEF v

LEMMA WalkTop ==
    ASSUME NEW n, Tree(n), Ordered(n), n.root = 1, NEW d, NEW path \in Paths, Walk(n, d, path) # Nowhere
    PROVE  /\ path # <<>> => Over(n, Walk(n, d, path)) = {}
           /\ path = <<>> => Walk(n, d, path).mnt = 1
<1>1. CASE path = <<>>
  BY <1>1, WalkEmpty DEF Root
<1>2. CASE path # <<>>
  <2>1. PICK s \in Paths, x \in Names : path = Append(s, x)
    BY <1>2, SequenceEmptyOrAppend DEF Paths
  <2> DEFINE q == In(Walk(n, d, s), x)
  <2>2. q.mnt \in DOMAIN n.mounts /\ Walk(n, d, path) = Follow(n, q)
    BY <2>1, WalkStep
  <2> HIDE DEF q
  <2>3. QED
    BY <1>2, <2>2, FollowTop
<1>3. QED
  BY <1>1, <1>2

LEMMA KindGrown ==
    ASSUME NEW n \in NsType, NEW c, NEW w, Grown(n, c, w), NEW d, NEW q, q.mnt \in 1..Len(n.mounts)
    PROVE  Kind(c, d, q) = Kind(n, d, q)
<1>1. c.mounts[q.mnt].fs = n.mounts[q.mnt].fs
  BY DEF Grown, Alike
<1>2. QED
  BY <1>1 DEF Kind

(* A new mount on the end of walk t changes where the walks along t end, and *)
(* those only.                                                               *)
LEMMA WalkGrown ==
    ASSUME NEW n, Tree(n), Ordered(n), n.root = 1, NEW d, Inj(n, d), NEW t \in Paths, Walk(n, d, t) # Nowhere,
           NEW c, Grown(n, c, Walk(n, d, t))
    PROVE  \A s \in Paths : t = <<>> \/ ~IsPrefix(t, s) => Walk(c, d, s) = Walk(n, d, s)
<1> DEFINE w == Walk(n, d, t)
           K == Len(n.mounts)
           T == {s \in Paths : t = <<>> \/ ~IsPrefix(t, s) => Walk(c, d, s) = Walk(n, d, s)}
<1>1. w \in Place /\ w.mnt \in DOMAIN n.mounts /\ (Over(n, w) = {} \/ w.mnt = 1)
  BY WalkTree, WalkTop
<1>2. K \in Nat /\ DOMAIN n.mounts = 1..K /\ 1 \in 1..K /\ n \in NsType /\ c.root = 1
  BY NsFacts DEF Tree, Ordered, Grown
<1>3. Root(c, 1) = Root(n, 1)
  BY <1>2 DEF Grown, Alike, Root
<1>4. <<>> \in T
  BY <1>2, <1>3, WalkEmpty DEF Paths
<1>5. ASSUME NEW s \in Paths, NEW x \in Names, s \in T, t = <<>> \/ ~IsPrefix(t, Append(s, x))
      PROVE  Walk(c, d, Append(s, x)) = Walk(n, d, Append(s, x))
  <2> DEFINE a == Append(s, x)
             v == Walk(n, d, s)
  <2>1. a \in Paths /\ a # <<>> /\ Walk(n, d, a) = Enter(n, d, v, x) /\ Walk(c, d, a) = Enter(c, d, Walk(c, d, s), x)
    BY WalkAppend, AppendFacts
  <2>2. Walk(c, d, s) = v
    <3>1. IsPrefix(t, s) => IsPrefix(t, a)
      <4>1. Len(a) = Len(s) + 1 /\ Len(s) \in Nat /\ Len(t) \in Nat /\ \A i \in 1..Len(s) : a[i] = s[i]
        BY AppendFacts DEF Paths
      <4>2. IsPrefix(t, s) <=> Len(t) <= Len(s) /\ \A i \in 1..Len(t) : t[i] = s[i]
        BY PrefixFacts
      <4>3. IsPrefix(t, a) <=> Len(t) <= Len(a) /\ \A i \in 1..Len(t) : t[i] = a[i]
        BY <2>1, PrefixFacts
      <4> HIDE DEF a
      <4>4. ASSUME Len(t) <= Len(s), \A i \in 1..Len(t) : t[i] = s[i]
            PROVE  Len(t) <= Len(a) /\ \A i \in 1..Len(t) : t[i] = a[i]
        BY <4>1, <4>4
      <4>5. QED
        BY <4>2, <4>3, <4>4
    <3>2. QED
      BY <1>5, <3>1
  <2> HIDE DEF a
  <2>3. CASE v = Nowhere
    BY <2>1, <2>2, <2>3 DEF Enter, a
  <2>4. CASE v # Nowhere /\ Kind(n, d, In(v, x)) = "none"
    <3>1. v.mnt \in 1..K
      BY <1>2, <2>4, WalkTree
    <3>2. In(v, x).mnt \in 1..K
      BY <3>1 DEF In
    <3> HIDE DEF w
    <3>3. Kind(c, d, In(v, x)) = "none"
      BY <1>2, <2>4, <3>2, KindGrown DEF w
    <3>4. QED
      BY <2>1, <2>2, <2>4, <3>3 DEF Enter, a
  <2>5. CASE v # Nowhere /\ Kind(n, d, In(v, x)) # "none"
    <3> DEFINE q == In(v, x)
    <3>1. v \in Place /\ v.mnt \in DOMAIN n.mounts
      BY <2>5, WalkTree
    <3>2. q \in Place /\ q.mnt \in DOMAIN n.mounts /\ q.path # <<>>
      <4>1. v.path \in Paths /\ v.mnt \in Nat
        BY <3>1 DEF Place
      <4>2. Append(v.path, x) \in Paths /\ Append(v.path, x) # <<>>
        BY <4>1, AppendFacts
      <4>3. QED
        BY <3>1, <4>1, <4>2 DEF In, Place
    <3>3. Walk(n, d, a) = Follow(n, q)
      BY <2>1, <2>5 DEF Enter
    <3>4. Follow(n, q) # w
      <4>1. a # t
        BY <1>5, <2>1, PrefixSelf DEF a
      <4>2. QED
        BY <2>1, <3>3, <4>1 DEF Inj
    <3>5. q # w \/ Over(n, w) = {}
      <4>1. CASE t # <<>>
        BY <4>1, WalkTop
      <4>2. CASE t = <<>>
        <5>1. w = Root(n, 1)
          BY <4>2, WalkEmpty
        <5>2. CASE q = w
          <6>1. v.mnt = 1 /\ n.mounts[1].base = q.path
            BY <5>1, <5>2 DEF Root, In
          <6>2. v.path = n.mounts[1].base \o s
            BY <2>5, <6>1, WalkHome
          <6>3. n.mounts[1].base \in Paths
            BY <1>2, NsFacts
          <6>4. Len(v.path) = Len(n.mounts[1].base) + Len(s) /\ Len(s) \in Nat /\ Len(n.mounts[1].base) \in Nat
            BY <6>2, <6>3, ConcatProperties DEF Paths
          <6>5. Len(q.path) = Len(v.path) + 1
            BY <3>1, AppendFacts DEF In, Place
          <6>6. QED
            BY <6>1, <6>4, <6>5
        <5>3. QED
          BY <5>2
      <4>3. QED
        BY <4>1, <4>2
    <3> HIDE DEF q, w
    <3>6. Follow(c, q) = Follow(n, q)
      BY <1>1, <3>2, <3>4, <3>5, FollowGrown DEF w
    <3>7. Kind(c, d, q) # "none"
      BY <1>2, <2>5, <3>2, KindGrown DEF w, q
    <3>8. Walk(c, d, a) = Follow(c, q)
      BY <2>1, <2>2, <2>5, <3>7 DEF Enter, q
    <3>9. QED
      BY <3>3, <3>6, <3>8 DEF a
  <2>6. QED
    BY <2>3, <2>4, <2>5 DEF a
<1>6. Paths \subseteq T
  <2>1. \A s \in Paths, x \in Names : s \in T => Append(s, x) \in T
    BY <1>5, AppendFacts
  <2> HIDE DEF T
  <2> QED BY <1>4, <2>1, PathInduction
<1>7. QED
  BY <1>6

LEMMA WalkNew ==
    ASSUME NEW n, Tree(n), Ordered(n), n.root = 1, NEW d, Inj(n, d), NEW t \in Paths, Walk(n, d, t) # Nowhere,
           NEW c, Grown(n, c, Walk(n, d, t)), t # <<>>
    PROVE  Walk(c, d, t) = Root(c, Len(n.mounts) + 1)
<1> DEFINE w == Walk(n, d, t)
           K == Len(n.mounts)
<1>1. w \in Place /\ w.mnt \in DOMAIN n.mounts /\ Over(n, w) = {}
  BY WalkTree, WalkTop
<1>2. K \in Nat /\ DOMAIN n.mounts = 1..K /\ n \in NsType
  BY NsFacts DEF Ordered
<1>3. PICK s \in Paths, x \in Names : t = Append(s, x)
  BY SequenceEmptyOrAppend DEF Paths
<1> DEFINE v == Walk(n, d, s)
           q == In(v, x)
<1>4. v # Nowhere /\ v.mnt \in DOMAIN n.mounts /\ q \in Place /\ q.mnt = v.mnt /\ Kind(n, d, q) # "none" /\ w = Follow(n, q)
  BY <1>3, WalkStep
<1>5. Walk(c, d, s) = v
  <2>1. ~IsPrefix(t, s)
    <3>1. Len(t) = Len(s) + 1 /\ Len(s) \in Nat
      BY <1>3, AppendFacts
    <3>2. QED
      BY <3>1, PrefixFacts
  <2>2. QED
    BY <2>1, WalkGrown
<1>6. Walk(c, d, t) = Enter(c, d, v, x)
  BY <1>3, <1>5, WalkAppend
<1> HIDE DEF v, q, w
<1>7. Kind(c, d, q) # "none"
  BY <1>2, <1>4, KindGrown DEF w
<1>8. Follow(c, q) = Root(c, K + 1)
  BY <1>1, <1>4, FollowGrown DEF w
<1>9. QED
  BY <1>4, <1>6, <1>7, <1>8 DEF Enter, q

LEMMA PrefixLonger ==
    ASSUME NEW t \in Paths, NEW s \in Paths, NEW x \in Names, IsPrefix(t, Append(s, x)), t # Append(s, x)
    PROVE  IsPrefix(t, s)
<1> DEFINE a == Append(s, x)
<1>1. a \in Paths /\ Len(a) = Len(s) + 1 /\ Len(s) \in Nat /\ Len(t) \in Nat /\ \A i \in 1..Len(s) : a[i] = s[i]
  BY AppendFacts DEF Paths
<1> HIDE DEF a
<1>2. Len(t) <= Len(a) /\ \A i \in 1..Len(t) : t[i] = a[i]
  BY <1>1, PrefixFacts DEF a
<1>3. Len(t) # Len(a)
  <2> SUFFICES ASSUME Len(t) = Len(a) PROVE FALSE
    OBVIOUS
  <2>1. t \in Seq(Names) /\ a \in Seq(Names)
    BY <1>1 DEF Paths
  <2>2. t = a
    BY <1>2, <2>1
  <2>3. QED
    BY <2>2 DEF a
<1>4. Len(t) <= Len(s) /\ \A i \in 1..Len(t) : t[i] = s[i]
  BY <1>1, <1>2, <1>3
<1>5. QED
  BY <1>4, PrefixFacts

(* Beyond t a walk stays on the new mount: nothing is mounted there.         *)
LEMMA WalkBeyond ==
    ASSUME NEW n, Tree(n), Ordered(n), n.root = 1, NEW d, Inj(n, d), NEW t \in Paths, Walk(n, d, t) # Nowhere,
           NEW c, Grown(n, c, Walk(n, d, t)), t # <<>>
    PROVE  \A s \in Paths : IsPrefix(t, s) /\ Walk(c, d, s) # Nowhere =>
             \E u \in Paths : /\ s = t \o u
                              /\ Walk(c, d, s).mnt = Len(n.mounts) + 1
                              /\ Walk(c, d, s).path = c.mounts[Len(n.mounts) + 1].base \o u
<1> DEFINE K == Len(n.mounts)
           base == c.mounts[K + 1].base
           P(s) == \E u \in Paths : /\ s = t \o u /\ Walk(c, d, s).mnt = K + 1
                                    /\ Walk(c, d, s).path = base \o u
           T == {s \in Paths : IsPrefix(t, s) /\ Walk(c, d, s) # Nowhere => P(s)}
<1>1. K \in Nat /\ DOMAIN n.mounts = 1..K
  BY NsFacts DEF Ordered
<1>2. c \in NsType /\ Len(c.mounts) = K + 1 /\ DOMAIN c.mounts = 1..(K + 1) /\ base \in Paths
  BY <1>1, NsFacts DEF Grown
<1>3. Tree(c)
  BY GrownTree
<1>4. \A q : q.mnt = K + 1 => Over(c, q) = {}
  <2> SUFFICES ASSUME NEW i \in 1..(K + 1), c.mounts[i].parent = K + 1 PROVE FALSE
    BY <1>2 DEF Over
  <2>1. CASE i = K + 1
    <3>1. c.mounts[i].parent = Walk(n, d, t).mnt
      BY <2>1 DEF Grown
    <3>2. Walk(n, d, t).mnt \in 1..K
      BY <1>1, WalkTree
    <3>3. QED
      BY <1>1, <3>1, <3>2
  <2>2. CASE i # K + 1
    <3>1. i \in 1..K
      BY <1>1, <2>2
    <3>2. c.mounts[i].parent = n.mounts[i].parent
      BY <3>1 DEF Grown, Alike
    <3>3. n.mounts[i].parent < i
      BY <1>1, <3>1 DEF Ordered
    <3>4. QED
      BY <1>1, <3>1, <3>2, <3>3
  <2>3. QED
    BY <2>1, <2>2
<1>5. P(t)
  <2>1. Walk(c, d, t) = Root(c, K + 1)
    BY WalkNew
  <2>2. <<>> \in Paths /\ t \o <<>> = t /\ base \o <<>> = base
    BY <1>2, ConcatEmptySeq DEF Paths
  <2>3. Walk(c, d, t).mnt = K + 1 /\ Walk(c, d, t).path = base
    BY <2>1 DEF Root
  <2> HIDE DEF base, K
  <2>4. QED
    BY <2>2, <2>3
<1>6. <<>> \in T
  <2>1. ~IsPrefix(t, <<>>) /\ <<>> \in Paths
    <3>1. <<>> \in Paths /\ Len(<<>>) = 0
      BY DEF Paths
    <3>2. Len(t) \in Nat /\ Len(t) # 0
      BY EmptySeq DEF Paths
    <3>3. QED
      BY <3>1, <3>2, PrefixFacts
  <2>2. QED
    BY <2>1
<1>7. ASSUME NEW s \in Paths, NEW x \in Names, s \in T, IsPrefix(t, Append(s, x)), Walk(c, d, Append(s, x)) # Nowhere
      PROVE  P(Append(s, x))
  <2> DEFINE v == Walk(c, d, s)
             q == In(v, x)
  <2>1. CASE t = Append(s, x)
    BY <1>5, <2>1
  <2>2. CASE t # Append(s, x)
    <3>1. IsPrefix(t, s)
      BY <1>7, <2>2, PrefixLonger
    <3>2. v # Nowhere /\ q.mnt = v.mnt /\ Walk(c, d, Append(s, x)) = Follow(c, q)
      BY <1>3, <1>7, WalkStep
    <3>3. PICK u \in Paths : s = t \o u /\ v.mnt = K + 1 /\ v.path = base \o u
      BY <1>7, <3>1, <3>2
    <3>4. Follow(c, q) = q
      BY <1>1, <1>2, <1>4, <3>2, <3>3, FollowSelf
    <3>5. q.path = Append(base \o u, x) /\ q.mnt = K + 1
      BY <3>3 DEF In
    <3>6. /\ Append(u, x) \in Paths /\ Append(base \o u, x) = base \o Append(u, x)
          /\ Append(t \o u, x) = t \o Append(u, x)
      <4> HIDE DEF base
      <4>1. Append(u, x) \in Paths
        BY AppendFacts
      <4>2. base \in Paths
        BY <1>2
      <4>3. Append(base \o u, x) = base \o Append(u, x)
        BY <4>2, AppendConcat, Zenon
      <4>4. Append(t \o u, x) = t \o Append(u, x)
        BY AppendConcat, Zenon
      <4>5. QED
        BY <4>1, <4>3, <4>4
    <3> HIDE DEF q, v, base
    <3>7. Append(s, x) = t \o Append(u, x)
      BY <3>3, <3>6
    <3>8. Walk(c, d, Append(s, x)).mnt = K + 1 /\ Walk(c, d, Append(s, x)).path = base \o Append(u, x)
      BY <3>2, <3>4, <3>5, <3>6
    <3>9. QED
      BY <3>6, <3>7, <3>8
  <2>3. QED
    BY <2>1, <2>2
<1>8. Paths \subseteq T
  <2>1. \A s \in Paths, x \in Names : s \in T => Append(s, x) \in T
    <3> HIDE DEF P
    <3> QED BY <1>7, AppendFacts
  <2> HIDE DEF T
  <2> QED BY <1>6, <2>1, PathInduction
<1>9. QED
  BY <1>8

LEMMA ConcatCancel ==
    ASSUME NEW b \in Paths, NEW u \in Paths, NEW v \in Paths, b \o u = b \o v
    PROVE  u = v
<1>1. /\ Len(b) \in Nat /\ Len(u) \in Nat /\ Len(v) \in Nat /\ u \in Seq(Names) /\ v \in Seq(Names)
      /\ Len(b \o u) = Len(b) + Len(u) /\ Len(b \o v) = Len(b) + Len(v)
      /\ \A i \in 1..(Len(b) + Len(u)) : (b \o u)[i] = IF i <= Len(b) THEN b[i] ELSE u[i - Len(b)]
      /\ \A i \in 1..(Len(b) + Len(v)) : (b \o v)[i] = IF i <= Len(b) THEN b[i] ELSE v[i - Len(b)]
  BY ConcatProperties DEF Paths
<1>2. Len(u) = Len(v)
  BY <1>1
<1>3. ASSUME NEW i \in 1..Len(u) PROVE u[i] = v[i]
  <2>1. /\ Len(b) + i \in 1..(Len(b) + Len(u)) /\ Len(b) + i \in 1..(Len(b) + Len(v))
        /\ ~(Len(b) + i <= Len(b)) /\ Len(b) + i - Len(b) = i
    BY <1>1, <1>2
  <2>2. (b \o u)[Len(b) + i] = u[i] /\ (b \o v)[Len(b) + i] = v[i]
    BY <1>1, <2>1
  <2>3. QED
    BY <2>2
<1>4. QED
  BY <1>1, <1>2, <1>3

LEMMA InjGrown ==
    ASSUME NEW n, Tree(n), Ordered(n), n.root = 1, NEW d, Inj(n, d), NEW t \in Paths, Walk(n, d, t) # Nowhere,
           NEW c, Grown(n, c, Walk(n, d, t))
    PROVE  Inj(c, d)
<1> DEFINE K == Len(n.mounts)
           base == c.mounts[K + 1].base
<1>0. K \in Nat /\ DOMAIN n.mounts = 1..K /\ base \in Paths
  <2>1. K \in Nat /\ DOMAIN n.mounts = 1..K /\ c \in NsType /\ Len(c.mounts) = K + 1
    BY NsFacts DEF Ordered, Grown
  <2>2. K + 1 \in 1..Len(c.mounts)
    BY <2>1
  <2>3. QED
    BY <2>1, <2>2, NsFacts
<1> SUFFICES ASSUME NEW s \in Paths, NEW u \in Paths, Walk(c, d, s) = Walk(c, d, u), Walk(c, d, s) # Nowhere
             PROVE  s = u
  BY DEF Inj
<1>1. \A x \in Paths : t = <<>> \/ ~IsPrefix(t, x) => Walk(c, d, x) = Walk(n, d, x)
  BY WalkGrown
<1>2. CASE t = <<>>
  BY <1>1, <1>2 DEF Inj
<1>3. CASE t # <<>>
  <2>1. \A x \in Paths : IsPrefix(t, x) /\ Walk(c, d, x) # Nowhere =>
          \E y \in Paths : x = t \o y /\ Walk(c, d, x).mnt = K + 1 /\ Walk(c, d, x).path = base \o y
    BY <1>3, WalkBeyond, SMTT(40)
  <2>2. \A x \in Paths : ~IsPrefix(t, x) /\ Walk(c, d, x) # Nowhere => Walk(c, d, x).mnt # K + 1
    <3>1. \A x \in Paths : Walk(n, d, x) # Nowhere => Walk(n, d, x).mnt \in 1..K
      BY <1>0, WalkTree
    <3>2. K + 1 \notin 1..K
      BY <1>0
    <3>3. QED
      BY <1>1, <3>1, <3>2
  <2> HIDE DEF K, base
  <2>3. CASE IsPrefix(t, s)
    <3>1. PICK y \in Paths : s = t \o y /\ Walk(c, d, s).mnt = K + 1 /\ Walk(c, d, s).path = base \o y
      BY <2>1, <2>3
    <3>2. IsPrefix(t, u)
      BY <2>2, <3>1
    <3>3. PICK z \in Paths : u = t \o z /\ Walk(c, d, u).path = base \o z
      BY <2>1, <3>2
    <3>4. y = z
      BY <1>0, <3>1, <3>3, ConcatCancel
    <3>5. QED
      BY <3>1, <3>3, <3>4
  <2>4. CASE ~IsPrefix(t, s)
    <3>1. ~IsPrefix(t, u)
      <4> SUFFICES ASSUME IsPrefix(t, u) PROVE FALSE
        OBVIOUS
      <4>1. Walk(c, d, u).mnt = K + 1
        BY <2>1
      <4>2. QED
        BY <2>2, <2>4, <4>1
    <3>2. QED
      BY <1>1, <2>4, <3>1 DEF Inj
  <2>5. QED
    BY <2>3, <2>4
<1>4. QED
  BY <1>2, <1>3

---------------------------------------------------------------------------
(* The disk without the directories for old roots.                           *)

Clean(d) == [q \in {x \in DOMAIN d : Plain(x)} |-> d[q]]
PlainNs(n) == \A i \in DOMAIN n.mounts : Plain(n.mounts[i].base) /\ Plain(n.mounts[i].on)

LEMMA PlainFacts ==
    ASSUME NEW p \in Paths, NEW x \in Names
    PROVE  /\ Plain(Append(p, x)) <=> Plain(p) /\ x # OldRoot
           /\ Plain(<<>>)
<1>1. Len(p) \in Nat /\ DOMAIN p = 1..Len(p) /\ Append(p, x)[Len(p) + 1] = x /\ \A i \in 1..Len(p) : Append(p, x)[i] = p[i]
  BY AppendFacts DEF Paths
<1>2. DOMAIN Append(p, x) = 1..(Len(p) + 1)
  BY DEF Paths
<1>3. \A i \in 1..(Len(p) + 1) : i = Len(p) + 1 \/ i \in 1..Len(p)
  BY <1>1
<1>4. Len(p) + 1 \in 1..(Len(p) + 1) /\ \A i \in 1..Len(p) : i \in 1..(Len(p) + 1)
  BY <1>1
<1>5. QED
  BY <1>1, <1>2, <1>3, <1>4 DEF Plain

LEMMA KindClean ==
    ASSUME NEW n, NEW d, NEW q, Plain(q.path)
    PROVE  Kind(n, Clean(d), q) = Kind(n, d, q)
<1>1. q.path \in DOMAIN Clean(d) <=> q.path \in DOMAIN d
  BY DEF Clean
<1>2. q.path \in DOMAIN d => Clean(d)[q.path] = d[q.path]
  BY DEF Clean
<1>3. QED
  BY <1>1, <1>2 DEF Kind

(* A walk along plain names does not see them.                               *)
LEMMA WalkClean ==
    ASSUME NEW n, Tree(n), PlainNs(n), NEW d
    PROVE  \A path \in Paths : Plain(path) =>
             Walk(n, Clean(d), path) = Walk(n, d, path) /\ Plain(Walk(n, d, path).path)
<1> DEFINE G == {q \in Place : Plain(q.path) /\ q.mnt \in DOMAIN n.mounts}
           T == {p \in Paths : Plain(p) => Walk(n, Clean(d), p) = Walk(n, d, p) /\ Walk(n, d, p) \in G \cup {Nowhere}}
<1>0. /\ n \in NsType /\ Len(n.mounts) \in Nat /\ n.root \in DOMAIN n.mounts
      /\ \A i \in DOMAIN n.mounts : i \in Nat /\ n.mounts[i].base \in Paths
  BY NsFacts DEF Tree
<1>1. \A i \in DOMAIN n.mounts : Root(n, i) \in G
  BY <1>0 DEF Root, Place, PlainNs
<1>2. \A q \in G : Covered(n, q) \in G
  <2> SUFFICES ASSUME NEW q \in G, Over(n, q) # {} PROVE Covered(n, q) \in G
    BY DEF Covered
  <2>1. (CHOOSE i \in Over(n, q) : TRUE) \in DOMAIN n.mounts
    BY DEF Over
  <2>2. QED
    BY <1>1, <2>1 DEF Covered
<1>3. <<>> \in T
  <2>1. <<>> \in Paths
    BY DEF Paths
  <2>2. Walk(n, d, <<>>) = Root(n, n.root) /\ Walk(n, Clean(d), <<>>) = Root(n, n.root)
    BY WalkEmpty
  <2>3. QED
    BY <1>0, <1>1, <2>1, <2>2
<1>4. ASSUME NEW p \in Paths, NEW x \in Names, p \in T, Plain(Append(p, x))
      PROVE  Walk(n, Clean(d), Append(p, x)) = Walk(n, d, Append(p, x)) /\ Walk(n, d, Append(p, x)) \in G \cup {Nowhere}
  <2> DEFINE v == Walk(n, d, p)
  <2>1. Plain(p) /\ x # OldRoot
    BY <1>4, PlainFacts
  <2>2. Walk(n, Clean(d), p) = v /\ v \in G \cup {Nowhere}
    BY <1>4, <2>1
  <2>3. Walk(n, d, Append(p, x)) = Enter(n, d, v, x) /\ Walk(n, Clean(d), Append(p, x)) = Enter(n, Clean(d), v, x)
    BY <2>2, WalkAppend
  <2> HIDE DEF v
  <2>4. CASE v = Nowhere
    BY <2>3, <2>4 DEF Enter
  <2>5. CASE v # Nowhere
    <3>1. v \in G
      BY <2>2, <2>5
    <3>2. v.path \in Paths /\ Plain(v.path) /\ v.mnt \in DOMAIN n.mounts /\ v.mnt \in Nat
      BY <3>1 DEF Place
    <3>3. Append(v.path, x) \in Paths /\ Plain(Append(v.path, x))
      BY <2>1, <3>2, AppendFacts, PlainFacts
    <3>4. In(v, x) \in G
      BY <3>2, <3>3 DEF In, Place
    <3>5. Kind(n, Clean(d), In(v, x)) = Kind(n, d, In(v, x))
      BY <3>3, KindClean DEF In
    <3> HIDE DEF G
    <3>6. Follow(n, In(v, x)) \in G
      BY <1>0, <1>2, <3>4, FollowIn
    <3>7. QED
      BY <2>3, <3>5, <3>6 DEF Enter
  <2>6. QED
    BY <2>4, <2>5
<1>5. Paths \subseteq T
  <2>1. \A p \in Paths, x \in Names : p \in T => Append(p, x) \in T
    <3> HIDE DEF G
    <3> QED BY <1>4, AppendFacts
  <2> HIDE DEF T
  <2> QED BY <1>3, <2>1, PathInduction
<1>6. Plain(Nowhere.path)
  BY DEF Nowhere, Plain
<1>7. QED
  BY <1>5, <1>6

---------------------------------------------------------------------------
(* The rules of a policy in one list.                                        *)

Before(p, step) ==
    IF step = "tmpfs" THEN 0 ELSE IF step = "bind" THEN Len(p.tmpfs) ELSE Len(p.tmpfs) + Len(p.bind)
All(p) == Len(p.tmpfs) + Len(p.bind) + Len(p.proc)
Lists == {"tmpfs", "bind", "proc"}

Target(p, step, i) ==
    IF step = "tmpfs" THEN p.tmpfs[i] ELSE IF step = "bind" THEN p.bind[i].target ELSE p.proc[i]

(* What a rule makes of a namespace, and when it can.                        *)
After(n, d, p, step, i) ==
    IF step = "bind"
    THEN ReadOnly(BindMount(n, d, p.bind[i].source, p.bind[i].target, <<"bind", i>>), d, p.bind[i])
    ELSE Mount(n, Walk(n, d, Target(p, step, i)), step, <<>>, FALSE, <<step, i>>)

Fits(n, d, p, step, i) ==
    LET target == Kind(n, d, Walk(n, d, Target(p, step, i)))
        source == IF step = "bind" THEN Kind(n, d, Walk(n, d, p.bind[i].source)) ELSE "dir"
    IN source \in {"dir", "file"} /\ target # "none" /\ (source = "dir" <=> target = "dir")

Good(n, d, p, step, i) ==
    Fits(n, d, p, step, i) /\ AttachOk(After(n, d, p, step, i), d, p, Target(p, step, i))

(* The list and the place in it of the rule with number k.                   *)
StepAt(p, k) == IF k <= Len(p.tmpfs) THEN "tmpfs" ELSE IF k <= Len(p.tmpfs) + Len(p.bind) THEN "bind" ELSE "proc"
IndexAt(p, k) == k - Before(p, StepAt(p, k))

LEMMA ListFacts ==
    ASSUME NEW p, PolicyOk(p)
    PROVE  /\ Len(p.tmpfs) \in Nat /\ Len(p.bind) \in Nat /\ Len(p.proc) \in Nat /\ All(p) \in Nat
           /\ p.root = None \/ p.root \in Paths
           /\ p.cwd = None \/ p.cwd \in Paths
           /\ \A q \in p.rules : q \in Paths
           /\ DOMAIN p.tmpfs = 1..Len(p.tmpfs) /\ DOMAIN p.bind = 1..Len(p.bind) /\ DOMAIN p.proc = 1..Len(p.proc)
           /\ \A step \in Lists : \A i \in 1..Listed(p, step) : Target(p, step, i) \in Paths
           /\ \A i \in 1..Len(p.bind) : p.bind[i].source \in Paths
<1> DEFINE B == [source : Paths, target : Paths, read_only : BOOLEAN]
<1>1. /\ p.tmpfs \in Seq(Paths) /\ p.proc \in Seq(Paths) /\ p.bind \in Seq(B)
      /\ p.root = None \/ p.root \in Paths
      /\ p.cwd = None \/ p.cwd \in Paths
      /\ \A q \in p.rules : q \in Paths
  BY DEF PolicyOk
<1>2. /\ Len(p.tmpfs) \in Nat /\ Len(p.bind) \in Nat /\ Len(p.proc) \in Nat
      /\ DOMAIN p.tmpfs = 1..Len(p.tmpfs) /\ DOMAIN p.proc = 1..Len(p.proc) /\ DOMAIN p.bind = 1..Len(p.bind)
      /\ \A i \in 1..Len(p.tmpfs) : p.tmpfs[i] \in Paths
      /\ \A i \in 1..Len(p.proc) : p.proc[i] \in Paths
      /\ \A i \in 1..Len(p.bind) : p.bind[i] \in B
  <2> HIDE DEF B
  <2>1. \A S : \A s \in Seq(S) : Len(s) \in Nat /\ DOMAIN s = 1..Len(s) /\ \A i \in 1..Len(s) : s[i] \in S
    OBVIOUS
  <2>2. QED
    BY <1>1, <2>1, Zenon
<1>3. \A b \in B : b.source \in Paths /\ b.target \in Paths
  OBVIOUS
<1>4. All(p) \in Nat
  <2>1. \A x, y, z \in Nat : x + y + z \in Nat
    OBVIOUS
  <2>2. QED
    BY <1>2, <2>1, Zenon DEF All
<1>5. ASSUME NEW step \in Lists, NEW i \in 1..Listed(p, step) PROVE Target(p, step, i) \in Paths
  <2> HIDE DEF B
  <2>1. CASE step = "tmpfs"
    BY <1>2, <2>1 DEF Target, Listed
  <2>2. CASE step = "bind"
    BY <1>2, <1>3, <2>2 DEF Target, Listed
  <2>3. CASE step = "proc"
    BY <1>2, <2>3 DEF Target, Listed
  <2>4. QED
    BY <2>1, <2>2, <2>3 DEF Lists
<1>6. \A i \in 1..Len(p.bind) : p.bind[i].source \in Paths
  <2> HIDE DEF B
  <2> QED BY <1>2, <1>3
<1>7. QED
  BY <1>1, <1>2, <1>4, <1>5, <1>6

LEMMA RuleAt ==
    ASSUME NEW p, PolicyOk(p), NEW step \in Lists, NEW i \in 1..Listed(p, step)
    PROVE  /\ StepAt(p, Before(p, step) + i) = step /\ IndexAt(p, Before(p, step) + i) = i
           /\ Before(p, step) \in Nat /\ Before(p, step) + i \in 1..All(p)
<1> DEFINE a == Len(p.tmpfs)
           b == Len(p.bind)
           c == Len(p.proc)
<1>1. a \in Nat /\ b \in Nat /\ c \in Nat
  BY ListFacts
<1> HIDE DEF a, b, c
<1>2. All(p) = a + b + c
  BY DEF All, a, b, c
<1> DEFINE m == Before(p, step)
           k == m + i
<1>3. StepAt(p, k) = step /\ m \in Nat /\ k \in 1..(a + b + c)
  <2>1. CASE step = "tmpfs"
    <3>1. i \in 1..a /\ m = 0
      BY <2>1 DEF Before, Listed, a
    <3>2. k = i /\ k <= a /\ k \in 1..(a + b + c)
      BY <1>1, <3>1
    <3> HIDE DEF m, k
    <3>3. QED
      BY <2>1, <3>1, <3>2 DEF StepAt, a
  <2>2. CASE step = "bind"
    <3>1. i \in 1..b /\ m = a
      BY <2>2 DEF Before, Listed, a, b
    <3>2. ~(k <= a) /\ k <= a + b /\ k \in 1..(a + b + c)
      BY <1>1, <3>1
    <3> HIDE DEF m, k
    <3>3. QED
      BY <1>1, <2>2, <3>1, <3>2 DEF StepAt, a, b
  <2>3. CASE step = "proc"
    <3>1. i \in 1..c /\ m = a + b
      BY <2>3 DEF Before, Listed, a, b, c
    <3>2. ~(k <= a) /\ ~(k <= a + b) /\ k \in 1..(a + b + c) /\ m \in Nat
      BY <1>1, <3>1
    <3> HIDE DEF m, k
    <3>3. QED
      BY <2>3, <3>2 DEF StepAt, a, b
  <2>4. QED
    BY <2>1, <2>2, <2>3 DEF Lists
<1>4. k - m = i
  <2>1. i \in Int
    OBVIOUS
  <2> HIDE DEF m
  <2>2. QED
    BY <1>3, <2>1
<1> HIDE DEF k
<1>5. IndexAt(p, k) = i
  BY <1>3, <1>4 DEF IndexAt, m
<1>6. QED
  BY <1>2, <1>3, <1>5 DEF k

(* What the property calls the declared mounts.                              *)
LEMMA DeclaredFacts ==
    ASSUME NEW p, PolicyOk(p)
    PROVE  /\ DOMAIN Declared(p) = 1..All(p) /\ Len(Declared(p)) = All(p)
           /\ \A step \in Lists : \A i \in 1..Listed(p, step) :
                /\ Declared(p)[Before(p, step) + i].path = Target(p, step, i)
                /\ Declared(p)[Before(p, step) + i].made = <<step, i>>
                /\ Declared(p)[Before(p, step) + i].ro => step = "bind" /\ p.bind[i].read_only
<1> DEFINE a == Len(p.tmpfs)
           b == Len(p.bind)
           c == Len(p.proc)
           f == [i \in 1..a |-> [path |-> p.tmpfs[i], made |-> <<"tmpfs", i>>, ro |-> FALSE]]
           g == [i \in 1..b |-> [path |-> p.bind[i].target, made |-> <<"bind", i>>, ro |-> p.bind[i].read_only]]
           h == [i \in 1..c |-> [path |-> p.proc[i], made |-> <<"proc", i>>, ro |-> FALSE]]
           S == {f[i] : i \in 1..a} \cup {g[i] : i \in 1..b} \cup {h[i] : i \in 1..c}
<1>1. /\ a \in Nat /\ b \in Nat /\ c \in Nat
      /\ DOMAIN p.tmpfs = 1..a /\ DOMAIN p.bind = 1..b /\ DOMAIN p.proc = 1..c
  BY ListFacts
<1>2. Declared(p) = f \o g \o h
  BY <1>1 DEF Declared
<1> HIDE DEF a, b, c
<1>3. /\ \A i \in 1..a : f[i] = [path |-> p.tmpfs[i], made |-> <<"tmpfs", i>>, ro |-> FALSE]
      /\ \A i \in 1..b : g[i] = [path |-> p.bind[i].target, made |-> <<"bind", i>>, ro |-> p.bind[i].read_only]
      /\ \A i \in 1..c : h[i] = [path |-> p.proc[i], made |-> <<"proc", i>>, ro |-> FALSE]
      /\ DOMAIN f = 1..a /\ DOMAIN g = 1..b /\ DOMAIN h = 1..c
      /\ f = [i \in 1..a |-> f[i]] /\ g = [i \in 1..b |-> g[i]] /\ h = [i \in 1..c |-> h[i]]
  OBVIOUS
<1> HIDE DEF f, g, h
<1>4. f \in Seq(S) /\ g \in Seq(S) /\ h \in Seq(S)
  <2>1. f \in [1..a -> S] /\ g \in [1..b -> S] /\ h \in [1..c -> S]
    BY <1>3
  <2> HIDE DEF S
  <2>2. QED
    BY <1>1, <2>1, SMTT(40)
<1> HIDE DEF S
<1>5. Len(f) = a /\ Len(g) = b /\ Len(h) = c
  BY <1>1, <1>3, <1>4
<1>6. /\ f \o g \in Seq(S) /\ Len(f \o g) = a + b
      /\ \A i \in 1..(a + b) : (f \o g)[i] = IF i <= a THEN f[i] ELSE g[i - a]
  BY <1>4, <1>5, ConcatProperties
<1> DEFINE e == f \o g
<1> HIDE DEF e
<1>7. /\ e \o h \in Seq(S) /\ Len(e \o h) = a + b + c
      /\ \A i \in 1..(a + b + c) : (e \o h)[i] = IF i <= a + b THEN e[i] ELSE h[i - (a + b)]
  <2>1. e \in Seq(S) /\ Len(e) = a + b
    BY <1>6 DEF e
  <2>2. /\ e \o h \in Seq(S) /\ Len(e \o h) = Len(e) + Len(h)
        /\ \A i \in 1..(Len(e) + Len(h)) : (e \o h)[i] = IF i <= Len(e) THEN e[i] ELSE h[i - Len(e)]
    BY <1>4, <2>1, ConcatProperties
  <2>3. QED
    BY <1>5, <2>1, <2>2
<1> DEFINE all == Declared(p)
<1>8. all = e \o h
  BY <1>2 DEF e
<1> HIDE DEF all
<1> DEFINE z == e \o h
<1> HIDE DEF z
<1>9. ASSUME NEW i \in 1..a PROVE all[0 + i] = f[i]
  <2>1. 0 + i = i /\ i \in 1..(a + b + c) /\ i <= a + b /\ i \in 1..(a + b) /\ i <= a
    BY <1>1
  <2>2. QED
    BY <1>6, <1>7, <1>8, <2>1 DEF e
<1>10. ASSUME NEW i \in 1..b PROVE all[a + i] = g[i]
  <2>1. a + i \in 1..(a + b + c) /\ a + i <= a + b /\ a + i \in 1..(a + b) /\ ~(a + i <= a) /\ (a + i) - a = i
    BY <1>1
  <2>2. z[a + i] = e[a + i]
    BY <1>7, <2>1 DEF z
  <2>3. e[a + i] = g[(a + i) - a]
    <3> DEFINE j == a + i
    <3>1. j \in 1..(a + b) /\ ~(j <= a)
      BY <2>1
    <3> HIDE DEF j
    <3>2. e[j] = g[j - a]
      BY <1>6, <3>1 DEF e
    <3>3. QED
      BY <3>2 DEF j
  <2>4. QED
    BY <1>8, <2>1, <2>2, <2>3 DEF z
<1>11. ASSUME NEW i \in 1..c PROVE all[a + b + i] = h[i]
  <2>1. a + b + i \in 1..(a + b + c) /\ ~(a + b + i <= a + b) /\ (a + b + i) - (a + b) = i
    BY <1>1
  <2>2. z[a + b + i] = h[(a + b + i) - (a + b)]
    <3> DEFINE j == a + b + i
    <3>1. j \in 1..(a + b + c) /\ ~(j <= a + b)
      BY <2>1
    <3> HIDE DEF j
    <3>2. z[j] = h[j - (a + b)]
      BY <1>7, <3>1 DEF z
    <3>3. QED
      BY <3>2 DEF j
  <2>3. QED
    BY <1>8, <2>1, <2>2 DEF z
<1>12. ASSUME NEW step \in Lists, NEW i \in 1..Listed(p, step)
       PROVE  /\ all[Before(p, step) + i].path = Target(p, step, i)
              /\ all[Before(p, step) + i].made = <<step, i>>
              /\ all[Before(p, step) + i].ro => step = "bind" /\ p.bind[i].read_only
  <2>1. CASE step = "tmpfs"
    <3>1. i \in 1..a /\ Before(p, step) = 0 /\ Target(p, step, i) = p.tmpfs[i]
      BY <2>1 DEF Listed, Before, Target, a
    <3>2. all[0 + i] = [path |-> p.tmpfs[i], made |-> <<"tmpfs", i>>, ro |-> FALSE]
      BY <1>3, <1>9, <3>1
    <3>3. QED
      BY <2>1, <3>1, <3>2
  <2>2. CASE step = "bind"
    <3>1. i \in 1..b /\ Before(p, step) = a /\ Target(p, step, i) = p.bind[i].target
      BY <2>2 DEF Listed, Before, Target, a, b
    <3>2. all[a + i] = [path |-> p.bind[i].target, made |-> <<"bind", i>>, ro |-> p.bind[i].read_only]
      BY <1>3, <1>10, <3>1
    <3>3. QED
      BY <2>2, <3>1, <3>2
  <2>3. CASE step = "proc"
    <3>1. i \in 1..c /\ Before(p, step) = a + b /\ Target(p, step, i) = p.proc[i]
      BY <2>3 DEF Listed, Before, Target, a, b, c
    <3>2. all[a + b + i] = [path |-> p.proc[i], made |-> <<"proc", i>>, ro |-> FALSE]
      BY <1>3, <1>11, <3>1
    <3>3. QED
      BY <2>3, <3>1, <3>2
  <2>4. QED
    BY <2>1, <2>2, <2>3 DEF Lists
<1>13. DOMAIN all = 1..(a + b + c) /\ Len(all) = a + b + c
  BY <1>1, <1>7, <1>8
<1>14. QED
  BY <1>12, <1>13 DEF all, All, a, b, c

---------------------------------------------------------------------------
(* What a rule makes of a namespace.                                         *)

LEMMA NewRule ==
    ASSUME NEW n, Tree(n), NEW d, NEW path \in Paths, Walk(n, d, path) # Nowhere,
           NEW fs \in FsTypes, NEW made \in Tags, made # <<"detached">>
    PROVE  LET c == Mount(n, Walk(n, d, path), fs, <<>>, FALSE, made)
               K == Len(n.mounts)
           IN  Grown(n, c, Walk(n, d, path)) /\ c.mounts[K + 1].made = made /\ Plain(c.mounts[K + 1].base)
<1> DEFINE w == Walk(n, d, path)
           c == Mount(n, w, fs, <<>>, FALSE, made)
<1>1. n \in NsType /\ w \in Place /\ <<>> \in Paths
  <2>1. n \in NsType /\ <<>> \in Paths
    BY DEF Tree, Paths
  <2>2. QED
    BY <2>1, WalkTree
<1>2. /\ c \in NsType /\ c.root = n.root /\ Len(c.mounts) = Len(n.mounts) + 1
      /\ \A i \in 1..Len(n.mounts) : c.mounts[i] = n.mounts[i]
      /\ c.mounts[Len(n.mounts) + 1] =
           [parent |-> w.mnt, on |-> w.path, fs |-> fs, base |-> <<>>, ro |-> FALSE, made |-> made]
  <2> HIDE DEF w
  <2>1. Added(n, c, [parent |-> w.mnt, on |-> w.path, fs |-> fs, base |-> <<>>, ro |-> FALSE, made |-> made])
    BY <1>1, MountFacts, Zenon
  <2> HIDE DEF c
  <2>2. QED
    BY <2>1 DEF Added
<1>3. Grown(n, c, w) /\ c.mounts[Len(n.mounts) + 1].made = made /\ c.mounts[Len(n.mounts) + 1].base = <<>>
  <2> HIDE DEF c, w
  <2>1. \A i \in 1..Len(n.mounts) : Alike(n.mounts[i], c.mounts[i])
    BY <1>2 DEF Alike
  <2>2. /\ c.mounts[Len(n.mounts) + 1].parent = w.mnt /\ c.mounts[Len(n.mounts) + 1].on = w.path
        /\ c.mounts[Len(n.mounts) + 1].made = made /\ c.mounts[Len(n.mounts) + 1].base = <<>>
    BY <1>2
  <2>3. QED
    BY <1>2, <2>1, <2>2 DEF Grown
<1>4. Plain(<<>>)
  BY DEF Plain
<1> HIDE DEF c
<1>5. QED
  BY <1>3, <1>4 DEF c

LEMMA BindRule ==
    ASSUME NEW n, Tree(n), NEW d, NEW source \in Paths, NEW target \in Paths,
           Walk(n, d, source) # Nowhere, Walk(n, d, target) # Nowhere, NEW made \in Tags, made # <<"detached">>
    PROVE  LET b == BindMount(n, d, source, target, made)
               K == Len(n.mounts)
           IN  Grown(n, b, Walk(n, d, target)) /\ b.mounts[K + 1].made = made /\ b.mounts[K + 1].base = Walk(n, d, source).path
<1> DEFINE w == Walk(n, d, target)
           s == Walk(n, d, source)
           m == n.mounts[s.mnt]
           K == Len(n.mounts)
           b == BindMount(n, d, source, target, made)
<1>1. n \in NsType /\ n.root \in DOMAIN n.mounts
  BY DEF Tree
<1>2. /\ b \in NsType /\ b.root = n.root /\ Len(b.mounts) = K + 1
      /\ \A i \in 1..K : b.mounts[i] = n.mounts[i]
      /\ b.mounts[K + 1] = [parent |-> w.mnt, on |-> w.path, fs |-> m.fs, base |-> s.path,
                            ro |-> m.ro, made |-> made]
  <2>1. Added(n, b, [parent |-> w.mnt, on |-> w.path, fs |-> m.fs, base |-> s.path, ro |-> m.ro, made |-> made])
    BY <1>1, BindFacts, Zenon
  <2> HIDE DEF b, w, s, m
  <2>2. QED
    BY <2>1 DEF Added
<1>3. Grown(n, b, w) /\ b.mounts[K + 1].made = made /\ b.mounts[K + 1].base = s.path
  <2> HIDE DEF b, w, s, m, K
  <2>1. b.mounts[K + 1].parent = w.mnt /\ b.mounts[K + 1].on = w.path /\ b.mounts[K + 1].made = made
        /\ b.mounts[K + 1].base = s.path
    BY <1>2
  <2>2. \A i \in 1..K : Alike(n.mounts[i], b.mounts[i])
    BY <1>2 DEF Alike
  <2>3. QED
    BY <1>2, <2>1, <2>2 DEF Grown, K
<1>4. QED
  BY <1>3

LEMMA GrownPlain ==
    ASSUME NEW n, n \in NsType, PlainNs(n), NEW c, NEW w, Grown(n, c, w), Plain(w.path), Plain(c.mounts[Len(n.mounts) + 1].base)
    PROVE  PlainNs(c)
<1> DEFINE K == Len(n.mounts)
<1>1. K \in Nat /\ DOMAIN n.mounts = 1..K
  BY NsFacts
<1>2. DOMAIN c.mounts = 1..(K + 1)
  BY NsFacts DEF Grown
<1>3. ASSUME NEW i \in 1..(K + 1) PROVE Plain(c.mounts[i].base) /\ Plain(c.mounts[i].on)
  <2>1. CASE i = K + 1
    BY <2>1 DEF Grown
  <2>2. CASE i # K + 1
    <3>1. i \in 1..K
      BY <1>1, <2>2
    <3>2. QED
      BY <1>1, <3>1 DEF Grown, Alike, PlainNs
  <2>3. QED
    BY <2>1, <2>2
<1>4. QED
  BY <1>2, <1>3 DEF PlainNs

LEMMA RemountSame ==
    ASSUME NEW b, b \in NsType, NEW d, NEW target
    PROVE  LET c == Remount(b, d, target) IN
           /\ c \in NsType /\ c.root = b.root /\ Len(c.mounts) = Len(b.mounts)
           /\ \A i \in 1..Len(b.mounts) : Alike(b.mounts[i], c.mounts[i])
           /\ Walk(b, d, target).mnt \in DOMAIN b.mounts => c.mounts[Walk(b, d, target).mnt].ro
<1> DEFINE n == Remount(b, d, target)
           w == Walk(b, d, target).mnt
<1>2. CASE w \in DOMAIN b.mounts
  <2>1. Protected(b, n, w)
    BY <1>2, RemountFacts, Zenon
  <2> HIDE DEF n, w
  <2>2. QED
    BY <2>1 DEF Protected, n, w
<1>3. CASE w \notin DOMAIN b.mounts
  <2> DEFINE m == [b.mounts[w] EXCEPT !.ro = TRUE]
             q == [b.mounts EXCEPT ![w] = m]
  <2>1. n = [b EXCEPT !.mounts = q]
    BY DEF Remount
  <2> HIDE DEF m, w
  <2>2. b.mounts \in Seq(MountType) /\ b = [root |-> b.root, mounts |-> b.mounts]
    BY DEF NsType
  <2>3. b.mounts = [i \in DOMAIN b.mounts |-> b.mounts[i]]
    BY <2>2
  <2>4. q = b.mounts
    BY <1>3, <2>3
  <2>5. [b EXCEPT !.mounts = b.mounts] = b
    BY <2>2
  <2> HIDE DEF q
  <2>6. n = b
    BY <2>1, <2>4, <2>5
  <2> HIDE DEF n
  <2>7. \A i \in 1..Len(b.mounts) : Alike(b.mounts[i], b.mounts[i])
    BY DEF Alike
  <2>8. QED
    BY <1>3, <2>6, <2>7 DEF n, w
<1>4. QED
  BY <1>2, <1>3

LEMMA RuleFacts ==
    ASSUME NEW n, NEW p, PolicyOk(p), Early(n, p.root), NEW d, NEW step \in Lists, NEW i \in 1..Listed(p, step),
           Fits(n, d, p, step, i)
    PROVE  LET c == After(n, d, p, step, i)
               t == Target(p, step, i)
               K == Len(n.mounts)
           IN
           /\ t \in Paths /\ Walk(n, d, t) # Nowhere /\ Grown(n, c, Walk(n, d, t)) /\ Early(c, p.root)
           /\ c.mounts[K + 1].made = <<step, i>>
           /\ PlainNs(n) /\ PlainPolicy(p) => PlainNs(c)
           /\ Inj(n, d) /\ t # <<>> /\ step = "bind" /\ p.bind[i].read_only => c.mounts[K + 1].ro
<1> DEFINE c == After(n, d, p, step, i)
           t == Target(p, step, i)
           w == Walk(n, d, t)
           K == Len(n.mounts)
<1>1. Tree(n) /\ n \in NsType /\ n.root = 1 /\ K \in Nat /\ DOMAIN n.mounts = 1..K /\ Ordered(n)
  <2>1. Tree(n) /\ n \in NsType /\ n.root = 1
    BY DEF Early, Tree, Host
  <2>2. K \in Nat /\ DOMAIN n.mounts = 1..K
    BY <2>1, NsFacts
  <2>3. \A j \in DOMAIN n.mounts : n.mounts[j].parent < j
    BY DEF Early, Off
  <2>4. QED
    BY <2>1, <2>2, <2>3 DEF Ordered
<1>2. t \in Paths /\ w # Nowhere /\ i \in Nat
  <2>1. t \in Paths
    BY ListFacts
  <2>2. w # Nowhere
    BY KindFacts DEF Fits
  <2>3. QED
    BY <2>1, <2>2
<1>3. <<step, i>> \in Tags /\ <<step, i>> # <<"detached">>
  BY <1>2, TagFacts DEF Lists
<1>4. p.root # None => ~IsPrefix(t, p.root)
  <2>1. CASE step = "tmpfs"
    <3>1. t = p.tmpfs[i] /\ i \in 1..Len(p.tmpfs) /\ DOMAIN p.tmpfs = 1..Len(p.tmpfs)
      BY <2>1, ListFacts DEF Target, Listed
    <3>2. t \in Range(p.tmpfs)
      BY <3>1 DEF Range
    <3>3. QED
      BY <3>2 DEF PolicyOk
  <2>2. CASE step = "bind"
    <3>1. t = p.bind[i].target /\ i \in 1..Len(p.bind) /\ DOMAIN p.bind = 1..Len(p.bind)
      BY <2>2, ListFacts DEF Target, Listed
    <3>2. t \in {p.bind[j].target : j \in DOMAIN p.bind}
      BY <3>1
    <3>3. QED
      BY <3>2 DEF PolicyOk
  <2>3. CASE step = "proc"
    <3>1. t = p.proc[i] /\ i \in 1..Len(p.proc) /\ DOMAIN p.proc = 1..Len(p.proc)
      BY <2>3, ListFacts DEF Target, Listed
    <3>2. t \in Range(p.proc)
      BY <3>1 DEF Range
    <3>3. QED
      BY <3>2 DEF PolicyOk
  <2>4. QED
    BY <2>1, <2>2, <2>3 DEF Lists
<1>5. PlainPolicy(p) => Plain(t) /\ (step = "bind" => Plain(p.bind[i].source))
  <2>1. CASE step = "tmpfs"
    BY <2>1, ListFacts DEF Target, Listed, PlainPolicy
  <2>2. CASE step = "bind"
    BY <2>2, ListFacts DEF Target, Listed, PlainPolicy
  <2>3. CASE step = "proc"
    BY <2>3, ListFacts DEF Target, Listed, PlainPolicy
  <2>4. QED
    BY <2>1, <2>2, <2>3 DEF Lists
<1>6. PlainPolicy(p) /\ PlainNs(n) => Plain(w.path)
  BY <1>1, <1>2, <1>5, WalkClean
<1> HIDE DEF t
<1>8. CASE step # "bind"
  <2>1. step \in FsTypes
    BY <1>8 DEF FsTypes, Lists
  <2>2. c = Mount(n, w, step, <<>>, FALSE, <<step, i>>)
    BY <1>8 DEF After, t
  <2>3. Grown(n, c, w) /\ c.mounts[K + 1].made = <<step, i>> /\ Plain(c.mounts[K + 1].base)
    <3> DEFINE m == <<step, i>>
               e == Mount(n, w, step, <<>>, FALSE, m)
    <3>1. m \in Tags /\ m # <<"detached">>
      BY <1>3
    <3> HIDE DEF m
    <3>2. Grown(n, e, w) /\ e.mounts[K + 1].made = m /\ Plain(e.mounts[K + 1].base)
      BY <1>1, <1>2, <2>1, <3>1, NewRule
    <3>3. c = e
      BY <2>2 DEF m
    <3> HIDE DEF e, c
    <3>4. QED
      BY <3>2, <3>3 DEF m
  <2> HIDE DEF c
  <2>4. Early(c, p.root)
    BY <1>2, <1>4, <2>3, GrownEarly
  <2>5. PlainNs(n) /\ PlainPolicy(p) => PlainNs(c)
    BY <1>1, <1>6, <2>3, GrownPlain
  <2>6. QED
    BY <1>2, <1>8, <2>3, <2>4, <2>5 DEF c, t
<1>9. CASE step = "bind"
  <2> DEFINE s == p.bind[i].source
             b == BindMount(n, d, s, t, <<step, i>>)
  <2>1. s \in Paths /\ Walk(n, d, s) # Nowhere
    <3>1. s \in Paths
      BY <1>9, ListFacts DEF Listed
    <3>2. Kind(n, d, Walk(n, d, s)) # "none"
      BY <1>9 DEF Fits
    <3>3. QED
      BY <3>1, <3>2, KindFacts
  <2>2. Grown(n, b, w) /\ b.mounts[K + 1].made = <<step, i>> /\ b.mounts[K + 1].base = Walk(n, d, s).path
    BY <1>1, <1>2, <1>3, <2>1, BindRule, SMTT(40)
  <2>3. c = IF p.bind[i].read_only THEN Remount(b, d, t) ELSE b
    BY <1>9 DEF After, ReadOnly, Target, t
  <2>4. PlainNs(n) /\ PlainPolicy(p) => Plain(Walk(n, d, s).path)
    BY <1>1, <1>5, <1>9, <2>1, WalkClean
  <2> HIDE DEF b, c, s
  <2>5. b \in NsType /\ Len(b.mounts) = K + 1 /\ DOMAIN b.mounts = 1..(K + 1)
    <3>1. b \in NsType /\ Len(b.mounts) = K + 1
      BY <2>2 DEF Grown
    <3>2. QED
      BY <3>1, NsFacts
  <2>6. /\ c \in NsType /\ c.root = b.root /\ Len(c.mounts) = Len(b.mounts)
        /\ \A j \in 1..(K + 1) : Alike(b.mounts[j], c.mounts[j])
    <3>1. CASE p.bind[i].read_only
      BY <2>3, <2>5, <3>1, RemountSame
    <3>2. CASE ~p.bind[i].read_only
      BY <2>3, <2>5, <3>2 DEF Alike
    <3>3. QED
      BY <3>1, <3>2
  <2>7. Grown(n, c, w) /\ c.mounts[K + 1].made = <<step, i>> /\ c.mounts[K + 1].base = Walk(n, d, s).path
    <3>1. \A j \in 1..K : j \in 1..(K + 1)
      BY <1>1
    <3>2. \A j \in 1..K : Alike(n.mounts[j], c.mounts[j])
      BY <2>2, <2>6, <3>1 DEF Grown, Alike
    <3>3. K + 1 \in 1..(K + 1)
      BY <1>1
    <3>4. Alike(b.mounts[K + 1], c.mounts[K + 1])
      BY <2>6, <3>3
    <3>5. QED
      BY <2>2, <2>5, <2>6, <3>2, <3>4 DEF Grown, Alike
  <2>8. Early(c, p.root)
    BY <1>2, <1>4, <2>7, GrownEarly
  <2>9. PlainNs(n) /\ PlainPolicy(p) => PlainNs(c)
    BY <1>1, <1>6, <2>4, <2>7, GrownPlain
  <2>10. ASSUME Inj(n, d), t # <<>>, p.bind[i].read_only PROVE c.mounts[K + 1].ro
    <3>1. Walk(b, d, t) = Root(b, K + 1)
      BY <1>1, <1>2, <2>2, <2>10, WalkNew
    <3>2. Walk(b, d, t).mnt = K + 1
      BY <3>1 DEF Root
    <3>3. K + 1 \in DOMAIN b.mounts
      BY <1>1, <2>5
    <3>4. c = Remount(b, d, t)
      BY <2>3, <2>10
    <3>5. QED
      BY <2>5, <3>2, <3>3, <3>4, RemountSame
  <2>11. QED
    BY <1>2, <1>9, <2>7, <2>8, <2>9, <2>10 DEF c, t
<1>10. QED
  BY <1>8, <1>9

(* The directories for old roots make no difference to a rule.               *)
LEMMA RuleClean ==
    ASSUME NEW n, NEW p, PolicyOk(p), PlainPolicy(p), Early(n, p.root), PlainNs(n), NEW d,
           NEW step \in Lists, NEW i \in 1..Listed(p, step)
    PROVE  /\ Good(n, Clean(d), p, step, i) <=> Good(n, d, p, step, i)
           /\ Good(n, d, p, step, i) => After(n, Clean(d), p, step, i) = After(n, d, p, step, i)
<1> DEFINE t == Target(p, step, i)
           D == Clean(d)
<1>1. Tree(n)
  BY DEF Early
<1>2. t \in Paths /\ Plain(t)
  <2>1. t \in Paths
    BY ListFacts
  <2>2. Plain(t)
    BY ListFacts DEF Target, Listed, PlainPolicy, Lists
  <2>3. QED
    BY <2>1, <2>2
<1>3. step = "bind" => p.bind[i].source \in Paths /\ Plain(p.bind[i].source)
  BY ListFacts DEF Listed, PlainPolicy
<1>4. Walk(n, D, t) = Walk(n, d, t) /\ Plain(Walk(n, d, t).path)
  BY <1>1, <1>2, WalkClean
<1>5. Kind(n, D, Walk(n, d, t)) = Kind(n, d, Walk(n, d, t))
  BY <1>4, KindClean
<1>6. step = "bind" => /\ Walk(n, D, p.bind[i].source) = Walk(n, d, p.bind[i].source)
                       /\ Kind(n, D, Walk(n, d, p.bind[i].source)) = Kind(n, d, Walk(n, d, p.bind[i].source))
  BY <1>1, <1>3, WalkClean, KindClean
<1>7. Fits(n, D, p, step, i) <=> Fits(n, d, p, step, i)
  <2> HIDE DEF t, D
  <2> QED BY <1>4, <1>5, <1>6 DEF Fits, t, D
<1>8. ASSUME Fits(n, d, p, step, i) PROVE After(n, D, p, step, i) = After(n, d, p, step, i)
  <2>1. CASE step # "bind"
    BY <1>4, <2>1 DEF After
  <2>2. CASE step = "bind"
    <3> DEFINE s == p.bind[i].source
               m == <<"bind", i>>
               b == BindMount(n, d, s, t, m)
    <3>1. BindMount(n, D, s, t, m) = b
      BY <1>4, <1>6, <2>2 DEF BindMount
    <3>2. Tree(b) /\ PlainNs(b)
      <4>0. i \in Nat
        OBVIOUS
      <4>1. m \in Tags /\ m # <<"detached">>
        BY <4>0, TagFacts
      <4>2. Walk(n, d, s) # Nowhere /\ Walk(n, d, t) # Nowhere
        BY <1>8, <2>2, KindFacts DEF Fits
      <4>3. s \in Paths /\ Plain(Walk(n, d, s).path)
        BY <1>1, <1>3, <2>2, WalkClean
      <4> HIDE DEF m, s, t
      <4>4. Grown(n, b, Walk(n, d, t)) /\ b.mounts[Len(n.mounts) + 1].base = Walk(n, d, s).path
        BY <1>1, <1>2, <4>1, <4>2, <4>3, BindRule
      <4>5. n \in NsType
        BY <1>1 DEF Tree
      <4> HIDE DEF b
      <4>6. Tree(b)
        BY <1>1, <1>2, <4>2, <4>4, GrownTree
      <4>7. PlainNs(b)
        BY <1>4, <4>3, <4>4, <4>5, GrownPlain
      <4>8. QED
        BY <4>6, <4>7
    <3> HIDE DEF b, m, s
    <3>3. Walk(b, D, t) = Walk(b, d, t)
      BY <1>2, <3>2, WalkClean
    <3>4. t = p.bind[i].target
      BY <2>2 DEF Target
    <3> HIDE DEF D, t
    <3>5. ReadOnly(b, D, p.bind[i]) = ReadOnly(b, d, p.bind[i])
      BY <3>3, <3>4 DEF ReadOnly, Remount
    <3>6. QED
      BY <2>2, <3>1, <3>4, <3>5 DEF After, b, s, m
  <2>3. QED
    BY <2>1, <2>2
<1>9. ASSUME Fits(n, d, p, step, i)
      PROVE  AttachOk(After(n, d, p, step, i), D, p, t) <=> AttachOk(After(n, d, p, step, i), d, p, t)
  <2> DEFINE c == After(n, d, p, step, i)
  <2>1. Early(c, p.root) /\ PlainNs(c)
    BY <1>9, RuleFacts
  <2>2. Tree(c)
    BY <2>1 DEF Early
  <2>3. \A q \in Attach(p, t) : q \in Paths /\ Plain(q)
    <3>1. \A q \in p.rules : q \in Paths /\ Plain(q)
      BY ListFacts DEF PlainPolicy
    <3>2. QED
      BY <1>2, <3>1 DEF Attach
  <2> HIDE DEF c, D, t
  <2>4. \A q \in Attach(p, t) : Walk(c, D, q) = Walk(c, d, q)
    BY <2>1, <2>2, <2>3, WalkClean DEF D
  <2>5. AttachOk(c, D, p, t) <=> AttachOk(c, d, p, t)
    BY <2>4 DEF AttachOk
  <2>6. QED
    BY <2>5 DEF c
<1> HIDE DEF D, t
<1>10. QED
  BY <1>7, <1>8, <1>9 DEF Good, D, t

---------------------------------------------------------------------------
(* The namespaces a policy goes through on a disk, rule after rule.          *)

RuleGood(n, D, p, k) == Good(n, D, p, StepAt(p, k), IndexAt(p, k))
RuleNs(n, D, p, k) == After(n, D, p, StepAt(p, k), IndexAt(p, k))
Hist(p, D, h, k) ==
    /\ h[0] = HostNs
    /\ \A i \in 1..k : RuleGood(h[i - 1], D, p, i) /\ h[i] = RuleNs(h[i - 1], D, p, i)

(* After k rules every mount that none of them covers is found.              *)
Placed(p, D, k, n) ==
    /\ Len(n.mounts) = k + 1 /\ Inj(n, D)
    /\ \A i \in 1..k :
        /\ n.mounts[i + 1].made = Declared(p)[i].made
        /\ Declared(p)[i].ro /\ Declared(p)[i].path # <<>> => n.mounts[i + 1].ro
        /\ Declared(p)[i].path # <<>> /\ (\A j \in (i + 1)..k : ~IsPrefix(Declared(p)[j].path, Declared(p)[i].path)) =>
             Walk(n, D, Declared(p)[i].path) = Root(n, i + 1)

LEMMA RuleOf ==
    ASSUME NEW p, PolicyOk(p), NEW k \in 1..All(p)
    PROVE  /\ StepAt(p, k) \in Lists /\ IndexAt(p, k) \in 1..Listed(p, StepAt(p, k))
           /\ Before(p, StepAt(p, k)) + IndexAt(p, k) = k
<1> DEFINE a == Len(p.tmpfs)
           b == Len(p.bind)
           c == Len(p.proc)
<1>1. a \in Nat /\ b \in Nat /\ c \in Nat
  BY ListFacts
<1> HIDE DEF a, b, c
<1>2. k \in 1..(a + b + c)
  BY DEF All, a, b, c
<1>3. CASE k <= a
  <2>1. StepAt(p, k) = "tmpfs"
    BY <1>3 DEF StepAt, a
  <2>2. Before(p, "tmpfs") = 0 /\ Listed(p, "tmpfs") = a
    BY DEF Before, Listed, a
  <2>3. IndexAt(p, k) = k - 0
    BY <2>1, <2>2 DEF IndexAt
  <2>4. k - 0 = k /\ k \in 1..a /\ 0 + k = k
    BY <1>1, <1>2, <1>3
  <2>5. QED
    BY <2>1, <2>2, <2>3, <2>4 DEF Lists
<1>4. CASE ~(k <= a) /\ k <= a + b
  <2>1. StepAt(p, k) = "bind"
    BY <1>4 DEF StepAt, a, b
  <2>2. Before(p, "bind") = a /\ Listed(p, "bind") = b
    BY DEF Before, Listed, a, b
  <2>3. IndexAt(p, k) = k - a
    BY <2>1, <2>2 DEF IndexAt
  <2>4. k - a \in 1..b /\ a + (k - a) = k
    BY <1>1, <1>2, <1>4
  <2>5. QED
    BY <2>1, <2>2, <2>3, <2>4 DEF Lists
<1>5. CASE ~(k <= a) /\ ~(k <= a + b)
  <2>1. StepAt(p, k) = "proc"
    BY <1>5 DEF StepAt, a, b
  <2>2. Before(p, "proc") = a + b /\ Listed(p, "proc") = c
    BY DEF Before, Listed, a, b, c
  <2>3. IndexAt(p, k) = k - (a + b)
    BY <2>1, <2>2 DEF IndexAt
  <2>4. k - (a + b) \in 1..c /\ (a + b) + (k - (a + b)) = k
    BY <1>1, <1>2, <1>5
  <2>5. QED
    BY <2>1, <2>2, <2>3, <2>4 DEF Lists
<1>6. QED
  BY <1>3, <1>4, <1>5

LEMMA HostPlaced ==
    ASSUME NEW p, NEW D
    PROVE  Placed(p, D, 0, HostNs) /\ PlainNs(HostNs)
<1> DEFINE n == HostNs
<1>1. Tree(n) /\ Host(n)
  BY HostFacts DEF Early
<1>2. Len(n.mounts) = 1 /\ n.mounts[1].base = <<>> /\ n.mounts[1].on = <<>> /\ DOMAIN n.mounts = {1}
  BY DEF HostNs
<1> HIDE DEF n
<1>3. ASSUME NEW s \in Paths, Walk(n, D, s) # Nowhere PROVE Walk(n, D, s).path = s
  <2>1. Walk(n, D, s).mnt = n.root
    BY <1>1, <1>2, <1>3, WalkTree DEF Host
  <2>2. Walk(n, D, s).path = n.mounts[n.root].base \o s
    BY <1>1, <1>3, <2>1, WalkHome
  <2>3. n.root = 1
    BY <1>1 DEF Host
  <2>4. <<>> \o s = s
    BY ConcatAppend, AppendFacts, ConcatEmptySeq DEF Paths
  <2>5. QED
    BY <1>2, <2>2, <2>3, <2>4
<1>4. Inj(n, D)
  <2> SUFFICES ASSUME NEW s \in Paths, NEW t \in Paths, Walk(n, D, s) = Walk(n, D, t), Walk(n, D, s) # Nowhere
               PROVE  s = t
    BY DEF Inj
  <2> QED BY <1>3
<1>5. PlainNs(n)
  <2>1. Plain(<<>>)
    BY DEF Plain
  <2>2. QED
    BY <1>2, <2>1 DEF PlainNs
<1>6. Placed(p, D, 0, n)
  BY <1>2, <1>4 DEF Placed
<1>7. QED
  BY <1>5, <1>6 DEF n

LEMMA PlacedStep ==
    ASSUME NEW p, PolicyOk(p), PlainPolicy(p), NEW D, NEW k \in Nat, k + 1 \in 1..All(p),
           NEW n, Early(n, p.root), PlainNs(n), Placed(p, D, k, n), RuleGood(n, D, p, k + 1)
    PROVE  LET c == RuleNs(n, D, p, k + 1) IN
           Early(c, p.root) /\ PlainNs(c) /\ Placed(p, D, k + 1, c)
<1> DEFINE c == RuleNs(n, D, p, k + 1)
           step == StepAt(p, k + 1)
           x == IndexAt(p, k + 1)
           all == Declared(p)
           t == Target(p, step, x)
           w == Walk(n, D, t)
           K == Len(n.mounts)
<1>1. step \in Lists /\ x \in 1..Listed(p, step) /\ Before(p, step) + x = k + 1
  BY RuleOf
<1>2. c = After(n, D, p, step, x) /\ Fits(n, D, p, step, x)
  BY DEF RuleNs, RuleGood, Good
<1> HIDE DEF c, step, x, all
<1>3. all[k + 1].path = t /\ all[k + 1].made = <<step, x>> /\ (all[k + 1].ro => step = "bind" /\ p.bind[x].read_only)
  BY <1>1, DeclaredFacts DEF all
<1>4. K = k + 1 /\ Inj(n, D)
  BY DEF Placed
<1>5. /\ t \in Paths /\ w # Nowhere /\ Grown(n, c, w) /\ Early(c, p.root)
      /\ c.mounts[K + 1].made = <<step, x>> /\ PlainNs(c)
      /\ t # <<>> /\ step = "bind" /\ p.bind[x].read_only => c.mounts[K + 1].ro
  <2> DEFINE e == After(n, D, p, step, x)
  <2>1. /\ t \in Paths /\ w # Nowhere /\ Grown(n, e, w) /\ Early(e, p.root)
        /\ e.mounts[K + 1].made = <<step, x>>
        /\ PlainNs(n) /\ PlainPolicy(p) => PlainNs(e)
        /\ Inj(n, D) /\ t # <<>> /\ step = "bind" /\ p.bind[x].read_only => e.mounts[K + 1].ro
    BY <1>1, <1>2, RuleFacts
  <2>2. c = e
    BY <1>2
  <2> HIDE DEF e, t, w
  <2>3. QED
    BY <1>4, <2>1, <2>2
<1>6. Tree(n) /\ Ordered(n) /\ n.root = 1
  BY DEF Early, Tree, Host, Off, Ordered
<1> HIDE DEF t, w
<1>7. Len(c.mounts) = (k + 1) + 1 /\ Inj(c, D)
  <2>1. Inj(c, D)
    BY <1>4, <1>5, <1>6, InjGrown DEF w
  <2>2. QED
    BY <1>4, <1>5, <2>1 DEF Grown
<1>8. ASSUME NEW i \in 1..(k + 1)
      PROVE  /\ c.mounts[i + 1].made = all[i].made
             /\ all[i].ro /\ all[i].path # <<>> => c.mounts[i + 1].ro
             /\ all[i].path # <<>> /\ (\A j \in (i + 1)..(k + 1) : ~IsPrefix(all[j].path, all[i].path)) =>
                  Walk(c, D, all[i].path) = Root(c, i + 1)
  <2>1. CASE i = k + 1
    <3>1. i + 1 = K + 1
      BY <1>4, <2>1
    <3>2. t # <<>> => Walk(c, D, t) = Root(c, K + 1)
      BY <1>4, <1>5, <1>6, WalkNew DEF w
    <3>3. QED
      BY <1>3, <1>5, <2>1, <3>1, <3>2
  <2>2. CASE i # k + 1
    <3>1. i \in 1..k /\ i + 1 \in 1..K /\ (\A j \in (i + 1)..k : j \in (i + 1)..(k + 1)) /\ k + 1 \in (i + 1)..(k + 1)
      BY <1>4, <2>2
    <3>2. Alike(n.mounts[i + 1], c.mounts[i + 1])
      BY <1>5, <3>1 DEF Grown
    <3>3. /\ n.mounts[i + 1].made = all[i].made
          /\ all[i].ro /\ all[i].path # <<>> => n.mounts[i + 1].ro
          /\ all[i].path # <<>> /\ (\A j \in (i + 1)..k : ~IsPrefix(all[j].path, all[i].path)) =>
                  Walk(n, D, all[i].path) = Root(n, i + 1)
      BY <3>1 DEF Placed, all
    <3>4. ASSUME all[i].path # <<>>, \A j \in (i + 1)..(k + 1) : ~IsPrefix(all[j].path, all[i].path)
          PROVE  Walk(c, D, all[i].path) = Root(c, i + 1)
      <4>1. Walk(n, D, all[i].path) = Root(n, i + 1)
        BY <3>1, <3>3, <3>4
      <4>2. ~IsPrefix(t, all[i].path)
        BY <1>3, <3>1, <3>4
      <4>3. all[i].path \in Paths
        <5>1. i \in 1..All(p)
          <6>1. All(p) \in Nat
            BY ListFacts
          <6>2. QED
            BY <3>1, <6>1
        <5>2. /\ StepAt(p, i) \in Lists /\ IndexAt(p, i) \in 1..Listed(p, StepAt(p, i))
              /\ Before(p, StepAt(p, i)) + IndexAt(p, i) = i
          BY <5>1, RuleOf
        <5>3. all[i].path = Target(p, StepAt(p, i), IndexAt(p, i))
          BY <5>2, DeclaredFacts DEF all
        <5>4. QED
          BY <5>2, <5>3, ListFacts
      <4>4. Walk(c, D, all[i].path) = Walk(n, D, all[i].path)
        BY <1>4, <1>5, <1>6, <4>2, <4>3, WalkGrown DEF w
      <4>5. Root(n, i + 1) = Root(c, i + 1)
        BY <3>2 DEF Root, Alike
      <4>6. QED
        BY <4>1, <4>4, <4>5
    <3>5. QED
      BY <3>2, <3>3, <3>4 DEF Alike
  <2>3. QED
    BY <2>1, <2>2
<1>9. Placed(p, D, k + 1, c)
  BY <1>7, <1>8 DEF Placed, all
<1>10. QED
  BY <1>5, <1>9 DEF c

(* Run after k rules.                                                        *)
Past(p, D, k, n) == \E h : Hist(p, D, h, k) /\ h[k] = n

LEMMA PastInit ==
    ASSUME NEW p, NEW D
    PROVE  Past(p, D, 0, HostNs)
<1> DEFINE h == [i \in {0} |-> HostNs]
<1>1. h[0] = HostNs
  OBVIOUS
<1> HIDE DEF h
<1>2. Hist(p, D, h, 0)
  BY <1>1 DEF Hist
<1>3. QED
  BY <1>1, <1>2 DEF Past

LEMMA PastStep ==
    ASSUME NEW p, NEW D, NEW k \in Nat, NEW n, Past(p, D, k, n), RuleGood(n, D, p, k + 1)
    PROVE  Past(p, D, k + 1, RuleNs(n, D, p, k + 1))
<1> DEFINE c == RuleNs(n, D, p, k + 1)
<1>1. PICK h : Hist(p, D, h, k) /\ h[k] = n
  BY DEF Past
<1> DEFINE g == [i \in 0..(k + 1) |-> IF i = k + 1 THEN c ELSE h[i]]
<1> HIDE DEF c
<1>2. g[k + 1] = c /\ \A i \in 0..k : g[i] = h[i]
  OBVIOUS
<1>3. g[0] = h[0] /\ g[k] = h[k]
  BY <1>2
<1> HIDE DEF g
<1>4. ASSUME NEW i \in 1..(k + 1) PROVE RuleGood(g[i - 1], D, p, i) /\ g[i] = RuleNs(g[i - 1], D, p, i)
  <2>1. CASE i = k + 1
    <3>1. i - 1 = k
      BY <2>1
    <3>2. g[i - 1] = n
      BY <1>1, <1>3, <3>1
    <3>3. g[i] = RuleNs(n, D, p, i) /\ RuleGood(n, D, p, i)
      BY <1>2, <2>1 DEF c
    <3>4. QED
      BY <3>2, <3>3
  <2>2. CASE i # k + 1
    <3>1. i \in 1..k /\ i \in 0..k /\ i - 1 \in 0..k
      BY <2>2
    <3>2. g[i] = h[i] /\ g[i - 1] = h[i - 1]
      BY <1>2, <3>1
    <3>3. RuleGood(h[i - 1], D, p, i) /\ h[i] = RuleNs(h[i - 1], D, p, i)
      BY <1>1, <3>1 DEF Hist
    <3>4. QED
      BY <3>2, <3>3
  <2>3. QED
    BY <2>1, <2>2
<1>5. Hist(p, D, g, k + 1)
  BY <1>1, <1>3, <1>4 DEF Hist
<1>6. QED
  BY <1>2, <1>5 DEF Past, c

LEMMA PastFacts ==
    ASSUME NEW p, PolicyOk(p), PlainPolicy(p), NEW D, NEW k \in 0..All(p), NEW n, Past(p, D, k, n)
    PROVE  Early(n, p.root) /\ PlainNs(n) /\ Placed(p, D, k, n)
<1>1. PICK h : Hist(p, D, h, k) /\ h[k] = n
  BY DEF Past
<1> DEFINE P(i) == Early(h[i], p.root) /\ PlainNs(h[i]) /\ Placed(p, D, i, h[i])
           T == {i \in Nat : i <= k => P(i)}
<1>2. k \in Nat /\ All(p) \in Nat /\ k <= All(p)
  BY ListFacts
<1>3. 0 \in T
  <2>1. h[0] = HostNs
    BY <1>1 DEF Hist
  <2>2. P(0)
    BY <2>1, HostFacts, HostPlaced
  <2> HIDE DEF P
  <2>3. QED
    BY <2>2
<1>4. ASSUME NEW i \in Nat, i \in T PROVE i + 1 \in T
  <2> SUFFICES ASSUME i + 1 <= k PROVE P(i + 1)
    <3> HIDE DEF P
    <3> QED OBVIOUS
  <2>1. i + 1 \in 1..k /\ i + 1 \in 1..All(p) /\ (i + 1) - 1 = i /\ i <= k
    BY <1>2
  <2>2. RuleGood(h[i], D, p, i + 1) /\ h[i + 1] = RuleNs(h[i], D, p, i + 1)
    BY <1>1, <2>1 DEF Hist
  <2>3. P(i)
    <3> HIDE DEF P
    <3> QED BY <1>4, <2>1
  <2>4. QED
    BY <2>1, <2>2, <2>3, PlacedStep
<1> HIDE DEF P
<1>5. k \in T
  <2>1. \A i \in Nat : i \in T => i + 1 \in T
    BY <1>4
  <2> HIDE DEF T
  <2>2. Nat \subseteq T
    BY <1>3, <2>1, SetInduction
  <2>3. QED
    BY <1>2, <2>2
<1>6. P(k)
  BY <1>2, <1>5
<1>7. QED
  BY <1>1, <1>6 DEF P

(* Two runs of one policy go through the same namespaces.                    *)
LEMMA PastSame ==
    ASSUME NEW p, NEW D, NEW k \in Nat, NEW n, Past(p, D, k, n), NEW j \in Nat, NEW m, Past(p, D, j, m)
    PROVE  /\ k = j => n = m
           /\ k < j => RuleGood(n, D, p, k + 1)
<1>1. PICK h : Hist(p, D, h, k) /\ h[k] = n
  BY DEF Past
<1>2. PICK g : Hist(p, D, g, j) /\ g[j] = m
  BY DEF Past
<1> DEFINE T == {i \in Nat : i <= k /\ i <= j => h[i] = g[i]}
<1>3. 0 \in T
  BY <1>1, <1>2 DEF Hist
<1>4. ASSUME NEW i \in Nat, i \in T PROVE i + 1 \in T
  <2> SUFFICES ASSUME i + 1 <= k, i + 1 <= j PROVE h[i + 1] = g[i + 1]
    OBVIOUS
  <2>1. i + 1 \in 1..k /\ i + 1 \in 1..j /\ (i + 1) - 1 = i /\ i <= k /\ i <= j
    OBVIOUS
  <2>2. h[i + 1] = RuleNs(h[i], D, p, i + 1) /\ g[i + 1] = RuleNs(g[i], D, p, i + 1)
    BY <1>1, <1>2, <2>1 DEF Hist
  <2>3. h[i] = g[i]
    BY <1>4, <2>1
  <2>4. QED
    BY <2>2, <2>3
<1>5. Nat \subseteq T
  <2>1. \A i \in Nat : i \in T => i + 1 \in T
    BY <1>4
  <2> HIDE DEF T
  <2>2. QED
    BY <1>3, <2>1, SetInduction
<1>6. k <= j => h[k] = g[k]
  <2>1. k \in T
    BY <1>5
  <2>2. QED
    BY <2>1
<1>7. ASSUME k < j PROVE RuleGood(n, D, p, k + 1)
  <2>1. k + 1 \in 1..j /\ (k + 1) - 1 = k /\ k <= j
    BY <1>7
  <2>2. RuleGood(g[k], D, p, k + 1)
    BY <1>2, <2>1 DEF Hist
  <2>3. QED
    BY <1>1, <1>6, <2>1, <2>2
<1>8. QED
  BY <1>1, <1>2, <1>6, <1>7

---------------------------------------------------------------------------
(* What the other runs do to a namespace and to the disk.                    *)

(* Nothing is mounted on the directory that is removed.                      *)
LEMMA LoseNone ==
    ASSUME NEW n \in NsType, NEW path, \A i \in DOMAIN n.mounts : n.mounts[i].parent # 0 => n.mounts[i].on # path
    PROVE  LoseMountpoint(n, path) = n
<1>1. LoseMountpoint(n, path) = Detach(n, {})
  BY DEF LoseMountpoint
<1>2. Below(n, {}) = {}
  <2>1. Inherits(n, {}) /\ {} \in SUBSET DOMAIN n.mounts /\ {} \subseteq DOMAIN n.mounts
    BY DEF Inherits
  <2>2. QED
    BY <2>1, BelowFacts
<1>3. Detach(n, {}) = [n EXCEPT !.mounts = [i \in DOMAIN n.mounts |-> n.mounts[i]]]
  BY <1>2 DEF Detach
<1>4. n.mounts \in Seq(MountType) /\ n = [root |-> n.root, mounts |-> n.mounts]
  BY DEF NsType
<1>5. [i \in DOMAIN n.mounts |-> n.mounts[i]] = n.mounts
  BY <1>4
<1>6. QED
  BY <1>1, <1>3, <1>4, <1>5

LEMMA LosePlain ==
    ASSUME NEW n \in NsType, PlainNs(n), NEW path, ~Plain(path)
    PROVE  LoseMountpoint(n, path) = n
<1>1. \A i \in DOMAIN n.mounts : n.mounts[i].on # path
  BY DEF PlainNs
<1>2. QED
  BY <1>1, LoseNone

(* One mount over a place and none over that.                                *)
LEMMA FollowOnce ==
    ASSUME NEW n, Len(n.mounts) \in Nat, Len(n.mounts) > 0, NEW p, NEW q, Covered(n, p) = q, Covered(n, q) = q
    PROVE  Follow(n, p) = q
<1> DEFINE K == Len(n.mounts)
<1>1. PICK top : /\ top[0] = p
                 /\ \A k \in 1..K : top[k] = Covered(n, top[k - 1])
                 /\ Follow(n, p) = top[K]
  BY FollowFacts
<1> DEFINE T == {k \in Nat : k + 1 <= K => top[k + 1] = q}
<1> HIDE DEF K
<1>2. K \in Nat /\ K > 0
  BY DEF K
<1>3. 0 \in T
  <2>1. 1 \in 1..K /\ 1 - 1 = 0 /\ 0 + 1 = 1
    BY <1>2
  <2>2. QED
    BY <1>1, <2>1
<1>4. ASSUME NEW k \in Nat, k \in T PROVE k + 1 \in T
  <2> SUFFICES ASSUME (k + 1) + 1 <= K PROVE top[(k + 1) + 1] = q
    OBVIOUS
  <2>1. (k + 1) + 1 \in 1..K /\ ((k + 1) + 1) - 1 = k + 1 /\ k + 1 <= K
    BY <1>2
  <2> DEFINE j == (k + 1) + 1
  <2>2. j \in 1..K /\ j - 1 = k + 1
    BY <2>1
  <2> HIDE DEF j
  <2>3. top[j] = Covered(n, top[k + 1])
    BY <1>1, <2>2
  <2>4. top[k + 1] = q
    BY <1>4, <2>1
  <2>5. QED
    BY <2>3, <2>4 DEF j
<1>5. Nat \subseteq T
  <2>1. \A k \in Nat : k \in T => k + 1 \in T
    BY <1>4
  <2> HIDE DEF T
  <2>2. QED
    BY <1>3, <2>1, SetInduction
<1>6. K - 1 \in Nat /\ (K - 1) + 1 = K
  BY <1>2
<1>7. top[K] = q
  <2>1. K - 1 \in T
    BY <1>5, <1>6
  <2>2. QED
    BY <1>2, <1>6, <2>1
<1>8. QED
  BY <1>1, <1>7

(* The directory for the old root in a root is something else, or it is not  *)
(* empty.                                                                    *)
Blocked(d, root) == Append(root, OldRoot) \in DOMAIN d /\ d[Append(root, OldRoot)] # "dir"
Bare(d, root) == \A q \in DOMAIN d : IsPrefix(Append(root, OldRoot), q) => q = Append(root, OldRoot)

(* Two disks that no run tells apart.                                        *)
SameDisk(d, e) ==
    /\ Clean(d) = Clean(e)
    /\ \A root \in Paths : Blocked(d, root) <=> Blocked(e, root)
    /\ \A root \in Paths : Plain(root) => (Bare(d, root) <=> Bare(e, root))

LEMMA NotBelow ==
    ASSUME NEW root \in Paths, Plain(root), NEW other \in Paths, IsPrefix(Append(other, OldRoot), Append(root, OldRoot))
    PROVE  Append(other, OldRoot) = Append(root, OldRoot)
<1> DEFINE o == Append(other, OldRoot)
<1>1. o \in Paths /\ Len(o) = Len(other) + 1 /\ Len(other) \in Nat /\ o[Len(other) + 1] = OldRoot
  BY OldRootPath, AppendFacts
<1> HIDE DEF o
<1>2. SUFFICES ASSUME o # Append(root, OldRoot) PROVE FALSE
  BY DEF o
<1>3. IsPrefix(o, root)
  BY <1>1, <1>2, OldRootPath, PrefixLonger DEF o
<1>4. Len(o) <= Len(root) /\ \A i \in 1..Len(o) : o[i] = root[i]
  BY <1>1, <1>3, PrefixFacts
<1>5. Len(root) \in Nat /\ DOMAIN root = 1..Len(root)
  BY DEF Paths
<1> DEFINE k == Len(other) + 1
<1>6. k \in 1..Len(o) /\ k \in DOMAIN root
  BY <1>1, <1>4, <1>5
<1>7. root[k] = OldRoot
  BY <1>1, <1>4, <1>6
<1>8. QED
  BY <1>6, <1>7 DEF Plain

(* Two disks with the same entries but for the directory of a root.          *)
LEMMA DiskChange ==
    ASSUME NEW root \in Paths, Plain(root), NEW d, NEW e,
           \A q : q # Append(root, OldRoot) => (q \in DOMAIN d <=> q \in DOMAIN e) /\ (q \in DOMAIN d => d[q] = e[q]),
           Blocked(d, root) <=> Blocked(e, root)
    PROVE  SameDisk(d, e)
<1> DEFINE x == Append(root, OldRoot)
<1>1. ~Plain(x) /\ x \in Paths
  BY OldRootPath, PlainFacts, AppendFacts
<1>2. Clean(d) = Clean(e)
  <2> DEFINE A == {q \in DOMAIN d : Plain(q)}
             B == {q \in DOMAIN e : Plain(q)}
  <2>1. A = B /\ \A q \in A : d[q] = e[q]
    BY <1>1
  <2> HIDE DEF A, B
  <2>2. [q \in A |-> d[q]] = [q \in B |-> e[q]]
    BY <2>1
  <2>3. QED
    BY <2>2 DEF Clean, A, B
<1>3. ASSUME NEW o \in Paths PROVE Blocked(d, o) <=> Blocked(e, o)
  <2>1. CASE Append(o, OldRoot) = x
    BY <2>1 DEF Blocked
  <2>2. CASE Append(o, OldRoot) # x
    BY <2>2 DEF Blocked
  <2>3. QED
    BY <2>1, <2>2
<1>4. ASSUME NEW o \in Paths, Plain(o) PROVE Bare(d, o) <=> Bare(e, o)
  <2>1. IsPrefix(Append(o, OldRoot), x) => x = Append(o, OldRoot)
    BY NotBelow
  <2> HIDE DEF x
  <2>2. \A q : q # x => (q \in DOMAIN d <=> q \in DOMAIN e)
    BY DEF x
  <2>3. QED
    BY <2>1, <2>2 DEF Bare
<1>5. QED
  BY <1>2, <1>3, <1>4 DEF SameDisk

LEMMA DiskSelf ==
    ASSUME NEW d
    PROVE  SameDisk(d, d)
  BY DEF SameDisk

LEMMA DiskMade ==
    ASSUME NEW root \in Paths, Plain(root), NEW d, NEW e,
           e = [q \in DOMAIN d \cup {Append(root, OldRoot)} |-> IF q \in DOMAIN d THEN d[q] ELSE "dir"]
    PROVE  SameDisk(d, e)
<1> DEFINE x == Append(root, OldRoot)
<1>1. DOMAIN e = DOMAIN d \cup {x} /\ \A q \in DOMAIN e : e[q] = IF q \in DOMAIN d THEN d[q] ELSE "dir"
  OBVIOUS
<1> HIDE DEF x
<1>2. \A q : q # x => (q \in DOMAIN d <=> q \in DOMAIN e) /\ (q \in DOMAIN d => d[q] = e[q])
  BY <1>1
<1>3. Blocked(d, root) <=> Blocked(e, root)
  BY <1>1 DEF Blocked, x
<1>4. QED
  BY <1>2, <1>3, DiskChange DEF x

LEMMA DiskGone ==
    ASSUME NEW root \in Paths, Plain(root), NEW d, NEW e, ~Blocked(d, root),
           e = [q \in DOMAIN d \ {Append(root, OldRoot)} |-> d[q]]
    PROVE  SameDisk(d, e)
<1> DEFINE x == Append(root, OldRoot)
<1>1. DOMAIN e = DOMAIN d \ {x} /\ \A q \in DOMAIN e : e[q] = d[q]
  OBVIOUS
<1> HIDE DEF x
<1>2. \A q : q # x => (q \in DOMAIN d <=> q \in DOMAIN e) /\ (q \in DOMAIN d => d[q] = e[q])
  BY <1>1
<1>3. Blocked(d, root) <=> Blocked(e, root)
  BY <1>1 DEF Blocked, x
<1>4. QED
  BY <1>2, <1>3, DiskChange DEF x

---------------------------------------------------------------------------
(* The steps into runtime.root.                                              *)

RootNs(n, D, p) == BindMount(n, D, p.root, p.root, <<"root">>)
RootGood(n, D, p) == Kind(n, D, Walk(n, D, p.root)) = "dir" /\ AttachOk(RootNs(n, D, p), D, p, p.root)

LEMMA PlainRoot ==
    ASSUME NEW p, PolicyOk(p), PlainPolicy(p)
    PROVE  /\ p.root # None => p.root \in Paths /\ Plain(p.root)
           /\ p.cwd # None => p.cwd \in Paths /\ Plain(p.cwd)
           /\ \A q \in p.rules : q \in Paths /\ Plain(q)
  BY ListFacts DEF PlainPolicy

LEMMA RootRule ==
    ASSUME NEW p, PolicyOk(p), PlainPolicy(p), p.root # None, NEW D, NEW h, Early(h, p.root), PlainNs(h), Inj(h, D),
           Walk(h, D, p.root) # Nowhere
    PROVE  LET c == RootNs(h, D, p)
               K == Len(c.mounts)
           IN
           /\ Bound(c, p.root) /\ Tree(c) /\ PlainNs(c) /\ c.root = 1 /\ K \in Nat /\ K > 1 /\ DOMAIN c.mounts = 1..K
           /\ c.mounts[K].parent # 0 /\ c.mounts[K].base = p.root /\ c.mounts[K].fs = "disk"
           /\ p.root = <<>> => Walk(c, D, p.root) = Root(c, 1)
           /\ p.root # <<>> => Walk(c, D, p.root) = Root(c, K)
<1> DEFINE R == p.root
           c == RootNs(h, D, p)
           w == Walk(h, D, R)
           L == Len(h.mounts)
<1>1. R \in Paths /\ Plain(R)
  BY PlainRoot
<1>2. Tree(h) /\ h \in NsType /\ h.root = 1 /\ Ordered(h)
  BY DEF Early, Tree, Host, Off, Ordered
<1>3. <<"root">> \in Tags /\ <<"root">> # <<"detached">>
  BY TagFacts
<1>4. Grown(h, c, w) /\ c.mounts[L + 1].base = w.path
  BY <1>1, <1>2, <1>3, BindRule DEF RootNs
<1>5. Bound(c, R)
  BY <1>1, RootBound DEF RootNs
<1>6. Plain(w.path) /\ w.mnt # 0
  <2>1. Plain(w.path)
    BY <1>1, <1>2, WalkClean
  <2>2. w.mnt \in DOMAIN h.mounts /\ DOMAIN h.mounts = 1..L
    BY <1>1, <1>2, WalkTree, NsFacts
  <2>3. QED
    BY <2>1, <2>2
<1> HIDE DEF c, R, w
<1>7. PlainNs(c)
  BY <1>2, <1>4, <1>6, GrownPlain
<1>8. Tree(c) /\ c \in NsType /\ c.root = 1 /\ Len(c.mounts) = L + 1 /\ Len(c.mounts) > 1
  BY <1>2, <1>4, <1>5 DEF Bound, Grown, Tree
<1>9. DOMAIN c.mounts = 1..Len(c.mounts) /\ Len(c.mounts) \in Nat
  BY <1>8, NsFacts
<1>10. c.mounts[Len(c.mounts)].parent # 0
  BY <1>4, <1>6, <1>8 DEF Grown
<1>11. R = <<>> => Walk(c, D, R) = Root(c, 1)
  BY <1>8, WalkEmpty
<1>12. R # <<>> => Walk(c, D, R) = Root(c, L + 1)
  BY <1>1, <1>2, <1>4, WalkNew DEF w, R
<1>13. c.mounts[Len(c.mounts)].base = R /\ c.mounts[Len(c.mounts)].fs = "disk"
  BY <1>5 DEF Bound
<1>14. QED
  BY <1>5, <1>7, <1>8, <1>9, <1>10, <1>11, <1>12, <1>13 DEF c, R

LEMMA RootClean ==
    ASSUME NEW p, PolicyOk(p), PlainPolicy(p), p.root # None, NEW h, Early(h, p.root), PlainNs(h), NEW d
    PROVE  /\ RootNs(h, Clean(d), p) = RootNs(h, d, p)
           /\ RootGood(h, Clean(d), p) <=> RootGood(h, d, p)
<1> DEFINE R == p.root
           D == Clean(d)
           c == RootNs(h, d, p)
           w == Walk(h, d, R)
<1>1. R \in Paths /\ Plain(R) /\ Tree(h) /\ h \in NsType
  BY PlainRoot DEF Early, Tree
<1>2. Walk(h, D, R) = w /\ Plain(w.path)
  BY <1>1, WalkClean
<1>3. Kind(h, D, w) = Kind(h, d, w)
  BY <1>2, KindClean
<1>4. RootNs(h, D, p) = c
  BY <1>2 DEF RootNs, BindMount
<1>5. ASSUME w # Nowhere PROVE AttachOk(c, D, p, R) <=> AttachOk(c, d, p, R)
  <2>1. <<"root">> \in Tags /\ <<"root">> # <<"detached">>
    BY TagFacts
  <2>2. Grown(h, c, w) /\ c.mounts[Len(h.mounts) + 1].base = w.path
    BY <1>1, <1>5, <2>1, BindRule DEF RootNs
  <2>3. Tree(c)
    BY <1>1, <1>5, <2>2, GrownTree
  <2>4. PlainNs(c)
    BY <1>1, <1>2, <2>2, GrownPlain
  <2>5. \A q \in Attach(p, R) : q \in Paths /\ Plain(q)
    BY <1>1, PlainRoot DEF Attach
  <2> HIDE DEF c, D, R
  <2>6. \A q \in Attach(p, R) : Walk(c, D, q) = Walk(c, d, q)
    BY <2>3, <2>4, <2>5, WalkClean DEF D
  <2>7. QED
    BY <2>6 DEF AttachOk
<1>6. Kind(h, d, w) = "dir" => w # Nowhere
  BY KindFacts
<1> HIDE DEF c, D, R, w
<1>7. QED
  BY <1>2, <1>3, <1>4, <1>5, <1>6 DEF RootGood, D, R, w, c

(* pivot_root is given a root that is no "/", and finds the directory.       *)
LEMMA PivotRule ==
    ASSUME NEW p, PolicyOk(p), PlainPolicy(p), p.root # None, NEW D, NEW h, Early(h, p.root), PlainNs(h), Inj(h, D),
           RootGood(h, D, p), NEW n, n = RootNs(h, D, p), NEW d, D = Clean(d)
    PROVE  LET new == Walk(n, d, p.root)
               old == In(new, OldRoot)
               c == PivotRoot(n, new, old)
           IN
           /\ new # Nowhere
           /\ CanPivot(n, d, new, old) <=> /\ p.root # <<>> /\ Append(p.root, OldRoot) \in DOMAIN d
                                           /\ d[Append(p.root, OldRoot)] = "dir"
           /\ CanPivot(n, d, new, old) =>
                c.mounts[1].parent # 0 /\ \A i \in DOMAIN c.mounts : i # 1 => Plain(c.mounts[i].on)
<1> DEFINE R == p.root
           K == Len(n.mounts)
           new == Walk(n, d, R)
           old == In(new, OldRoot)
           c == PivotRoot(n, new, old)
<1>1. R \in Paths /\ Plain(R)
  BY PlainRoot
<1>2. Walk(h, D, R) # Nowhere
  BY KindFacts DEF RootGood
<1>3. /\ Bound(n, R) /\ Tree(n) /\ PlainNs(n) /\ n.root = 1 /\ K \in Nat /\ K > 1 /\ DOMAIN n.mounts = 1..K
      /\ n.mounts[K].parent # 0 /\ n.mounts[K].base = R /\ n.mounts[K].fs = "disk"
      /\ R = <<>> => Walk(n, D, R) = Root(n, 1)
      /\ R # <<>> => Walk(n, D, R) = Root(n, K)
  BY <1>2, RootRule
<1>4. new = Walk(n, D, R)
  BY <1>1, <1>3, WalkClean
<1> HIDE DEF R, K, new
<1>5. R = <<>> => new.mnt = 1 /\ new # Nowhere
  BY <1>3, <1>4 DEF Root, Nowhere
<1>6. R # <<>> => new.mnt = K /\ new.path = R /\ new # Nowhere /\ new \in Place
  BY <1>1, <1>3, <1>4 DEF Root, Nowhere, Place
<1>7. R # <<>> => old.mnt = K /\ old.path = Append(R, OldRoot) /\ old # Nowhere /\ old \in Place
  BY <1>1, <1>3, <1>6, OldRootPath, AppendFacts DEF In, Nowhere, Place
<1> HIDE DEF old
<1>8. R # <<>> => Kind(n, d, old) = IF Append(R, OldRoot) \in DOMAIN d THEN d[Append(R, OldRoot)] ELSE "none"
  BY <1>3, <1>7 DEF Kind
<1>9. CanPivot(n, d, new, old) => R # <<>>
  BY <1>3, <1>5 DEF CanPivot
<1>10. CanPivot(n, d, new, old) <=> R # <<>> /\ Append(R, OldRoot) \in DOMAIN d /\ d[Append(R, OldRoot)] = "dir"
  <2>1. CASE R = <<>>
    BY <1>9, <2>1
  <2>2. CASE R # <<>>
    <3>1. new # Nowhere /\ new.path = n.mounts[new.mnt].base /\ new.mnt # n.root /\ n.mounts[new.mnt].parent # 0
      BY <1>3, <1>6, <2>2
    <3>2. QED
      BY <1>8, <2>2, <3>1 DEF CanPivot
  <2>3. QED
    BY <2>1, <2>2
<1>11. ASSUME R # <<>> PROVE c.mounts[1].parent # 0 /\ \A i \in DOMAIN c.mounts : i # 1 => Plain(c.mounts[i].on)
  <2>1. n \in NsType /\ n.root \in DOMAIN n.mounts
    BY <1>3 DEF Tree
  <2>2. new \in Place /\ old \in Place /\ new.mnt \in DOMAIN n.mounts /\ new.mnt # n.root /\ new.mnt = K /\ old.mnt = K
    BY <1>3, <1>6, <1>7, <1>11
  <2>3. /\ c \in NsType /\ c.root = new.mnt /\ Len(c.mounts) = Len(n.mounts)
        /\ \A i \in 1..Len(n.mounts) : i \notin {new.mnt, n.root} => c.mounts[i] = n.mounts[i]
        /\ c.mounts[n.root].parent = old.mnt /\ c.mounts[new.mnt].on = <<>>
    <3>1. Turned(n, c, new, old)
      BY <2>1, <2>2, PivotFacts, Zenon
    <3> HIDE DEF c
    <3>2. QED
      BY <3>1 DEF Turned
  <2> HIDE DEF c
  <2>4. DOMAIN c.mounts = 1..K
    BY <2>3, NsFacts DEF K
  <2>5. Plain(<<>>)
    BY DEF Plain
  <2>6. ASSUME NEW i \in 1..K, i # 1 PROVE Plain(c.mounts[i].on)
    <3>1. CASE i = K
      BY <2>2, <2>3, <2>5, <3>1
    <3>2. CASE i # K
      <4>1. c.mounts[i] = n.mounts[i]
        BY <1>3, <2>2, <2>3, <2>6, <3>2 DEF K
      <4>2. QED
        BY <1>3, <4>1 DEF PlainNs
    <3>3. QED
      BY <3>1, <3>2
  <2>7. QED
    BY <1>3, <2>2, <2>3, <2>4, <2>6
<1>12. new # Nowhere
  BY <1>5, <1>6
<1>13. QED
  BY <1>9, <1>10, <1>11, <1>12 DEF R, new, old

LEMMA OneName ==
    ASSUME NEW n, NEW d
    PROVE  Walk(n, d, <<OldRoot>>) = Enter(n, d, Root(n, n.root), OldRoot)
<1>1. <<>> \in Paths /\ OldRoot \in Names /\ Append(<<>>, OldRoot) = <<OldRoot>>
  BY OldRootPath DEF Paths
<1>2. Walk(n, d, Append(<<>>, OldRoot)) = Enter(n, d, Walk(n, d, <<>>), OldRoot)
  BY <1>1, WalkAppend
<1>3. QED
  BY <1>1, <1>2, WalkEmpty

(* umount2 finds the old root when nobody took it away.                      *)
LEMMA DetachRule ==
    ASSUME NEW n, NEW root \in Paths, Pivoted(n, root), n.mounts[1].parent # 0, NEW d,
           Append(root, OldRoot) \in DOMAIN d, d[Append(root, OldRoot)] # "none"
    PROVE  Walk(n, d, <<OldRoot>>) # Nowhere /\ Walk(n, d, <<OldRoot>>).mnt # n.root
<1> DEFINE K == Len(n.mounts)
           x == Append(root, OldRoot)
           old == [mnt |-> K, path |-> x]
           host == [mnt |-> 1, path |-> <<>>]
<1>1. /\ Tree(n) /\ n \in NsType /\ n.root = K
      /\ n.mounts[K].base = root /\ n.mounts[K].fs = "disk" /\ n.mounts[K].parent = 0
      /\ n.mounts[1].parent = K /\ n.mounts[1].on = x /\ n.mounts[1].base = <<>>
      /\ \A i \in 2..(K - 1) : n.mounts[i].parent < i /\ (n.mounts[i].parent = 1 => n.mounts[i].on # <<>>)
      /\ K > 1
  BY DEF Pivoted, Tree
<1>2. /\ K \in Nat /\ DOMAIN n.mounts = 1..K /\ 1 \in 1..K /\ K \in 1..K
      /\ \A i \in 1..K : n.mounts[i].parent \in Nat
  BY <1>1, NsFacts
<1> HIDE DEF K, x
<1>3. Root(n, n.root) = [mnt |-> K, path |-> root] /\ Root(n, n.root) # Nowhere
  BY <1>1 DEF Root, Nowhere
<1>4. In(Root(n, n.root), OldRoot) = old
  BY <1>3 DEF In, x
<1>5. Kind(n, d, old) # "none"
  <2>1. old # Nowhere
    BY <1>1 DEF Nowhere
  <2>2. QED
    BY <1>1, <2>1 DEF Kind, x
<1>6. Walk(n, d, <<OldRoot>>) = Follow(n, old)
  BY <1>3, <1>4, <1>5, OneName DEF Enter
<1>7. \A i \in 1..K : i = 1 \/ i = K \/ i \in 2..(K - 1)
  BY <1>2
<1>8. Over(n, host) = {}
  <2> SUFFICES ASSUME NEW i \in 1..K, n.mounts[i].parent = 1, n.mounts[i].on = <<>> PROVE FALSE
    BY <1>2 DEF Over
  <2>1. i # K /\ i # 1
    BY <1>1, <1>2
  <2>2. QED
    BY <1>1, <1>7, <2>1
<1>9. Over(n, old) = {1}
  <2>1. ASSUME NEW i \in 1..K, n.mounts[i].parent = K PROVE i = 1
    <3>1. i # K
      BY <1>1, <1>2, <2>1
    <3>2. i \notin 2..(K - 1)
      <4> SUFFICES ASSUME i \in 2..(K - 1) PROVE FALSE
        OBVIOUS
      <4>1. n.mounts[i].parent < i
        BY <1>1
      <4>2. QED
        BY <1>2, <2>1, <4>1
    <3>3. QED
      BY <1>7, <3>1, <3>2
  <2>2. QED
    BY <1>1, <1>2, <2>1 DEF Over
<1>10. Covered(n, old) = host /\ Covered(n, host) = host
  <2>1. (CHOOSE i \in {1} : TRUE) = 1
    OBVIOUS
  <2>2. Covered(n, old) = Root(n, 1)
    BY <1>9, <2>1 DEF Covered
  <2>3. QED
    BY <1>1, <1>8, <2>2 DEF Covered, Root
<1> HIDE DEF old, host
<1>11. Follow(n, old) = host
  BY <1>1, <1>2, <1>10, FollowOnce DEF K
<1>12. host.mnt = 1 /\ host # Nowhere
  BY DEF host, Nowhere
<1>13. QED
  BY <1>1, <1>6, <1>11, <1>12

(* rmdir removes the directory unless something is in it.                    *)
LEMMA RmdirRule ==
    ASSUME NEW n, NEW root \in Paths, Alone(n, root), NEW d
    PROVE  LET x == Append(root, OldRoot)
               old == Walk(n, d, <<OldRoot>>)
           IN
           /\ CanRemove(n, d, old) => old.path = x /\ x \in DOMAIN d /\ ~Blocked(d, root) /\ Bare(d, root)
           /\ x \in DOMAIN d /\ d[x] = "dir" /\ Bare(d, root) => CanRemove(n, d, old)
<1> DEFINE x == Append(root, OldRoot)
           old == Walk(n, d, <<OldRoot>>)
           q == [mnt |-> n.root, path |-> x]
<1>1. Tree(n) /\ n \in NsType /\ n.root \in DOMAIN n.mounts /\ n.mounts[n.root].base = root /\ n.mounts[n.root].fs = "disk"
      /\ \A i \in DOMAIN n.mounts : n.mounts[i].parent = 0
  BY DEF Alone, Tree
<1>2. DOMAIN n.mounts = 1..Len(n.mounts) /\ Len(n.mounts) \in Nat /\ n.root # 0
  BY <1>1, NsFacts
<1>3. x \in Paths /\ x # root
  <2>1. x \in Paths /\ Len(x) = Len(root) + 1 /\ Len(root) \in Nat
    BY OldRootPath, AppendFacts
  <2>2. QED
    BY <2>1
<1>4. Root(n, n.root) = [mnt |-> n.root, path |-> root] /\ Root(n, n.root) # Nowhere
  BY <1>1, <1>2 DEF Root, Nowhere
<1> HIDE DEF x
<1>5. In(Root(n, n.root), OldRoot) = q
  BY <1>4 DEF In, x
<1>6. q # Nowhere /\ q.path = x /\ q.mnt = n.root
  BY <1>2 DEF Nowhere
<1> HIDE DEF q
<1>7. Kind(n, d, q) = IF x \in DOMAIN d THEN d[x] ELSE "none"
  BY <1>1, <1>6 DEF Kind
<1>8. Follow(n, q) = q
  <2>1. Over(n, q) = {}
    BY <1>1, <1>2, <1>6 DEF Over
  <2>2. QED
    BY <1>2, <2>1, FollowSelf
<1>9. old = IF Kind(n, d, q) = "none" THEN Nowhere ELSE q
  BY <1>4, <1>5, <1>8, OneName DEF Enter
<1> HIDE DEF old
<1>10. Kind(n, d, old) = "dir" => old = q
  <2>1. Kind(n, d, Nowhere) = "none"
    BY DEF Kind
  <2>2. QED
    BY <1>9, <2>1
<1>11. CanRemove(n, d, old) => old.path = x /\ x \in DOMAIN d /\ ~Blocked(d, root) /\ Bare(d, root)
  <2> SUFFICES ASSUME CanRemove(n, d, old) PROVE old.path = x /\ x \in DOMAIN d /\ ~Blocked(d, root) /\ Bare(d, root)
    OBVIOUS
  <2>1. Kind(n, d, old) = "dir" /\ \A y \in DOMAIN d : IsPrefix(old.path, y) => y = old.path
    BY DEF CanRemove
  <2>2. old = q /\ old.path = x
    BY <1>6, <1>10, <2>1
  <2>3. x \in DOMAIN d /\ d[x] = "dir"
    BY <1>7, <2>1, <2>2
  <2>4. QED
    BY <2>1, <2>2, <2>3 DEF Blocked, Bare, x
<1>12. x \in DOMAIN d /\ d[x] = "dir" /\ Bare(d, root) => CanRemove(n, d, old)
  <2> SUFFICES ASSUME x \in DOMAIN d, d[x] = "dir", Bare(d, root) PROVE CanRemove(n, d, old)
    OBVIOUS
  <2>1. Kind(n, d, q) = "dir"
    BY <1>7
  <2>2. old = q
    BY <1>9, <2>1
  <2>3. QED
    BY <1>1, <1>3, <1>6, <2>1, <2>2 DEF CanRemove, Bare, x
<1>13. QED
  BY <1>11, <1>12 DEF old, x

(* In a root that is left alone only the disk decides where a walk ends.     *)
LEMMA AloneSame ==
    ASSUME NEW root \in Paths, Plain(root), NEW a, Alone(a, root), NEW b, Alone(b, root), NEW d, NEW e, Clean(d) = Clean(e),
           NEW path \in Paths, Plain(path)
    PROVE  Kind(a, d, Walk(a, d, path)) = Kind(b, e, Walk(b, e, path))
<1> DEFINE At(n, p) == [mnt |-> n.root, path |-> root \o p]
           T == {p \in Paths : Plain(p) =>
                   /\ Plain(root \o p)
                   /\ \/ Walk(a, d, p) = Nowhere /\ Walk(b, e, p) = Nowhere
                      \/ Walk(a, d, p) = At(a, p) /\ Walk(b, e, p) = At(b, p)}
<1>1. \A q : Plain(q) => (q \in DOMAIN d <=> q \in DOMAIN e) /\ (q \in DOMAIN d => d[q] = e[q])
  <2> DEFINE A == {q \in DOMAIN d : Plain(q)}
             B == {q \in DOMAIN e : Plain(q)}
             f == Clean(d)
             g == Clean(e)
  <2>1. f = [q \in A |-> d[q]] /\ g = [q \in B |-> e[q]]
    BY DEF Clean
  <2>2. DOMAIN f = A /\ DOMAIN g = B /\ (\A q \in A : f[q] = d[q]) /\ (\A q \in B : g[q] = e[q])
    <3> HIDE DEF f, g, A, B
    <3> QED BY <2>1
  <2>3. f = g
    OBVIOUS
  <2> HIDE DEF f, g
  <2>4. QED
    BY <2>2, <2>3
<1>2. ASSUME NEW n, Alone(n, root)
      PROVE  /\ n.root # 0 /\ Len(n.mounts) \in Nat /\ n.mounts[n.root].fs = "disk" /\ n.mounts[n.root].base = root
             /\ \A q : q.mnt = n.root => Follow(n, q) = q
  <2>1. Tree(n) /\ n \in NsType /\ n.root \in DOMAIN n.mounts /\ n.mounts[n.root].base = root /\ n.mounts[n.root].fs = "disk"
        /\ \A i \in DOMAIN n.mounts : n.mounts[i].parent = 0
    BY <1>2 DEF Alone, Tree
  <2>2. DOMAIN n.mounts = 1..Len(n.mounts) /\ Len(n.mounts) \in Nat /\ n.root # 0
    BY <2>1, NsFacts
  <2>3. ASSUME NEW q, q.mnt = n.root PROVE Follow(n, q) = q
    <3>1. Over(n, q) = {}
      BY <2>1, <2>2, <2>3 DEF Over
    <3>2. QED
      BY <2>2, <3>1, FollowSelf
  <2>4. QED
    BY <2>1, <2>2, <2>3
<1>3. ASSUME NEW n, Alone(n, root), NEW disk0, NEW p \in Paths, NEW x \in Names, Walk(n, disk0, p) = At(n, p)
      PROVE  Walk(n, disk0, Append(p, x)) = IF Kind(n, disk0, At(n, Append(p, x))) = "none" THEN Nowhere ELSE At(n, Append(p, x))
  <2>1. Append(root \o p, x) = root \o Append(p, x)
    BY AppendConcat, Zenon
  <2>2. In(At(n, p), x) = At(n, Append(p, x))
    BY <2>1 DEF In
  <2>3. At(n, p) # Nowhere
    BY <1>2, <1>3 DEF Nowhere
  <2>4. Walk(n, disk0, Append(p, x)) = Enter(n, disk0, At(n, p), x)
    <3>1. Walk(n, disk0, Append(p, x)) = Enter(n, disk0, Walk(n, disk0, p), x)
      BY WalkAppend
    <3> HIDE DEF At
    <3>2. QED
      BY <1>3, <3>1
  <2>5. Follow(n, At(n, Append(p, x))) = At(n, Append(p, x))
    BY <1>2, <1>3
  <2> HIDE DEF At
  <2>6. QED
    BY <2>2, <2>3, <2>4, <2>5 DEF Enter
<1>4. ASSUME NEW n, Alone(n, root), NEW disk0, NEW p
      PROVE  /\ At(n, p) # Nowhere
             /\ Kind(n, disk0, At(n, p)) = IF root \o p \in DOMAIN disk0 THEN disk0[root \o p] ELSE "none"
  <2>1. At(n, p) # Nowhere
    BY <1>2, <1>4 DEF Nowhere
  <2>2. At(n, p).mnt = n.root /\ At(n, p).path = root \o p
    OBVIOUS
  <2> HIDE DEF At
  <2>3. QED
    BY <1>2, <1>4, <2>1, <2>2 DEF Kind
<1>5. <<>> \in T
  <2>1. <<>> \in Paths /\ root \o <<>> = root
    BY ConcatAppend, ConcatEmptySeq DEF Paths
  <2>2. Walk(a, d, <<>>) = At(a, <<>>)
    BY <1>2, <2>1, WalkEmpty DEF Root
  <2>3. Walk(b, e, <<>>) = At(b, <<>>)
    BY <1>2, <2>1, WalkEmpty DEF Root
  <2> HIDE DEF At
  <2>4. QED
    BY <2>1, <2>2, <2>3
<1>6. ASSUME NEW p \in Paths, NEW x \in Names, p \in T PROVE Append(p, x) \in T
  <2> DEFINE y == Append(p, x)
  <2>1. y \in Paths
    BY AppendFacts
  <2> SUFFICES ASSUME Plain(y)
               PROVE  /\ Plain(root \o y)
                      /\ \/ Walk(a, d, y) = Nowhere /\ Walk(b, e, y) = Nowhere
                         \/ Walk(a, d, y) = At(a, y) /\ Walk(b, e, y) = At(b, y)
    <3> HIDE DEF At, y
    <3> QED BY <2>1 DEF y
  <2>2. Plain(p) /\ x # OldRoot
    BY PlainFacts
  <2>3. /\ Plain(root \o p)
        /\ \/ Walk(a, d, p) = Nowhere /\ Walk(b, e, p) = Nowhere
           \/ Walk(a, d, p) = At(a, p) /\ Walk(b, e, p) = At(b, p)
    <3> HIDE DEF At
    <3> QED BY <1>6, <2>2
  <2>4. Plain(root \o y)
    <3>1. root \o p \in Paths /\ root \o y = Append(root \o p, x)
      BY ConcatAppend
    <3>2. QED
      BY <2>2, <2>3, <3>1, PlainFacts
  <2>5. CASE Walk(a, d, p) = Nowhere /\ Walk(b, e, p) = Nowhere
    <3>1. Walk(a, d, y) = Nowhere /\ Walk(b, e, y) = Nowhere
      BY <2>5, WalkAppend DEF Enter
    <3> HIDE DEF At, y
    <3>2. QED
      BY <2>4, <3>1
  <2>6. CASE Walk(a, d, p) = At(a, p) /\ Walk(b, e, p) = At(b, p)
    <3> HIDE DEF At
    <3>1. Kind(a, d, At(a, y)) = Kind(b, e, At(b, y))
      BY <1>1, <1>4, <2>4
    <3>2. /\ Walk(a, d, y) = IF Kind(a, d, At(a, y)) = "none" THEN Nowhere ELSE At(a, y)
          /\ Walk(b, e, y) = IF Kind(b, e, At(b, y)) = "none" THEN Nowhere ELSE At(b, y)
      BY <1>3, <2>6
    <3> HIDE DEF y
    <3>3. QED
      BY <2>4, <3>1, <3>2
  <2>7. QED
    <3> HIDE DEF At, y
    <3> QED BY <2>3, <2>5, <2>6
<1>7. path \in T
  <2>1. \A p \in Paths, x \in Names : p \in T => Append(p, x) \in T
    <3> HIDE DEF T
    <3> QED BY <1>6
  <2> HIDE DEF T
  <2>2. QED
    BY <1>5, <2>1, PathInduction
<1>8. /\ Plain(root \o path)
      /\ \/ Walk(a, d, path) = Nowhere /\ Walk(b, e, path) = Nowhere
         \/ Walk(a, d, path) = At(a, path) /\ Walk(b, e, path) = At(b, path)
  <2> HIDE DEF At
  <2> QED BY <1>7
<1>9. Kind(a, d, Nowhere) = Kind(b, e, Nowhere)
  BY DEF Kind
<1> HIDE DEF At
<1>10. Kind(a, d, At(a, path)) = Kind(b, e, At(b, path))
  BY <1>1, <1>4, <1>8
<1>11. QED
  BY <1>8, <1>9, <1>10

---------------------------------------------------------------------------
(* What a run has shown about its policy and the disk.                       *)

CwdPath(p) == IF p.cwd = None THEN <<>> ELSE p.cwd
CwdGood(n, D, p) == Kind(n, D, Walk(n, D, CwdPath(p))) = "dir"

(* It was let into its root; its working directory is there.                 *)
Entered(p, d) ==
    /\ p.root # None /\ p.root # <<>> /\ ~Blocked(d, p.root)
    /\ \E h : Past(p, Clean(d), All(p), h) /\ RootGood(h, Clean(d), p)
Settled(p, d) ==
    \/ p.root = None /\ \E n : Past(p, Clean(d), All(p), n) /\ CwdGood(n, Clean(d), p)
    \/ p.root # None /\ \E a : Alone(a, p.root) /\ CwdGood(a, Clean(d), p)

(* A reason to fail that any run of the policy has.                          *)
Fails(p, d) ==
    \/ \E k \in Nat : \E n : k < All(p) /\ Past(p, Clean(d), k, n) /\ ~RuleGood(n, Clean(d), p, k + 1)
    \/ p.root # None /\ \E n : Past(p, Clean(d), All(p), n) /\ ~RootGood(n, Clean(d), p)
    \/ p.root # None /\ (p.root = <<>> \/ Blocked(d, p.root))
    \/ p.root # None /\ ~Bare(d, p.root)
    \/ p.root = None /\ \E n : Past(p, Clean(d), All(p), n) /\ ~CwdGood(n, Clean(d), p)
    \/ p.root # None /\ \E a : Alone(a, p.root) /\ ~CwdGood(a, Clean(d), p)

(* Where a run is, at rule i of a list, whoever it met.                      *)
InRoot(p, step) == step \in {"cwd", "running"} /\ p.root # None
OnHost(p, step) == step \in {"cwd", "running"} /\ p.root = None

Sofar(p, step, i, n, d) ==
    /\ step \in Lists => Past(p, Clean(d), Before(p, step) + (i - 1), n)
    /\ step = "root_bind" \/ OnHost(p, step) => Past(p, Clean(d), All(p), n)
    /\ step \in {"root_mkdir", "root_pivot"} =>
         \E h : Past(p, Clean(d), All(p), h) /\ RootGood(h, Clean(d), p) /\ n = RootNs(h, Clean(d), p)
    /\ step \in {"root_detach", "root_rmdir"} \/ InRoot(p, step) => Entered(p, d)
    /\ InRoot(p, step) => Bare(d, p.root)
    /\ step = "root_detach" => \A j \in DOMAIN n.mounts : j # 1 => Plain(n.mounts[j].on)
    /\ step = "running" => Settled(p, d)

(* And where it is when it met nobody.                                       *)
Smooth(p, step, n, d) ==
    /\ step \in {"root_pivot", "root_detach", "root_rmdir"} => Append(p.root, OldRoot) \in DOMAIN d
    /\ step = "root_detach" => n.mounts[1].parent # 0
    /\ step = "failed" => Fails(p, d)

LEMMA SofarSame ==
    ASSUME NEW p, PolicyOk(p), PlainPolicy(p), NEW d, NEW e, SameDisk(d, e)
    PROVE  /\ \A step, i, n : Sofar(p, step, i, n, d) => Sofar(p, step, i, n, e)
           /\ Fails(p, d) => Fails(p, e)
<1>1. Clean(d) = Clean(e)
  BY DEF SameDisk
<1>2. p.root # None => (Blocked(d, p.root) <=> Blocked(e, p.root)) /\ (Bare(d, p.root) <=> Bare(e, p.root))
  BY PlainRoot DEF SameDisk
<1>3. Entered(p, d) => Entered(p, e)
  BY <1>1, <1>2 DEF Entered
<1>4. Settled(p, d) => Settled(p, e)
  BY <1>1 DEF Settled
<1>5. Fails(p, d) => Fails(p, e)
  BY <1>1, <1>2 DEF Fails
<1>6. ASSUME NEW step, NEW i, NEW n, Sofar(p, step, i, n, d) PROVE Sofar(p, step, i, n, e)
  BY <1>1, <1>2, <1>3, <1>4, <1>6 DEF Sofar, InRoot
<1>7. QED
  BY <1>5, <1>6

(* A run that failed for such a reason and one that went through.            *)
LEMMA Conflict ==
    ASSUME NEW p, PolicyOk(p), PlainPolicy(p), NEW d, Fails(p, d), NEW i, NEW n, Sofar(p, "running", i, n, d)
    PROVE  FALSE
<1> DEFINE D == Clean(d)
<1>1. All(p) \in Nat
  BY ListFacts
<1>2. Settled(p, d)
  BY DEF Sofar
<1>3. p.root # None => Entered(p, d) /\ Bare(d, p.root)
  BY DEF Sofar, InRoot
<1>4. PICK m : Past(p, D, All(p), m) /\ (p.root # None => RootGood(m, D, p)) /\ (p.root = None => CwdGood(m, D, p))
  <2>1. CASE p.root = None
    BY <1>2, <2>1 DEF Settled
  <2>2. CASE p.root # None
    BY <1>3, <2>2 DEF Entered
  <2>3. QED
    BY <2>1, <2>2
<1> HIDE DEF D
<1>5. ASSUME NEW h, Past(p, D, All(p), h) PROVE h = m
  BY <1>1, <1>4, <1>5, PastSame
<1>6. ASSUME NEW k \in Nat, NEW h, k < All(p), Past(p, D, k, h) PROVE RuleGood(h, D, p, k + 1)
  BY <1>1, <1>4, <1>6, PastSame
<1>7. ASSUME p.root # None, NEW a, Alone(a, p.root) PROVE CwdGood(a, D, p)
  <2>1. PICK b : Alone(b, p.root) /\ CwdGood(b, D, p)
    BY <1>2, <1>7 DEF Settled, D
  <2>2. p.root \in Paths /\ Plain(p.root)
    BY <1>7, PlainRoot
  <2>3. CwdPath(p) \in Paths /\ Plain(CwdPath(p))
    BY PlainRoot DEF CwdPath, Paths, Plain
  <2>4. Kind(a, D, Walk(a, D, CwdPath(p))) = Kind(b, D, Walk(b, D, CwdPath(p)))
    BY <1>7, <2>1, <2>2, <2>3, AloneSame
  <2>5. QED
    BY <2>1, <2>4 DEF CwdGood
<1>8. CASE \E k \in Nat : \E h : k < All(p) /\ Past(p, D, k, h) /\ ~RuleGood(h, D, p, k + 1)
  BY <1>6, <1>8
<1>9. CASE p.root # None /\ \E h : Past(p, D, All(p), h) /\ ~RootGood(h, D, p)
  BY <1>4, <1>5, <1>9
<1>10. CASE p.root # None /\ (p.root = <<>> \/ Blocked(d, p.root))
  BY <1>3, <1>10 DEF Entered
<1>11. CASE p.root # None /\ ~Bare(d, p.root)
  BY <1>3, <1>11
<1>12. CASE p.root = None /\ \E h : Past(p, D, All(p), h) /\ ~CwdGood(h, D, p)
  BY <1>4, <1>5, <1>12
<1>13. CASE p.root # None /\ \E a : Alone(a, p.root) /\ ~CwdGood(a, D, p)
  BY <1>7, <1>13
<1>14. QED
  BY <1>8, <1>9, <1>10, <1>11, <1>12, <1>13 DEF Fails, D

---------------------------------------------------------------------------
(* The second invariant: what every run has shown, and who met whom.         *)

Fate(r) ==
    /\ Sofar(job[r], pc[r], at[r], ns[r], disk)
    /\ met[r] \/ Smooth(job[r], pc[r], ns[r], disk)

Company ==
    \A q, r \in Runs : q # r /\ Active(q) /\ Active(r) /\ job[q].root = job[r].root => met[q]

History == met \in [Runs -> BOOLEAN] /\ Company /\ (Reserved => \A r \in Runs : Fate(r))

(* Steps about which there is nothing to know.                               *)
Idle == {"off", "probe", "namespace", "refused", "denied", "killed"}

LEMMA IdleFate ==
    ASSUME NEW p, NEW step, step \in Idle, NEW i, NEW n, NEW d
    PROVE  Sofar(p, step, i, n, d) /\ Smooth(p, step, n, d)
  BY DEF Idle, Sofar, Smooth, Lists, InRoot, OnHost

LEMMA FailedFate ==
    ASSUME NEW p, NEW i, NEW n, NEW d
    PROVE  Sofar(p, "failed", i, n, d) /\ (Fails(p, d) => Smooth(p, "failed", n, d))
  BY DEF Sofar, Smooth, Lists, InRoot, OnHost

(* What the policy of a run is when no policy names the directory.           *)
LEMMA ReservedFacts ==
    ASSUME Inv, Reserved, NEW r \in Runs
    PROVE  PolicyOk(job[r]) /\ PlainPolicy(job[r])
  BY PolicyFacts DEF Inv, Reserved

(* Only run r moves, and nothing on the disk.                                *)
LEMMA MovesHistory ==
    ASSUME History, NEW r \in Runs, UNCHANGED <<job, disk, met>>,
           \A q \in Runs : q # r => pc'[q] = pc[q] /\ at'[q] = at[q] /\ ns'[q] = ns[q],
           Active(r)' => Active(r), Reserved => Fate(r)'
    PROVE  History'
<1>1. Company'
  <2> SUFFICES ASSUME NEW q \in Runs, NEW x \in Runs, q # x, Active(q)', Active(x)', job[q].root = job[x].root
               PROVE  met[q]
    BY DEF Company
  <2>1. Active(q) /\ Active(x)
    <3>1. CASE q = r
      <4>1. x # r
        BY <3>1
      <4>2. QED
        BY <3>1, <4>1 DEF Active
    <3>2. CASE q # r
      <4>1. CASE x = r
        BY <3>2, <4>1 DEF Active
      <4>2. CASE x # r
        BY <3>2, <4>2 DEF Active
      <4>3. QED
        BY <4>1, <4>2
    <3>3. QED
      BY <3>1, <3>2
  <2>2. QED
    BY <2>1 DEF History, Company
<1>2. Reserved' <=> Reserved
  BY DEF Reserved
<1>3. ASSUME Reserved, NEW q \in Runs, q # r PROVE Fate(q)'
  <2>1. Fate(q)
    BY <1>3 DEF History
  <2>2. QED
    BY <1>3, <2>1 DEF Fate
<1>4. QED
  BY <1>1, <1>2, <1>3 DEF History

LEMMA GoHistory ==
    ASSUME Inv, History, NEW r \in Runs, NEW next, NEW n, Go(r, next, n), Active(r),
           Reserved => /\ Sofar(job[r], next, 1, n, disk)
                       /\ met[r] \/ Smooth(job[r], next, n, disk)
    PROVE  History'
<1>1. pc \in [Runs -> Steps] /\ at \in [Runs -> Nat] /\ ns \in [Runs -> NsType]
  BY DEF Inv
<1>2. /\ pc'[r] = next /\ at'[r] = 1 /\ ns'[r] = n /\ UNCHANGED <<job, disk, met>>
      /\ \A q \in Runs : q # r => pc'[q] = pc[q] /\ at'[q] = at[q] /\ ns'[q] = ns[q]
  BY <1>1 DEF Go
<1>3. Reserved => Fate(r)'
  BY <1>2 DEF Fate
<1>4. QED
  BY <1>2, <1>3, MovesHistory

LEMMA IdleHistory ==
    ASSUME Inv, History, NEW r \in Runs, NEW next \in Idle, NEW n, Go(r, next, n), Active(r)
    PROVE  History'
  BY IdleFate, GoHistory

LEMMA FailHistory ==
    ASSUME Inv, History, NEW r \in Runs, Fail(r), Active(r), Reserved => met[r] \/ Fails(job[r], disk)
    PROVE  History'
<1>1. Go(r, "failed", HostNs)
  BY DEF Fail
<1>2. Reserved => /\ Sofar(job[r], "failed", 1, HostNs, disk)
                  /\ met[r] \/ Smooth(job[r], "failed", HostNs, disk)
  BY FailedFate
<1> HIDE DEF HostNs
<1>3. QED
  BY <1>1, <1>2, GoHistory

LEMMA InitHistory ==
    ASSUME Init
    PROVE  History
<1>1. pc = [r \in Runs |-> "off"] /\ met = [r \in Runs |-> FALSE]
  BY DEF Init
<1>2. ASSUME NEW r \in Runs PROVE Fate(r)
  <2>1. pc[r] = "off" /\ "off" \in Idle
    BY <1>1 DEF Idle
  <2>2. QED
    BY <2>1, IdleFate DEF Fate
<1>3. Company
  BY <1>1 DEF Company, Active
<1>4. QED
  BY <1>1, <1>2, <1>3 DEF History

LEMMA StartHistory ==
    ASSUME Inv, History, NEW r \in Runs, Start(r)
    PROVE  History'
<1> DEFINE others == {q \in Runs \ {r} : Active(q) /\ job[q].root = job[r].root}
<1>1. pc \in [Runs -> Steps] /\ met \in [Runs -> BOOLEAN]
  BY DEF Inv, History
<1>2. /\ pc[r] = "off" /\ pc' = [pc EXCEPT ![r] = "probe"]
      /\ met' = [q \in Runs |-> met[q] \/ q \in others \/ (q = r /\ others # {})]
      /\ UNCHANGED <<job, disk, at, ns>>
  BY DEF Start
<1>3. pc'[r] = "probe" /\ \A q \in Runs : q # r => pc'[q] = pc[q]
  BY <1>1, <1>2
<1>4. met' \in [Runs -> BOOLEAN] /\ \A q \in Runs : (met[q] => met'[q]) /\ (q \in others => met'[q])
  BY <1>1, <1>2
<1>5. others # {} => met'[r]
  BY <1>1, <1>2
<1>6. Company'
  <2> SUFFICES ASSUME NEW q \in Runs, NEW x \in Runs, q # x, Active(q)', Active(x)', job[q].root = job[x].root
               PROVE  met'[q]
    BY <1>2 DEF Company
  <2>1. CASE q = r
    <3>1. x \in others
      BY <1>3, <2>1 DEF Active
    <3>2. QED
      BY <1>5, <2>1, <3>1
  <2>2. CASE q # r /\ x = r
    <3>1. q \in others
      BY <1>3, <2>2 DEF Active
    <3>2. QED
      BY <1>4, <3>1
  <2>3. CASE q # r /\ x # r
    <3>1. Active(q) /\ Active(x)
      BY <1>3, <2>3 DEF Active
    <3>2. QED
      BY <1>4, <3>1 DEF History, Company
  <2>4. QED
    BY <2>1, <2>2, <2>3
<1>7. Reserved' <=> Reserved
  BY <1>2 DEF Reserved
<1>8. ASSUME Reserved, NEW q \in Runs PROVE Fate(q)'
  <2>1. CASE q = r
    <3>1. pc'[q] = "probe" /\ "probe" \in Idle
      BY <1>3, <2>1 DEF Idle
    <3>2. QED
      BY <3>1, IdleFate DEF Fate
  <2>2. CASE q # r
    <3>1. Fate(q)
      BY <1>8 DEF History
    <3>2. QED
      BY <1>2, <1>3, <1>4, <2>2, <3>1 DEF Fate
  <2>3. QED
    BY <2>1, <2>2
<1>9. QED
  BY <1>4, <1>6, <1>7, <1>8 DEF History

LEMMA PreflightHistory ==
    ASSUME Inv, History, NEW r \in Runs, Preflight(r)
    PROVE  History'
<1>1. pc[r] = "probe" /\ Active(r)
  BY DEF Preflight, Active
<1>2. CASE ~NeedsNamespace(job[r]) /\ Go(r, "cwd", HostNs)
  <2> DEFINE p == job[r]
  <2>1. p.root = None /\ p.tmpfs = <<>> /\ p.bind = <<>> /\ p.proc = <<>>
    BY <1>2 DEF NeedsNamespace
  <2>2. All(p) = 0
    BY <2>1 DEF All
  <2>3. Past(p, Clean(disk), All(p), HostNs)
    BY <2>2, PastInit
  <2> HIDE DEF HostNs, p
  <2>4. Sofar(p, "cwd", 1, HostNs, disk) /\ Smooth(p, "cwd", HostNs, disk)
    BY <2>1, <2>3 DEF Sofar, Smooth, Lists, InRoot, OnHost
  <2>5. QED
    BY <1>1, <1>2, <2>4, GoHistory DEF p
<1>3. CASE Go(r, "namespace", HostNs)
  BY <1>1, <1>3, IdleHistory DEF Idle
<1>4. CASE Go(r, "refused", HostNs)
  BY <1>1, <1>4, IdleHistory DEF Idle
<1>5. QED
  BY <1>2, <1>3, <1>4 DEF Preflight

LEMMA NamespaceHistory ==
    ASSUME Inv, History, NEW r \in Runs, Namespace(r)
    PROVE  History'
<1>1. pc[r] = "namespace" /\ Active(r)
  BY DEF Namespace, Active
<1>2. CASE Go(r, "tmpfs", HostNs)
  <2> DEFINE p == job[r]
  <2>1. Past(p, Clean(disk), Before(p, "tmpfs") + (1 - 1), HostNs)
    <3>1. Before(p, "tmpfs") + (1 - 1) = 0
      BY DEF Before
    <3>2. QED
      BY <3>1, PastInit
  <2> HIDE DEF HostNs, p
  <2>2. Sofar(p, "tmpfs", 1, HostNs, disk) /\ Smooth(p, "tmpfs", HostNs, disk)
    BY <2>1 DEF Sofar, Smooth, Lists, InRoot, OnHost
  <2>3. QED
    BY <1>1, <1>2, <2>2, GoHistory DEF p
<1>3. CASE Go(r, "denied", HostNs)
  BY <1>1, <1>3, IdleHistory DEF Idle
<1>4. QED
  BY <1>2, <1>3 DEF Namespace

LEMMA KilledHistory ==
    ASSUME Inv, History, NEW r \in Runs, Killed(r)
    PROVE  History'
  BY IdleHistory DEF Idle, Killed

(* What is known when a rule of a list is next.                              *)
LEMMA RuleNext ==
    ASSUME NEW p, PolicyOk(p), PlainPolicy(p), NEW step \in Lists, NEW i \in 1..Listed(p, step), NEW n, NEW d,
           Sofar(p, step, i, n, d)
    PROVE  /\ Good(n, d, p, step, i) => Sofar(p, step, i + 1, After(n, d, p, step, i), d)
           /\ ~Good(n, d, p, step, i) => Fails(p, d)
<1> DEFINE D == Clean(d)
           b == Before(p, step)
           k == b + (i - 1)
<1>1. /\ StepAt(p, b + i) = step /\ IndexAt(p, b + i) = i /\ b \in Nat /\ b + i \in 1..All(p) /\ All(p) \in Nat
  BY RuleAt, ListFacts
<1>2. Past(p, D, k, n)
  BY DEF Sofar
<1> HIDE DEF b, D
<1>3. k \in Nat /\ k + 1 = b + i /\ k < All(p) /\ k \in 0..All(p) /\ b + ((i + 1) - 1) = k + 1
  BY <1>1
<1> HIDE DEF k
<1>4. Early(n, p.root) /\ PlainNs(n)
  BY <1>2, <1>3, PastFacts
<1>5. /\ Good(n, D, p, step, i) <=> Good(n, d, p, step, i)
      /\ Good(n, d, p, step, i) => After(n, D, p, step, i) = After(n, d, p, step, i)
  BY <1>4, RuleClean DEF D
<1>6. /\ RuleGood(n, D, p, k + 1) <=> Good(n, D, p, step, i)
      /\ RuleNs(n, D, p, k + 1) = After(n, D, p, step, i)
  BY <1>1, <1>3 DEF RuleGood, RuleNs
<1>7. ASSUME Good(n, d, p, step, i) PROVE Sofar(p, step, i + 1, After(n, d, p, step, i), d)
  <2> DEFINE c == After(n, d, p, step, i)
  <2>1. c = RuleNs(n, D, p, k + 1) /\ RuleGood(n, D, p, k + 1)
    BY <1>5, <1>6, <1>7
  <2> HIDE DEF c
  <2>2. Past(p, D, k + 1, c)
    BY <1>2, <1>3, <2>1, PastStep
  <2>3. Past(p, D, b + ((i + 1) - 1), c)
    BY <1>3, <2>2
  <2>4. Sofar(p, step, i + 1, c, d)
    BY <2>3 DEF Sofar, Lists, InRoot, OnHost, D, b
  <2>5. QED
    BY <2>4 DEF c
<1>8. ASSUME ~Good(n, d, p, step, i) PROVE Fails(p, d)
  <2>1. ~RuleGood(n, D, p, k + 1)
    BY <1>5, <1>6, <1>8
  <2>2. QED
    BY <1>2, <1>3, <2>1 DEF Fails, D
<1>9. QED
  BY <1>7, <1>8

LEMMA RuleHistory ==
    ASSUME Inv, History, NEW r \in Runs, pc[r] \in Lists, at[r] \in 1..Listed(job[r], pc[r]),
           \/ Good(ns[r], disk, job[r], pc[r], at[r]) /\ Step(r, After(ns[r], disk, job[r], pc[r], at[r]))
           \/ ~Good(ns[r], disk, job[r], pc[r], at[r]) /\ Fail(r)
    PROVE  History'
<1> DEFINE p == job[r]
           n == After(ns[r], disk, job[r], pc[r], at[r])
<1>1. Active(r)
  BY DEF Active, Lists
<1>2. Reserved => PolicyOk(p) /\ PlainPolicy(p) /\ Sofar(p, pc[r], at[r], ns[r], disk)
  BY ReservedFacts DEF History, Fate
<1>3. Reserved => /\ Good(ns[r], disk, p, pc[r], at[r]) => Sofar(p, pc[r], at[r] + 1, n, disk)
                  /\ ~Good(ns[r], disk, p, pc[r], at[r]) => Fails(p, disk)
  BY <1>2, RuleNext
<1>4. CASE Good(ns[r], disk, p, pc[r], at[r]) /\ Step(r, n)
  <2> HIDE DEF n
  <2>1. pc \in [Runs -> Steps] /\ at \in [Runs -> Nat] /\ ns \in [Runs -> NsType]
    BY DEF Inv
  <2>2. /\ pc' = pc /\ at'[r] = at[r] + 1 /\ ns'[r] = n /\ UNCHANGED <<job, disk, met>>
        /\ \A q \in Runs : q # r => pc'[q] = pc[q] /\ at'[q] = at[q] /\ ns'[q] = ns[q]
    BY <1>4, <2>1 DEF Step
  <2>3. Smooth(p, pc[r], n, disk)
    BY DEF Smooth, Lists
  <2>4. Reserved => Fate(r)'
    BY <1>3, <1>4, <2>2, <2>3 DEF Fate
  <2>5. QED
    BY <1>1, <2>2, <2>4, MovesHistory
<1>5. CASE ~Good(ns[r], disk, p, pc[r], at[r]) /\ Fail(r)
  BY <1>1, <1>3, <1>5, FailHistory
<1>6. QED
  BY <1>4, <1>5

(* A list is done.                                                           *)
Onward(p, step) ==
    IF step = "tmpfs" THEN "bind" ELSE IF step = "bind" THEN "proc"
    ELSE IF p.root = None THEN "cwd" ELSE "root_bind"

LEMMA ListDone ==
    ASSUME NEW p, PolicyOk(p), NEW step \in Lists, NEW n, NEW d, Sofar(p, step, 1 + Listed(p, step), n, d)
    PROVE  Sofar(p, Onward(p, step), 1, n, d) /\ Smooth(p, Onward(p, step), n, d)
<1> DEFINE a == Len(p.tmpfs)
           b == Len(p.bind)
           c == Len(p.proc)
           D == Clean(d)
<1>1. a \in Nat /\ b \in Nat /\ c \in Nat
  BY ListFacts
<1>2. Past(p, D, Before(p, step) + ((1 + Listed(p, step)) - 1), n)
  BY DEF Sofar
<1> HIDE DEF a, b, c, D
<1>3. CASE step = "tmpfs"
  <2>1. Before(p, step) = 0 /\ Listed(p, step) = a /\ Before(p, "bind") = a
    BY <1>3 DEF Before, Listed, a
  <2>2. 0 + ((1 + a) - 1) = a + (1 - 1)
    BY <1>1
  <2>3. Past(p, D, Before(p, "bind") + (1 - 1), n)
    BY <1>2, <2>1, <2>2
  <2>4. QED
    BY <1>3, <2>3 DEF Onward, Sofar, Smooth, Lists, InRoot, OnHost, D
<1>4. CASE step = "bind"
  <2>1. Before(p, step) = a /\ Listed(p, step) = b /\ Before(p, "proc") = a + b
    BY <1>4 DEF Before, Listed, a, b
  <2>2. a + ((1 + b) - 1) = (a + b) + (1 - 1)
    BY <1>1
  <2>3. Past(p, D, Before(p, "proc") + (1 - 1), n)
    BY <1>2, <2>1, <2>2
  <2>4. QED
    BY <1>4, <2>3 DEF Onward, Sofar, Smooth, Lists, InRoot, OnHost, D
<1>5. CASE step = "proc"
  <2>1. Before(p, step) = a + b /\ Listed(p, step) = c /\ All(p) = a + b + c
    BY <1>5 DEF Before, Listed, All, a, b, c
  <2>2. (a + b) + ((1 + c) - 1) = a + b + c
    BY <1>1
  <2>3. Past(p, D, All(p), n)
    BY <1>2, <2>1, <2>2
  <2>4. QED
    BY <1>5, <2>3 DEF Onward, Sofar, Smooth, Lists, InRoot, OnHost, D
<1>6. QED
  BY <1>3, <1>4, <1>5 DEF Lists

LEMMA DoneHistory ==
    ASSUME Inv, History, NEW r \in Runs, pc[r] \in Lists, at[r] > Listed(job[r], pc[r]),
           Go(r, Onward(job[r], pc[r]), ns[r])
    PROVE  History'
<1> DEFINE p == job[r]
<1>1. Active(r)
  BY DEF Active, Lists
<1>2. at[r] = 1 + Listed(p, pc[r])
  <2>1. at[r] \in 1..(1 + Listed(p, pc[r]))
    BY MountingFacts DEF Lists
  <2>2. Listed(p, pc[r]) \in Nat
    BY PolicyFacts DEF Inv, Listed
  <2> HIDE DEF p
  <2>3. QED
    BY <2>1, <2>2 DEF p
<1>3. Reserved => PolicyOk(p) /\ Sofar(p, pc[r], 1 + Listed(p, pc[r]), ns[r], disk)
  BY <1>2, ReservedFacts DEF History, Fate
<1>4. Reserved => Sofar(p, Onward(p, pc[r]), 1, ns[r], disk) /\ Smooth(p, Onward(p, pc[r]), ns[r], disk)
  BY <1>3, ListDone
<1>5. QED
  BY <1>1, <1>4, GoHistory

LEMMA TmpfsHistory ==
    ASSUME Inv, History, NEW r \in Runs, Tmpfs(r)
    PROVE  History'
<1> DEFINE p == job[r]
           place == Walk(ns[r], disk, p.tmpfs[at[r]])
           n == Mount(ns[r], place, "tmpfs", <<>>, FALSE, <<"tmpfs", at[r]>>)
           good == Kind(ns[r], disk, place) = "dir" /\ AttachOk(n, disk, p, p.tmpfs[at[r]])
<1>1. pc[r] = "tmpfs" /\ pc[r] \in Lists /\ Listed(p, pc[r]) = Len(p.tmpfs)
  BY DEF Tmpfs, Lists, Listed
<1>2. Target(p, "tmpfs", at[r]) = p.tmpfs[at[r]] /\ After(ns[r], disk, p, "tmpfs", at[r]) = n
  BY DEF Target, After
<1>3. good <=> Good(ns[r], disk, p, "tmpfs", at[r])
  <2> HIDE DEF n
  <2> QED BY <1>2 DEF Good, Fits
<1>4. CASE at[r] > Len(p.tmpfs) /\ Go(r, "bind", ns[r])
  <2>1. Onward(p, pc[r]) = "bind"
    BY <1>1 DEF Onward
  <2>2. QED
    BY <1>1, <1>4, <2>1, DoneHistory
<1>5. CASE at[r] <= Len(p.tmpfs) /\ IF good THEN Step(r, n) ELSE Fail(r)
  <2>1. at[r] \in 1..Listed(p, pc[r])
    <3>1. at[r] \in 1..(1 + Len(p.tmpfs)) /\ Len(p.tmpfs) \in Nat
      BY <1>1, MountingFacts, PolicyFacts
    <3>2. QED
      BY <1>1, <1>5, <3>1
  <2> HIDE DEF n, good
  <2>2. \/ Good(ns[r], disk, p, pc[r], at[r]) /\ Step(r, After(ns[r], disk, p, pc[r], at[r]))
        \/ ~Good(ns[r], disk, p, pc[r], at[r]) /\ Fail(r)
    BY <1>1, <1>2, <1>3, <1>5
  <2>3. QED
    BY <1>1, <2>1, <2>2, RuleHistory
<1>6. QED
  BY <1>4, <1>5 DEF Tmpfs

LEMMA BindHistory ==
    ASSUME Inv, History, NEW r \in Runs, Bind(r)
    PROVE  History'
<1> DEFINE p == job[r]
           rule == p.bind[at[r]]
           source == Kind(ns[r], disk, Walk(ns[r], disk, rule.source))
           target == Kind(ns[r], disk, Walk(ns[r], disk, rule.target))
           n == ReadOnly(BindMount(ns[r], disk, rule.source, rule.target, <<"bind", at[r]>>), disk, rule)
           good == /\ source \in {"dir", "file"} /\ target # "none"
                   /\ source = "dir" <=> target = "dir"
                   /\ AttachOk(n, disk, p, rule.target)
<1>1. pc[r] = "bind" /\ pc[r] \in Lists /\ Listed(p, pc[r]) = Len(p.bind)
  BY DEF Bind, Lists, Listed
<1>2. Target(p, "bind", at[r]) = rule.target /\ After(ns[r], disk, p, "bind", at[r]) = n
  BY DEF Target, After
<1>3. good <=> Good(ns[r], disk, p, "bind", at[r])
  <2> HIDE DEF n
  <2> QED BY <1>2 DEF Good, Fits
<1>4. CASE at[r] > Len(p.bind) /\ Go(r, "proc", ns[r])
  <2>1. Onward(p, pc[r]) = "proc"
    BY <1>1 DEF Onward
  <2>2. QED
    BY <1>1, <1>4, <2>1, DoneHistory
<1>5. CASE at[r] <= Len(p.bind) /\ IF good THEN Step(r, n) ELSE Fail(r)
  <2>1. at[r] \in 1..Listed(p, pc[r])
    <3>1. at[r] \in 1..(1 + Len(p.bind)) /\ Len(p.bind) \in Nat
      BY <1>1, MountingFacts, PolicyFacts
    <3>2. QED
      BY <1>1, <1>5, <3>1
  <2> HIDE DEF n, good
  <2>2. \/ Good(ns[r], disk, p, pc[r], at[r]) /\ Step(r, After(ns[r], disk, p, pc[r], at[r]))
        \/ ~Good(ns[r], disk, p, pc[r], at[r]) /\ Fail(r)
    BY <1>1, <1>2, <1>3, <1>5
  <2>3. QED
    BY <1>1, <2>1, <2>2, RuleHistory
<1>6. QED
  BY <1>4, <1>5 DEF Bind

LEMMA ProcHistory ==
    ASSUME Inv, History, NEW r \in Runs, Proc(r)
    PROVE  History'
<1> DEFINE p == job[r]
           place == Walk(ns[r], disk, p.proc[at[r]])
           n == Mount(ns[r], place, "proc", <<>>, FALSE, <<"proc", at[r]>>)
           good == Kind(ns[r], disk, place) = "dir" /\ AttachOk(n, disk, p, p.proc[at[r]])
<1>1. pc[r] = "proc" /\ pc[r] \in Lists /\ Listed(p, pc[r]) = Len(p.proc)
  BY DEF Proc, Lists, Listed
<1>2. Target(p, "proc", at[r]) = p.proc[at[r]] /\ After(ns[r], disk, p, "proc", at[r]) = n
  BY DEF Target, After
<1>3. good <=> Good(ns[r], disk, p, "proc", at[r])
  <2> HIDE DEF n
  <2> QED BY <1>2 DEF Good, Fits
<1>4. CASE at[r] > Len(p.proc) /\ Go(r, IF p.root = None THEN "cwd" ELSE "root_bind", ns[r])
  <2>1. Onward(p, pc[r]) = IF p.root = None THEN "cwd" ELSE "root_bind"
    BY <1>1 DEF Onward
  <2>2. Go(r, Onward(p, pc[r]), ns[r])
    BY <1>4, <2>1
  <2>3. QED
    BY <1>1, <1>4, <2>2, DoneHistory
<1>5. CASE at[r] <= Len(p.proc) /\ IF good THEN Step(r, n) ELSE Fail(r)
  <2>1. at[r] \in 1..Listed(p, pc[r])
    <3>1. at[r] \in 1..(1 + Len(p.proc)) /\ Len(p.proc) \in Nat
      BY <1>1, MountingFacts, PolicyFacts
    <3>2. QED
      BY <1>1, <1>5, <3>1
  <2> HIDE DEF n, good
  <2>2. \/ Good(ns[r], disk, p, pc[r], at[r]) /\ Step(r, After(ns[r], disk, p, pc[r], at[r]))
        \/ ~Good(ns[r], disk, p, pc[r], at[r]) /\ Fail(r)
    BY <1>1, <1>2, <1>3, <1>5
  <2>3. QED
    BY <1>1, <2>1, <2>2, RuleHistory
<1>6. QED
  BY <1>4, <1>5 DEF Proc

(* A run at the root: what it has shown of its policy.                       *)
LEMMA PastAll ==
    ASSUME NEW p, PolicyOk(p), PlainPolicy(p), NEW D, NEW h, Past(p, D, All(p), h)
    PROVE  Early(h, p.root) /\ PlainNs(h) /\ Inj(h, D) /\ Placed(p, D, All(p), h)
<1>1. All(p) \in 0..All(p)
  BY ListFacts
<1>2. Early(h, p.root) /\ PlainNs(h) /\ Placed(p, D, All(p), h)
  BY <1>1, PastFacts
<1>3. QED
  BY <1>2 DEF Placed

LEMMA RootBindHistory ==
    ASSUME Inv, History, NEW r \in Runs, RootBind(r)
    PROVE  History'
<1> DEFINE p == job[r]
           n == BindMount(ns[r], disk, p.root, p.root, <<"root">>)
           good == Kind(ns[r], disk, Walk(ns[r], disk, p.root)) = "dir" /\ AttachOk(n, disk, p, p.root)
           D == Clean(disk)
<1>1. pc[r] = "root_bind" /\ Active(r) /\ p.root # None
  BY RootFacts DEF RootBind, Active, RootSteps
<1>2. IF good THEN Go(r, "root_mkdir", n) ELSE Fail(r)
  BY DEF RootBind
<1>3. n = RootNs(ns[r], disk, p) /\ (good <=> RootGood(ns[r], disk, p))
  BY DEF RootNs, RootGood
<1> HIDE DEF n, good
<1>4. ASSUME Reserved
      PROVE  /\ PolicyOk(p) /\ PlainPolicy(p) /\ Past(p, D, All(p), ns[r])
             /\ n = RootNs(ns[r], D, p) /\ (good <=> RootGood(ns[r], D, p))
  <2>1. PolicyOk(p) /\ PlainPolicy(p) /\ Sofar(p, pc[r], at[r], ns[r], disk)
    BY <1>4, ReservedFacts DEF History, Fate
  <2>2. Past(p, D, All(p), ns[r])
    BY <1>1, <2>1 DEF Sofar
  <2>3. Early(ns[r], p.root) /\ PlainNs(ns[r])
    BY <2>1, <2>2, PastAll
  <2>4. /\ RootNs(ns[r], D, p) = RootNs(ns[r], disk, p)
        /\ RootGood(ns[r], D, p) <=> RootGood(ns[r], disk, p)
    BY <1>1, <2>1, <2>3, RootClean
  <2>5. QED
    BY <1>3, <2>1, <2>2, <2>4
<1>5. CASE good /\ Go(r, "root_mkdir", n)
  <2>1. ASSUME Reserved PROVE Sofar(p, "root_mkdir", 1, n, disk) /\ Smooth(p, "root_mkdir", n, disk)
    <3>1. \E h : Past(p, D, All(p), h) /\ RootGood(h, D, p) /\ n = RootNs(h, D, p)
      BY <1>4, <1>5, <2>1
    <3>2. QED
      BY <3>1 DEF Sofar, Smooth, Lists, InRoot, OnHost
  <2>2. QED
    BY <1>1, <1>5, <2>1, GoHistory
<1>6. CASE ~good /\ Fail(r)
  <2>1. Reserved => Fails(p, disk)
    BY <1>1, <1>4, <1>6 DEF Fails
  <2>2. QED
    BY <1>1, <1>6, <2>1, FailHistory
<1>7. QED
  BY <1>2, <1>5, <1>6

LEMMA CompanyKept ==
    ASSUME Company, UNCHANGED <<job, met>>, \A q \in Runs : Active(q)' => Active(q)
    PROVE  Company'
  BY DEF Company

(* What is known before and after mkdir.                                     *)
LEMMA BoundFacts ==
    ASSUME Inv, History, Reserved, NEW r \in Runs, pc[r] \in {"root_mkdir", "root_pivot"}
    PROVE  LET p == job[r]
               new == Walk(ns[r], disk, p.root)
               old == In(new, OldRoot)
               c == PivotRoot(ns[r], new, old)
           IN
           /\ PolicyOk(p) /\ PlainPolicy(p) /\ p.root # None /\ p.root \in Paths /\ Plain(p.root)
           /\ \E h : Past(p, Clean(disk), All(p), h) /\ RootGood(h, Clean(disk), p) /\ ns[r] = RootNs(h, Clean(disk), p)
           /\ new # Nowhere
           /\ CanPivot(ns[r], disk, new, old) <=> /\ p.root # <<>> /\ Append(p.root, OldRoot) \in DOMAIN disk
                                                  /\ disk[Append(p.root, OldRoot)] = "dir"
           /\ CanPivot(ns[r], disk, new, old) =>
                c.mounts[1].parent # 0 /\ \A i \in DOMAIN c.mounts : i # 1 => Plain(c.mounts[i].on)
<1> DEFINE p == job[r]
           D == Clean(disk)
           n == ns[r]
           new == Walk(n, disk, p.root)
           old == In(new, OldRoot)
           c == PivotRoot(n, new, old)
<1>1. PolicyOk(p) /\ PlainPolicy(p) /\ Sofar(p, pc[r], at[r], n, disk)
  BY ReservedFacts DEF History, Fate
<1>2. p.root # None
  BY RootFacts DEF RootSteps
<1>3. p.root \in Paths /\ Plain(p.root)
  BY <1>1, <1>2, PlainRoot
<1>4. PICK h : Past(p, D, All(p), h) /\ RootGood(h, D, p) /\ n = RootNs(h, D, p)
  BY <1>1 DEF Sofar
<1>5. Early(h, p.root) /\ PlainNs(h) /\ Inj(h, D)
  BY <1>1, <1>4, PastAll
<1>6. /\ new # Nowhere
      /\ CanPivot(n, disk, new, old) <=> /\ p.root # <<>> /\ Append(p.root, OldRoot) \in DOMAIN disk
                                         /\ disk[Append(p.root, OldRoot)] = "dir"
      /\ CanPivot(n, disk, new, old) =>
           c.mounts[1].parent # 0 /\ \A i \in DOMAIN c.mounts : i # 1 => Plain(c.mounts[i].on)
  <2> DEFINE m == RootNs(h, D, p)
  <2>1. n = m
    BY <1>4
  <2> HIDE DEF n, p, m
  <2>2. QED
    BY <1>1, <1>2, <1>4, <1>5, <2>1, PivotRule DEF m
<1>7. QED
  BY <1>1, <1>2, <1>3, <1>4, <1>6

LEMMA RootMkdirHistory ==
    ASSUME Inv, History, NEW r \in Runs, RootMkdir(r)
    PROVE  History'
<1> DEFINE p == job[r]
           w == Walk(ns[r], disk, p.root)
           x == Append(p.root, OldRoot)
<1>1. pc[r] = "root_mkdir" /\ p.root # None /\ p.root \in Paths /\ Bound(ns[r], p.root) /\ Active(r)
  BY RootFacts DEF RootMkdir, RootSteps, Active
<1>2. CASE w = Nowhere /\ Fail(r)
  <2>1. ~Reserved
    BY <1>1, <1>2, BoundFacts
  <2>2. QED
    BY <1>1, <1>2, <2>1, FailHistory
<1>3. CASE /\ w # Nowhere
           /\ disk' = [q \in DOMAIN disk \cup {Append(w.path, OldRoot)} |-> IF q \in DOMAIN disk THEN disk[q] ELSE "dir"]
           /\ pc' = [pc EXCEPT ![r] = "root_pivot"]
           /\ UNCHANGED <<job, kernel, at, ns, cwd, met>>
  <2>1. Append(w.path, OldRoot) = x
    BY <1>1, <1>3, WalkBound
  <2>2. disk' = [q \in DOMAIN disk \cup {x} |-> IF q \in DOMAIN disk THEN disk[q] ELSE "dir"]
    BY <1>3, <2>1
  <2>3. DOMAIN disk \subseteq DOMAIN disk' /\ x \in DOMAIN disk'
    BY <2>2
  <2>4. pc'[r] = "root_pivot" /\ \A q \in Runs : q # r => pc'[q] = pc[q]
    <3>1. pc \in [Runs -> Steps]
      BY DEF Inv
    <3>2. QED
      BY <1>3, <3>1
  <2>5. Company'
    <3>1. \A q \in Runs : Active(q)' => Active(q)
      BY <1>1, <2>4 DEF Active
    <3>2. QED
      BY <1>3, <3>1, CompanyKept DEF History
  <2>6. Reserved' <=> Reserved
    BY <1>3 DEF Reserved
  <2>7. ASSUME Reserved PROVE SameDisk(disk, disk')
    <3>1. Plain(p.root)
      BY <1>1, <2>7, BoundFacts
    <3>2. QED
      BY <1>1, <2>2, <3>1, DiskMade
  <2>8. ASSUME Reserved, NEW q \in Runs PROVE Fate(q)'
    <3>1. PolicyOk(job[q]) /\ PlainPolicy(job[q]) /\ Fate(q)
      BY <2>8, ReservedFacts DEF History
    <3>2. /\ \A step, i, n : Sofar(job[q], step, i, n, disk) => Sofar(job[q], step, i, n, disk')
          /\ Fails(job[q], disk) => Fails(job[q], disk')
      BY <2>7, <2>8, <3>1, SofarSame
    <3>3. CASE q = r
      <4>1. Sofar(p, "root_mkdir", at[r], ns[r], disk)
        BY <1>1, <3>1, <3>3 DEF Fate
      <4>2. Sofar(p, "root_pivot", at[r], ns[r], disk)
        BY <4>1 DEF Sofar, Lists, InRoot, OnHost
      <4>3. Smooth(p, "root_pivot", ns[r], disk')
        BY <2>3 DEF Smooth
      <4>4. QED
        BY <1>3, <2>4, <3>2, <3>3, <4>2, <4>3 DEF Fate
    <3>4. CASE q # r
      <4>1. pc'[q] = pc[q] /\ at'[q] = at[q] /\ ns'[q] = ns[q] /\ job'[q] = job[q] /\ met'[q] = met[q]
        BY <1>3, <2>4, <3>4
      <4>2. Sofar(job[q], pc[q], at[q], ns[q], disk')
        BY <3>1, <3>2 DEF Fate
      <4>3. met[q] \/ Smooth(job[q], pc[q], ns[q], disk')
        BY <2>3, <3>1, <3>2 DEF Fate, Smooth
      <4>4. QED
        BY <4>1, <4>2, <4>3 DEF Fate
    <3>5. QED
      BY <3>3, <3>4
  <2>9. QED
    BY <1>3, <2>5, <2>6, <2>8 DEF History
<1>4. QED
  BY <1>2, <1>3 DEF RootMkdir

LEMMA RootPivotHistory ==
    ASSUME Inv, History, NEW r \in Runs, RootPivot(r)
    PROVE  History'
<1> DEFINE p == job[r]
           new == Walk(ns[r], disk, p.root)
           old == In(new, OldRoot)
           c == PivotRoot(ns[r], new, old)
           x == Append(p.root, OldRoot)
<1>1. pc[r] = "root_pivot" /\ Active(r)
  BY DEF RootPivot, Active
<1>2. ASSUME Reserved
      PROVE  /\ p.root # None
             /\ \E h : Past(p, Clean(disk), All(p), h) /\ RootGood(h, Clean(disk), p)
             /\ CanPivot(ns[r], disk, new, old) <=> p.root # <<>> /\ x \in DOMAIN disk /\ disk[x] = "dir"
             /\ CanPivot(ns[r], disk, new, old) =>
                  c.mounts[1].parent # 0 /\ \A i \in DOMAIN c.mounts : i # 1 => Plain(c.mounts[i].on)
  BY <1>1, <1>2, BoundFacts
<1>3. Reserved => met[r] \/ x \in DOMAIN disk
  <2>1. Reserved => met[r] \/ Smooth(p, pc[r], ns[r], disk)
    BY DEF History, Fate
  <2>2. QED
    BY <1>1, <2>1 DEF Smooth
<1>4. CASE ~CanPivot(ns[r], disk, new, old) /\ Fail(r)
  <2>1. Reserved => met[r] \/ Fails(p, disk)
    BY <1>2, <1>3, <1>4 DEF Fails, Blocked
  <2>2. QED
    BY <1>1, <1>4, <2>1, FailHistory
<1>5. CASE CanPivot(ns[r], disk, new, old) /\ Go(r, "root_detach", c)
  <2> HIDE DEF c, new, old
  <2>1. ASSUME Reserved PROVE Sofar(p, "root_detach", 1, c, disk) /\ Smooth(p, "root_detach", c, disk)
    <3>1. Entered(p, disk)
      BY <1>2, <1>5, <2>1 DEF Entered, Blocked
    <3>2. QED
      BY <1>2, <1>5, <2>1, <3>1 DEF Sofar, Smooth, Lists, InRoot, OnHost
  <2>2. QED
    BY <1>1, <1>5, <2>1, GoHistory
<1>6. QED
  BY <1>4, <1>5 DEF RootPivot

LEMMA RootDetachHistory ==
    ASSUME Inv, History, NEW r \in Runs, RootDetach(r)
    PROVE  History'
<1> DEFINE p == job[r]
           place == Walk(ns[r], disk, <<OldRoot>>)
           c == Detach(ns[r], {place.mnt})
           x == Append(p.root, OldRoot)
<1>1. pc[r] = "root_detach" /\ Active(r) /\ p.root # None /\ p.root \in Paths /\ Pivoted(ns[r], p.root)
  BY RootFacts DEF RootDetach, Active, RootSteps
<1>2. Reserved => Sofar(p, "root_detach", at[r], ns[r], disk) /\ (met[r] \/ Smooth(p, "root_detach", ns[r], disk))
  BY <1>1 DEF History, Fate
<1>3. CASE place # Nowhere /\ place.mnt # ns[r].root /\ Go(r, "root_rmdir", c)
  <2> HIDE DEF c
  <2>1. ASSUME Reserved
        PROVE  Sofar(p, "root_rmdir", 1, c, disk) /\ (met[r] \/ Smooth(p, "root_rmdir", c, disk))
    BY <1>2, <2>1 DEF Sofar, Smooth, Lists, InRoot, OnHost
  <2>2. QED
    BY <1>1, <1>3, <2>1, GoHistory
<1>4. CASE ~(place # Nowhere /\ place.mnt # ns[r].root) /\ Fail(r)
  <2>1. ASSUME Reserved PROVE met[r]
    <3> SUFFICES ASSUME ~met[r] PROVE FALSE
      OBVIOUS
    <3>1. x \in DOMAIN disk /\ ns[r].mounts[1].parent # 0
      BY <1>2, <2>1 DEF Smooth
    <3>2. disk[x] # "none"
      BY <3>1 DEF Inv, DiskOk
    <3>3. QED
      BY <1>1, <1>4, <3>1, <3>2, DetachRule
  <2>2. QED
    BY <1>1, <1>4, <2>1, FailHistory
<1>5. QED
  BY <1>3, <1>4 DEF RootDetach

(* The directory under a mount of another run is removed.                    *)
LEMMA SofarLose ==
    ASSUME NEW p, PolicyOk(p), PlainPolicy(p), NEW step, NEW i \in 1..(1 + Listed(p, step)), NEW n, Tree(n), NEW d,
           Sofar(p, step, i, n, d), NEW x, ~Plain(x), step \in RootSteps => p.root # None
    PROVE  Sofar(p, step, i, LoseMountpoint(n, x), d)
<1> DEFINE c == LoseMountpoint(n, x)
           D == Clean(d)
<1>1. n \in NsType
  BY DEF Tree
<1>2. PlainNs(n) => c = n
  BY <1>1, LosePlain
<1>3. ASSUME step \in Lists PROVE PlainNs(n)
  <2> DEFINE b == Before(p, step)
             l == Listed(p, step)
  <2>1. Past(p, D, b + (i - 1), n)
    BY <1>3 DEF Sofar
  <2>2. l \in Nat
    BY ListFacts DEF Listed
  <2>3. CASE l = 0
    <3>1. i - 1 = 0
      BY <2>3
    <3>2. b \in 0..All(p) /\ b + 0 = b
      <4> DEFINE u == Len(p.tmpfs)
                 v == Len(p.bind)
                 w == Len(p.proc)
      <4>1. u \in Nat /\ v \in Nat /\ w \in Nat
        BY ListFacts
      <4>2. b \in {0, u, u + v} /\ All(p) = u + v + w
        BY DEF Before, All
      <4> HIDE DEF u, v, w, b
      <4>3. QED
        BY <4>1, <4>2
    <3>3. Past(p, D, b, n)
      BY <2>1, <3>1, <3>2
    <3> HIDE DEF b
    <3>4. QED
      BY <3>2, <3>3, PastFacts
  <2>4. CASE l # 0
    <3>1. b \in Nat /\ b + l \in 1..All(p) /\ All(p) \in Nat
      <4>1. l \in 1..l
        BY <2>2, <2>4
      <4>2. QED
        BY <1>3, <4>1, RuleAt, ListFacts
    <3> HIDE DEF b, l
    <3>2. i \in 1..(1 + l)
      BY DEF l
    <3>3. b + (i - 1) \in 0..All(p)
      BY <2>2, <3>1, <3>2
    <3>4. QED
      BY <2>1, <3>3, PastFacts
  <2>5. QED
    BY <2>3, <2>4
<1>4. ASSUME step = "root_bind" \/ OnHost(p, step) PROVE PlainNs(n)
  <2>1. Past(p, D, All(p), n)
    BY <1>4 DEF Sofar
  <2>2. QED
    BY <2>1, PastAll
<1>5. ASSUME step \in {"root_mkdir", "root_pivot"} PROVE PlainNs(n)
  <2>1. PICK h : Past(p, D, All(p), h) /\ RootGood(h, D, p) /\ n = RootNs(h, D, p)
    BY <1>5 DEF Sofar
  <2>2. Early(h, p.root) /\ PlainNs(h) /\ Inj(h, D) /\ p.root # None
    BY <1>5, <2>1, PastAll DEF RootSteps
  <2>3. Walk(h, D, p.root) # Nowhere
    BY <2>1, KindFacts DEF RootGood
  <2>4. QED
    BY <2>1, <2>2, <2>3, RootRule
<1>6. ASSUME step = "root_detach" PROVE \A j \in DOMAIN c.mounts : j # 1 => Plain(c.mounts[j].on)
  <2>1. DOMAIN c.mounts = DOMAIN n.mounts /\ \A j \in DOMAIN n.mounts : c.mounts[j].on = n.mounts[j].on
    BY LoseFacts
  <2>2. \A j \in DOMAIN n.mounts : j # 1 => Plain(n.mounts[j].on)
    BY <1>6 DEF Sofar
  <2>3. QED
    BY <2>1, <2>2
<1> HIDE DEF c
<1>7. Sofar(p, step, i, c, d)
  <2>1. CASE PlainNs(n)
    BY <1>2, <2>1
  <2>2. CASE ~PlainNs(n)
    BY <1>3, <1>4, <1>5, <1>6, <2>2 DEF Sofar
  <2>3. QED
    BY <2>1, <2>2
<1>8. QED
  BY <1>7 DEF c

LEMMA RootRmdirHistory ==
    ASSUME Inv, History, NEW r \in Runs, RootRmdir(r)
    PROVE  History'
<1> DEFINE p == job[r]
           old == Walk(ns[r], disk, <<OldRoot>>)
           x == Append(p.root, OldRoot)
<1>1. pc[r] = "root_rmdir" /\ Active(r) /\ p.root # None /\ p.root \in Paths /\ Alone(ns[r], p.root)
  BY RootFacts DEF RootRmdir, Active, RootSteps
<1>2. Reserved => Sofar(p, "root_rmdir", at[r], ns[r], disk) /\ (met[r] \/ Smooth(p, "root_rmdir", ns[r], disk))
  BY <1>1 DEF History, Fate
<1>3. Reserved => Entered(p, disk)
  BY <1>2 DEF Sofar
<1>4. /\ CanRemove(ns[r], disk, old) => old.path = x /\ x \in DOMAIN disk /\ ~Blocked(disk, p.root) /\ Bare(disk, p.root)
      /\ x \in DOMAIN disk /\ disk[x] = "dir" /\ Bare(disk, p.root) => CanRemove(ns[r], disk, old)
  BY <1>1, RmdirRule
<1>5. CASE ~CanRemove(ns[r], disk, old) /\ Fail(r)
  <2>1. ASSUME Reserved PROVE met[r] \/ Fails(p, disk)
    <3> SUFFICES ASSUME ~met[r] PROVE Fails(p, disk)
      OBVIOUS
    <3>1. x \in DOMAIN disk
      BY <1>2, <2>1 DEF Smooth
    <3>2. disk[x] = "dir"
      BY <1>3, <2>1, <3>1 DEF Entered, Blocked
    <3>3. ~Bare(disk, p.root)
      BY <1>4, <1>5, <3>1, <3>2
    <3>4. QED
      BY <1>1, <3>3 DEF Fails
  <2>2. QED
    BY <1>1, <1>5, <2>1, FailHistory
<1>6. CASE /\ CanRemove(ns[r], disk, old)
           /\ disk' = [q \in DOMAIN disk \ {old.path} |-> disk[q]]
           /\ ns' = [q \in Runs |-> LoseMountpoint(ns[q], old.path)]
           /\ pc' = [pc EXCEPT ![r] = "cwd"]
           /\ UNCHANGED <<job, kernel, at, cwd, met>>
  <2>1. old.path = x /\ ~Blocked(disk, p.root) /\ Bare(disk, p.root)
    BY <1>4, <1>6
  <2>2. disk' = [q \in DOMAIN disk \ {x} |-> disk[q]] /\ \A q \in Runs : ns'[q] = LoseMountpoint(ns[q], x)
    BY <1>6, <2>1
  <2> HIDE DEF old
  <2>3. \A q \in DOMAIN disk : q # x => q \in DOMAIN disk'
    BY <2>2
  <2>4. pc'[r] = "cwd" /\ \A q \in Runs : q # r => pc'[q] = pc[q]
    <3>1. pc \in [Runs -> Steps]
      BY DEF Inv
    <3>2. QED
      BY <1>6, <3>1
  <2>5. Company'
    <3>1. \A q \in Runs : Active(q)' => Active(q)
      BY <1>1, <2>4 DEF Active
    <3>2. QED
      BY <1>6, <3>1, CompanyKept DEF History
  <2>6. Reserved' <=> Reserved
    BY <1>6 DEF Reserved
  <2>7. ASSUME Reserved PROVE SameDisk(disk, disk') /\ ~Plain(x)
    <3>1. Plain(p.root)
      BY <1>1, <2>7, ReservedFacts, PlainRoot
    <3>2. ~Plain(x)
      BY <1>1, OldRootPath, PlainFacts
    <3>3. QED
      BY <1>1, <2>1, <2>2, <3>1, <3>2, DiskGone
  <2>8. ASSUME Reserved PROVE Fate(r)'
    <3>1. PolicyOk(p) /\ PlainPolicy(p)
      BY <2>8, ReservedFacts
    <3>2. \A step, i, n : Sofar(p, step, i, n, disk) => Sofar(p, step, i, n, disk')
      BY <2>7, <2>8, <3>1, SofarSame
    <3>3. Sofar(p, "cwd", at[r], ns'[r], disk)
      BY <1>1, <1>3, <2>1, <2>8 DEF Sofar, Lists, InRoot, OnHost
    <3>4. Smooth(p, "cwd", ns'[r], disk')
      BY DEF Smooth
    <3>5. Sofar(p, "cwd", at[r], ns'[r], disk')
      BY <3>2, <3>3
    <3>6. at' = at /\ job' = job
      BY <1>6
    <3>7. QED
      BY <2>4, <3>4, <3>5, <3>6 DEF Fate
  <2>9. ASSUME Reserved, NEW q \in Runs, q # r PROVE Fate(q)'
    <3> DEFINE o == job[q]
               n == ns[q]
    <3>1. PolicyOk(o) /\ PlainPolicy(o) /\ Fate(q)
      BY <2>9, ReservedFacts DEF History
    <3>2. /\ \A step, i, m : Sofar(o, step, i, m, disk) => Sofar(o, step, i, m, disk')
          /\ Fails(o, disk) => Fails(o, disk')
      BY <2>7, <2>9, <3>1, SofarSame
    <3>3. pc[q] \in Steps /\ Shape(o.root, pc[q], n, cwd[q]) /\ at[q] \in 1..(1 + Listed(o, pc[q]))
      BY DEF Inv, RunOk
    <3>4. Tree(n) /\ n \in NsType /\ (pc[q] \in RootSteps => o.root # None)
      BY <3>3, ShapeNs DEF Shape
    <3>5. Sofar(o, pc[q], at[q], ns'[q], disk')
      <4>1. Sofar(o, pc[q], at[q], n, disk)
        BY <3>1 DEF Fate
      <4>2. Sofar(o, pc[q], at[q], LoseMountpoint(n, x), disk)
        BY <2>7, <2>9, <3>1, <3>3, <3>4, <4>1, SofarLose
      <4>3. QED
        BY <2>2, <3>2, <4>2
    <3>6. ASSUME ~met[q] PROVE Smooth(o, pc[q], ns'[q], disk')
      <4>1. Smooth(o, pc[q], n, disk)
        BY <3>1, <3>6 DEF Fate
      <4>2. ASSUME pc[q] \in {"root_pivot", "root_detach", "root_rmdir"}
            PROVE  o.root \in Paths /\ Append(o.root, OldRoot) # x
        <5>1. Active(q)
          BY <4>2 DEF Active
        <5>2. o.root # p.root
          BY <1>1, <2>9, <3>6, <5>1 DEF History, Company
        <5>3. o.root \in Paths
          BY <3>1, <3>4, <4>2, PlainRoot DEF RootSteps
        <5>4. QED
          BY <1>1, <5>2, <5>3, OldRootPath, AppendSame, SMTT(40)
      <4>3. pc[q] \in {"root_pivot", "root_detach", "root_rmdir"} => Append(o.root, OldRoot) \in DOMAIN disk'
        BY <2>3, <4>1, <4>2 DEF Smooth
      <4>4. ASSUME pc[q] = "root_detach" PROVE ns'[q].mounts[1].parent # 0
        <5>1. n.mounts[1].on = Append(o.root, OldRoot)
          BY <3>3, <4>4 DEF Shape, Pivoted
        <5>2. \A j \in DOMAIN n.mounts : j # 1 => Plain(n.mounts[j].on)
          BY <3>1, <4>4 DEF Fate, Sofar
        <5>3. \A j \in DOMAIN n.mounts : n.mounts[j].on # x
          BY <2>7, <2>9, <4>2, <4>4, <5>1, <5>2
        <5>4. LoseMountpoint(n, x) = n
          BY <3>4, <5>3, LoseNone
        <5>5. n.mounts[1].parent # 0
          BY <4>1, <4>4 DEF Smooth
        <5>6. QED
          BY <2>2, <5>4, <5>5
      <4>5. pc[q] = "failed" => Fails(o, disk')
        BY <3>2, <4>1 DEF Smooth
      <4>6. QED
        BY <4>3, <4>4, <4>5 DEF Smooth
    <3>7. pc'[q] = pc[q] /\ at'[q] = at[q] /\ job'[q] = job[q] /\ met'[q] = met[q]
      BY <1>6, <2>4, <2>9
    <3>8. QED
      BY <3>5, <3>6, <3>7 DEF Fate
  <2>10. QED
    BY <1>6, <2>5, <2>6, <2>8, <2>9 DEF History
<1>7. QED
  BY <1>5, <1>6 DEF RootRmdir

(* The working directory is looked up where only plain names count.          *)
LEMMA CwdClean ==
    ASSUME NEW p, PolicyOk(p), PlainPolicy(p), NEW d, NEW n,
           (Tree(n) /\ PlainNs(n)) \/ (p.root # None /\ Alone(n, p.root))
    PROVE  CwdGood(n, Clean(d), p) <=> CwdGood(n, d, p)
<1> DEFINE c == CwdPath(p)
           w == Walk(n, d, c)
<1>1. c \in Paths /\ Plain(c)
  BY PlainRoot DEF CwdPath, Paths, Plain
<1> HIDE DEF c
<1>2. CASE Tree(n) /\ PlainNs(n)
  <2>1. Walk(n, Clean(d), c) = w /\ Plain(w.path)
    BY <1>1, <1>2, WalkClean
  <2>2. Kind(n, Clean(d), w) = Kind(n, d, w)
    BY <2>1, KindClean
  <2>3. QED
    BY <2>1, <2>2 DEF CwdGood, c
<1>3. CASE p.root # None /\ Alone(n, p.root)
  <2>1. Clean(Clean(d)) = Clean(d)
    <3> DEFINE A == {q \in DOMAIN d : Plain(q)}
               f == Clean(d)
    <3>1. f = [q \in A |-> d[q]]
      BY DEF Clean
    <3> HIDE DEF A, f
    <3>2. DOMAIN f = A /\ \A q \in A : f[q] = d[q]
      BY <3>1
    <3>3. {q \in DOMAIN f : Plain(q)} = A
      BY <3>2 DEF A
    <3>4. Clean(f) = [q \in A |-> f[q]]
      BY <3>3 DEF Clean
    <3>5. QED
      BY <3>1, <3>2, <3>4 DEF f
  <2>2. p.root \in Paths /\ Plain(p.root)
    BY <1>3, PlainRoot
  <2> DEFINE D == Clean(d)
  <2>3. Clean(D) = Clean(d)
    BY <2>1
  <2> HIDE DEF D
  <2>4. Kind(n, D, Walk(n, D, c)) = Kind(n, d, Walk(n, d, c))
    BY <1>1, <1>3, <2>2, <2>3, AloneSame
  <2>5. QED
    BY <2>4 DEF CwdGood, c, D
<1>4. QED
  BY <1>2, <1>3

LEMMA CwdHistory ==
    ASSUME Inv, History, NEW r \in Runs, Cwd(r)
    PROVE  History'
<1> DEFINE p == job[r]
           place == Walk(ns[r], disk, CwdPath(p))
           D == Clean(disk)
<1>1. pc[r] = "cwd" /\ Active(r)
  BY DEF Cwd, Active
<1>2. p.root # None => Alone(ns[r], p.root)
  BY <1>1 DEF Inv, RunOk, Shape
<1>3. ASSUME Reserved
      PROVE  /\ Sofar(p, "cwd", at[r], ns[r], disk)
             /\ p.root = None => Past(p, D, All(p), ns[r])
             /\ CwdGood(ns[r], D, p) <=> Kind(ns[r], disk, place) = "dir"
  <2>1. PolicyOk(p) /\ PlainPolicy(p) /\ Sofar(p, "cwd", at[r], ns[r], disk)
    BY <1>1, <1>3, ReservedFacts DEF History, Fate
  <2>2. p.root = None => Past(p, D, All(p), ns[r])
    BY <2>1 DEF Sofar, OnHost
  <2>3. p.root = None => Tree(ns[r]) /\ PlainNs(ns[r])
    BY <2>1, <2>2, PastAll DEF Early
  <2>4. CwdGood(ns[r], D, p) <=> CwdGood(ns[r], disk, p)
    BY <1>2, <2>1, <2>3, CwdClean
  <2>5. QED
    BY <2>1, <2>2, <2>4 DEF CwdGood
<1>4. CASE Kind(ns[r], disk, place) # "dir" /\ Fail(r)
  <2>1. ASSUME Reserved PROVE Fails(p, disk)
    <3>1. ~CwdGood(ns[r], D, p)
      BY <1>3, <1>4, <2>1
    <3>2. CASE p.root = None
      BY <1>3, <2>1, <3>1, <3>2 DEF Fails
    <3>3. CASE p.root # None
      BY <1>2, <3>1, <3>3 DEF Fails
    <3>4. QED
      BY <3>2, <3>3
  <2>2. QED
    BY <1>1, <1>4, <2>1, FailHistory
<1>5. CASE /\ Kind(ns[r], disk, place) = "dir"
           /\ pc' = [pc EXCEPT ![r] = "running"]
           /\ UNCHANGED <<job, disk, at, ns, met>>
  <2>1. pc \in [Runs -> Steps]
    BY DEF Inv
  <2>2. pc'[r] = "running" /\ \A q \in Runs : q # r => pc'[q] = pc[q] /\ at'[q] = at[q] /\ ns'[q] = ns[q]
    BY <1>5, <2>1
  <2>3. ASSUME Reserved PROVE Fate(r)'
    <3>1. CwdGood(ns[r], D, p)
      BY <1>3, <1>5, <2>3
    <3>2. Settled(p, disk)
      BY <1>2, <1>3, <2>3, <3>1 DEF Settled
    <3>3. Sofar(p, "cwd", at[r], ns[r], disk)
      BY <1>3, <2>3
    <3>4. Sofar(p, "running", at[r], ns[r], disk)
      BY <3>2, <3>3 DEF Sofar, Lists, InRoot, OnHost
    <3>5. Smooth(p, "running", ns[r], disk)
      BY DEF Smooth
    <3>6. QED
      BY <1>5, <2>2, <3>4, <3>5 DEF Fate
  <2>4. QED
    BY <1>1, <1>5, <2>2, <2>3, MovesHistory
<1>6. QED
  BY <1>4, <1>5 DEF Cwd, CwdPath

LEMMA StutterHistory ==
    ASSUME History, UNCHANGED vars
    PROVE  History'
  BY DEF History, Company, Active, Reserved, Fate, vars

LEMMA NextHistory ==
    ASSUME Inv, History, [Next]_vars
    PROVE  History'
<1>1. ASSUME NEW r \in Runs,
             \/ Start(r) \/ Preflight(r) \/ Namespace(r) \/ Tmpfs(r) \/ Bind(r) \/ Proc(r)
             \/ RootBind(r) \/ RootMkdir(r) \/ RootPivot(r) \/ RootDetach(r) \/ RootRmdir(r)
             \/ Cwd(r) \/ Killed(r)
      PROVE  History'
  BY <1>1, StartHistory, PreflightHistory, NamespaceHistory, TmpfsHistory, BindHistory, ProcHistory, RootBindHistory,
     RootMkdirHistory, RootPivotHistory, RootDetachHistory, RootRmdirHistory, CwdHistory, KilledHistory
<1>2. CASE UNCHANGED vars
  BY <1>2, StutterHistory
<1>3. QED
  BY <1>1, <1>2 DEF Next

LEMMA AlwaysHistory == Spec => []History
<1>1. Init => History
  BY InitHistory
<1>2. Inv /\ History /\ [Next]_vars => History'
  BY NextHistory
<1>3. QED
  BY <1>1, <1>2, AlwaysInv, PTL DEF Spec

---------------------------------------------------------------------------
(* A run that met nobody on its root fails only for reasons that any run of  *)
(* its policy has: it does not fail where another run with that policy gets  *)
(* through, whatever earlier runs left on the disk (mkdir and EEXIST in      *)
(* landlockd_setup_runtime_root).                                            *)
THEOREM LoneRunsAlwaysAgree == Spec => []LoneRunsAgree
<1>1. ASSUME Inv, History PROVE LoneRunsAgree
  <2> SUFFICES ASSUME Reserved, NEW r \in Runs, NEW q \in Runs, pc[r] = "failed", pc[q] = "running", job[r] = job[q], ~met[r]
               PROVE  FALSE
    BY DEF LoneRunsAgree
  <2>1. PolicyOk(job[r]) /\ PlainPolicy(job[r])
    BY <1>1, ReservedFacts
  <2>2. Fails(job[r], disk)
    BY <1>1 DEF History, Fate, Smooth
  <2>3. Sofar(job[r], "running", at[q], ns[q], disk)
    BY <1>1 DEF History, Fate
  <2>4. QED
    BY <2>1, <2>2, <2>3, Conflict
<1>2. QED
  BY <1>1, AlwaysInv, AlwaysHistory, PTL

(* Without a runtime.root every declared mount that no later one covers is   *)
(* found where it was declared, and read-only where the policy says so,      *)
(* while other runs make and remove directories on the same disk             *)
(* (landlockd_setup_policy_mounts).                                          *)
THEOREM MountsAlwaysInPlace == Spec => []MountsInPlace
<1>1. ASSUME Inv, History PROVE MountsInPlace
  <2> SUFFICES ASSUME Reserved, NEW r \in Runs, pc[r] = "running", job[r].root = None,
                      NEW i \in DOMAIN Declared(job[r]), Declared(job[r])[i].path # <<>>,
                      \A k \in (i + 1)..Len(Declared(job[r])) : ~IsPrefix(Declared(job[r])[k].path, Declared(job[r])[i].path)
               PROVE  /\ Finds(r, Declared(job[r])[i].path, Declared(job[r])[i].made)
                      /\ Declared(job[r])[i].ro => ns[r].mounts[Walk(ns[r], disk, Declared(job[r])[i].path).mnt].ro
    BY DEF MountsInPlace
  <2> DEFINE p == job[r]
             n == ns[r]
             D == Clean(disk)
             all == Declared(p)
  <2>1. PolicyOk(p) /\ PlainPolicy(p) /\ Sofar(p, "running", at[r], n, disk)
    BY <1>1, ReservedFacts DEF History, Fate
  <2>2. Past(p, D, All(p), n)
    BY <2>1 DEF Sofar, OnHost
  <2>3. Early(n, p.root) /\ PlainNs(n) /\ Placed(p, D, All(p), n)
    BY <2>1, <2>2, PastAll
  <2>4. Len(all) = All(p) /\ i \in 1..All(p)
    BY <2>1, DeclaredFacts
  <2>5. n.mounts[i + 1].made = all[i].made /\ (all[i].ro => n.mounts[i + 1].ro) /\ Walk(n, D, all[i].path) = Root(n, i + 1)
    <3> HIDE DEF D, n
    <3> QED BY <2>3, <2>4 DEF Placed
  <2>6. all[i].path \in Paths /\ Plain(all[i].path)
    <3> DEFINE step == StepAt(p, i)
               x == IndexAt(p, i)
    <3>1. step \in Lists /\ x \in 1..Listed(p, step) /\ Before(p, step) + x = i
      BY <2>1, <2>4, RuleOf
    <3> HIDE DEF step, x
    <3>2. all[i].path = Target(p, step, x)
      BY <2>1, <3>1, DeclaredFacts
    <3>3. Target(p, step, x) \in Paths
      BY <2>1, <3>1, ListFacts
    <3>4. Plain(Target(p, step, x))
      BY <2>1, <3>1, ListFacts DEF Target, Listed, PlainPolicy, Lists
    <3>5. QED
      BY <3>2, <3>3, <3>4
  <2>7. Walk(n, disk, all[i].path) = Root(n, i + 1)
    <3>1. Tree(n)
      BY <2>3 DEF Early
    <3> HIDE DEF all
    <3>2. Walk(n, D, all[i].path) = Walk(n, disk, all[i].path)
      BY <2>3, <2>6, <3>1, WalkClean
    <3>3. QED
      BY <2>5, <3>2 DEF all
  <2> DEFINE w == Walk(n, disk, all[i].path)
  <2>8. w.mnt = i + 1 /\ w # Nowhere
    <3>1. i + 1 # 0
      BY <2>4
    <3>2. QED
      BY <2>7, <3>1 DEF Root, Nowhere
  <2> HIDE DEF w
  <2>9. QED
    BY <2>5, <2>8 DEF Finds, w
<1>2. QED
  BY <1>1, AlwaysInv, AlwaysHistory, PTL
=============================================================================
