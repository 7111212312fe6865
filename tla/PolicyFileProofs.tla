-------------------------- MODULE PolicyFileProofs --------------------------
(* Loading and copying a policy, for every set of documents: what a caller   *)
(* holds is a whole policy or nothing; what is in it passed the checks that  *)
(* its readers rely on; and a document the Rust helper accepts, with a table *)
(* for every struct, is loaded to the same IR.                               *)
EXTENDS PolicyParity, TLAPS

N == 18

(* What all sections of the document say. *)
WholeIr == [s \in Sections |-> [i \in DOMAIN Items(s) |-> Entry(s, Items(s)[i])]]

(* The first k entries of a section. *)
First(s, k) == [i \in 1..k |-> WholeIr[s][i]]

PositionInv ==
    /\ root \in Documents
    /\ pc \in {"idle", "load", "reset", "copy"}
    /\ section \in 1..(N + 1)
    /\ item \in Nat
    /\ pc = "load" => item <= (IF section <= N THEN Len(Items(Order[section])) ELSE 0)
    /\ result \in {"none", "loaded", "copied", "EINVAL", "open", "refused", "ENOMEM", "internal"}

(* Sections before the current one are whole, of the current one there are   *)
(* the entries taken, and the later ones are empty.                          *)
LoadInv ==
    /\ out_ir = [s \in Sections |-> out_ir[s]]
    /\ pc = "load" =>
         \A i \in 1..N :
            /\ i < section => out_ir[Order[i]] = WholeIr[Order[i]]
            /\ i = section => out_ir[Order[i]] = First(Order[i], item)
            /\ i > section => out_ir[Order[i]] = <<>>
    /\ pc \in {"idle", "copy"} => out_ir \in {EmptyIr, WholeIr}

(* The same of the copy; and while an IR is loaded nothing was copied yet.   *)
CopyInv ==
    /\ copy = [s \in Sections |-> copy[s]]
    /\ pc = "copy" =>
         \A i \in 1..N :
            /\ i < section => copy[Order[i]] = out_ir[Order[i]]
            /\ i >= section => copy[Order[i]] = <<>>
    /\ pc # "copy" => copy = EmptyIr \/ (copy = out_ir /\ pc = "idle")

IInv == PositionInv /\ LoadInv /\ CopyInv

-----------------------------------------------------------------------------
(* The order of loading names every section once.                            *)
LEMMA OrderFacts ==
    /\ Len(Order) = N
    /\ \A i \in 1..N : Order[i] \in Sections
    /\ \A i, j \in 1..N : Order[i] = Order[j] => i = j
    /\ \A s \in Sections : \E i \in 1..N : Order[i] = s
<1>1. Len(Order) = N
  BY DEF Order, N
<1>2. \A i \in 1..N : Order[i] \in Sections
  BY DEF Order, N, Sections
<1>3. \A i, j \in 1..N : Order[i] = Order[j] => i = j
  BY DEF Order, N
<1>4. \A s \in Sections : \E i \in 1..N : Order[i] = s
  <2> SUFFICES ASSUME NEW s \in Sections PROVE \E i \in 1..N : Order[i] = s
    OBVIOUS
  <2>1. /\ 1 \in 1..N /\ 2 \in 1..N /\ 3 \in 1..N /\ 4 \in 1..N /\ 5 \in 1..N /\ 6 \in 1..N
        /\ 7 \in 1..N /\ 8 \in 1..N /\ 9 \in 1..N /\ 10 \in 1..N /\ 11 \in 1..N /\ 12 \in 1..N
        /\ 13 \in 1..N /\ 14 \in 1..N /\ 15 \in 1..N /\ 16 \in 1..N /\ 17 \in 1..N /\ 18 \in 1..N
    BY DEF N
  <2>2. /\ Order[1] = "fs_layer" /\ Order[2] = "net" /\ Order[3] = "net_rule"
        /\ Order[4] = "open_read" /\ Order[5] = "open_write" /\ Order[6] = "scratch"
        /\ Order[7] = "export" /\ Order[8] = "broker_tmpfs" /\ Order[9] = "addfd"
        /\ Order[10] = "broker_bind" /\ Order[11] = "broker_object" /\ Order[12] = "mount_tmpfs"
        /\ Order[13] = "mount_bind" /\ Order[14] = "mount_proc" /\ Order[15] = "root"
        /\ Order[16] = "cwd" /\ Order[17] = "seccomp" /\ Order[18] = "deny"
    BY DEF Order
  <2>3. QED
    BY <2>1, <2>2, SMTT(40) DEF Sections
<1>5. QED
  BY <1>1, <1>2, <1>3, <1>4

(* What the accessors find in a document.                                    *)
LEMMA DatumFound ==
    ASSUME NEW t, NEW k, NEW type, DatumIn(t, k, type) # NULL
    PROVE  k \in DOMAIN t /\ Is(t[k], type) /\ DatumIn(t, k, type) = t[k][2]
BY DEF DatumIn, KeyExists

(* What is in a table of a document is sound.                                *)
LEMMA TableSound ==
    ASSUME root \in Documents, NEW k, DatumIn(root, k, "table") # NULL
    PROVE  Nested(DatumIn(root, k, "table"))
BY DatumFound, DocumentAssumption

(* The entries of a section are a sequence, and a section that is one field  *)
(* of the IR has at most one.                                                *)
LEMMA ItemsFacts ==
    ASSUME root \in Documents, NEW s \in Sections
    PROVE  /\ Len(Items(s)) \in Nat
           /\ DOMAIN Items(s) = 1..Len(Items(s))
           /\ s \in {"net", "seccomp", "root", "cwd"} => Len(Items(s)) <= 1
<1> DEFINE t == TableOf(s)
<1> DEFINE k == Place(s)[2]
<1>1. CASE t = NULL
  <2>1. Items(s) = <<>>
    BY <1>1 DEF Items
  <2>2. QED
    BY <2>1
<1>2. CASE t # NULL /\ s \in {"net", "seccomp"}
  <2>1. Items(s) = <<Table(t)>>
    BY <1>2 DEF Items
  <2>2. QED
    BY <2>1
<1>3. CASE t # NULL /\ s \in {"root", "cwd"}
  <2>1. Items(s) = <<>> \/ Items(s) = <<String(DatumIn(t, k, "string"))>>
    BY <1>3 DEF Items
  <2>2. QED
    BY <2>1, <1>3
<1>4. CASE t # NULL /\ s \notin {"net", "seccomp", "root", "cwd"}
  <2>1. Items(s) = <<>> \/ (ArrayIn(t, k) # NULL /\ Items(s) = ArrayIn(t, k))
    BY <1>4 DEF Items
  <2>2. Flat(t)
    <3>1. t = root \/ (t = DatumIn(root, Place(s)[1], "table") /\ t # NULL)
      BY <1>4 DEF TableOf, TableIn
    <3>2. Flat(root)
      BY DocumentAssumption
    <3>3. ASSUME DatumIn(root, Place(s)[1], "table") # NULL
          PROVE  Flat(DatumIn(root, Place(s)[1], "table"))
      BY <3>3, TableSound DEF Nested
    <3>4. QED
      BY <3>1, <3>2, <3>3
  <2>3. ASSUME ArrayIn(t, k) # NULL
        PROVE  ArrayIn(t, k) \in Seq({ArrayIn(t, k)[i] : i \in DOMAIN ArrayIn(t, k)})
    BY <2>2, <2>3 DEF ArrayIn, DatumIn, KeyExists, Flat, Sound
  <2>4. QED
    BY <2>1, <2>3, <1>4
<1>5. QED
  BY <1>1, <1>2, <1>3, <1>4

(* What all entries of a section say.                                        *)
LEMMA WholeFacts ==
    ASSUME root \in Documents, NEW s \in Sections
    PROVE  /\ WholeIr[s] = [i \in 1..Len(Items(s)) |-> Entry(s, Items(s)[i])]
           /\ First(s, Len(Items(s))) = WholeIr[s]
           /\ First(s, 0) = <<>>
<1>1. WholeIr[s] = [i \in 1..Len(Items(s)) |-> Entry(s, Items(s)[i])]
  BY ItemsFacts DEF WholeIr
<1>2. First(s, Len(Items(s))) = WholeIr[s]
  BY <1>1 DEF First
<1>3. First(s, 0) = <<>>
  BY DEF First
<1>4. QED
  BY <1>1, <1>2, <1>3

(* Appending the next entry to the first k gives the first k + 1.            *)
LEMMA NextEntry ==
    ASSUME NEW w, NEW k \in Nat
    PROVE  Append([i \in 1..k |-> w[i]], w[k + 1]) = [i \in 1..(k + 1) |-> w[i]]
<1> DEFINE S == {w[i] : i \in 1..(k + 1)}
<1> DEFINE f == [i \in 1..k |-> w[i]]
<1>1. f \in Seq(S) /\ Len(f) = k
  OBVIOUS
<1>2. w[k + 1] \in S
  OBVIOUS
<1> HIDE DEF S
<1>3. QED
  BY <1>1, <1>2

(* An IR is known by its sections.                                           *)
LEMMA SameIr ==
    ASSUME NEW f, NEW g, f = [s \in Sections |-> f[s]], g = [s \in Sections |-> g[s]],
           \A i \in 1..N : f[Order[i]] = g[Order[i]]
    PROVE  f = g
<1>1. ASSUME NEW s \in Sections PROVE f[s] = g[s]
  <2>1. PICK i \in 1..N : Order[i] = s
    BY OrderFacts
  <2>2. QED
    BY <2>1
<1>2. QED
  BY <1>1

(* At the start nothing is loaded and nothing is copied.                     *)
LEMMA InitInv == Init => IInv
<1> SUFFICES ASSUME Init PROVE IInv
  OBVIOUS
<1>1. PositionInv
  BY DEF Init, PositionInv, N
<1>2. LoadInv
  BY DEF Init, LoadInv, EmptyIr
<1>3. CopyInv
  BY DEF Init, CopyInv, EmptyIr
<1>4. QED
  BY <1>1, <1>2, <1>3 DEF IInv

(* What is read from the document does not change while it is read.          *)
LEMMA Unread ==
    ASSUME root' = root
    PROVE  /\ WholeIr' = WholeIr
           /\ \A s : Items(s)' = Items(s)
           /\ \A s, k : First(s, k)' = First(s, k)
BY DEF WholeIr, Items, First, TableOf

(* The call, its test for an empty IR and its tests of the root table.       *)
LEMMA LoadStep == ASSUME IInv, Load PROVE IInv'
<1> USE Unread DEF IInv
<1>0. /\ pc = "idle" /\ section' = 1 /\ item' = 0 /\ UNCHANGED <<root, out_ir, copy>>
      /\ pc' \in {"idle", "load", "reset"}
      /\ result' \in {"none", "EINVAL", "open", "refused"}
      /\ pc' # "idle" => out_ir = EmptyIr
  BY DEF Load
<1>1. PositionInv'
  <2>1. Len(Items(Order[1])) \in Nat
    BY ItemsFacts, OrderFacts DEF PositionInv, N
  <2>2. QED
    BY <1>0, <2>1 DEF PositionInv, N
<1>2. LoadInv'
  <2>1. pc' = "load" => \A i \in 1..N : out_ir[Order[i]] = <<>> /\ First(Order[i], 0) = <<>>
    BY <1>0, OrderFacts, WholeFacts, ZenonT(40) DEF EmptyIr, PositionInv
  <2>2. QED
    BY <1>0, <2>1 DEF LoadInv, N, EmptyIr
<1>3. CopyInv'
  BY <1>0 DEF CopyInv, EmptyIr
<1>4. QED
  BY <1>1, <1>2, <1>3

(* One entry more, or the way to the reset.                                  *)
LEMMA LoadEntryStep == ASSUME IInv, LoadEntry PROVE IInv'
<1> USE Unread DEF IInv
<1> DEFINE s == Order[section]
<1> DEFINE e == Entry(s, Items(s)[item + 1])
<1>0. /\ pc = "load" /\ section \in 1..N /\ s \in Sections
      /\ item < Len(Items(s)) /\ UNCHANGED <<root, copy, section>>
  BY OrderFacts, SMTT(40) DEF LoadEntry, PositionInv, N
<1>a. Len(Items(s)) \in Nat /\ item \in Nat /\ root \in Documents
  BY <1>0, ItemsFacts DEF PositionInv
<1>1. CASE out_ir' = Add(out_ir, s, e) /\ item' = item + 1 /\ UNCHANGED <<pc, result>>
  <2>1. PositionInv'
    BY <1>0, <1>a, <1>1 DEF PositionInv, N
  <2>2. e = WholeIr[s][item + 1]
    <3>1. WholeIr[s] = [i \in 1..Len(Items(s)) |-> Entry(s, Items(s)[i])]
      BY <1>0, <1>a, WholeFacts
    <3>2. item + 1 \in 1..Len(Items(s))
      BY <1>0, <1>a
    <3>3. QED
      BY <3>1, <3>2
  <2>3. out_ir[s] = First(s, item)
    BY <1>0 DEF LoadInv
  <2>4. Append(out_ir[s], e) = First(s, item + 1)
    BY <2>2, <2>3, <1>a, NextEntry DEF First
  <2>5. ASSUME s \in {"net", "seccomp"} PROVE Append(out_ir[s], e) = <<e>>
    <3>1. item = 0
      BY <2>5, <1>0, <1>a, ItemsFacts
    <3>2. out_ir[s] = <<>>
      BY <3>1, <2>3, <1>0, <1>a, WholeFacts
    <3>3. QED
      BY <3>2
  <2>6. out_ir' = [out_ir EXCEPT ![s] = First(s, item + 1)]
    BY <1>1, <2>4, <2>5 DEF Add
  <2>7. LoadInv'
    <3>1. out_ir' = [x \in Sections |-> out_ir'[x]]
      BY <2>6 DEF LoadInv
    <3>2. \A i \in 1..N : i # section => out_ir'[Order[i]] = out_ir[Order[i]]
      BY <2>6, <1>0, OrderFacts DEF LoadInv
    <3>3. out_ir'[s] = First(s, item + 1)
      BY <2>6, <1>0 DEF LoadInv
    <3>4. ASSUME NEW i \in 1..N
          PROVE  /\ i < section => out_ir'[Order[i]] = WholeIr[Order[i]]
                 /\ i = section => out_ir'[Order[i]] = First(Order[i], item + 1)
                 /\ i > section => out_ir'[Order[i]] = <<>>
      <4>1. /\ i < section => out_ir[Order[i]] = WholeIr[Order[i]]
            /\ i > section => out_ir[Order[i]] = <<>>
        BY <1>0 DEF LoadInv
      <4>2. i < section \/ i > section => i # section
        BY <1>0 DEF N
      <4>3. QED
        BY <4>1, <4>2, <3>2, <3>3
    <3>5. QED
      BY <1>0, <1>1, <3>1, <3>4 DEF LoadInv
  <2>8. CopyInv'
    BY <1>0, <1>1 DEF CopyInv, EmptyIr
  <2>9. QED
    BY <2>1, <2>7, <2>8
<1>2. CASE pc' = "reset" /\ result' \in {"ENOMEM", "internal"} /\ UNCHANGED <<out_ir, item>>
  <2>1. PositionInv'
    BY <1>0, <1>2 DEF PositionInv, N
  <2>2. LoadInv'
    BY <1>0, <1>2 DEF LoadInv
  <2>3. CopyInv'
    BY <1>0, <1>2 DEF CopyInv, EmptyIr
  <2>4. QED
    BY <2>1, <2>2, <2>3
<1>3. QED
  BY <1>1, <1>2 DEF LoadEntry

(* The section is done: what was taken of it is all of it.                   *)
LEMMA NextSectionStep == ASSUME IInv, NextSection PROVE IInv'
<1> USE Unread DEF IInv
<1> DEFINE s == Order[section]
<1>0. /\ pc = "load" /\ pc' = "load" /\ section \in 1..N /\ s \in Sections /\ root \in Documents
      /\ item = Len(Items(s)) /\ section' = section + 1 /\ item' = 0
      /\ UNCHANGED <<root, out_ir, copy, result>>
  BY OrderFacts DEF NextSection, PositionInv, N
<1>1. PositionInv'
  <2>1. section' \in 1..(N + 1)
    BY <1>0 DEF N
  <2>2. section' <= N => Order[section'] \in Sections
    BY <1>0, OrderFacts, SMTT(40) DEF N
  <2>3. section' <= N => Len(Items(Order[section'])) \in Nat
    BY <1>0, <2>2, ItemsFacts
  <2>4. QED
    BY <1>0, <2>1, <2>3 DEF PositionInv, N
<1>2. LoadInv'
  <2>0. \A i \in 1..N :
          /\ i < section => out_ir[Order[i]] = WholeIr[Order[i]]
          /\ i = section => out_ir[Order[i]] = First(Order[i], item)
          /\ i > section => out_ir[Order[i]] = <<>>
    BY <1>0 DEF LoadInv
  <2>1. out_ir[s] = WholeIr[s]
    <3>1. out_ir[s] = First(s, Len(Items(s)))
      BY <1>0, <2>0
    <3>2. QED
      BY <1>0, <3>1, WholeFacts
  <2>2. \A i \in 1..N : i = section' => out_ir[Order[i]] = <<>> /\ First(Order[i], 0) = <<>>
    <3>1. \A i \in 1..N : First(Order[i], 0) = <<>>
      BY <1>0, OrderFacts, WholeFacts
    <3>2. ASSUME NEW i \in 1..N, i = section' PROVE out_ir[Order[i]] = <<>>
      <4>1. i > section
        BY <1>0, <3>2 DEF N
      <4>2. QED
        BY <2>0, <4>1
    <3>3. QED
      BY <3>1, <3>2
  <2>3. ASSUME NEW i \in 1..N, i < section' PROVE out_ir[Order[i]] = WholeIr[Order[i]]
    <3>1. i < section \/ i = section
      BY <1>0, <2>3 DEF N
    <3>2. QED
      BY <2>0, <2>1, <3>1
  <2>4. ASSUME NEW i \in 1..N, i > section' PROVE out_ir[Order[i]] = <<>>
    <3>1. i > section
      BY <1>0, <2>4 DEF N
    <3>2. QED
      BY <2>0, <3>1
  <2>5. QED
    BY <1>0, <2>2, <2>3, <2>4 DEF LoadInv
<1>3. CopyInv'
  BY <1>0 DEF CopyInv, EmptyIr
<1>4. QED
  BY <1>1, <1>2, <1>3

(* After the last section the IR is the whole document.                      *)
LEMMA LoadedStep == ASSUME IInv, Loaded PROVE IInv'
<1> USE Unread DEF IInv
<1>0. /\ pc = "load" /\ section = N + 1 /\ pc' = "idle" /\ result' = "loaded"
      /\ UNCHANGED <<root, out_ir, copy, section, item>>
  BY OrderFacts DEF Loaded, PositionInv, N
<1>1. PositionInv'
  BY <1>0 DEF PositionInv, N
<1>2. out_ir = WholeIr
  <2>1. \A i \in 1..N : out_ir[Order[i]] = WholeIr[Order[i]]
    BY <1>0 DEF LoadInv, N
  <2>2. WholeIr = [x \in Sections |-> WholeIr[x]]
    BY DEF WholeIr
  <2>3. QED
    BY <2>1, <2>2, SameIr DEF LoadInv
<1>3. LoadInv'
  BY <1>0, <1>2 DEF LoadInv
<1>4. CopyInv'
  BY <1>0 DEF CopyInv, EmptyIr
<1>5. QED
  BY <1>1, <1>3, <1>4

(* A refusal, and the reset that follows every failure.                      *)
LEMMA ResetStep == ASSUME IInv, Refuse \/ Reset PROVE IInv'
<1> USE Unread DEF IInv
<1>1. CASE Refuse
  <2>0. /\ pc = "load" /\ pc' = "reset" /\ result' = "refused"
        /\ UNCHANGED <<root, out_ir, copy, section, item>>
    BY <1>1 DEF Refuse
  <2>1. PositionInv'
    BY <2>0 DEF PositionInv, N
  <2>2. LoadInv'
    BY <2>0 DEF LoadInv
  <2>3. CopyInv'
    BY <2>0 DEF CopyInv, EmptyIr
  <2>4. QED
    BY <2>1, <2>2, <2>3
<1>2. CASE Reset
  <2>0. /\ pc = "reset" /\ pc' = "idle" /\ out_ir' = EmptyIr
        /\ UNCHANGED <<root, copy, section, item, result>>
    BY <1>2 DEF Reset
  <2>1. PositionInv'
    BY <2>0 DEF PositionInv, N
  <2>2. LoadInv'
    BY <2>0 DEF LoadInv, EmptyIr
  <2>3. CopyInv'
    BY <2>0 DEF CopyInv, EmptyIr
  <2>4. QED
    BY <2>1, <2>2, <2>3
<1>3. QED
  BY <1>1, <1>2

(* The copy: started, refused, one section more, done, failed.               *)
LEMMA CopyStep == ASSUME IInv, Copy \/ CopySection \/ Copied \/ CopyFails PROVE IInv'
<1> USE Unread DEF IInv
<1>1. CASE Copy
  <2>0. /\ pc = "idle" /\ section' = 1 /\ UNCHANGED <<root, out_ir, copy, item>>
        /\ \/ copy = EmptyIr /\ pc' = "copy" /\ result' = "none"
           \/ pc' = "idle" /\ result' = "EINVAL"
    BY <1>1 DEF Copy
  <2>1. PositionInv'
    BY <2>0 DEF PositionInv, N
  <2>2. LoadInv'
    BY <2>0 DEF LoadInv
  <2>3. CopyInv'
    <3>1. copy = EmptyIr => \A i \in 1..N : copy[Order[i]] = <<>>
      BY OrderFacts DEF EmptyIr
    <3>2. QED
      BY <2>0, <3>1 DEF CopyInv, N
  <2>4. QED
    BY <2>1, <2>2, <2>3
<1>2. CASE CopySection
  <2> DEFINE s == Order[section]
  <2>0. /\ pc = "copy" /\ pc' = "copy" /\ section \in 1..N /\ s \in Sections
        /\ copy' = [copy EXCEPT ![s] = out_ir[s]] /\ section' = section + 1
        /\ UNCHANGED <<root, out_ir, item, result>>
    BY <1>2, OrderFacts DEF CopySection, PositionInv, N
  <2>1. PositionInv'
    BY <2>0 DEF PositionInv, N
  <2>2. LoadInv'
    BY <2>0 DEF LoadInv
  <2>3. CopyInv'
    <3>1. copy' = [x \in Sections |-> copy'[x]] /\ copy'[s] = out_ir[s]
      BY <2>0 DEF CopyInv
    <3>2. \A i \in 1..N : i # section => copy'[Order[i]] = copy[Order[i]]
      BY <2>0, OrderFacts DEF CopyInv
    <3>3. ASSUME NEW i \in 1..N
          PROVE  /\ i < section' => copy'[Order[i]] = out_ir[Order[i]]
                 /\ i >= section' => copy'[Order[i]] = <<>>
      <4>1. /\ i < section => copy[Order[i]] = out_ir[Order[i]]
            /\ i >= section => copy[Order[i]] = <<>>
        BY <2>0 DEF CopyInv
      <4>2. /\ i < section' => i < section \/ i = section
            /\ i >= section' => i >= section /\ i # section
        BY <2>0 DEF N
      <4>3. QED
        BY <4>1, <4>2, <3>1, <3>2
    <3>4. QED
      BY <2>0, <3>1, <3>3 DEF CopyInv
  <2>4. QED
    BY <2>1, <2>2, <2>3
<1>3. CASE Copied
  <2>0. /\ pc = "copy" /\ section = N + 1 /\ pc' = "idle" /\ result' = "copied"
        /\ UNCHANGED <<root, out_ir, copy, section, item>>
    BY <1>3, OrderFacts DEF Copied, PositionInv, N
  <2>1. PositionInv'
    BY <2>0 DEF PositionInv, N
  <2>2. LoadInv'
    BY <2>0 DEF LoadInv
  <2>3. CopyInv'
    <3>1. \A i \in 1..N : copy[Order[i]] = out_ir[Order[i]]
      BY <2>0 DEF CopyInv, N
    <3>2. copy = out_ir
      BY <3>1, SameIr DEF CopyInv, LoadInv
    <3>3. QED
      BY <2>0, <3>2 DEF CopyInv
  <2>4. QED
    BY <2>1, <2>2, <2>3
<1>4. CASE CopyFails
  <2>0. /\ pc = "copy" /\ pc' = "idle" /\ copy' = EmptyIr /\ result' = "ENOMEM"
        /\ UNCHANGED <<root, out_ir, section, item>>
    BY <1>4 DEF CopyFails
  <2>1. PositionInv'
    BY <2>0 DEF PositionInv, N
  <2>2. LoadInv'
    BY <2>0 DEF LoadInv
  <2>3. CopyInv'
    BY <2>0 DEF CopyInv, EmptyIr
  <2>4. QED
    BY <2>1, <2>2, <2>3
<1>5. QED
  BY <1>1, <1>2, <1>3, <1>4

(* Every step keeps the invariant.                                           *)
LEMMA NextInv == IInv /\ [Next]_vars => IInv'
<1> SUFFICES ASSUME IInv, [Next]_vars PROVE IInv'
  OBVIOUS
<1>1. CASE Next
  BY <1>1, LoadStep, LoadEntryStep, NextSectionStep, LoadedStep, ResetStep, CopyStep DEF Next
<1>2. CASE UNCHANGED vars
  BY <1>2, Unread DEF vars, IInv, PositionInv, LoadInv, CopyInv
<1>3. QED
  BY <1>1, <1>2

-----------------------------------------------------------------------------
(* The caller's state keeps its type, and the position is within the         *)
(* document (landlock_policy_loader_in_process.c).                           *)
THEOREM TypeCorrect == Spec => []TypeOK
<1>1. IInv => TypeOK
  BY OrderFacts DEF IInv, PositionInv, LoadInv, CopyInv, TypeOK, N
<1>2. QED
  BY <1>1, InitInv, NextInv, PTL DEF Spec

(* The IR a caller sees between two calls is nothing or one whole document,  *)
(* for every set of documents, whatever was refused and whichever allocation *)
(* failed (landlockd_policy_load_file_in_process).                           *)
THEOREM AlwaysWhole == Spec => []WholeDocument
<1>1. IInv => WholeDocument
  <2> SUFFICES ASSUME IInv, pc \in {"idle", "copy"}, out_ir # EmptyIr, NEW s \in Sections
               PROVE  /\ DOMAIN out_ir[s] = DOMAIN Items(s)
                      /\ \A i \in DOMAIN Items(s) : out_ir[s][i] = Entry(s, Items(s)[i])
    BY DEF WholeDocument
  <2>1. out_ir = WholeIr
    BY DEF IInv, LoadInv
  <2>2. out_ir[s] = [i \in DOMAIN Items(s) |-> Entry(s, Items(s)[i])]
    BY <2>1 DEF WholeIr
  <2>3. QED
    BY <2>2
<1>2. QED
  BY <1>1, InitInv, NextInv, PTL DEF Spec

(* A copy is complete or nothing (landlockd_policy_ir_copy).                 *)
THEOREM CopiesComplete == Spec => []CopyComplete
<1>1. IInv => CopyComplete
  BY DEF IInv, CopyInv, CopyComplete
<1>2. QED
  BY <1>1, InitInv, NextInv, PTL DEF Spec

(* The table of a section: the root, or a table in it.                       *)
LEMMA TableFacts ==
    ASSUME root \in Documents, NEW s \in Sections
    PROVE  /\ s = "fs_layer" => TableOf(s) = root
           /\ s # "fs_layer" => Place(s)[1] # "" /\ TableOf(s) = DatumIn(root, Place(s)[1], "table")
           /\ s # "fs_layer" /\ TableOf(s) # NULL => Nested(TableOf(s))
           /\ TableOf(s) # NULL => Flat(TableOf(s))
<1>1. s # "fs_layer" => Place(s)[1] # ""
  BY DEF Sections, Place
<1>2. s = "fs_layer" => Place(s)[1] = ""
  BY DEF Place
<1>3. /\ s = "fs_layer" => TableOf(s) = root
      /\ s # "fs_layer" => Place(s)[1] # "" /\ TableOf(s) = DatumIn(root, Place(s)[1], "table")
  BY <1>1, <1>2 DEF TableOf, TableIn
<1>4. s # "fs_layer" /\ TableOf(s) # NULL => Nested(TableOf(s))
  BY <1>3, TableSound
<1>5. Flat(root)
  BY DocumentAssumption
<1>6. QED
  BY <1>3, <1>4, <1>5 DEF Nested

(* An entry is an element of its array, and a table that holds no tables or, *)
(* a layer, arrays of such.                                                  *)
Listed == Sections \ {"net", "seccomp", "root", "cwd"}
(* An entry of a list comes from an array that is there.                     *)
LEMMA ListedItems ==
    ASSUME root \in Documents, NEW s \in Listed, NEW i \in DOMAIN Items(s)
    PROVE  /\ TableOf(s) # NULL
           /\ Place(s)[2] \in DOMAIN TableOf(s)
           /\ Is(TableOf(s)[Place(s)[2]], "array")
           /\ Items(s) = TableOf(s)[Place(s)[2]][2]
           /\ Is(Items(s)[i], "table") => Flat(Items(s)[i][2])
           /\ s = "fs_layer" /\ Is(Items(s)[i], "table") => Nested(Items(s)[i][2])
<1> DEFINE t == TableOf(s)
<1> DEFINE k == Place(s)[2]
<1>0. s \in Sections
  BY DEF Listed
<1>1. Items(s) # <<>>
  OBVIOUS
<1>2. t # NULL /\ ArrayIn(t, k) # NULL /\ Items(s) = ArrayIn(t, k)
  BY <1>1 DEF Items, Listed
<1>3. k \in DOMAIN t /\ Is(t[k], "array") /\ Items(s) = t[k][2]
  BY <1>2, DatumFound DEF ArrayIn
<1> HIDE DEF t, k
<1>4. CASE s = "fs_layer"
  <2>1. t = root
    BY <1>0, <1>4, TableFacts DEF t
  <2>2. Is(Items(s)[i], "table") => Nested(Items(s)[i][2])
    BY <2>1, <1>3, DocumentAssumption
  <2>3. QED
    BY <1>2, <1>3, <2>2 DEF Nested, t, k
<1>5. CASE s # "fs_layer"
  <2>1. Nested(t)
    BY <1>0, <1>2, <1>5, TableFacts DEF t
  <2>2. Is(Items(s)[i], "table") => Flat(Items(s)[i][2])
    BY <2>1, <1>3 DEF Nested
  <2>3. QED
    BY <1>2, <1>3, <1>5, <2>2 DEF t, k
<1>6. QED
  BY <1>4, <1>5

(* The sections that are one field.                                          *)
LEMMA FieldItems ==
    ASSUME root \in Documents, NEW s \in Sections \ Listed
    PROVE  /\ s \in {"net", "seccomp"} /\ TableOf(s) = NULL => Items(s) = <<>>
           /\ s \in {"net", "seccomp"} /\ TableOf(s) # NULL =>
                  Items(s) = <<Table(TableOf(s))>> /\ Flat(TableOf(s))
           /\ s \in {"root", "cwd"} =>
                  \/ Items(s) = <<>>
                  \/ Items(s) = <<String(DatumIn(TableOf(s), Place(s)[2], "string"))>>
<1>1. TableOf(s) # NULL => Flat(TableOf(s))
  BY TableFacts
<1>2. QED
  BY <1>1 DEF Items, Listed

-----------------------------------------------------------------------------
(* What the checks of an entry leave: enough for whoever reads the IR.       *)
FsReady(e) ==
    /\ e.handled # {}
    /\ \A j \in DOMAIN e.rules : e.rules[j].access # {} /\ e.rules[j].path # ""
NetReady(e) == e.port \in Ports /\ e.access # {}
BindReady(e) == e.source # "" /\ e.target # ""
AddfdReady(e) == e.action \in AddfdActions /\ e.target # ""
ErrnoReady(e) == e \in Errnos

Ready(s, e) ==
    CASE s = "fs_layer" -> FsReady(e)
      [] s = "net" -> e # {}
      [] s = "net_rule" -> NetReady(e)
      [] s \in BrokerPaths \cup MountPaths \cup {"root", "cwd"} -> e # ""
      [] s \in Binds -> BindReady(e)
      [] s = "broker_object" -> AddObjectOk(e)
      [] s = "addfd" -> AddfdReady(e)
      [] s = "seccomp" -> ErrnoReady(e)
      [] s = "deny" -> TRUE

(* An array in a table is a sequence of its elements.                        *)
LEMMA ArrayFound ==
    ASSUME NEW t, NEW k, Flat(t), ArrayIn(t, k) # NULL
    PROVE  ArrayIn(t, k) \in Seq({ArrayIn(t, k)[i] : i \in DOMAIN ArrayIn(t, k)})
<1>1. k \in DOMAIN t /\ Is(t[k], "array") /\ ArrayIn(t, k) = t[k][2]
  BY DatumFound DEF ArrayIn
<1>2. Sound(t[k])
  BY <1>1 DEF Flat
<1>3. QED
  BY <1>1, <1>2 DEF Sound

(* A list of names that was accepted has a name in it.                       *)
LEMMA AccessNamed ==
    ASSUME NEW t, NEW k, NEW names, Flat(t), AccessOk(ArrayIn(t, k), names)
    PROVE  Access(ArrayIn(t, k)) # {}
<1> DEFINE arr == ArrayIn(t, k)
<1>1. arr # NULL /\ arr # <<>>
  BY DEF AccessOk
<1>2. arr \in Seq({arr[i] : i \in DOMAIN arr})
  BY <1>1, ArrayFound
<1>3. 1 \in DOMAIN arr
  BY <1>1, <1>2
<1> HIDE DEF arr
<1>4. QED
  BY <1>3 DEF Access, arr

(* A datum read as an integer is one.                                        *)
LEMMA IntegerFound ==
    ASSUME NEW t, NEW k, Flat(t), DatumIn(t, k, "integer") # NULL
    PROVE  DatumIn(t, k, "integer") \in Int
<1>1. k \in DOMAIN t /\ Is(t[k], "integer") /\ DatumIn(t, k, "integer") = t[k][2]
  BY DatumFound
<1>2. Sound(t[k])
  BY <1>1 DEF Flat
<1>3. QED
  BY <1>1, <1>2 DEF Sound

(* A layer that was checked handles and allows something.                    *)
LEMMA LayerReady == ASSUME NEW t, Nested(t), FsLayerOk(t) PROVE FsReady(FsLayer(t))
<1> DEFINE rules == ArrayIn(t, "rule")
<1> DEFINE layer == FsLayer(t)
<1>1. layer.handled # {}
  BY AccessNamed DEF Nested, FsLayerOk, FsLayer
<1>2. ASSUME NEW j \in DOMAIN layer.rules
      PROVE  layer.rules[j].access # {} /\ layer.rules[j].path # ""
  <2>0. rules # NULL
    BY <1>2 DEF FsLayer
  <2>1. j \in DOMAIN rules
    BY <1>2, <2>0 DEF FsLayer
  <2>2. Is(rules[j], "table") /\ FsRuleOk(rules[j][2])
    BY <2>0, <2>1 DEF FsLayerOk
  <2>3. Flat(rules[j][2])
    BY <2>0, <2>1, <2>2, DatumFound DEF Nested, ArrayIn
  <2>4. /\ layer.rules[j].path = DatumIn(rules[j][2], "path", "string")
        /\ layer.rules[j].access = Access(ArrayIn(rules[j][2], "allowed_access"))
    BY <2>0, <2>1 DEF FsLayer
  <2> HIDE DEF rules, layer
  <2>5. QED
    BY <2>2, <2>3, <2>4, AccessNamed DEF FsRuleOk, NonEmpty
<1>3. QED
  BY <1>1, <1>2 DEF FsReady

(* What lies between the bounds is a port, or an errno.                      *)
LEMMA Limits == MaxPort \in Int /\ MaxErrno \in Int /\ MaxErrno >= 1
  BY DEF MaxPort, MaxErrno

LEMMA PortBounds == ASSUME NEW p PROVE p \in Ports <=> p \in Int /\ p >= 0 /\ p <= MaxPort
  BY Limits DEF Ports

LEMMA ErrnoBounds == ASSUME NEW p PROVE p \in Errnos <=> p \in Int /\ p > 0 /\ p <= MaxErrno
  BY Limits DEF Errnos

(* A port is not changed by its conversion to 16 bits.                       *)
LEMMA PortFacts ==
    ASSUME NEW p, p \in Ports
    PROVE  p \in Int /\ p >= 0 /\ p <= MaxPort /\ p % 65536 = p
<1>1. p \in Int /\ p >= 0 /\ p <= MaxPort
  BY PortBounds
<1>2. p % 65536 = p
  BY <1>1 DEF MaxPort
<1>3. QED
  BY <1>1, <1>2

(* A network rule that was checked has a port.                               *)
LEMMA NetRuleReady ==
    ASSUME NEW t, Flat(t), NetRuleOk(t)
    PROVE  NetReady([port |-> DatumIn(t, "port", "integer") % 65536,
                     access |-> Access(ArrayIn(t, "allowed_access"))])
<1> DEFINE port == DatumIn(t, "port", "integer")
<1>1. port # NULL /\ port >= 0 /\ port <= MaxPort
  BY DEF NetRuleOk
<1>2. port \in Int
  BY <1>1, IntegerFound
<1>3. Access(ArrayIn(t, "allowed_access")) # {}
  BY AccessNamed DEF NetRuleOk
<1> HIDE DEF port
<1>4. port % 65536 \in Ports
  <2>1. port \in Ports
    BY <1>1, <1>2, PortBounds
  <2>2. QED
    BY <2>1, PortFacts
<1> DEFINE a == Access(ArrayIn(t, "allowed_access"))
<1> DEFINE e == [port |-> port % 65536, access |-> a]
<1>5. e.port = port % 65536 /\ e.access = a
  OBVIOUS
<1> HIDE DEF e
<1>6. e.port \in Ports /\ e.access # {}
  BY <1>3, <1>4, <1>5
<1>7. NetReady(e)
  BY <1>6 DEF NetReady
<1>8. QED
  BY <1>7 DEF e, port

(* A mount object that was checked is one its add function takes.            *)
LEMMA ObjectReady == ASSUME NEW t, Flat(t), MountObjectOk(t) PROVE AddObjectOk(MountObject(t))
<1> DEFINE attach == ArrayIn(t, "attach")
<1> DEFINE e == MountObject(t)
<1>1. /\ attach # NULL /\ attach # <<>>
      /\ \A i \in DOMAIN attach : IsAbsolute(DatumAt(attach, i, "string"))
  BY DEF MountObjectOk
<1>2. e.name # "" /\ e.fs_type # ""
  BY DEF MountObjectOk, MountObject, NonEmpty, FsTypes
<1>3. e.attach = [i \in DOMAIN attach |-> attach[i][2]]
  BY DEF MountObject
<1> HIDE DEF e, attach
<1>4. ASSUME NEW i \in DOMAIN attach PROVE attach[i][2] # ""
  BY <1>1, TextAssumption DEF IsAbsolute, DatumAt
<1>5. e.attach # <<>>
  <2>0. attach \in Seq({attach[i] : i \in DOMAIN attach})
    BY <1>1, ArrayFound DEF attach
  <2>1. DOMAIN attach # {}
    BY <1>1, <2>0
  <2>2. QED
    BY <1>3, <2>1
<1>6. QED
  BY <1>2, <1>3, <1>4, <1>5 DEF AddObjectOk, e

(* A bind that was checked is one its add function takes.                    *)
LEMMA BindsReady == ASSUME NEW t, BindOk(t) PROVE BindReady(Bind(t))
<1>1. DatumIn(t, "source", "string") # "" /\ DatumIn(t, "target", "string") # ""
  BY TextAssumption DEF BindOk, IsAbsolute
<1>2. QED
  BY <1>1 DEF Bind, BindReady

(* An entry that passed its checks is ready, in whichever section it is.     *)
LEMMA EntryReady ==
    ASSUME root \in Documents, NEW s \in Sections, NEW i \in DOMAIN Items(s),
           EntryOk(s, Items(s)[i])
    PROVE  Ready(s, Entry(s, Items(s)[i]))
<1> DEFINE v == Items(s)[i]
<1> DEFINE e == Entry(s, v)
<1> USE DEF BrokerPaths, MountPaths, Binds
<1>1. CASE s = "fs_layer"
  <2>1. Is(v, "table") /\ FsLayerOk(v[2]) /\ e = FsLayer(v[2])
    BY <1>1 DEF EntryOk, Entry
  <2>2. Nested(v[2])
    BY <1>1, <2>1, ListedItems DEF Listed
  <2>3. FsReady(e)
    BY <2>1, <2>2, LayerReady
  <2> HIDE DEF e
  <2>4. QED
    BY <1>1, <2>3 DEF Ready, e
<1>2. CASE s = "net"
  <2>1. AccessOk(ArrayIn(v[2], "handled_access_net"), NetAccess)
        /\ e = Access(ArrayIn(v[2], "handled_access_net"))
    BY <1>2 DEF EntryOk, Entry
  <2>2. Items(s) = <<Table(TableOf(s))>> /\ Flat(TableOf(s))
    BY <1>2, FieldItems DEF Listed
  <2>3. v[2] = TableOf(s)
    BY <2>2 DEF Table
  <2>4. e # {}
    BY <2>1, <2>2, <2>3, AccessNamed
  <2> HIDE DEF e
  <2>5. QED
    BY <1>2, <2>4 DEF Ready, e
<1>3. CASE s = "net_rule"
  <2>1. /\ Is(v, "table") /\ NetRuleOk(v[2])
        /\ e = [port |-> DatumIn(v[2], "port", "integer") % 65536,
                access |-> Access(ArrayIn(v[2], "allowed_access"))]
    BY <1>3 DEF EntryOk, Entry
  <2>2. Flat(v[2])
    BY <1>3, <2>1, ListedItems DEF Listed
  <2>3. NetReady(e)
    BY <2>1, <2>2, NetRuleReady
  <2> HIDE DEF e
  <2>4. QED
    BY <1>3, <2>3 DEF Ready, e
<1>4. CASE s \in BrokerPaths \cup MountPaths \cup {"root", "cwd"}
  <2>1. NonEmpty(v[2]) \/ IsAbsolute(v[2])
    BY <1>4 DEF EntryOk
  <2>2. e = v[2]
    BY <1>4 DEF Entry
  <2>3. e # ""
    BY <2>1, <2>2, TextAssumption DEF NonEmpty, IsAbsolute
  <2> HIDE DEF e
  <2>4. QED
    BY <1>4, <2>3 DEF Ready, e
<1>5. CASE s \in Binds
  <2>0. BindOk(v[2])
    BY <1>5 DEF EntryOk
  <2>1. e = Bind(v[2])
    BY <1>5 DEF Entry
  <2> HIDE DEF e
  <2>2. BindReady(e)
    BY <2>0, <2>1, BindsReady
  <2>3. QED
    BY <1>5, <2>2 DEF Ready, e
<1>6. CASE s = "broker_object"
  <2>1. Is(v, "table") /\ MountObjectOk(v[2]) /\ e = MountObject(v[2])
    BY <1>6 DEF EntryOk, Entry
  <2>2. Flat(v[2])
    BY <1>6, <2>1, ListedItems DEF Listed
  <2>3. AddObjectOk(e)
    BY <2>1, <2>2, ObjectReady
  <2> HIDE DEF e
  <2>4. QED
    BY <1>6, <2>3 DEF Ready, e
<1>7. CASE s = "addfd"
  <2>1. AddfdOk(v[2]) /\ e.action = DatumIn(v[2], "action", "string")
                     /\ e.target = DatumIn(v[2], "target", "string")
    BY <1>7 DEF EntryOk, Entry
  <2>2. AddfdReady(e)
    BY <2>1, TextAssumption DEF AddfdOk, AddfdReady, IsAbsolute
  <2> HIDE DEF e
  <2>3. QED
    BY <1>7, <2>2 DEF Ready, e
<1>8. CASE s = "seccomp"
  <2> DEFINE errno == DatumIn(v[2], "errno", "integer")
  <2>1. ErrnoOk(errno) /\ e = IF errno = NULL THEN EPERM ELSE errno
    BY <1>8 DEF EntryOk, Entry
  <2>2. Items(s) = <<Table(TableOf(s))>> /\ Flat(TableOf(s))
    BY <1>8, FieldItems DEF Listed
  <2>3. v[2] = TableOf(s)
    BY <2>2 DEF Table
  <2>4. errno # NULL => errno \in Int
    BY <2>2, <2>3, IntegerFound
  <2> HIDE DEF e, errno
  <2>5. ErrnoReady(e)
    <3>1. CASE errno = NULL
      BY <2>1, <3>1, DocumentAssumption DEF ErrnoReady
    <3>2. CASE errno # NULL
      BY <2>1, <2>4, <3>2, ErrnoBounds DEF ErrnoReady, ErrnoOk
    <3>3. QED
      BY <3>1, <3>2
  <2>6. QED
    BY <1>8, <2>5 DEF Ready, e
<1>9. CASE s = "deny"
  BY <1>9 DEF Ready
<1>10. QED
  BY <1>1, <1>2, <1>3, <1>4, <1>5, <1>6, <1>7, <1>8, <1>9 DEF Sections

(* What is ready is not refused, once the sections it depends on are there.  *)
LEMMA ReadyAdds ==
    ASSUME NEW ir, NEW s \in Sections, NEW e, Ready(s, e),
           s = "net_rule" => ir["net"] # <<>>,
           s \in {"root", "cwd"} => ir[s] = <<>>,
           s = "deny" => ir["seccomp"] # <<>>
    PROVE  AddOk(ir, s, e)
<1> USE DEF BrokerPaths, MountPaths, Binds
<1>1. CASE s = "fs_layer"
  BY <1>1 DEF AddOk, Ready, FsReady, AddFsLayerOk
<1>2. CASE s = "net"
  BY <1>2 DEF AddOk, Ready
<1>3. CASE s = "net_rule"
  BY <1>3 DEF AddOk, Ready, NetReady, AddNetRuleOk
<1>4. CASE s \in BrokerPaths \cup MountPaths
  BY <1>4 DEF AddOk, Ready
<1>5. CASE s \in Binds
  BY <1>5 DEF AddOk, Ready, BindReady
<1>6. CASE s = "broker_object"
  BY <1>6 DEF AddOk, Ready
<1>7. CASE s = "addfd"
  <2>1. AddfdReady(e)
    BY <1>7 DEF Ready
  <2>2. e.action # "" /\ e.target # ""
    BY <2>1 DEF AddfdReady, AddfdActions
  <2>3. QED
    BY <1>7, <2>2 DEF AddOk
<1>8. CASE s \in {"root", "cwd"}
  BY <1>8 DEF AddOk, Ready, SetRuntimeOk
<1>9. CASE s = "seccomp"
  <2>0. e \in Errnos
    BY <1>9 DEF Ready, ErrnoReady
  <2>1. e # 0
    BY <2>0, ErrnoBounds
  <2>2. QED
    BY <1>9, <2>1 DEF AddOk, SeccompOk
<1>10. CASE s = "deny"
  BY <1>10 DEF AddOk, SeccompOk
<1>11. QED
  BY <1>1, <1>2, <1>3, <1>4, <1>5, <1>6, <1>7, <1>8, <1>9, <1>10 DEF Sections

(* The first k entries of a section passed their checks; the whole document. *)
EntriesOk(s, k) == \A i \in 1..k : EntryOk(s, Items(s)[i])
Passed(s) == SectionOk(s) /\ EntriesOk(s, Len(Items(s)))
DocumentOk == \A s \in Sections : Passed(s)

(* Whatever is in the IR passed its checks, and no entry that passed them    *)
(* was refused when it was added.                                            *)
CheckInv ==
    /\ result # "internal"
    /\ pc = "load" =>
         \A i \in 1..N :
            /\ i < section => Passed(Order[i])
            /\ i = section => EntriesOk(Order[i], item)
    /\ pc \in {"idle", "copy"} => out_ir = EmptyIr \/ (out_ir = WholeIr /\ DocumentOk)

(* The checks read the document only.                                        *)
LEMMA UnreadChecks ==
    ASSUME root' = root
    PROVE  /\ \A s, k : EntriesOk(s, k)' = EntriesOk(s, k)
           /\ \A s : Passed(s)' = Passed(s)
           /\ DocumentOk' = DocumentOk
           /\ WholeIr' = WholeIr
<1>1. \A s : Items(s)' = Items(s) /\ TableOf(s)' = TableOf(s)
  BY DEF Items, TableOf
<1>2. \A s : SectionOk(s)' = SectionOk(s)
  BY <1>1 DEF SectionOk
<1>3. \A s, k : EntriesOk(s, k)' = EntriesOk(s, k)
  BY <1>1 DEF EntriesOk
<1>4. \A s : Passed(s)' = Passed(s)
  BY <1>1, <1>2, <1>3 DEF Passed
<1>5. QED
  BY <1>3, <1>4, Unread DEF DocumentOk

(* The entry taken next is never refused by a function of                    *)
(* landlock_policy_ir.c.                                                     *)
LEMMA NextAdds ==
    ASSUME IInv, CheckInv, LoadEntry
    PROVE  AddOk(out_ir, Order[section], Entry(Order[section], Items(Order[section])[item + 1]))
<1> DEFINE s == Order[section]
<1>0. /\ pc = "load" /\ section \in 1..N /\ s \in Sections /\ root \in Documents
      /\ item < Len(Items(s)) /\ item \in Nat /\ EntryOk(s, Items(s)[item + 1])
  BY OrderFacts, SMTT(40) DEF LoadEntry, PositionInv, N, IInv
<1>1. Len(Items(s)) \in Nat /\ item + 1 \in DOMAIN Items(s)
  BY <1>0, ItemsFacts
<1>2. Ready(s, Entry(s, Items(s)[item + 1]))
  BY <1>0, <1>1, EntryReady
<1>3. ASSUME NEW i \in 1..N, i < section
      PROVE  out_ir[Order[i]] = WholeIr[Order[i]]
  BY <1>0, <1>3 DEF IInv, LoadInv
<1>4. s \in {"root", "cwd"} => out_ir[s] = <<>>
  <2>1. s \in {"root", "cwd"} => item = 0
    BY <1>0, <1>1, ItemsFacts
  <2>2. out_ir[s] = First(s, item)
    BY <1>0 DEF IInv, LoadInv
  <2>3. QED
    BY <1>0, <2>1, <2>2, WholeFacts
<1>5. Items(s) # <<>>
  BY <1>0
<1>6. s = "net_rule" => out_ir["net"] # <<>>
  <2> SUFFICES ASSUME s = "net_rule" PROVE out_ir["net"] # <<>>
    OBVIOUS
  <2>1. section = 3 /\ Order[2] = "net"
    BY <1>0, SMTT(40) DEF Order, N
  <2>2. out_ir["net"] = WholeIr["net"]
    BY <1>0, <1>3, <2>1 DEF N
  <2>3. TableOf("net") # NULL
    <3>1. TableOf(s) # NULL
      BY <1>0, <1>1, ListedItems DEF Listed
    <3>2. TableOf("net_rule") = TableOf("net")
      BY DEF TableOf, Place
    <3>3. QED
      BY <3>1, <3>2
  <2>4. Len(Items("net")) = 1
    BY <1>0, <2>3, FieldItems DEF Listed, Sections
  <2>5. WholeIr["net"] = [i \in 1..1 |-> Entry("net", Items("net")[i])]
    BY <1>0, <2>4, WholeFacts DEF Sections
  <2>6. QED
    BY <2>2, <2>5
<1>7. s = "deny" => out_ir["seccomp"] # <<>>
  <2> SUFFICES ASSUME s = "deny" PROVE out_ir["seccomp"] # <<>>
    OBVIOUS
  <2>1. section = 18 /\ Order[17] = "seccomp"
    BY <1>0, SMTT(40) DEF Order, N
  <2>2. out_ir["seccomp"] = WholeIr["seccomp"]
    BY <1>0, <1>3, <2>1 DEF N
  <2>3. TableOf("seccomp") # NULL
    <3>1. TableOf(s) # NULL
      BY <1>0, <1>1, ListedItems DEF Listed
    <3>2. TableOf("deny") = TableOf("seccomp")
      BY DEF TableOf, Place
    <3>3. QED
      BY <3>1, <3>2
  <2>4. Len(Items("seccomp")) = 1
    BY <1>0, <2>3, FieldItems DEF Listed, Sections
  <2>5. WholeIr["seccomp"] = [i \in 1..1 |-> Entry("seccomp", Items("seccomp")[i])]
    BY <1>0, <2>4, WholeFacts DEF Sections
  <2>6. QED
    BY <2>2, <2>5
<1>8. QED
  BY <1>0, <1>2, <1>4, <1>6, <1>7, ReadyAdds

(* Nothing is loaded, so nothing is unchecked.                               *)
LEMMA CheckInit == Init => CheckInv
BY DEF Init, CheckInv

(* Every step keeps the entries checked.                                     *)
LEMMA CheckNext == IInv /\ IInv' /\ CheckInv /\ [Next]_vars => CheckInv'
<1> SUFFICES ASSUME IInv, IInv', CheckInv, [Next]_vars PROVE CheckInv'
  OBVIOUS
<1>0. root' = root
  BY DEF Next, vars, Load, LoadEntry, Refuse, NextSection, Loaded, Reset, Copy, CopySection,
         Copied, CopyFails
<1> USE <1>0, UnreadChecks
<1>a. section \in Nat /\ section <= 19 /\ item \in Nat
  BY DEF IInv, PositionInv, N
<1>1. CASE Load
  <2>1. /\ result' # "internal" /\ section' = 1 /\ item' = 0 /\ out_ir' = out_ir /\ pc = "idle"
        /\ pc' # "copy"
    BY <1>1 DEF Load
  <2>2. \A i \in 1..N : ~(i < 1) /\ EntriesOk(Order[i], 0)
    BY DEF EntriesOk, N
  <2>3. QED
    BY <2>1, <2>2 DEF CheckInv
<1>2. CASE LoadEntry
  <2> DEFINE s == Order[section]
  <2>1. AddOk(out_ir, s, Entry(s, Items(s)[item + 1]))
    BY <1>2, NextAdds
  <2>2. pc = "load" /\ EntryOk(s, Items(s)[item + 1]) /\ section' = section
    BY <1>2 DEF LoadEntry
  <2>3. CASE pc' = "reset"
    BY <1>2, <2>1, <2>3 DEF LoadEntry, CheckInv
  <2>4. CASE pc' # "reset"
    <3>1. pc' = "load" /\ result' = result /\ item' = item + 1
      BY <1>2, <2>2, <2>4 DEF LoadEntry
    <3>2. ASSUME NEW i \in 1..N, i = section PROVE EntriesOk(Order[i], item + 1)
      <4>1. EntriesOk(s, item)
        BY <2>2, <3>2 DEF CheckInv
      <4>2. \A j \in 1..(item + 1) : j \in 1..item \/ j = item + 1
        BY <1>a
      <4> HIDE DEF s
      <4>3. EntriesOk(s, item + 1)
        BY <2>2, <4>1, <4>2 DEF EntriesOk
      <4>4. QED
        BY <3>2, <4>3 DEF s
    <3>3. QED
      BY <2>2, <3>1, <3>2 DEF CheckInv
  <2>5. QED
    BY <2>3, <2>4
<1>3. CASE NextSection
  <2>1. /\ pc = "load" /\ pc' = "load" /\ result' = result /\ section' = section + 1 /\ item' = 0
        /\ SectionOk(Order[section]) /\ item = Len(Items(Order[section]))
        /\ section \in 1..N
    BY <1>3, <1>a, OrderFacts DEF NextSection, IInv, PositionInv, N
  <2>2. Passed(Order[section])
    <3>1. EntriesOk(Order[section], item)
      BY <2>1 DEF CheckInv
    <3>2. QED
      BY <2>1, <3>1 DEF Passed
  <2>3. ASSUME NEW i \in 1..N, i < section' PROVE Passed(Order[i])
    <3>1. i < section \/ i = section
      BY <2>1, <2>3 DEF N
    <3>2. QED
      BY <2>1, <2>2, <3>1 DEF CheckInv
  <2>4. \A i \in 1..N : EntriesOk(Order[i], 0)
    BY DEF EntriesOk
  <2>5. QED
    BY <2>1, <2>3, <2>4 DEF CheckInv
<1>4. CASE Loaded
  <2>1. /\ pc = "load" /\ pc' = "idle" /\ result' = "loaded" /\ out_ir' = out_ir /\ section > N
    BY <1>4, OrderFacts DEF Loaded
  <2>2. \A i \in 1..N : Passed(Order[i])
    BY <2>1, <1>a DEF CheckInv, N
  <2>3. DocumentOk
    BY <2>2, OrderFacts DEF DocumentOk
  <2>4. out_ir' = EmptyIr \/ out_ir' = WholeIr'
    BY <2>1 DEF IInv, LoadInv
  <2>5. QED
    BY <2>1, <2>3, <2>4 DEF CheckInv
<1>5. CASE Refuse \/ Reset
  BY <1>5 DEF Refuse, Reset, CheckInv
<1>6. CASE Copy \/ CopySection \/ Copied \/ CopyFails
  BY <1>6 DEF Copy, CopySection, Copied, CopyFails, CheckInv
<1>7. CASE UNCHANGED vars
  BY <1>7 DEF vars, CheckInv
<1>8. QED
  BY <1>1, <1>2, <1>3, <1>4, <1>5, <1>6, <1>7 DEF Next

(* An entry of a document that passed the checks.                            *)
LEMMA WholeReady ==
    ASSUME root \in Documents, DocumentOk, NEW s \in Sections
    PROVE  /\ DOMAIN WholeIr[s] = 1..Len(Items(s))
           /\ \A i \in DOMAIN WholeIr[s] : Ready(s, WholeIr[s][i])
           /\ WholeIr[s] = <<>> <=> Items(s) = <<>>
<1>1. Len(Items(s)) \in Nat /\ DOMAIN Items(s) = 1..Len(Items(s))
  BY ItemsFacts
<1>2. WholeIr[s] = [i \in 1..Len(Items(s)) |-> Entry(s, Items(s)[i])]
  BY WholeFacts
<1>3. ASSUME NEW i \in 1..Len(Items(s)) PROVE Ready(s, Entry(s, Items(s)[i]))
  <2>1. EntryOk(s, Items(s)[i])
    BY DEF DocumentOk, Passed, EntriesOk
  <2>2. QED
    BY <2>1, <1>1, EntryReady
<1>4. WholeIr[s] = <<>> <=> Len(Items(s)) = 0
  BY <1>1, <1>2
<1>5. Items(s) = <<>> <=> Len(Items(s)) = 0
  <2>1. DOMAIN Items(s) = {} => Items(s) = <<>>
    <3>1. CASE s \in Listed
      <4>1. TableOf(s) = NULL \/ ArrayIn(TableOf(s), Place(s)[2]) = NULL => Items(s) = <<>>
        BY <3>1 DEF Items, Listed
      <4>2. ASSUME TableOf(s) # NULL, ArrayIn(TableOf(s), Place(s)[2]) # NULL
            PROVE  Items(s) \in Seq({Items(s)[i] : i \in DOMAIN Items(s)})
        <5>1. Items(s) = ArrayIn(TableOf(s), Place(s)[2])
          BY <3>1, <4>2 DEF Items, Listed
        <5>2. Flat(TableOf(s))
          BY <4>2, TableFacts
        <5>3. ArrayIn(TableOf(s), Place(s)[2])
                \in Seq({ArrayIn(TableOf(s), Place(s)[2])[i] :
                            i \in DOMAIN ArrayIn(TableOf(s), Place(s)[2])})
          BY <4>2, <5>2, ArrayFound
        <5>4. QED
          BY <5>1, <5>3
      <4>3. QED
        BY <1>1, <4>1, <4>2
    <3>2. CASE s \notin Listed
      <4>1. s \in {"net", "seccomp", "root", "cwd"}
        BY <3>2 DEF Listed
      <4>2. QED
        BY <4>1, <3>2, FieldItems
    <3>3. QED
      BY <3>1, <3>2
  <2>2. QED
    BY <2>1, <1>1
<1>6. QED
  BY <1>1, <1>2, <1>3, <1>4, <1>5

(* The two tables that come with a list: when the table is there and passed  *)
(* its checks, the other section of it is there as well.                     *)
LEMMA TablesAgree ==
    ASSUME root \in Documents
    PROVE  /\ Items("net") # <<>> <=> TableOf("net") # NULL
           /\ Items("seccomp") # <<>> <=> TableOf("seccomp") # NULL
           /\ Items("net_rule") # <<>> => TableOf("net") # NULL
           /\ Items("deny") # <<>> => TableOf("seccomp") # NULL
           /\ SectionOk("deny") /\ TableOf("seccomp") # NULL => Items("deny") # <<>>
<1>1. TableOf("net_rule") = TableOf("net") /\ TableOf("deny") = TableOf("seccomp")
  BY DEF TableOf, Place
<1>2. /\ Items("net") # <<>> <=> TableOf("net") # NULL
      /\ Items("seccomp") # <<>> <=> TableOf("seccomp") # NULL
  BY FieldItems DEF Listed, Sections
<1>3. Items("net_rule") # <<>> => TableOf("net") # NULL
  BY <1>1 DEF Items
<1>4. Items("deny") # <<>> => TableOf("seccomp") # NULL
  BY <1>1 DEF Items
<1>5. SectionOk("deny") /\ TableOf("seccomp") # NULL => Items("deny") # <<>>
  BY <1>1 DEF SectionOk
<1>6. QED
  BY <1>2, <1>3, <1>4, <1>5

(* Checked entries are what the reader of the wire insists on.               *)
LEMMA CheckedReady == IInv /\ CheckInv => WireReady
<1> SUFFICES ASSUME IInv, CheckInv, pc = "idle" PROVE WireReady
  BY DEF WireReady, CheckInv
<1>0. result # "internal" /\ root \in Documents
  BY DEF CheckInv, IInv, PositionInv
<1>1. CASE out_ir = EmptyIr
  BY <1>0, <1>1 DEF EmptyIr, WireReady, Sections
<1>2. CASE out_ir = WholeIr /\ DocumentOk
  <2>1. ASSUME NEW s \in {"net", "seccomp", "root", "cwd"} PROVE Len(out_ir[s]) <= 1
    <3>0. s \in Sections
      BY DEF Sections
    <3>1. DOMAIN out_ir[s] = 1..Len(Items(s)) /\ Len(Items(s)) \in Nat /\ Len(Items(s)) <= 1
      BY <1>0, <1>2, <3>0, WholeReady, ItemsFacts
    <3>2. Len(out_ir[s]) = Len(Items(s))
      BY <1>0, <1>2, <3>0, <3>1, WholeFacts
    <3>3. QED
      BY <3>1, <3>2
  <2>2. \A s \in Sections : out_ir[s] = <<>> <=> Items(s) = <<>>
    BY <1>0, <1>2, WholeReady
  <2>3. /\ out_ir["net_rule"] # <<>> => out_ir["net"] # <<>>
        /\ out_ir["deny"] # <<>> <=> out_ir["seccomp"] # <<>>
    <3>1. SectionOk("deny")
      BY <1>2 DEF DocumentOk, Passed, Sections
    <3>2. {"net", "net_rule", "deny", "seccomp"} \subseteq Sections
      BY DEF Sections
    <3>3. QED
      BY <1>0, <2>2, <3>1, <3>2, TablesAgree
  <2>4. ASSUME NEW s \in Sections, NEW i \in DOMAIN out_ir[s] PROVE Ready(s, out_ir[s][i])
    BY <1>0, <1>2, WholeReady
  <2>5. \A i \in DOMAIN out_ir["seccomp"] : out_ir["seccomp"][i] \in Errnos
    <3>1. ASSUME NEW e, Ready("seccomp", e) PROVE e \in Errnos
      BY <3>1 DEF Ready, ErrnoReady, BrokerPaths, MountPaths, Binds
    <3>2. QED
      BY <2>4, <3>1 DEF Sections
  <2>6. \A i \in DOMAIN out_ir["net_rule"] : out_ir["net_rule"][i].port \in Ports
    <3>1. ASSUME NEW e, Ready("net_rule", e) PROVE e.port \in Ports
      BY <3>1 DEF Ready, NetReady, BrokerPaths, MountPaths, Binds
    <3>2. QED
      BY <2>4, <3>1 DEF Sections
  <2>7. \A i \in DOMAIN out_ir["addfd"] : out_ir["addfd"][i].action \in AddfdActions
    <3>1. ASSUME NEW e, Ready("addfd", e) PROVE e.action \in AddfdActions
      BY <3>1 DEF Ready, AddfdReady, BrokerPaths, MountPaths, Binds
    <3>2. QED
      BY <2>4, <3>1 DEF Sections
  <2>8. \A i \in DOMAIN out_ir["fs_layer"] : FsReady(out_ir["fs_layer"][i])
    <3>1. ASSUME NEW e, Ready("fs_layer", e) PROVE FsReady(e)
      BY <3>1 DEF Ready, BrokerPaths, MountPaths, Binds
    <3>2. QED
      BY <2>4, <3>1 DEF Sections
  <2>9. QED
    BY <1>0, <2>1, <2>3, <2>5, <2>6, <2>7, <2>8 DEF WireReady, FsReady
<1>3. QED
  BY <1>1, <1>2 DEF CheckInv

(* No add function refuses what the loader checked before calling it, and    *)
(* every IR that is handed out has what policy_wire.c insists on when it     *)
(* reads one back: values in range, and no entry without what it needs.      *)
THEOREM AlwaysWireReady == Spec => []WireReady
<1>1. Init => IInv /\ CheckInv
  BY InitInv, CheckInit
<1>2. IInv /\ CheckInv /\ [Next]_vars => IInv' /\ CheckInv'
  BY NextInv, CheckNext
<1>3. QED
  BY <1>1, <1>2, CheckedReady, PTL DEF Spec

-----------------------------------------------------------------------------
(* The Rust helper beside the loader.                                        *)

(* A key that is there, with a value of its type, is found.                  *)
LEMMA Found ==
    ASSUME NEW t, NEW k, NEW type, Flat(t), k \in DOMAIN t, Is(t[k], type)
    PROVE  DatumIn(t, k, type) = t[k][2] /\ t[k][2] # NULL
BY DEF Flat, Sound, DatumIn, KeyExists

(* A key that is not there is not found.                                     *)
LEMMA NotFound ==
    ASSUME NEW t, NEW k, NEW type, k \notin DOMAIN t
    PROVE  DatumIn(t, k, type) = NULL
BY DEF DatumIn, KeyExists

(* The values of an array, without their types.                              *)
LEMMA PlainFacts ==
    ASSUME NEW v
    PROVE  /\ DOMAIN Plain(v) = DOMAIN v[2]
           /\ \A i \in DOMAIN v[2] : Plain(v)[i] = v[2][i][2]
           /\ v[2] = <<>> => Plain(v) = <<>>
<1>1. v[2] = <<>> => Plain(v) = <<>>
  BY DEF Plain
<1>2. QED
  BY <1>1 DEF Plain

(* parse_access_list and load_access_array take the same lists, and read the *)
(* same names from them.                                                     *)
LEMMA AccessAgrees ==
    ASSUME NEW t, NEW k, NEW names, Flat(t), k \in DOMAIN t, Strings(t[k]),
           ParseAccessList(Plain(t[k]), names)
    PROVE  /\ AccessOk(ArrayIn(t, k), names)
           /\ Access(ArrayIn(t, k)) = Names(t[k])
           /\ ArrayIn(t, k) # NULL
<1> DEFINE arr == t[k][2]
<1>1. ArrayIn(t, k) = arr /\ arr # NULL
  BY Found DEF ArrayIn, Strings
<1>2. arr # <<>>
  BY PlainFacts DEF ParseAccessList
<1>3. ASSUME NEW i \in DOMAIN arr PROVE DatumAt(arr, i, "string") \in names
  <2>1. DatumAt(arr, i, "string") = arr[i][2]
    BY DEF Strings, DatumAt
  <2>2. Plain(t[k])[i] = arr[i][2] /\ i \in DOMAIN Plain(t[k])
    BY PlainFacts
  <2>3. QED
    BY <2>1, <2>2 DEF ParseAccessList
<1>4. QED
  BY <1>1, <1>2, <1>3 DEF AccessOk, Access, Names

(* A bind table the Rust helper takes, taken by the loader.                  *)
LEMMA BindAgrees ==
    ASSUME NEW t, Flat(t), BindMountDoc(t),
           RequireAbsolute(t["source"][2]), RequireAbsolute(t["target"][2])
    PROVE  /\ BindOk(t)
           /\ Bind(t) = [source |-> t["source"][2], target |-> t["target"][2],
                         read_only |-> IF KeyExists(t, "read_only") THEN t["read_only"][2] ELSE TRUE]
<1>1. /\ DatumIn(t, "source", "string") = t["source"][2]
      /\ DatumIn(t, "target", "string") = t["target"][2]
  BY Found DEF BindMountDoc, Struct
<1>2. KeyExists(t, "read_only") => /\ DatumIn(t, "read_only", "boolean") = t["read_only"][2]
                                   /\ t["read_only"][2] # NULL
  BY Found DEF BindMountDoc, KeyExists
<1>3. ~KeyExists(t, "read_only") => DatumIn(t, "read_only", "boolean") = NULL
  BY NotFound DEF KeyExists
<1>4. OnlyKeys(t, {"source", "target", "read_only"})
  BY DEF OnlyKeys, BindMountDoc, Struct
<1>5. BindOk(t)
  BY <1>1, <1>2, <1>4 DEF BindOk, RequireAbsolute, IsAbsolute
<1>6. Bind(t).read_only = IF KeyExists(t, "read_only") THEN t["read_only"][2] ELSE TRUE
  BY <1>2, <1>3 DEF Bind
<1>7. QED
  BY <1>1, <1>2, <1>3, <1>5 DEF Bind

(* An addfd table the Rust helper takes, taken by the loader.                *)
LEMMA AddfdAgrees ==
    ASSUME NEW t, Flat(t), AddfdDoc(t), t["action"][2] \in AddfdActions,
           RequireAbsolute(t["target"][2]), KeyExists(t, "mode") => t["mode"][2] \in Modes
    PROVE  /\ AddfdOk(t)
           /\ DatumIn(t, "action", "string") = t["action"][2]
           /\ DatumIn(t, "target", "string") = t["target"][2]
           /\ DatumIn(t, "mode", "string") = IF KeyExists(t, "mode") THEN t["mode"][2] ELSE NULL
<1>1. /\ DatumIn(t, "action", "string") = t["action"][2]
      /\ DatumIn(t, "target", "string") = t["target"][2]
  BY Found DEF AddfdDoc, Struct
<1>2. KeyExists(t, "mode") => DatumIn(t, "mode", "string") = t["mode"][2]
  BY Found DEF AddfdDoc, KeyExists
<1>3. ~KeyExists(t, "mode") => DatumIn(t, "mode", "string") = NULL
  BY NotFound DEF KeyExists
<1>4. OnlyKeys(t, {"action", "target", "mode"})
  BY DEF OnlyKeys, AddfdDoc, Struct
<1>5. QED
  BY <1>1, <1>2, <1>3, <1>4 DEF AddfdOk, RequireAbsolute, IsAbsolute

(* A mount object the Rust helper takes, taken by the loader.                *)
LEMMA ObjectAgrees ==
    ASSUME NEW t, Flat(t), MountObjectDoc(t), ParseMountObject(t)
    PROVE  /\ MountObjectOk(t)
           /\ MountObject(t) =
                [name |-> t["name"][2], fs_type |-> t["fs_type"][2],
                 attach |-> Plain(t["attach"]),
                 attrs |-> IF KeyExists(t, "attrs") THEN Names(t["attrs"]) ELSE {}]
<1>1. /\ DatumIn(t, "name", "string") = t["name"][2] /\ t["name"][2] # NULL
      /\ DatumIn(t, "fs_type", "string") = t["fs_type"][2]
  BY Found DEF MountObjectDoc, Struct
<1>2. ArrayIn(t, "attach") = t["attach"][2] /\ t["attach"][2] # NULL
  BY Found DEF MountObjectDoc, Struct, Strings, ArrayIn
<1>3. ASSUME NEW i \in DOMAIN t["attach"][2]
      PROVE  IsAbsolute(DatumAt(t["attach"][2], i, "string"))
  BY DEF MountObjectDoc, Strings, DatumAt, ParseMountObject, RequireAbsolute, IsAbsolute
<1>4. KeyExists(t, "attrs") =>
        /\ ArrayIn(t, "attrs") # NULL /\ AccessOk(ArrayIn(t, "attrs"), MountAttr)
        /\ Access(ArrayIn(t, "attrs")) = Names(t["attrs"])
  BY AccessAgrees DEF MountObjectDoc, ParseMountObject, KeyExists
<1>5. ~KeyExists(t, "attrs") => ArrayIn(t, "attrs") = NULL
  BY NotFound DEF KeyExists, ArrayIn
<1>6. OnlyKeys(t, {"name", "fs_type", "attach", "attrs"})
  BY DEF OnlyKeys, MountObjectDoc, Struct
<1>7. MountObjectOk(t)
  <2>1. NonEmpty(t["name"][2]) /\ t["name"][2] \notin Slashed /\ t["fs_type"][2] \in FsTypes
        /\ t["attach"][2] # <<>>
    BY <1>1 DEF NonEmpty, ParseMountObject
  <2>2. ArrayIn(t, "attrs") # NULL => AccessOk(ArrayIn(t, "attrs"), MountAttr)
    BY <1>4, <1>5
  <2>3. QED
    BY <1>1, <1>2, <1>3, <1>6, <2>1, <2>2 DEF MountObjectOk
<1>8. (IF ArrayIn(t, "attrs") = NULL THEN {} ELSE Access(ArrayIn(t, "attrs")))
        = IF KeyExists(t, "attrs") THEN Names(t["attrs"]) ELSE {}
  BY <1>4, <1>5
<1>9. [i \in DOMAIN ArrayIn(t, "attach") |-> ArrayIn(t, "attach")[i][2]] = Plain(t["attach"])
  BY <1>2 DEF Plain
<1>10. QED
  BY <1>1, <1>7, <1>8, <1>9 DEF MountObject

(* A network rule the Rust helper takes, taken by the loader.                *)
LEMMA NetRuleAgrees ==
    ASSUME NEW t, Flat(t), Struct(t, {"port", "allowed_access"}, {}), Is(t["port"], "integer"),
           Strings(t["allowed_access"]), t["port"][2] \in Ports,
           ParseAccessList(Plain(t["allowed_access"]), NetAccess)
    PROVE  /\ NetRuleOk(t)
           /\ DatumIn(t, "port", "integer") % 65536 = t["port"][2]
           /\ Access(ArrayIn(t, "allowed_access")) = Names(t["allowed_access"])
<1>1. DatumIn(t, "port", "integer") = t["port"][2] /\ t["port"][2] # NULL
  BY Found DEF Struct
<1>2. /\ AccessOk(ArrayIn(t, "allowed_access"), NetAccess)
      /\ Access(ArrayIn(t, "allowed_access")) = Names(t["allowed_access"])
  BY AccessAgrees DEF Struct
<1>3. OnlyKeys(t, {"port", "allowed_access"})
  BY DEF Struct, OnlyKeys
<1>4. t["port"][2] >= 0 /\ t["port"][2] <= MaxPort /\ t["port"][2] % 65536 = t["port"][2]
  BY PortFacts
<1>5. QED
  BY <1>1, <1>2, <1>3, <1>4 DEF NetRuleOk

(* A file system rule the Rust helper takes, taken by the loader.            *)
LEMMA FsRuleAgrees ==
    ASSUME NEW t, Flat(t), Struct(t, {"path", "allowed_access"}, {}), Is(t["path"], "string"),
           Strings(t["allowed_access"]), t["path"][2] # "",
           ParseAccessList(Plain(t["allowed_access"]), FsAccess)
    PROVE  /\ FsRuleOk(t)
           /\ DatumIn(t, "path", "string") = t["path"][2]
           /\ Access(ArrayIn(t, "allowed_access")) = Names(t["allowed_access"])
<1>1. DatumIn(t, "path", "string") = t["path"][2] /\ t["path"][2] # NULL
  BY Found DEF Struct
<1>2. /\ AccessOk(ArrayIn(t, "allowed_access"), FsAccess)
      /\ Access(ArrayIn(t, "allowed_access")) = Names(t["allowed_access"])
  BY AccessAgrees DEF Struct
<1>3. OnlyKeys(t, {"path", "allowed_access"})
  BY DEF Struct, OnlyKeys
<1>4. QED
  BY <1>1, <1>2, <1>3 DEF FsRuleOk, NonEmpty

(* A layer the Rust helper takes, taken by the loader.                       *)
LEMMA LayerAgrees ==
    ASSUME NEW t, Nested(t), FsLayerDoc(t), BuildsLayer(t)
    PROVE  FsLayerOk(t) /\ FsLayer(t) = BuildLayer(t)
<1>0. Flat(t) /\ OnlyKeys(t, {"handled_access_fs", "rule"}) /\ "handled_access_fs" \in DOMAIN t
  BY DEF Nested, FsLayerDoc, Struct, OnlyKeys
<1>1. /\ AccessOk(ArrayIn(t, "handled_access_fs"), FsAccess)
      /\ Access(ArrayIn(t, "handled_access_fs")) = Names(t["handled_access_fs"])
  BY <1>0, AccessAgrees DEF FsLayerDoc, BuildsLayer
<1>2. CASE ~KeyExists(t, "rule")
  <2>1. ArrayIn(t, "rule") = NULL
    BY <1>2, NotFound DEF KeyExists, ArrayIn
  <2>2. RuleTables(t) = <<>>
    BY <1>2 DEF RuleTables
  <2>3. FsLayerOk(t)
    BY <1>0, <1>1, <2>1 DEF FsLayerOk
  <2>4. FsLayer(t) = [handled |-> Names(t["handled_access_fs"]), rules |-> <<>>]
    BY <1>1, <2>1 DEF FsLayer
  <2>5. BuildLayer(t) = [handled |-> Names(t["handled_access_fs"]), rules |-> <<>>]
    BY <2>2 DEF BuildLayer
  <2>6. QED
    BY <2>3, <2>4, <2>5
<1>3. CASE KeyExists(t, "rule")
  <2> DEFINE rules == t["rule"][2]
  <2>1. ArrayIn(t, "rule") = rules /\ rules # NULL
    BY <1>0, <1>3, Found DEF KeyExists, ArrayIn, FsLayerDoc, Tables
  <2>2. RuleTables(t) = Plain(t["rule"])
    BY <1>3 DEF RuleTables
  <2>3. /\ DOMAIN RuleTables(t) = DOMAIN rules
        /\ \A j \in DOMAIN rules : RuleTables(t)[j] = rules[j][2]
    BY <2>2, PlainFacts
  <2>4. ASSUME NEW j \in DOMAIN rules
        PROVE  /\ Is(rules[j], "table") /\ FsRuleOk(rules[j][2])
               /\ DatumIn(rules[j][2], "path", "string") = rules[j][2]["path"][2]
               /\ Access(ArrayIn(rules[j][2], "allowed_access"))
                    = Names(rules[j][2]["allowed_access"])
    <3> DEFINE r == rules[j][2]
    <3>1. /\ Is(rules[j], "table") /\ Struct(r, {"path", "allowed_access"}, {})
          /\ Is(r["path"], "string") /\ Strings(r["allowed_access"])
      BY <1>3 DEF FsLayerDoc, Tables
    <3>2. Flat(r)
      BY <1>3, <3>1 DEF Nested, KeyExists, FsLayerDoc, Tables
    <3>3. r["path"][2] # "" /\ ParseAccessList(Plain(r["allowed_access"]), FsAccess)
      BY <2>3 DEF BuildsLayer
    <3> HIDE DEF r
    <3>4. /\ FsRuleOk(r) /\ DatumIn(r, "path", "string") = r["path"][2]
          /\ Access(ArrayIn(r, "allowed_access")) = Names(r["allowed_access"])
      BY <3>1, <3>2, <3>3, FsRuleAgrees
    <3>5. QED
      BY <3>1, <3>4 DEF r
  <2>5. FsLayerOk(t)
    BY <1>0, <1>1, <2>1, <2>4 DEF FsLayerOk
  <2> DEFINE built == [j \in DOMAIN rules |->
                         [path |-> rules[j][2]["path"][2],
                          access |-> Names(rules[j][2]["allowed_access"])]]
  <2>6. FsLayer(t).rules = built
    BY <2>1, <2>4 DEF FsLayer
  <2>7. BuildLayer(t).rules = built
    BY <2>3 DEF BuildLayer
  <2>8. /\ FsLayer(t) = [handled |-> Names(t["handled_access_fs"]), rules |-> FsLayer(t).rules]
        /\ BuildLayer(t) = [handled |-> Names(t["handled_access_fs"]), rules |-> BuildLayer(t).rules]
    BY <1>1 DEF FsLayer, BuildLayer
  <2> HIDE DEF built, rules
  <2>9. QED
    BY <2>5, <2>6, <2>7, <2>8
<1>4. QED
  BY <1>2, <1>3

(* The keys of a table are those of its sections.                            *)
LEMMA KeyAllowed ==
    ASSUME NEW s \in Sections, NEW T, NEW k, T # "", Place(s)[1] = T, Place(s)[2] = k
    PROVE  k \in AllowedKeys(T)
BY DEF AllowedKeys

(* The keys the structs of the Rust helper name, by table.                   *)
LEMMA KeysAllowed ==
    /\ {"handled_access_net", "rule"} \subseteq AllowedKeys("net")
    /\ {"allow_read", "allow_write", "scratch", "export", "mount_tmpfs", "mount_bind",
        "mount_object", "addfd"} \subseteq AllowedKeys("broker")
    /\ {"tmpfs", "bind", "proc"} \subseteq AllowedKeys("mount")
    /\ {"root", "cwd"} \subseteq AllowedKeys("runtime")
    /\ {"errno", "deny"} \subseteq AllowedKeys("seccomp")
<1>1. "handled_access_net" \in AllowedKeys("net")
  <2>1. "net" \in Sections /\ Place("net")[1] = "net" /\ Place("net")[2] = "handled_access_net"
    BY DEF Sections, Place
  <2>2. QED
    BY <2>1, KeyAllowed
<1>2. "rule" \in AllowedKeys("net")
  <2>1. "net_rule" \in Sections /\ Place("net_rule")[1] = "net" /\ Place("net_rule")[2] = "rule"
    BY DEF Sections, Place
  <2>2. QED
    BY <2>1, KeyAllowed
<1>3. "allow_read" \in AllowedKeys("broker")
  <2>1. "open_read" \in Sections /\ Place("open_read")[1] = "broker" /\ Place("open_read")[2] = "allow_read"
    BY DEF Sections, Place
  <2>2. QED
    BY <2>1, KeyAllowed
<1>4. "allow_write" \in AllowedKeys("broker")
  <2>1. "open_write" \in Sections /\ Place("open_write")[1] = "broker" /\ Place("open_write")[2] = "allow_write"
    BY DEF Sections, Place
  <2>2. QED
    BY <2>1, KeyAllowed
<1>5. "scratch" \in AllowedKeys("broker")
  <2>1. "scratch" \in Sections /\ Place("scratch")[1] = "broker" /\ Place("scratch")[2] = "scratch"
    BY DEF Sections, Place
  <2>2. QED
    BY <2>1, KeyAllowed
<1>6. "export" \in AllowedKeys("broker")
  <2>1. "export" \in Sections /\ Place("export")[1] = "broker" /\ Place("export")[2] = "export"
    BY DEF Sections, Place
  <2>2. QED
    BY <2>1, KeyAllowed
<1>7. "mount_tmpfs" \in AllowedKeys("broker")
  <2>1. "broker_tmpfs" \in Sections /\ Place("broker_tmpfs")[1] = "broker" /\ Place("broker_tmpfs")[2] = "mount_tmpfs"
    BY DEF Sections, Place
  <2>2. QED
    BY <2>1, KeyAllowed
<1>8. "mount_bind" \in AllowedKeys("broker")
  <2>1. "broker_bind" \in Sections /\ Place("broker_bind")[1] = "broker" /\ Place("broker_bind")[2] = "mount_bind"
    BY DEF Sections, Place
  <2>2. QED
    BY <2>1, KeyAllowed
<1>9. "mount_object" \in AllowedKeys("broker")
  <2>1. "broker_object" \in Sections /\ Place("broker_object")[1] = "broker" /\ Place("broker_object")[2] = "mount_object"
    BY DEF Sections, Place
  <2>2. QED
    BY <2>1, KeyAllowed
<1>10. "addfd" \in AllowedKeys("broker")
  <2>1. "addfd" \in Sections /\ Place("addfd")[1] = "broker" /\ Place("addfd")[2] = "addfd"
    BY DEF Sections, Place
  <2>2. QED
    BY <2>1, KeyAllowed
<1>11. "tmpfs" \in AllowedKeys("mount")
  <2>1. "mount_tmpfs" \in Sections /\ Place("mount_tmpfs")[1] = "mount" /\ Place("mount_tmpfs")[2] = "tmpfs"
    BY DEF Sections, Place
  <2>2. QED
    BY <2>1, KeyAllowed
<1>12. "bind" \in AllowedKeys("mount")
  <2>1. "mount_bind" \in Sections /\ Place("mount_bind")[1] = "mount" /\ Place("mount_bind")[2] = "bind"
    BY DEF Sections, Place
  <2>2. QED
    BY <2>1, KeyAllowed
<1>13. "proc" \in AllowedKeys("mount")
  <2>1. "mount_proc" \in Sections /\ Place("mount_proc")[1] = "mount" /\ Place("mount_proc")[2] = "proc"
    BY DEF Sections, Place
  <2>2. QED
    BY <2>1, KeyAllowed
<1>14. "root" \in AllowedKeys("runtime")
  <2>1. "root" \in Sections /\ Place("root")[1] = "runtime" /\ Place("root")[2] = "root"
    BY DEF Sections, Place
  <2>2. QED
    BY <2>1, KeyAllowed
<1>15. "cwd" \in AllowedKeys("runtime")
  <2>1. "cwd" \in Sections /\ Place("cwd")[1] = "runtime" /\ Place("cwd")[2] = "cwd"
    BY DEF Sections, Place
  <2>2. QED
    BY <2>1, KeyAllowed
<1>16. "errno" \in AllowedKeys("seccomp")
  <2>1. "seccomp" \in Sections /\ Place("seccomp")[1] = "seccomp" /\ Place("seccomp")[2] = "errno"
    BY DEF Sections, Place
  <2>2. QED
    BY <2>1, KeyAllowed
<1>17. "deny" \in AllowedKeys("seccomp")
  <2>1. "deny" \in Sections /\ Place("deny")[1] = "seccomp" /\ Place("deny")[2] = "deny"
    BY DEF Sections, Place
  <2>2. QED
    BY <2>1, KeyAllowed
<1>18. QED
  BY <1>1, <1>2, <1>3, <1>4, <1>5, <1>6, <1>7, <1>8, <1>9, <1>10, <1>11, <1>12, <1>13, <1>14, <1>15, <1>16, <1>17

Groups == {"net", "broker", "mount", "runtime", "seccomp"}

(* What serde says of the tables of the document.                            *)
LEMMA GroupDocs ==
    ASSUME FromStr(root), NEW T \in Groups, T \in DOMAIN root
    PROVE  /\ Is(root[T], "table")
           /\ T = "net" => NetDoc(root[T][2])
           /\ T = "broker" => BrokerDoc(root[T][2])
           /\ T = "mount" => MountDoc(root[T][2])
           /\ T = "runtime" => RuntimeDoc(root[T][2])
           /\ T = "seccomp" => SeccompDoc(root[T][2])
<1>1. T \in DOMAIN root \ {"version", "fs_layer"}
  BY DEF Groups
<1>2. Is(root[T], "table")
  BY <1>1 DEF FromStr
<1>3. CASE T = "net"
  BY <1>1, <1>2, <1>3 DEF FromStr
<1>4. CASE T = "broker"
  BY <1>1, <1>2, <1>4 DEF FromStr
<1>5. CASE T = "mount"
  BY <1>1, <1>2, <1>5 DEF FromStr
<1>6. CASE T = "runtime"
  BY <1>1, <1>2, <1>6 DEF FromStr
<1>7. CASE T = "seccomp"
  BY <1>1, <1>2, <1>7 DEF FromStr
<1>8. QED
  BY <1>3, <1>4, <1>5, <1>6, <1>7 DEF Groups

(* The table of a section is the struct serde read it into.                  *)
LEMMA GroupTables ==
    ASSUME root \in Documents, FromStr(root), NEW s \in Sections, s # "fs_layer"
    PROVE  /\ Place(s)[1] \in Groups
           /\ Place(s)[1] \in DOMAIN root =>
                 TableOf(s) = root[Place(s)[1]][2] /\ TableOf(s) # NULL /\ Nested(TableOf(s))
           /\ Place(s)[1] \notin DOMAIN root => TableOf(s) = NULL /\ Items(s) = <<>>
<1> DEFINE T == Place(s)[1]
<1>1. T \in Groups
  BY DEF Sections, Place, Groups
<1>2. TableOf(s) = DatumIn(root, T, "table")
  BY TableFacts
<1> HIDE DEF T
<1>3. ASSUME T \in DOMAIN root PROVE TableOf(s) = root[T][2] /\ TableOf(s) # NULL
  <2>1. Is(root[T], "table") /\ Flat(root)
    BY <1>1, <1>3, GroupDocs, DocumentAssumption
  <2>2. QED
    BY <1>2, <1>3, <2>1, Found
<1>4. ASSUME T \notin DOMAIN root PROVE TableOf(s) = NULL /\ Items(s) = <<>>
  <2>1. TableOf(s) = NULL
    BY <1>2, <1>4, NotFound
  <2>2. QED
    BY <2>1 DEF Items
<1>5. T \in DOMAIN root => Nested(TableOf(s))
  BY <1>3, TableFacts
<1>6. QED
  BY <1>1, <1>3, <1>4, <1>5 DEF T

(* A list that is there is an array, so that Unwrap yields what the loader   *)
(* takes one by one.                                                         *)
LEMMA ListTyped ==
    ASSUME root \in Documents, FromStr(root), NEW s \in Listed, TableOf(s) # NULL,
           Place(s)[2] \in DOMAIN TableOf(s)
    PROVE  /\ Is(TableOf(s)[Place(s)[2]], "array")
           /\ s \in BrokerPaths \cup MountPaths \cup {"deny"} => Strings(TableOf(s)[Place(s)[2]])
           /\ s \notin BrokerPaths \cup MountPaths \cup {"deny"} => Tables(TableOf(s)[Place(s)[2]])
<1> DEFINE t == TableOf(s)
<1> DEFINE k == Place(s)[2]
<1>0. s \in Sections
  BY DEF Listed
<1>1. CASE s = "fs_layer"
  <2>1. t = root /\ k = "fs_layer"
    BY <1>0, <1>1, TableFacts DEF Place
  <2>2. Tables(root["fs_layer"])
    BY <2>1 DEF FromStr, KeyExists
  <2>3. QED
    BY <1>1, <2>1, <2>2 DEF Tables, BrokerPaths, MountPaths
<1>2. CASE s # "fs_layer"
  <2> DEFINE T == Place(s)[1]
  <2>1. T \in Groups /\ T \in DOMAIN root /\ t = root[T][2]
    BY <1>0, <1>2, GroupTables
  <2>2. CASE s = "net_rule"
    <3>1. T = "net" /\ k = "rule"
      BY <2>2 DEF Place
    <3>2. NetDoc(t)
      BY <2>1, <3>1, GroupDocs
    <3>3. Tables(t["rule"])
      BY <3>1, <3>2 DEF NetDoc, KeyExists
    <3>4. QED
      BY <2>2, <3>1, <3>3 DEF Tables, BrokerPaths, MountPaths
  <2>3. CASE s = "deny"
    <3>1. T = "seccomp" /\ k = "deny"
      BY <2>3 DEF Place
    <3>2. SeccompDoc(t)
      BY <2>1, <3>1, GroupDocs
    <3>3. Strings(t["deny"])
      BY <3>2 DEF SeccompDoc
    <3>4. QED
      BY <2>3, <3>1, <3>3 DEF Strings, BrokerPaths, MountPaths
  <2>4. CASE s \in BrokerPaths
    <3>1. T = "broker" /\ k \notin {"mount_bind", "mount_object", "addfd"}
      BY <2>4 DEF Place, BrokerPaths
    <3>2. BrokerDoc(t)
      BY <2>1, <3>1, GroupDocs
    <3> HIDE DEF t, k
    <3>3. Strings(t[k])
      BY <3>1, <3>2 DEF BrokerDoc, t, k
    <3>4. QED
      BY <2>4, <3>3 DEF Strings, t, k
  <2>5. CASE s \in {"addfd", "broker_bind", "broker_object"}
    <3>1. T = "broker" /\ k \in {"mount_bind", "mount_object", "addfd"}
      BY <2>5 DEF Place, BrokerPaths
    <3>2. BrokerDoc(t)
      BY <2>1, <3>1, GroupDocs
    <3> HIDE DEF t, k
    <3>3. Tables(t[k])
      BY <3>1, <3>2 DEF BrokerDoc, t, k
    <3>4. QED
      BY <2>5, <3>3 DEF Tables, t, k, BrokerPaths, MountPaths
  <2>6. CASE s \in MountPaths
    <3>1. T = "mount" /\ k # "bind"
      BY <2>6 DEF Place, MountPaths
    <3>2. MountDoc(t)
      BY <2>1, <3>1, GroupDocs
    <3> HIDE DEF t, k
    <3>3. Strings(t[k])
      BY <3>1, <3>2 DEF MountDoc, t, k
    <3>4. QED
      BY <2>6, <3>3 DEF Strings, t, k
  <2>7. CASE s = "mount_bind"
    <3>1. T = "mount" /\ k = "bind"
      BY <2>7 DEF Place
    <3>2. MountDoc(t)
      BY <2>1, <3>1, GroupDocs
    <3>3. Tables(t["bind"])
      BY <3>1, <3>2 DEF MountDoc
    <3>4. QED
      BY <2>7, <3>1, <3>3 DEF Tables, BrokerPaths, MountPaths
  <2>8. QED
    BY <1>2, <2>2, <2>3, <2>4, <2>5, <2>6, <2>7 DEF Listed, Sections, BrokerPaths, MountPaths
<1>3. QED
  BY <1>1, <1>2

(* What the loader takes one by one is the array, or nothing.                *)
LEMMA ListItems ==
    ASSUME root \in Documents, FromStr(root), NEW s \in Listed, TableOf(s) # NULL
    PROVE  /\ Place(s)[2] \in DOMAIN TableOf(s) =>
                /\ Items(s) = TableOf(s)[Place(s)[2]][2]
                /\ ArrayIn(TableOf(s), Place(s)[2]) = Items(s)
           /\ Place(s)[2] \notin DOMAIN TableOf(s) =>
                Items(s) = <<>> /\ ArrayIn(TableOf(s), Place(s)[2]) = NULL
<1> DEFINE t == TableOf(s)
<1> DEFINE k == Place(s)[2]
<1>0. s \in Sections /\ Flat(t)
  BY TableFacts DEF Listed
<1>1. Items(s) = IF ArrayIn(t, k) = NULL THEN <<>> ELSE ArrayIn(t, k)
  BY DEF Items, Listed
<1>2. ASSUME k \in DOMAIN t PROVE ArrayIn(t, k) = t[k][2] /\ t[k][2] # NULL
  <2>1. Is(t[k], "array")
    BY <1>2, ListTyped
  <2>2. QED
    BY <1>0, <1>2, <2>1, Found DEF ArrayIn
<1>3. ASSUME k \notin DOMAIN t PROVE ArrayIn(t, k) = NULL
  BY <1>3, NotFound DEF ArrayIn
<1>4. QED
  BY <1>1, <1>2, <1>3

(* unwrap_or_default yields the values the loader takes one by one.          *)
LEMMA UnwrapAgrees ==
    ASSUME root \in Documents, FromStr(root), NEW s \in Listed, s # "fs_layer"
    PROVE  Unwrap(root, Place(s)[1], Place(s)[2]) = [i \in DOMAIN Items(s) |-> Items(s)[i][2]]
<1> DEFINE T == Place(s)[1]
<1> DEFINE k == Place(s)[2]
<1>0. s \in Sections
  BY DEF Listed
<1>1. CASE T \notin DOMAIN root
  <2>1. Items(s) = <<>>
    BY <1>0, <1>1, GroupTables
  <2>2. Unwrap(root, T, k) = <<>>
    BY <1>1 DEF Unwrap, KeyExists
  <2>3. QED
    BY <2>1, <2>2
<1>2. CASE T \in DOMAIN root
  <2>1. TableOf(s) = root[T][2] /\ TableOf(s) # NULL
    BY <1>0, <1>2, GroupTables
  <2>2. CASE k \in DOMAIN root[T][2]
    <3>1. Items(s) = root[T][2][k][2]
      BY <2>1, <2>2, ListItems
    <3>2. Unwrap(root, T, k) = Plain(root[T][2][k])
      BY <1>2, <2>2 DEF Unwrap, KeyExists
    <3>3. QED
      BY <3>1, <3>2 DEF Plain
  <2>3. CASE k \notin DOMAIN root[T][2]
    <3>1. Items(s) = <<>>
      BY <2>1, <2>3, ListItems
    <3>2. Unwrap(root, T, k) = <<>>
      BY <1>2, <2>3 DEF Unwrap, KeyExists
    <3>3. QED
      BY <3>1, <3>2
  <2>4. QED
    BY <2>2, <2>3
<1>3. QED
  BY <1>1, <1>2

(* What build_ir asks of the tables it finds.                                *)
LEMMA GroupBuilds ==
    ASSUME Accepts(root), NEW T \in Groups, T \in DOMAIN root
    PROVE  /\ T = "net" => BuildsNet(root[T][2])
           /\ T = "broker" => BuildsBroker(root[T][2])
           /\ T = "mount" => BuildsMount(root[T][2])
           /\ T = "runtime" => BuildsRuntime(root[T][2])
           /\ T = "seccomp" => BuildsSeccomp(root[T][2])
BY DEF Accepts, KeyExists

(* deny_unknown_fields leaves no key the loader does not know.               *)
LEMMA KeysKnown ==
    ASSUME root \in Documents, Accepts(root), NEW s \in Sections, TableOf(s) # NULL
    PROVE  OnlyKeys(TableOf(s), AllowedKeys(Place(s)[1]))
<1>0. FromStr(root)
  BY DEF Accepts
<1>1. CASE s = "fs_layer"
  <2>1. TableOf(s) = root /\ Place(s)[1] = ""
    BY <1>1, TableFacts DEF Place
  <2>2. OnlyKeys(root, AllowedKeys(""))
    BY <1>0 DEF FromStr, Struct, OnlyKeys, AllowedKeys
  <2>3. QED
    BY <2>1, <2>2
<1>2. CASE s # "fs_layer"
  <2> DEFINE T == Place(s)[1]
  <2> DEFINE t == root[T][2]
  <2>1. T \in Groups /\ T \in DOMAIN root /\ TableOf(s) = t
    BY <1>0, <1>2, GroupTables
  <2>2. /\ T = "net" => NetDoc(t)
        /\ T = "broker" => BrokerDoc(t)
        /\ T = "mount" => MountDoc(t)
        /\ T = "runtime" => RuntimeDoc(t)
        /\ T = "seccomp" => SeccompDoc(t)
    BY <1>0, <2>1, GroupDocs
  <2> HIDE DEF T, t
  <2>3. CASE T = "net"
    BY <2>1, <2>2, <2>3, KeysAllowed DEF NetDoc, Struct, OnlyKeys, T
  <2>4. CASE T = "broker"
    BY <2>1, <2>2, <2>4, KeysAllowed DEF BrokerDoc, Struct, OnlyKeys, T
  <2>5. CASE T = "mount"
    BY <2>1, <2>2, <2>5, KeysAllowed DEF MountDoc, Struct, OnlyKeys, T
  <2>6. CASE T = "runtime"
    BY <2>1, <2>2, <2>6, KeysAllowed DEF RuntimeDoc, Struct, OnlyKeys, T
  <2>7. CASE T = "seccomp"
    BY <2>1, <2>2, <2>7, KeysAllowed DEF SeccompDoc, Struct, OnlyKeys, T
  <2>8. QED
    BY <2>1, <2>3, <2>4, <2>5, <2>6, <2>7 DEF Groups
<1>3. QED
  BY <1>1, <1>2

(* Which list of the document a section with entries is, and what build_ir   *)
(* asks of it.                                                               *)
LEMMA ListBuilds ==
    ASSUME root \in Documents, Accepts(root), NEW s \in Listed, s # "fs_layer",
           TableOf(s) # NULL, Place(s)[2] \in DOMAIN TableOf(s)
    PROVE  LET t == TableOf(s)
               k == Place(s)[2]
           IN /\ s = "net_rule" => NetDoc(t) /\ BuildsNet(t)
              /\ s \in BrokerPaths => ParsePathList(t, k, FALSE)
              /\ s \in MountPaths => ParsePathList(t, k, TRUE)
              /\ s \in Binds =>
                    /\ ParseBindList(t, k)
                    /\ \A i \in DOMAIN t[k][2] : BindMountDoc(t[k][2][i][2])
              /\ s = "addfd" =>
                    /\ ParseAddfdList(t, k)
                    /\ \A i \in DOMAIN t[k][2] : AddfdDoc(t[k][2][i][2])
              /\ s = "broker_object" =>
                    /\ ParseMountObjectList(t, k)
                    /\ \A i \in DOMAIN t[k][2] : MountObjectDoc(t[k][2][i][2])
              /\ s = "deny" => BuildsSeccomp(t)
<1> DEFINE T == Place(s)[1]
<1> DEFINE t == TableOf(s)
<1> DEFINE k == Place(s)[2]
<1>0. FromStr(root) /\ s \in Sections
  BY DEF Accepts, Listed
<1>1. T \in Groups /\ T \in DOMAIN root /\ t = root[T][2]
  BY <1>0, GroupTables
<1>2. /\ T = "net" => NetDoc(t) /\ BuildsNet(t)
      /\ T = "broker" => BrokerDoc(t) /\ BuildsBroker(t)
      /\ T = "mount" => MountDoc(t) /\ BuildsMount(t)
      /\ T = "seccomp" => BuildsSeccomp(t)
  BY <1>0, <1>1, GroupDocs, GroupBuilds
<1> HIDE DEF t
<1>3. CASE s = "net_rule"
  BY <1>2, <1>3 DEF Place, Binds, BrokerPaths, MountPaths, t
<1>4. CASE s \in BrokerPaths
  <2>1. T = "broker" /\ k \in {"allow_read", "allow_write", "scratch", "export", "mount_tmpfs"}
    BY <1>4 DEF Place, BrokerPaths
  <2>2. ParsePathList(t, k, FALSE)
    BY <1>2, <2>1 DEF BuildsBroker
  <2>3. QED
    BY <1>4, <2>2 DEF BrokerPaths, MountPaths, Binds, t
<1>5. CASE s \in MountPaths
  <2>1. T = "mount" /\ k \in {"tmpfs", "proc"}
    BY <1>5 DEF Place, MountPaths
  <2>2. ParsePathList(t, k, TRUE)
    BY <1>2, <2>1 DEF BuildsMount
  <2>3. QED
    BY <1>5, <2>2 DEF BrokerPaths, MountPaths, Binds, t
<1>6. CASE s = "broker_bind"
  <2>1. T = "broker" /\ k = "mount_bind"
    BY <1>6 DEF Place
  <2>2. ParseBindList(t, k) /\ \A i \in DOMAIN t[k][2] : BindMountDoc(t[k][2][i][2])
    BY <1>2, <2>1 DEF BuildsBroker, BrokerDoc, t
  <2>3. QED
    BY <1>6, <2>2 DEF BrokerPaths, MountPaths, Binds, t
<1>7. CASE s = "mount_bind"
  <2>1. T = "mount" /\ k = "bind"
    BY <1>7 DEF Place
  <2>2. ParseBindList(t, k) /\ \A i \in DOMAIN t[k][2] : BindMountDoc(t[k][2][i][2])
    BY <1>2, <2>1 DEF BuildsMount, MountDoc, t
  <2>3. QED
    BY <1>7, <2>2 DEF BrokerPaths, MountPaths, Binds, t
<1>8. CASE s = "addfd"
  <2>1. T = "broker" /\ k = "addfd"
    BY <1>8 DEF Place
  <2>2. ParseAddfdList(t, k) /\ \A i \in DOMAIN t[k][2] : AddfdDoc(t[k][2][i][2])
    BY <1>2, <2>1 DEF BuildsBroker, BrokerDoc, t
  <2>3. QED
    BY <1>8, <2>2 DEF BrokerPaths, MountPaths, Binds, t
<1>9. CASE s = "broker_object"
  <2>1. T = "broker" /\ k = "mount_object"
    BY <1>9 DEF Place
  <2>2. ParseMountObjectList(t, k) /\ \A i \in DOMAIN t[k][2] : MountObjectDoc(t[k][2][i][2])
    BY <1>2, <2>1 DEF BuildsBroker, BrokerDoc, t
  <2>3. QED
    BY <1>9, <2>2 DEF BrokerPaths, MountPaths, Binds, t
<1>10. CASE s = "deny"
  BY <1>2, <1>10 DEF Place, Binds, BrokerPaths, MountPaths, t
<1>11. QED
  BY <1>3, <1>4, <1>5, <1>6, <1>7, <1>8, <1>9, <1>10
     DEF Listed, Sections, BrokerPaths, MountPaths, Binds

(* The loader refuses no section of a document the helper accepts.           *)
LEMMA SectionsOk ==
    ASSUME root \in Documents, Accepts(root), NEW s \in Sections
    PROVE  SectionOk(s)
<1> SUFFICES ASSUME TableOf(s) # NULL PROVE SectionOk(s)
  BY DEF SectionOk
<1> DEFINE t == TableOf(s)
<1> DEFINE k == Place(s)[2]
<1>0. FromStr(root)
  BY DEF Accepts
<1>1. OnlyKeys(t, AllowedKeys(Place(s)[1]))
  BY KeysKnown
<1>2. s \in Binds \cup MountPaths \cup {"addfd", "broker_object"} => ArrayIn(t, k) # <<>>
  <2> SUFFICES ASSUME s \in Binds \cup MountPaths \cup {"addfd", "broker_object"}
               PROVE  ArrayIn(t, k) # <<>>
    OBVIOUS
  <2>0. s \in Listed /\ s # "fs_layer"
    BY DEF Listed, Binds, MountPaths
  <2>1. CASE k \in DOMAIN t
    <3>1. Plain(t[k]) # <<>>
      BY <2>0, <2>1, ListBuilds
         DEF ParsePathList, ParseBindList, ParseAddfdList, ParseMountObjectList, KeyExists
    <3>2. t[k][2] # <<>>
      BY <3>1, PlainFacts
    <3>3. ArrayIn(t, k) = t[k][2]
      BY <1>0, <2>0, <2>1, ListItems
    <3>4. QED
      BY <3>2, <3>3
  <2>2. CASE k \notin DOMAIN t
    BY <1>0, <2>0, <2>2, ListItems, TextAssumption
  <2>3. QED
    BY <2>1, <2>2
<1>3. s = "deny" => Items(s) # <<>>
  <2> SUFFICES ASSUME s = "deny" PROVE Items(s) # <<>>
    OBVIOUS
  <2>1. s \in Listed /\ s # "fs_layer" /\ k = "deny" /\ Place(s)[1] = "seccomp"
    BY DEF Listed, Place
  <2>2. "seccomp" \in DOMAIN root /\ t = root["seccomp"][2]
    BY <1>0, <2>1, GroupTables
  <2>3. SeccompDoc(t) /\ BuildsSeccomp(t)
    BY <1>0, <2>2, GroupDocs, GroupBuilds DEF Groups
  <2>4. k \in DOMAIN t
    BY <2>1, <2>3 DEF SeccompDoc, Struct
  <2>5. Items(s) = t["deny"][2]
    BY <1>0, <2>1, <2>4, ListItems
  <2>6. QED
    BY <2>3, <2>5 DEF BuildsSeccomp
<1>4. s = "mount_proc" => \E x \in DOMAIN t : Is(t[x], "array")
  <2> SUFFICES ASSUME s = "mount_proc" PROVE \E x \in DOMAIN t : Is(t[x], "array")
    OBVIOUS
  <2>1. s # "fs_layer" /\ Place(s)[1] = "mount"
    BY DEF Place
  <2>2. "mount" \in DOMAIN root /\ t = root["mount"][2]
    BY <1>0, <2>1, GroupTables
  <2>3. MountDoc(t) /\ BuildsMount(t)
    BY <1>0, <2>2, GroupDocs, GroupBuilds DEF Groups
  <2> HIDE DEF t
  <2>4. QED
    BY <2>3 DEF MountDoc, BuildsMount, Strings, Tables
<1>5. s = "cwd" => Items("root") # <<>> \/ Items("cwd") # <<>>
  <2> SUFFICES ASSUME s = "cwd" PROVE Items("root") # <<>> \/ Items("cwd") # <<>>
    OBVIOUS
  <2>1. s # "fs_layer" /\ Place(s)[1] = "runtime"
    BY DEF Place
  <2>2. "runtime" \in DOMAIN root /\ t = root["runtime"][2] /\ Flat(t)
    BY <1>0, <2>1, GroupTables DEF Nested
  <2>3. RuntimeDoc(t) /\ BuildsRuntime(t)
    BY <1>0, <2>2, GroupDocs, GroupBuilds DEF Groups
  <2>4. PICK x \in {"root", "cwd"} : x \in DOMAIN t
    BY <2>3 DEF RuntimeDoc, BuildsRuntime, Struct
  <2>5. DatumIn(t, x, "string") # NULL
    BY <2>2, <2>3, <2>4, Found DEF RuntimeDoc
  <2>6. TableOf(x) = t /\ Place(x)[2] = x
    BY <2>4 DEF TableOf, Place
  <2>7. Items(x) # <<>>
    BY <2>4, <2>5, <2>6 DEF Items
  <2>8. QED
    BY <2>4, <2>7
<1>6. QED
  BY <1>1, <1>2, <1>3, <1>4, <1>5 DEF SectionOk

-----------------------------------------------------------------------------
(* Section by section, the entries pass the loader's checks and become what  *)
(* build_ir makes of them.                                                   *)
Agrees(s) ==
    /\ \A i \in DOMAIN Items(s) : EntryOk(s, Items(s)[i])
    /\ WholeIr[s] = BuildIr(root, EPERM)[s]

(* The IR of one section.                                                    *)
LEMMA WholeAt ==
    ASSUME NEW s \in Sections
    PROVE  WholeIr[s] = [i \in DOMAIN Items(s) |-> Entry(s, Items(s)[i])]
BY DEF WholeIr

(* An entry of a list belongs to a table and a key that are there.           *)
LEMMA EntryPlace ==
    ASSUME root \in Documents, Accepts(root), NEW s \in Listed, NEW i \in DOMAIN Items(s)
    PROVE  LET t == TableOf(s)
               k == Place(s)[2]
               v == Items(s)[i]
           IN /\ t # NULL /\ k \in DOMAIN t /\ Items(s) = t[k][2]
              /\ i \in DOMAIN Plain(t[k]) /\ Plain(t[k])[i] = v[2]
              /\ v[2] # NULL
              /\ s \in BrokerPaths \cup MountPaths \cup {"deny"} => Is(v, "string")
              /\ s \notin BrokerPaths \cup MountPaths \cup {"deny"} => Is(v, "table") /\ Flat(v[2])
<1> DEFINE t == TableOf(s)
<1> DEFINE k == Place(s)[2]
<1> DEFINE v == Items(s)[i]
<1>0. FromStr(root) /\ s \in Sections
  BY DEF Accepts, Listed
<1>1. t # NULL /\ k \in DOMAIN t /\ Items(s) = t[k][2] /\ (Is(v, "table") => Flat(v[2]))
      /\ Is(t[k], "array")
  BY ListedItems
<1>2. Flat(t)
  BY <1>0, <1>1, TableFacts
<1>3. /\ s \in BrokerPaths \cup MountPaths \cup {"deny"} => Strings(t[k])
      /\ s \notin BrokerPaths \cup MountPaths \cup {"deny"} => Tables(t[k])
  BY <1>0, <1>1, ListTyped
<1>4. i \in DOMAIN Plain(t[k]) /\ Plain(t[k])[i] = v[2]
  BY <1>1, PlainFacts
<1> HIDE DEF t, k
<1>5. v[2] # NULL
  BY <1>1, <1>2 DEF Flat, Sound
<1>6. /\ s \in BrokerPaths \cup MountPaths \cup {"deny"} => Is(v, "string")
      /\ s \notin BrokerPaths \cup MountPaths \cup {"deny"} => Is(v, "table")
  BY <1>1, <1>3 DEF Strings, Tables
<1>7. QED
  BY <1>1, <1>4, <1>5, <1>6 DEF t, k

(* What build_ir makes of one section.                                       *)
LEMMA BuildAt ==
    ASSUME NEW s \in Sections
    PROVE  LET u == Unwrap(root, Place(s)[1], Place(s)[2])
               b == BuildIr(root, EPERM)[s]
           IN /\ s \in BrokerPaths \cup MountPaths \cup {"deny"} => b = u
              /\ s \in Binds => b = BuildBinds(u)
              /\ s = "addfd" => b = BuildAddfd(u)
              /\ s = "broker_object" => b = BuildObjects(u)
              /\ s = "net_rule" => b = BuildRules(u)
<1>1. CASE s \in BrokerPaths \cup MountPaths \cup {"deny"}
  BY <1>1 DEF BuildIr, BuildSection, Place, BrokerPaths, MountPaths, Binds
<1>2. CASE s \in Binds
  BY <1>2 DEF BuildIr, BuildSection, Place, BrokerPaths, MountPaths, Binds
<1>3. CASE s \in {"addfd", "broker_object", "net_rule"}
  BY <1>3 DEF BuildIr, BuildSection, Place, BrokerPaths, MountPaths, Binds
<1>4. QED
  BY <1>1, <1>2, <1>3

(* Lists of paths and the denied calls agree.                                *)
LEMMA TextsAgree ==
    ASSUME root \in Documents, Accepts(root),
           NEW s \in BrokerPaths \cup MountPaths \cup {"deny"}
    PROVE  Agrees(s)
<1>0. s \in Listed /\ s \in Sections /\ s # "fs_layer" /\ FromStr(root)
  BY DEF Accepts, Listed, Sections, BrokerPaths, MountPaths
<1>1. ASSUME NEW i \in DOMAIN Items(s)
      PROVE  EntryOk(s, Items(s)[i]) /\ Entry(s, Items(s)[i]) = Items(s)[i][2]
  <2> DEFINE t == TableOf(s)
  <2> DEFINE k == Place(s)[2]
  <2> DEFINE v == Items(s)[i]
  <2>1. /\ t # NULL /\ k \in DOMAIN t /\ i \in DOMAIN Plain(t[k]) /\ Plain(t[k])[i] = v[2]
        /\ v[2] # NULL /\ Is(v, "string") /\ Items(s) = t[k][2]
    BY <1>0, EntryPlace
  <2>2. /\ s \in BrokerPaths => ParsePathList(t, k, FALSE)
        /\ s \in MountPaths => ParsePathList(t, k, TRUE)
        /\ s = "deny" => BuildsSeccomp(t) /\ k = "deny"
    BY <1>0, <2>1, ListBuilds DEF Place
  <2> HIDE DEF t, k, v
  <2>0. Entry(s, v) = v[2]
    BY DEF Entry, BrokerPaths, MountPaths, Binds
  <2>3. CASE s \in BrokerPaths
    <3>1. v[2] # ""
      BY <2>1, <2>2, <2>3 DEF ParsePathList, KeyExists
    <3>2. EntryOk(s, v)
      BY <2>1, <2>3, <3>1 DEF EntryOk, NonEmpty, BrokerPaths, MountPaths, Binds
    <3>3. QED
      BY <2>0, <3>2 DEF v
  <2>4. CASE s \in MountPaths
    <3>1. v[2] \in Absolute
      BY <2>1, <2>2, <2>4 DEF ParsePathList, KeyExists, RequireAbsolute
    <3>2. EntryOk(s, v)
      BY <2>1, <2>4, <3>1 DEF EntryOk, IsAbsolute, BrokerPaths, MountPaths, Binds
    <3>3. QED
      BY <2>0, <3>2 DEF v
  <2>5. CASE s = "deny"
    <3>1. v[2] \in Syscalls
      BY <2>1, <2>2, <2>5 DEF BuildsSeccomp, v
    <3>2. EntryOk(s, v)
      BY <2>1, <2>5, <3>1 DEF EntryOk, BrokerPaths, MountPaths, Binds
    <3>3. QED
      BY <2>0, <3>2 DEF v
  <2>6. QED
    BY <2>3, <2>4, <2>5
<1>2. WholeIr[s] = [i \in DOMAIN Items(s) |-> Items(s)[i][2]]
  BY <1>0, <1>1, WholeAt
<1>3. BuildIr(root, EPERM)[s] = [i \in DOMAIN Items(s) |-> Items(s)[i][2]]
  BY <1>0, BuildAt, UnwrapAgrees
<1>4. QED
  BY <1>1, <1>2, <1>3 DEF Agrees

(* Both lists of binds agree.                                                *)
LEMMA BindsAgree ==
    ASSUME root \in Documents, Accepts(root), NEW s \in Binds
    PROVE  Agrees(s)
<1>0. s \in Listed /\ s \in Sections /\ s # "fs_layer" /\ FromStr(root)
      /\ s \notin BrokerPaths \cup MountPaths \cup {"deny"}
  BY DEF Accepts, Listed, Sections, Binds, BrokerPaths, MountPaths
<1> DEFINE built(t) == [source |-> t["source"][2], target |-> t["target"][2],
                        read_only |-> IF KeyExists(t, "read_only") THEN t["read_only"][2] ELSE TRUE]
<1>1. ASSUME NEW i \in DOMAIN Items(s)
      PROVE  EntryOk(s, Items(s)[i]) /\ Entry(s, Items(s)[i]) = built(Items(s)[i][2])
  <2> DEFINE t == TableOf(s)
  <2> DEFINE k == Place(s)[2]
  <2> DEFINE v == Items(s)[i]
  <2>1. /\ t # NULL /\ k \in DOMAIN t /\ i \in DOMAIN Plain(t[k]) /\ Plain(t[k])[i] = v[2]
        /\ Is(v, "table") /\ Flat(v[2]) /\ Items(s) = t[k][2]
    BY <1>0, EntryPlace
  <2>2. ParseBindList(t, k) /\ BindMountDoc(v[2])
    BY <1>0, <2>1, ListBuilds
  <2> HIDE DEF t, k, v
  <2>3. RequireAbsolute(v[2]["source"][2]) /\ RequireAbsolute(v[2]["target"][2])
    BY <2>1, <2>2 DEF ParseBindList, KeyExists
  <2>4. BindOk(v[2]) /\ Bind(v[2]) = built(v[2])
    BY <2>1, <2>2, <2>3, BindAgrees
  <2> HIDE DEF built
  <2>5. EntryOk(s, v)
    BY <2>1, <2>4 DEF EntryOk, Binds, BrokerPaths, MountPaths
  <2>6. Entry(s, v) = Bind(v[2])
    BY DEF Entry, Binds
  <2>7. QED
    BY <2>4, <2>5, <2>6 DEF v
<1>2. WholeIr[s] = [i \in DOMAIN Items(s) |-> built(Items(s)[i][2])]
  BY <1>0, <1>1, WholeAt, ZenonT(40)
<1>3. BuildIr(root, EPERM)[s] = [i \in DOMAIN Items(s) |-> built(Items(s)[i][2])]
  <2> DEFINE u == [i \in DOMAIN Items(s) |-> Items(s)[i][2]]
  <2>1. BuildIr(root, EPERM)[s] = BuildBinds(u)
    BY <1>0, BuildAt, UnwrapAgrees
  <2>2. DOMAIN u = DOMAIN Items(s) /\ \A i \in DOMAIN u : u[i] = Items(s)[i][2]
    OBVIOUS
  <2> HIDE DEF u
  <2>3. BuildBinds(u) = [i \in DOMAIN u |-> built(u[i])]
    BY DEF BuildBinds
  <2> HIDE DEF built
  <2>4. QED
    BY <2>1, <2>2, <2>3
<1>4. QED
  BY <1>1, <1>2, <1>3 DEF Agrees

(* The addfd rules agree.                                                    *)
LEMMA AddfdsAgree ==
    ASSUME root \in Documents, Accepts(root)
    PROVE  Agrees("addfd")
<1> DEFINE s == "addfd"
<1>0. s \in Listed /\ s \in Sections /\ s # "fs_layer" /\ FromStr(root)
      /\ s \notin BrokerPaths \cup MountPaths \cup {"deny"}
  BY DEF Accepts, Listed, Sections, BrokerPaths, MountPaths
<1> DEFINE built(t) == [action |-> t["action"][2], target |-> t["target"][2],
                        mode |-> IF KeyExists(t, "mode") THEN t["mode"][2] ELSE NULL]
<1>1. ASSUME NEW i \in DOMAIN Items(s)
      PROVE  EntryOk(s, Items(s)[i]) /\ Entry(s, Items(s)[i]) = built(Items(s)[i][2])
  <2> DEFINE t == TableOf(s)
  <2> DEFINE k == Place(s)[2]
  <2> DEFINE v == Items(s)[i]
  <2>1. /\ t # NULL /\ k \in DOMAIN t /\ i \in DOMAIN Plain(t[k]) /\ Plain(t[k])[i] = v[2]
        /\ Is(v, "table") /\ Flat(v[2]) /\ Items(s) = t[k][2]
    BY <1>0, EntryPlace
  <2>2. ParseAddfdList(t, k) /\ AddfdDoc(v[2])
    BY <1>0, <2>1, ListBuilds
  <2> HIDE DEF t, k, v
  <2>3. /\ v[2]["action"][2] \in AddfdActions /\ RequireAbsolute(v[2]["target"][2])
        /\ KeyExists(v[2], "mode") => v[2]["mode"][2] \in Modes
    BY <2>1, <2>2 DEF ParseAddfdList, KeyExists
  <2>4. /\ AddfdOk(v[2])
        /\ DatumIn(v[2], "action", "string") = v[2]["action"][2]
        /\ DatumIn(v[2], "target", "string") = v[2]["target"][2]
        /\ DatumIn(v[2], "mode", "string") = IF KeyExists(v[2], "mode") THEN v[2]["mode"][2] ELSE NULL
    BY <2>1, <2>2, <2>3, AddfdAgrees
  <2>5. EntryOk(s, v)
    BY <2>1, <2>4 DEF EntryOk, Binds, BrokerPaths, MountPaths
  <2>6. Entry(s, v) = built(v[2])
    BY <2>4 DEF Entry, Binds
  <2>7. QED
    BY <2>5, <2>6 DEF v
<1>2. WholeIr[s] = [i \in DOMAIN Items(s) |-> built(Items(s)[i][2])]
  BY <1>0, <1>1, WholeAt
<1>3. BuildIr(root, EPERM)[s] = [i \in DOMAIN Items(s) |-> built(Items(s)[i][2])]
  <2> DEFINE u == [i \in DOMAIN Items(s) |-> Items(s)[i][2]]
  <2>1. BuildIr(root, EPERM)[s] = BuildAddfd(u)
    BY <1>0, BuildAt, UnwrapAgrees
  <2>2. DOMAIN u = DOMAIN Items(s) /\ \A i \in DOMAIN u : u[i] = Items(s)[i][2]
    OBVIOUS
  <2> HIDE DEF u
  <2>3. BuildAddfd(u) = [i \in DOMAIN u |-> built(u[i])]
    BY DEF BuildAddfd
  <2> HIDE DEF built
  <2>4. QED
    BY <2>1, <2>2, <2>3
<1>4. QED
  BY <1>1, <1>2, <1>3 DEF Agrees

(* The mount objects agree.                                                  *)
LEMMA ObjectsAgree ==
    ASSUME root \in Documents, Accepts(root)
    PROVE  Agrees("broker_object")
<1> DEFINE s == "broker_object"
<1>0. s \in Listed /\ s \in Sections /\ s # "fs_layer" /\ FromStr(root)
      /\ s \notin BrokerPaths \cup MountPaths \cup {"deny"}
  BY DEF Accepts, Listed, Sections, BrokerPaths, MountPaths
<1> DEFINE built(t) == [name |-> t["name"][2], fs_type |-> t["fs_type"][2],
                        attach |-> Plain(t["attach"]),
                        attrs |-> IF KeyExists(t, "attrs") THEN Names(t["attrs"]) ELSE {}]
<1>1. ASSUME NEW i \in DOMAIN Items(s)
      PROVE  EntryOk(s, Items(s)[i]) /\ Entry(s, Items(s)[i]) = built(Items(s)[i][2])
  <2> DEFINE t == TableOf(s)
  <2> DEFINE k == Place(s)[2]
  <2> DEFINE v == Items(s)[i]
  <2>1. /\ t # NULL /\ k \in DOMAIN t /\ i \in DOMAIN Plain(t[k]) /\ Plain(t[k])[i] = v[2]
        /\ Is(v, "table") /\ Flat(v[2]) /\ Items(s) = t[k][2]
    BY <1>0, EntryPlace
  <2>2. ParseMountObjectList(t, k) /\ MountObjectDoc(v[2])
    BY <1>0, <2>1, ListBuilds
  <2> HIDE DEF t, k, v
  <2>3. ParseMountObject(v[2])
    BY <2>1, <2>2 DEF ParseMountObjectList, KeyExists
  <2>4. MountObjectOk(v[2]) /\ MountObject(v[2]) = built(v[2])
    BY <2>1, <2>2, <2>3, ObjectAgrees
  <2> HIDE DEF built
  <2>5. EntryOk(s, v)
    BY <2>1, <2>4 DEF EntryOk, Binds, BrokerPaths, MountPaths
  <2>6. Entry(s, v) = MountObject(v[2])
    BY DEF Entry, Binds
  <2>7. QED
    BY <2>4, <2>5, <2>6 DEF v
<1>2. WholeIr[s] = [i \in DOMAIN Items(s) |-> built(Items(s)[i][2])]
  BY <1>0, <1>1, WholeAt
<1>3. BuildIr(root, EPERM)[s] = [i \in DOMAIN Items(s) |-> built(Items(s)[i][2])]
  <2> DEFINE u == [i \in DOMAIN Items(s) |-> Items(s)[i][2]]
  <2>1. BuildIr(root, EPERM)[s] = BuildObjects(u)
    BY <1>0, BuildAt, UnwrapAgrees
  <2>2. DOMAIN u = DOMAIN Items(s) /\ \A i \in DOMAIN u : u[i] = Items(s)[i][2]
    OBVIOUS
  <2> HIDE DEF u
  <2>3. BuildObjects(u) = [i \in DOMAIN u |-> built(u[i])]
    BY DEF BuildObjects
  <2> HIDE DEF built
  <2>4. QED
    BY <2>1, <2>2, <2>3
<1>4. QED
  BY <1>1, <1>2, <1>3 DEF Agrees

(* The network rules agree.                                                  *)
LEMMA NetRulesAgree ==
    ASSUME root \in Documents, Accepts(root)
    PROVE  Agrees("net_rule")
<1> DEFINE s == "net_rule"
<1>0. s \in Listed /\ s \in Sections /\ s # "fs_layer" /\ FromStr(root)
      /\ s \notin BrokerPaths \cup MountPaths \cup {"deny"}
  BY DEF Accepts, Listed, Sections, BrokerPaths, MountPaths
<1> DEFINE built(t) == [port |-> t["port"][2], access |-> Names(t["allowed_access"])]
<1>1. ASSUME NEW i \in DOMAIN Items(s)
      PROVE  EntryOk(s, Items(s)[i]) /\ Entry(s, Items(s)[i]) = built(Items(s)[i][2])
  <2> DEFINE t == TableOf(s)
  <2> DEFINE v == Items(s)[i]
  <2>0. Place(s)[2] = "rule"
    BY DEF Place
  <2>1. /\ t # NULL /\ "rule" \in DOMAIN t
        /\ i \in DOMAIN Plain(t["rule"]) /\ Plain(t["rule"])[i] = v[2]
        /\ Is(v, "table") /\ Flat(v[2]) /\ Items(s) = t["rule"][2]
    BY <1>0, <2>0, EntryPlace
  <2>2. NetDoc(t) /\ BuildsNet(t)
    BY <1>0, <2>0, <2>1, ListBuilds
  <2>3. /\ Struct(v[2], {"port", "allowed_access"}, {})
        /\ Is(v[2]["port"], "integer") /\ Strings(v[2]["allowed_access"])
    BY <2>1, <2>2 DEF NetDoc, KeyExists
  <2>4. RuleTables(t) = Plain(t["rule"])
    BY <2>1 DEF RuleTables, KeyExists
  <2> HIDE DEF t, v
  <2>5. v[2]["port"][2] \in Ports /\ ParseAccessList(Plain(v[2]["allowed_access"]), NetAccess)
    BY <2>1, <2>2, <2>4 DEF BuildsNet
  <2>6. /\ NetRuleOk(v[2])
        /\ DatumIn(v[2], "port", "integer") % 65536 = v[2]["port"][2]
        /\ Access(ArrayIn(v[2], "allowed_access")) = Names(v[2]["allowed_access"])
    BY <2>1, <2>3, <2>5, NetRuleAgrees
  <2>7. EntryOk(s, v)
    BY <2>1, <2>6 DEF EntryOk, Binds, BrokerPaths, MountPaths
  <2>8. Entry(s, v) = built(v[2])
    BY <2>6 DEF Entry, Binds
  <2>9. QED
    BY <2>7, <2>8 DEF v
<1>2. WholeIr[s] = [i \in DOMAIN Items(s) |-> built(Items(s)[i][2])]
  BY <1>0, <1>1, WholeAt
<1>3. BuildIr(root, EPERM)[s] = [i \in DOMAIN Items(s) |-> built(Items(s)[i][2])]
  <2> DEFINE u == [i \in DOMAIN Items(s) |-> Items(s)[i][2]]
  <2>1. BuildIr(root, EPERM)[s] = BuildRules(u)
    BY <1>0, BuildAt, UnwrapAgrees
  <2>2. DOMAIN u = DOMAIN Items(s) /\ \A i \in DOMAIN u : u[i] = Items(s)[i][2]
    OBVIOUS
  <2> HIDE DEF u
  <2>3. BuildRules(u) = [i \in DOMAIN u |-> built(u[i])]
    BY DEF BuildRules
  <2> HIDE DEF built
  <2>4. QED
    BY <2>1, <2>2, <2>3
<1>4. QED
  BY <1>1, <1>2, <1>3 DEF Agrees

(* The file system layers agree.                                             *)
LEMMA LayersAgree ==
    ASSUME root \in Documents, Accepts(root)
    PROVE  Agrees("fs_layer")
<1> DEFINE s == "fs_layer"
<1>0. /\ s \in Listed /\ s \in Sections /\ FromStr(root) /\ TableOf(s) = root /\ root # NULL
      /\ Place(s)[2] = s
  BY TableFacts, DocumentAssumption DEF Accepts, Listed, Sections, Place
<1>1. ASSUME NEW i \in DOMAIN Items(s)
      PROVE  EntryOk(s, Items(s)[i]) /\ Entry(s, Items(s)[i]) = BuildLayer(Items(s)[i][2])
  <2> DEFINE v == Items(s)[i]
  <2>1. /\ s \in DOMAIN root /\ i \in DOMAIN Plain(root[s]) /\ Plain(root[s])[i] = v[2]
        /\ Items(s) = root[s][2]
    BY <1>0, EntryPlace
  <2>2. Is(v, "table") /\ FsLayerDoc(v[2])
    BY <1>0, <2>1 DEF FromStr, KeyExists, Tables
  <2>3. Nested(v[2])
    BY <1>0, <2>2, ListedItems
  <2>4. BuildsLayer(v[2])
    BY <2>1 DEF Accepts, KeyExists, BuildsFs
  <2> HIDE DEF v
  <2>5. FsLayerOk(v[2]) /\ FsLayer(v[2]) = BuildLayer(v[2])
    BY <2>2, <2>3, <2>4, LayerAgrees
  <2>6. EntryOk(s, v)
    BY <2>2, <2>5 DEF EntryOk, Binds, BrokerPaths, MountPaths
  <2>7. Entry(s, v) = FsLayer(v[2])
    BY DEF Entry, Binds
  <2>8. QED
    BY <2>5, <2>6, <2>7 DEF v
<1>2. WholeIr[s] = [i \in DOMAIN Items(s) |-> BuildLayer(Items(s)[i][2])]
  BY <1>0, <1>1, WholeAt
<1>3. BuildIr(root, EPERM)[s] = BuildLayers(root)
  BY DEF BuildIr, BuildSection, Sections
<1>4. CASE s \in DOMAIN root
  <2>1. Items(s) = root[s][2]
    BY <1>0, <1>4, ListItems
  <2>2. BuildLayers(root) = [i \in DOMAIN root[s][2] |-> BuildLayer(root[s][2][i][2])]
    BY <1>4 DEF BuildLayers, KeyExists
  <2>3. QED
    BY <1>1, <1>2, <1>3, <2>1, <2>2 DEF Agrees
<1>5. CASE s \notin DOMAIN root
  <2>1. Items(s) = <<>>
    BY <1>0, <1>5, ListItems
  <2>2. BuildLayers(root) = <<>>
    BY <1>5 DEF BuildLayers, KeyExists
  <2>3. QED
    BY <1>1, <1>2, <1>3, <2>1, <2>2 DEF Agrees
<1>6. QED
  BY <1>4, <1>5

(* A section that holds at most one value.                                   *)
LEMMA WholeField ==
    ASSUME NEW s \in Sections
    PROVE  /\ Items(s) = <<>> => WholeIr[s] = <<>>
           /\ \A v : Items(s) = <<v>> => WholeIr[s] = <<Entry(s, v)>>
<1>1. ASSUME Items(s) = <<>> PROVE WholeIr[s] = <<>>
  <2>1. DOMAIN Items(s) = {}
    BY <1>1
  <2>2. WholeIr[s] = [i \in {} |-> Entry(s, Items(s)[i])]
    BY <2>1, WholeAt
  <2>3. QED
    BY <2>2
<1>2. ASSUME NEW v, Items(s) = <<v>> PROVE WholeIr[s] = <<Entry(s, v)>>
  <2>1. DOMAIN Items(s) = {1} /\ Items(s)[1] = v
    BY <1>2
  <2>2. WholeIr[s] = [i \in {1} |-> Entry(s, Items(s)[i])]
    BY <2>1, WholeAt
  <2>3. WholeIr[s] = [i \in {1} |-> Entry(s, v)]
    BY <2>1, <2>2
  <2>4. QED
    BY <2>3
<1>3. QED
  BY <1>1, <1>2

(* The handled network access agrees.                                        *)
LEMMA NetAgrees ==
    ASSUME root \in Documents, Accepts(root)
    PROVE  Agrees("net")
<1> DEFINE s == "net"
<1>0. s \in Sections /\ s \notin Listed /\ FromStr(root) /\ Place(s)[1] = "net"
  BY DEF Accepts, Listed, Sections, Place
<1>1. CASE "net" \in DOMAIN root
  <2> DEFINE t == root["net"][2]
  <2>1. TableOf(s) = t /\ t # NULL /\ Nested(t)
    BY <1>0, <1>1, GroupTables
  <2>2. Items(s) = <<Table(t)>>
    BY <1>0, <2>1, FieldItems
  <2>3. NetDoc(t) /\ BuildsNet(t)
    BY <1>0, <1>1, GroupDocs, GroupBuilds DEF Groups
  <2>4. /\ AccessOk(ArrayIn(t, "handled_access_net"), NetAccess)
        /\ Access(ArrayIn(t, "handled_access_net")) = Names(t["handled_access_net"])
    BY <2>1, <2>3, AccessAgrees DEF NetDoc, BuildsNet, Struct, Nested
  <2>5. BuildIr(root, EPERM)[s] = <<Names(t["handled_access_net"])>>
    BY <1>1 DEF BuildIr, BuildSection, Sections, KeyExists
  <2> HIDE DEF t
  <2>6. Table(t)[2] = t
    BY DEF Table
  <2>7. EntryOk(s, Table(t))
    BY <2>4, <2>6 DEF EntryOk, Binds, BrokerPaths, MountPaths
  <2>8. Entry(s, Table(t)) = Names(t["handled_access_net"])
    BY <2>4, <2>6 DEF Entry, Binds
  <2>9. WholeIr[s] = <<Entry(s, Table(t))>>
    BY <1>0, <2>2, WholeField
  <2>10. QED
    BY <2>2, <2>5, <2>7, <2>8, <2>9 DEF Agrees
<1>2. CASE "net" \notin DOMAIN root
  <2>1. Items(s) = <<>>
    BY <1>0, <1>2, GroupTables
  <2>2. BuildIr(root, EPERM)[s] = <<>>
    BY <1>2 DEF BuildIr, BuildSection, Sections, KeyExists
  <2>3. WholeIr[s] = <<>>
    BY <1>0, <2>1, WholeField
  <2>4. QED
    BY <2>1, <2>2, <2>3 DEF Agrees
<1>3. QED
  BY <1>1, <1>2

(* The errno agrees, its default included.                                   *)
LEMMA SeccompAgrees ==
    ASSUME root \in Documents, Accepts(root)
    PROVE  Agrees("seccomp")
<1> DEFINE s == "seccomp"
<1>0. s \in Sections /\ s \notin Listed /\ FromStr(root) /\ Place(s)[1] = "seccomp"
  BY DEF Accepts, Listed, Sections, Place
<1>1. CASE "seccomp" \in DOMAIN root
  <2> DEFINE t == root["seccomp"][2]
  <2> DEFINE errno == DatumIn(t, "errno", "integer")
  <2>1. TableOf(s) = t /\ t # NULL /\ Flat(t)
    BY <1>0, <1>1, GroupTables DEF Nested
  <2>2. Items(s) = <<Table(t)>>
    BY <1>0, <2>1, FieldItems
  <2>3. SeccompDoc(t) /\ BuildsSeccomp(t)
    BY <1>0, <1>1, GroupDocs, GroupBuilds DEF Groups
  <2>4. KeyExists(t, "errno") => errno = t["errno"][2] /\ errno # NULL /\ errno \in Errnos
    BY <2>1, <2>3, Found DEF KeyExists, SeccompDoc, BuildsSeccomp
  <2>5. ~KeyExists(t, "errno") => errno = NULL
    BY NotFound DEF KeyExists
  <2>6. BuildIr(root, EPERM)[s] = <<IF KeyExists(t, "errno") THEN t["errno"][2] ELSE EPERM>>
    BY <1>1 DEF BuildIr, BuildSection, BuildErrno, Sections, KeyExists
  <2> HIDE DEF t, errno
  <2>7. Table(t)[2] = t
    BY DEF Table
  <2>8. ErrnoOk(errno)
    <3>1. errno \in Errnos => errno > 0 /\ errno <= MaxErrno
      BY ErrnoBounds
    <3>2. QED
      BY <2>4, <2>5, <3>1 DEF ErrnoOk
  <2>9. EntryOk(s, Table(t))
    BY <2>7, <2>8 DEF EntryOk, Binds, BrokerPaths, MountPaths, errno
  <2>10. Entry(s, Table(t)) = IF errno = NULL THEN EPERM ELSE errno
    BY <2>7 DEF Entry, Binds, errno
  <2>11. Entry(s, Table(t)) = IF KeyExists(t, "errno") THEN t["errno"][2] ELSE EPERM
    BY <2>4, <2>5, <2>10
  <2>12. WholeIr[s] = <<Entry(s, Table(t))>>
    BY <1>0, <2>2, WholeField
  <2>13. QED
    BY <2>2, <2>6, <2>9, <2>11, <2>12 DEF Agrees
<1>2. CASE "seccomp" \notin DOMAIN root
  <2>1. Items(s) = <<>>
    BY <1>0, <1>2, GroupTables
  <2>2. BuildIr(root, EPERM)[s] = <<>>
    BY <1>2 DEF BuildIr, BuildSection, BuildErrno, Sections, KeyExists
  <2>3. WholeIr[s] = <<>>
    BY <1>0, <2>1, WholeField
  <2>4. QED
    BY <2>1, <2>2, <2>3 DEF Agrees
<1>3. QED
  BY <1>1, <1>2

(* The root and the working directory agree.                                 *)
LEMMA RuntimeAgrees ==
    ASSUME root \in Documents, Accepts(root), NEW s \in {"root", "cwd"}
    PROVE  Agrees(s)
<1>0. /\ s \in Sections /\ s \notin Listed /\ FromStr(root) /\ s # "fs_layer"
      /\ Place(s)[1] = "runtime" /\ Place(s)[2] = s
  BY DEF Accepts, Listed, Sections, Place
<1>1. BuildIr(root, EPERM)[s] = BuildRuntime(root, s)
  BY <1>0 DEF BuildIr, BuildSection
<1>2. CASE "runtime" \in DOMAIN root /\ s \in DOMAIN root["runtime"][2]
  <2> DEFINE t == root["runtime"][2]
  <2>1. TableOf(s) = t /\ t # NULL /\ Flat(t)
    BY <1>0, <1>2, GroupTables DEF Nested
  <2>2. RuntimeDoc(t) /\ BuildsRuntime(t)
    BY <1>0, <1>2, GroupDocs, GroupBuilds DEF Groups
  <2>3. DatumIn(t, s, "string") = t[s][2] /\ t[s][2] # NULL /\ t[s][2] \in Absolute
    BY <1>2, <2>1, <2>2, Found DEF RuntimeDoc, BuildsRuntime, RequireAbsolute
  <2>4. BuildRuntime(root, s) = <<t[s][2]>>
    BY <1>2 DEF BuildRuntime, KeyExists
  <2>5. Items(s) = <<String(t[s][2])>>
    BY <1>0, <2>1, <2>3 DEF Items
  <2> HIDE DEF t
  <2>6. Is(String(t[s][2]), "string") /\ String(t[s][2])[2] = t[s][2]
    BY DEF Is, String
  <2>7. EntryOk(s, String(t[s][2]))
    BY <2>3, <2>6 DEF EntryOk, IsAbsolute, BrokerPaths, MountPaths, Binds
  <2>8. Entry(s, String(t[s][2])) = t[s][2]
    BY <2>6 DEF Entry, Binds
  <2>9. WholeIr[s] = <<Entry(s, String(t[s][2]))>>
    BY <1>0, <2>5, WholeField
  <2>10. QED
    BY <1>1, <2>4, <2>5, <2>7, <2>8, <2>9 DEF Agrees
<1>3. CASE "runtime" \notin DOMAIN root
  <2>1. Items(s) = <<>>
    BY <1>0, <1>3, GroupTables
  <2>2. BuildRuntime(root, s) = <<>>
    BY <1>3 DEF BuildRuntime, KeyExists
  <2>3. WholeIr[s] = <<>>
    BY <1>0, <2>1, WholeField
  <2>4. QED
    BY <1>1, <2>1, <2>2, <2>3 DEF Agrees
<1>4. CASE "runtime" \in DOMAIN root /\ s \notin DOMAIN root["runtime"][2]
  <2>1. TableOf(s) = root["runtime"][2]
    BY <1>0, <1>4, GroupTables
  <2>2. DatumIn(TableOf(s), s, "string") = NULL
    BY <1>4, <2>1, NotFound
  <2>3. Items(s) = <<>>
    BY <1>0, <2>2 DEF Items
  <2>4. BuildRuntime(root, s) = <<>>
    BY <1>4 DEF BuildRuntime, KeyExists
  <2>5. WholeIr[s] = <<>>
    BY <1>0, <2>3, WholeField
  <2>6. QED
    BY <1>1, <2>3, <2>4, <2>5 DEF Agrees
<1>5. QED
  BY <1>2, <1>3, <1>4

(* A document the Rust helper accepts passes the root tests and every check  *)
(* of the loader, and both make the same of it.                              *)
LEMMA HelperImplies ==
    ASSUME root \in Documents, Accepts(root)
    PROVE  /\ OnlyKeys(root, AllowedKeys("")) /\ DatumIn(root, "version", "integer") = 1
           /\ \A s \in Sections : SectionOk(s) /\ Agrees(s)
           /\ WholeIr = BuildIr(root, EPERM)
<1>1. OnlyKeys(root, AllowedKeys(""))
  BY DEF Accepts, FromStr, Struct, OnlyKeys, AllowedKeys
<1>2. DatumIn(root, "version", "integer") = 1
  <2>1. Flat(root) /\ "version" \in DOMAIN root /\ Is(root["version"], "integer")
    BY DocumentAssumption DEF Accepts, FromStr, Struct
  <2>2. QED
    BY <2>1, Found DEF Accepts
<1>3. ASSUME NEW s \in Sections PROVE SectionOk(s) /\ Agrees(s)
  BY SectionsOk, TextsAgree, BindsAgree, AddfdsAgree, ObjectsAgree, NetRulesAgree, LayersAgree,
     NetAgrees, SeccompAgrees, RuntimeAgrees DEF Sections, BrokerPaths, MountPaths, Binds
<1>4. WholeIr = BuildIr(root, EPERM)
  <2>1. WholeIr = [s \in Sections |-> WholeIr[s]]
    BY DEF WholeIr
  <2>2. BuildIr(root, EPERM) = [s \in Sections |-> BuildIr(root, EPERM)[s]]
    BY DEF BuildIr
  <2>3. \A s \in Sections : WholeIr[s] = BuildIr(root, EPERM)[s]
    BY <1>3 DEF Agrees
  <2>4. QED
    BY <2>1, <2>2, <2>3
<1>5. QED
  BY <1>1, <1>2, <1>3, <1>4

(* A document with a table for every struct is read as it stands.            *)
LEMMA KeyedReads ==
    ASSUME NEW doc, Keyed(doc)
    PROVE  /\ HelperAccepts(doc) <=> Accepts(doc)
           /\ HelperIr(doc, EPERM) = BuildIr(doc, EPERM)
<1>1. Visited(doc) = doc
  BY DEF Keyed
<1>2. QED
  BY <1>1 DEF HelperAccepts, HelperIr

(* Such a document, when the helper accepts it, was not refused.             *)
ParityInv == Accepts(root) => result # "refused"

(* No step refuses a document the helper accepts.                            *)
LEMMA ParityNext == IInv /\ ParityInv /\ [Next]_vars => ParityInv'
<1> SUFFICES ASSUME IInv, ParityInv, [Next]_vars, Accepts(root)' PROVE result' # "refused"
  BY DEF ParityInv
<1>0. root' = root
  BY DEF Next, vars, Load, LoadEntry, Refuse, NextSection, Loaded, Reset, Copy, CopySection,
         Copied, CopyFails
<1>1. root \in Documents /\ Accepts(root) /\ result # "refused"
  <2>1. Accepts(root)
    BY <1>0
  <2>2. QED
    BY <2>1 DEF IInv, PositionInv, ParityInv
<1>2. CASE Load
  BY <1>1, <1>2, HelperImplies DEF Load
<1>3. CASE Refuse
  <2> DEFINE s == Order[section]
  <2>1. /\ s \in Sections /\ item \in Nat
        /\ ~SectionOk(s) \/ (item < Len(Items(s)) /\ ~EntryOk(s, Items(s)[item + 1]))
    <3>1. item \in Nat /\ section \in 1..(N + 1)
      BY DEF IInv, PositionInv
    <3>2. section <= N
      BY <1>3, OrderFacts DEF Refuse
    <3>3. section \in 1..N
      BY <3>1, <3>2 DEF N
    <3>4. s \in Sections
      BY <3>3, OrderFacts
    <3>5. QED
      BY <1>3, <3>1, <3>4 DEF Refuse
  <2>2. SectionOk(s) /\ \A i \in DOMAIN Items(s) : EntryOk(s, Items(s)[i])
    BY <1>1, <2>1, HelperImplies DEF Agrees
  <2>3. Len(Items(s)) \in Nat /\ DOMAIN Items(s) = 1..Len(Items(s))
    BY <1>1, <2>1, ItemsFacts
  <2> HIDE DEF s
  <2>4. item < Len(Items(s)) => item + 1 \in DOMAIN Items(s)
    BY <2>1, <2>3
  <2>5. QED
    BY <2>1, <2>2, <2>4
<1>4. CASE LoadEntry \/ NextSection \/ Loaded \/ Reset
  BY <1>1, <1>4 DEF LoadEntry, NextSection, Loaded, Reset
<1>5. CASE Copy \/ CopySection \/ Copied \/ CopyFails
  BY <1>1, <1>5 DEF Copy, CopySection, Copied, CopyFails
<1>6. CASE UNCHANGED vars
  BY <1>1, <1>6 DEF vars
<1>7. QED
  BY <1>2, <1>3, <1>4, <1>5, <1>6 DEF Next

(* A document that the Rust helper accepts and that gives every struct as a  *)
(* table is never refused by the loader in process, and the IR the two build *)
(* of it is the same, entry for entry.                                       *)
THEOREM HelpersAlwaysAgree == Spec => []HelpersAgree
<1>1. Init => IInv /\ CheckInv /\ ParityInv
  BY InitInv, CheckInit DEF Init, ParityInv
<1>2. IInv /\ CheckInv /\ ParityInv /\ [Next]_vars => IInv' /\ CheckInv' /\ ParityInv'
  BY NextInv, CheckNext, ParityNext
<1>3. IInv /\ CheckInv /\ ParityInv => HelpersAgree
  <2> SUFFICES ASSUME IInv, CheckInv, ParityInv, Keyed(root), Accepts(root) PROVE HelpersAgree
    BY KeyedReads DEF HelpersAgree
  <2>1. result \notin {"refused", "internal"}
    BY DEF CheckInv, ParityInv
  <2>2. ASSUME pc = "load", section > Len(Order) PROVE out_ir = BuildIr(root, EPERM)
    <3>1. root \in Documents
      BY DEF IInv, PositionInv
    <3>2. \A i \in 1..N : out_ir[Order[i]] = WholeIr[Order[i]]
      BY <2>2, OrderFacts, SMTT(40) DEF IInv, LoadInv, PositionInv, N
    <3>3. WholeIr = [x \in Sections |-> WholeIr[x]]
      BY DEF WholeIr
    <3>4. out_ir = WholeIr
      BY <3>2, <3>3, SameIr, SMTT(40) DEF IInv, LoadInv
    <3>5. QED
      BY <3>1, <3>4, HelperImplies
  <2>3. QED
    BY <2>1, <2>2, KeyedReads DEF HelpersAgree
<1>4. QED
  BY <1>1, <1>2, <1>3, PTL DEF Spec
=============================================================================
