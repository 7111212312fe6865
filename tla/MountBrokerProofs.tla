------------------------- MODULE MountBrokerProofs -------------------------
(* Proofs about MountBroker: for any workload processes, descriptor numbers  *)
(* and policy, and any interleaving of requests, failures and descriptor     *)
(* reuse.                                                                    *)
EXTENDS MountBroker, SequenceTheorems, TLAPS

(* Every mount is at a declared target, read-only where it has to be once    *)
(* its caller was told of success, and a declared pair unless disturbed.     *)
MountOK(x) ==
    /\ x.target \in Targets
    /\ x.ok /\ x.target \in ReadOnlyTargets => x.ro
    /\ ~disturbed => Declared(x.what, x.target)
MountsOK == \A i \in DOMAIN mounts : MountOK(mounts[i])

(* A leased number was handed out, and unless disturbed it is either closed  *)
(* or still refers to what the lease says, in every process.                 *)
LeaseOK(n, value) ==
    /\ n \in used
    /\ ~disturbed => \A p \in Procs : fds[p][n] \in {Closed, value}
LeasesOK ==
    \A i \in DOMAIN mount_leases : LeaseOK(mount_leases[i].fd, mount_leases[i].value)

(* A request that has passed its checks is about a declared target, will be  *)
(* made read-only if it has to be, and will mount a declared pair.           *)
DupOK(n, t, must) ==
    /\ n \in used
    /\ t \in Targets
    /\ t \in ReadOnlyTargets => must
    /\ ~disturbed => \A p \in Procs : fds[p][n] = Closed \/ Declared(fds[p][n], t)
RequestOK(t, what, must) ==
    /\ t \in Targets
    /\ t \in ReadOnlyTargets => must
    /\ ~disturbed => Declared(what, t)
JobOK ==
    \/ job = Idle
    \/ \E p \in Procs, what \in Handed, step \in {"fetch", "reply"} :
          job = [step |-> step, proc |-> p, what |-> what]
    \/ \E p \in Procs, n \in Fds, t \in Paths, must \in BOOLEAN :
          /\ job = [step |-> "dup", proc |-> p, fd |-> n, target |-> t, must |-> must]
          /\ DupOK(n, t, must)
    \/ \E t \in TmpfsPaths : job = [step |-> "tmpfs", target |-> t]
    \/ \E t \in Paths, what \in Things, must \in BOOLEAN :
          /\ job = [step |-> "mount", target |-> t, what |-> what, must |-> must]
          /\ RequestOK(t, what, must)
    \/ job = [step |-> "readonly"] /\ mounts # <<>>
    \/ /\ job = [step |-> "attach"] /\ mounts # <<>>
       /\ mounts[Len(mounts)].target \in ReadOnlyTargets => mounts[Len(mounts)].ro

IInv == TypeOK /\ MountsOK /\ LeasesOK /\ JobOK /\ OneMovePerGrant

Mounts == [target : Paths, what : Things, ro : BOOLEAN, ok : BOOLEAN]
MountLeases == [fd : Fds, value : Handed]
FsopenLeases == [fd : Fds, object : ObjectNames, created : BOOLEAN]

---------------------------------------------------------------------------
(* Lemmas about sequences.                                                   *)

(* Taking a lease leaves one entry less, and no new one.                     *)
LEMMA TakenFacts ==
  ASSUME NEW S, NEW s \in Seq(S), NEW i \in DOMAIN s
  PROVE  /\ Taken(s, i) \in Seq(S)
         /\ Len(Taken(s, i)) = Len(s) - 1
         /\ \A j \in DOMAIN Taken(s, i) : \E k \in DOMAIN s : Taken(s, i)[j] = s[k]
  <1> DEFINE u == SubSeq(s, 1, i - 1)
             v == SubSeq(s, i + 1, Len(s))
  <1>1. /\ Len(s) \in Nat /\ DOMAIN s = 1..Len(s) /\ i \in 1..Len(s)
        /\ \A k \in 1..Len(s) : s[k] \in S
    BY LenProperties
  <1>2. /\ u \in Seq(S) /\ Len(u) = i - 1
        /\ \A j \in 1..(i - 1) : u[j] = s[j]
    <2>1. \A k \in 1..(i - 1) : s[k] \in S
      BY <1>1
    <2> DEFINE m == i - 1
    <2>2. m \in Nat /\ 1 \in 1..(Len(s) + 1) /\ 1 - 1 <= m /\ m <= Len(s)
      BY <1>1
    <2>3. /\ SubSeq(s, 1, m) \in Seq(S)
          /\ Len(SubSeq(s, 1, m)) = (IF 1 <= m THEN m - 1 + 1 ELSE 0)
          /\ \A j \in 1..(m - 1 + 1) : SubSeq(s, 1, m)[j] = s[1 + j - 1]
      <3> HIDE DEF m
      <3> QED
        BY <2>2, <1>1, SubSeqProperties
    <2> QED
      BY <2>2, <2>3
  <1>3. /\ v \in Seq(S) /\ Len(v) = Len(s) - i
        /\ \A j \in 1..(Len(s) - i) : v[j] = s[i + j]
    <2> DEFINE m == i + 1
               n == Len(s)
    <2>1. m \in Nat /\ n \in Nat /\ \A k \in m..n : s[k] \in S
      BY <1>1
    <2>2. /\ SubSeq(s, m, n) \in Seq(S)
          /\ Len(SubSeq(s, m, n)) = (IF m <= n THEN n - m + 1 ELSE 0)
          /\ \A j \in 1..(n - m + 1) : SubSeq(s, m, n)[j] = s[m + j - 1]
      <3> HIDE DEF m
      <3> QED
        BY <2>1, <1>1, SubSeqProperties
    <2> QED
      BY <1>1, <2>1, <2>2
  <1>4. /\ u \o v \in Seq(S) /\ Len(u \o v) = Len(s) - 1
        /\ \A j \in 1..(Len(s) - 1) :
              (u \o v)[j] = IF j <= i - 1 THEN u[j] ELSE v[j - (i - 1)]
    <2> HIDE DEF u, v
    <2>1. /\ u \o v \in Seq(S) /\ Len(u \o v) = Len(u) + Len(v)
          /\ \A j \in 1..(Len(u) + Len(v)) :
                (u \o v)[j] = IF j <= Len(u) THEN u[j] ELSE v[j - Len(u)]
      BY <1>2, <1>3, ConcatProperties
    <2>2. Len(u) = i - 1 /\ Len(u) + Len(v) = Len(s) - 1
      BY <1>1, <1>2, <1>3
    <2> QED
      BY <2>1, <2>2
  <1>5. DOMAIN (u \o v) = 1..(Len(s) - 1)
    <2> HIDE DEF u, v
    <2> QED
      BY <1>4, LenProperties
  <1>6. \A j \in 1..(Len(s) - 1) : \E k \in 1..Len(s) : (u \o v)[j] = s[k]
    <2> HIDE DEF u, v
    <2> TAKE j \in 1..(Len(s) - 1)
    <2>1. CASE j <= i - 1
      <3>1. j \in 1..(i - 1) /\ j \in 1..Len(s)
        BY <2>1, <1>1
      <3> QED
        BY <3>1, <2>1, <1>2, <1>4
    <2>2. CASE ~(j <= i - 1)
      <3>1. j - (i - 1) \in 1..(Len(s) - i) /\ j + 1 \in 1..Len(s) /\ i + (j - (i - 1)) = j + 1
        BY <2>2, <1>1
      <3>2. (u \o v)[j] = s[j + 1]
        BY <3>1, <2>2, <1>3, <1>4
      <3> QED
        BY <3>1, <3>2
    <2> QED
      BY <2>1, <2>2
  <1> QED
    BY <1>1, <1>4, <1>5, <1>6 DEF Taken

(* A new entry goes to the end.                                              *)
LEMMA AppendFacts ==
  ASSUME NEW S, NEW s \in Seq(S), NEW e \in S
  PROVE  /\ Append(s, e) \in Seq(S)
         /\ Len(Append(s, e)) = Len(s) + 1
         /\ Append(s, e) # <<>>
         /\ Append(s, e)[Len(Append(s, e))] = e
         /\ \A j \in DOMAIN Append(s, e) :
                \/ j \in DOMAIN s /\ Append(s, e)[j] = s[j]
                \/ Append(s, e)[j] = e
  OBVIOUS

(* Replacing an entry in place changes only that entry.                      *)
LEMMA ReplaceFacts ==
  ASSUME NEW S, NEW s \in Seq(S), NEW k \in DOMAIN s, NEW e \in S
  PROVE  /\ [s EXCEPT ![k] = e] \in Seq(S)
         /\ Len([s EXCEPT ![k] = e]) = Len(s)
         /\ DOMAIN [s EXCEPT ![k] = e] = DOMAIN s
         /\ [s EXCEPT ![k] = e][k] = e
         /\ \A i \in DOMAIN s \ {k} : [s EXCEPT ![k] = e][i] = s[i]
  OBVIOUS

(* A sequence that is not empty has a last entry.                            *)
LEMMA LastFacts ==
  ASSUME NEW S, NEW s \in Seq(S), s # <<>>
  PROVE  Len(s) \in DOMAIN s /\ s[Len(s)] \in S
  BY EmptySeq, LenProperties

---------------------------------------------------------------------------
(* Lemmas about descriptors and rules.                                       *)

(* Numbers already handed out keep their meaning, or the step is a           *)
(* disturbance.                                                              *)
Steady ==
    /\ used \subseteq used'
    /\ disturbed => disturbed'
    /\ ~disturbed' => \A p \in Procs : \A n \in used : fds'[p][n] = fds[p][n]

(* A descriptor put at a fresh number disturbs nothing.                      *)
LEMMA InstallSteady ==
  ASSUME TypeOK, NEW p \in Procs, NEW n \in Fds, NEW what \in Things, Install(p, n, what)
  PROVE  /\ Steady
         /\ fds' \in [Procs -> [Fds -> Things]]
         /\ used' \subseteq Fds /\ n \in used' /\ disturbed' \in BOOLEAN
         /\ ~disturbed' => \A q \in Procs : fds'[q][n] \in {Closed, what}
  <1> USE DEF TypeOK, Install
  <1>1. fds' \in [Procs -> [Fds -> Things]]
    OBVIOUS
  <1>2. \A q \in Procs : \A m \in Fds :
           fds'[q][m] = IF q = p /\ m = n THEN what ELSE fds[q][m]
    OBVIOUS
  <1>3. ~disturbed' => ~disturbed /\ n \notin used /\ \A q \in Procs : fds[q][n] = Closed
    OBVIOUS
  <1>4. Steady
    BY <1>2, <1>3 DEF Steady
  <1>5. ~disturbed' => \A q \in Procs : fds'[q][n] \in {Closed, what}
    BY <1>2, <1>3
  <1> QED
    BY <1>1, <1>4, <1>5

(* What a steady step that leaves the mounts and the request alone keeps.    *)
LEMMA SteadyKeeps ==
  ASSUME IInv, Steady, UNCHANGED <<mounts, job>>
  PROVE  /\ MountsOK' /\ JobOK'
         /\ \A n \in Fds, value \in Handed : LeaseOK(n, value) => LeaseOK(n, value)'
  <1> USE DEF IInv, Steady
  <1>1. MountsOK'
    BY DEF MountsOK, MountOK
  <1>2. \A n \in Fds, value \in Handed : LeaseOK(n, value) => LeaseOK(n, value)'
    BY DEF LeaseOK
  <1>3. \A n \in Fds, t \in Paths, must \in BOOLEAN : DupOK(n, t, must) => DupOK(n, t, must)'
    BY DEF DupOK
  <1>4. \A t \in Paths, what \in Things, must \in BOOLEAN :
           RequestOK(t, what, must) => RequestOK(t, what, must)'
    BY DEF RequestOK
  <1>5. JobOK'
    BY <1>3, <1>4 DEF JobOK
  <1> QED
    BY <1>1, <1>2, <1>5

(* A lease may be attached only as a rule declares, and read-only where the  *)
(* rules leave no choice.                                                    *)
LEMMA AttachableFacts ==
  ASSUME NEW value \in Handed, NEW t \in Paths, NEW must \in Attachable(value, t)
  PROVE  /\ must \in BOOLEAN
         /\ t \in Targets
         /\ t \in ReadOnlyTargets => must
         /\ Declared(value, t)
  <1>1. CASE value.kind = "tree"
    <2>1. PICK r \in BindRule(value.of, t) : must = MustBeReadOnly(r, FALSE)
      BY <1>1 DEF Attachable
    <2>2. r \in BindRules /\ r.target = t /\ r.read_only \in BOOLEAN
      BY <2>1, RulesAssumption DEF BindRule
    <2> QED
      BY <1>1, <2>1, <2>2 DEF MustBeReadOnly, Targets, ReadOnlyTargets, Declared
  <1>2. CASE value.kind = "object"
    <2>1. must = FALSE /\ \E r \in ObjectRule(value.of) : t \in r.attach
      BY <1>2 DEF Attachable
    <2>2. PICK r \in ObjectRules : r \in ObjectRule(value.of) /\ t \in r.attach
      BY <2>1 DEF ObjectRule
    <2> QED
      BY <1>2, <2>1, <2>2 DEF Targets, ReadOnlyTargets, Declared
  <1> QED
    BY <1>1, <1>2 DEF Handed, Tree, Object

(* A bind rule declares its pair.                                            *)
LEMMA BindFacts ==
  ASSUME NEW source \in Paths, NEW t \in Paths, NEW asked \in BOOLEAN,
         NEW r \in BindRule(source, t)
  PROVE  /\ MustBeReadOnly(r, asked) \in BOOLEAN
         /\ RequestOK(t, Tree(source), MustBeReadOnly(r, asked))
  <1>1. r \in BindRules /\ r.target = t /\ r.read_only \in BOOLEAN
    BY RulesAssumption DEF BindRule
  <1>2. t \in Targets /\ (t \in ReadOnlyTargets => r.read_only)
    BY <1>1 DEF Targets, ReadOnlyTargets
  <1>3. Declared(Tree(source), t)
    BY DEF Declared, Tree
  <1> QED
    BY <1>1, <1>2, <1>3 DEF RequestOK, MustBeReadOnly

---------------------------------------------------------------------------
(* The initial state, and one lemma per action.                              *)

(* Initially there are no leases, mounts or requests.                        *)
LEMMA InitInv == Init => IInv
  <1> SUFFICES ASSUME Init PROVE IInv
    OBVIOUS
  <1>1. fds \in [Procs -> [Fds -> Things]]
    BY DEF Init, Things
  <1>2. /\ mount_leases \in Seq(MountLeases) /\ fsopen_leases \in Seq(FsopenLeases)
        /\ mounts \in Seq(Mounts) /\ Len(mount_leases) = 0
    BY DEF Init
  <1>3. job \in Jobs
    BY DEF Init, Jobs
  <1>4. TypeOK
    <2>1. /\ grants \in 0..MaxGrants /\ tokens \in 0..MaxTokens /\ moves \in Nat
          /\ used \subseteq Fds /\ reuses \in 0..MaxReuse /\ disturbed \in BOOLEAN
      <3>1. MaxGrants \in Nat /\ MaxTokens \in Nat /\ MaxReuse \in Nat
        BY RulesAssumption
      <3>2. /\ grants = 0 /\ tokens = 0 /\ moves = 0
            /\ used = {} /\ reuses = 0 /\ disturbed = FALSE
        BY DEF Init
      <3>3. grants \in 0..MaxGrants /\ tokens \in 0..MaxTokens /\ reuses \in 0..MaxReuse
        BY <3>1, <3>2
      <3>4. moves \in Nat /\ used \subseteq Fds /\ disturbed \in BOOLEAN
        BY <3>2
      <3> QED
        BY <3>3, <3>4
    <2> QED
      BY <1>1, <1>2, <1>3, <2>1 DEF TypeOK, MountLeases, FsopenLeases, Mounts
  <1>5. MountsOK /\ LeasesOK /\ JobOK
    BY DEF MountsOK, LeasesOK, JobOK, Init
  <1>6. OneMovePerGrant
    BY <1>2 DEF OneMovePerGrant, Init
  <1> QED
    BY <1>4, <1>5, <1>6 DEF IInv

(* A request that has passed its checks has one of the forms of a job.       *)
LEMMA JobTyped == JobOK' => job' \in Jobs
  BY RulesAssumption DEF JobOK, Jobs

(* No request is being served.                                               *)
LEMMA NotBusy == JobOK /\ ~Busy => job = Idle
  BY DEF JobOK, Busy, Idle

(* Leases after a steady step: old ones, or ones that are right when made.   *)
LEMMA LeasesKept ==
  ASSUME IInv, Steady,
         \A j \in DOMAIN mount_leases' :
            \/ \E k \in DOMAIN mount_leases : mount_leases'[j] = mount_leases[k]
            \/ /\ mount_leases'[j].fd \in used'
               /\ ~disturbed' => \A q \in Procs :
                     fds'[q][mount_leases'[j].fd] \in {Closed, mount_leases'[j].value}
  PROVE  LeasesOK'
  <1> SUFFICES ASSUME NEW j \in DOMAIN mount_leases'
               PROVE  /\ mount_leases'[j].fd \in used'
                      /\ ~disturbed' => \A q \in Procs :
                            fds'[q][mount_leases'[j].fd] \in {Closed, mount_leases'[j].value}
    BY DEF LeasesOK, LeaseOK
  <1>1. CASE \E k \in DOMAIN mount_leases : mount_leases'[j] = mount_leases[k]
    <2>1. PICK k \in DOMAIN mount_leases : mount_leases'[j] = mount_leases[k]
      BY <1>1
    <2>2. LeaseOK(mount_leases[k].fd, mount_leases[k].value)
      BY DEF IInv, LeasesOK
    <2> QED
      BY <2>1, <2>2 DEF LeaseOK, Steady
  <1> QED
    BY <1>1

(* A new lease is for the number just handed out.                            *)
LEMMA GrantKeeps ==
  ASSUME IInv, NEW p \in Procs, NEW n \in Fds, NEW what \in Handed, Install(p, n, what),
         UNCHANGED mounts,
         \/ mount_leases' = Append(mount_leases, NewLease(n, what))
         \/ UNCHANGED mount_leases
  PROVE  /\ mount_leases' \in Seq(MountLeases) /\ LeasesOK'
         /\ Len(mount_leases') \in Nat /\ Len(mount_leases') <= Len(mount_leases) + 1
         /\ MountsOK'
         /\ fds' \in [Procs -> [Fds -> Things]]
         /\ used' \subseteq Fds /\ disturbed' \in BOOLEAN
  <1>1. mount_leases \in Seq(MountLeases) /\ Len(mount_leases) \in Nat
    BY LenProperties DEF IInv, TypeOK, MountLeases
  <1>2. /\ Steady /\ n \in used'
        /\ ~disturbed' => \A q \in Procs : fds'[q][n] \in {Closed, what}
        /\ fds' \in [Procs -> [Fds -> Things]]
        /\ used' \subseteq Fds /\ disturbed' \in BOOLEAN
    BY InstallSteady DEF IInv, Things
  <1>3. MountsOK'
    BY <1>2 DEF Steady, IInv, MountsOK, MountOK
  <1>4. CASE mount_leases' = Append(mount_leases, NewLease(n, what))
    <2>1. NewLease(n, what) \in MountLeases
      BY DEF NewLease, MountLeases
    <2>2. /\ mount_leases' \in Seq(MountLeases)
          /\ Len(mount_leases') = Len(mount_leases) + 1
          /\ \A j \in DOMAIN mount_leases' :
                \/ \E k \in DOMAIN mount_leases : mount_leases'[j] = mount_leases[k]
                \/ mount_leases'[j] = NewLease(n, what)
      <3> HIDE DEF NewLease
      <3> QED
        BY <1>1, <1>4, <2>1, AppendFacts
    <2>3. LeasesOK'
      BY <1>2, <2>2, LeasesKept DEF NewLease
    <2> QED
      BY <1>1, <1>2, <1>3, <2>2, <2>3
  <1>5. CASE UNCHANGED mount_leases
    <2>1. LeasesOK'
      BY <1>2, <1>5, LeasesKept
    <2> QED
      BY <1>1, <1>2, <1>3, <1>5, <2>1
  <1> QED
    BY <1>4, <1>5

(* fsopen hands out a token.                                                 *)
LEMMA FsOpenInv ==
  ASSUME IInv, NEW p \in Procs, NEW r \in ObjectRules, FsOpen(p, r)
  PROVE  IInv'
  <1> DEFINE lease(n) == [fd |-> n, object |-> r.name, created |-> FALSE]
  <1>1. PICK n \in Fds :
          /\ Install(p, n, Token)
          /\ \/ fsopen_leases' = Append(fsopen_leases, lease(n))
             \/ UNCHANGED fsopen_leases
    BY DEF FsOpen
  <1>2. /\ UNCHANGED <<mount_leases, mounts, job, grants, moves, reuses>>
        /\ tokens' = tokens + 1 /\ tokens < MaxTokens
    BY DEF FsOpen
  <1>3. /\ Steady /\ fds' \in [Procs -> [Fds -> Things]]
        /\ used' \subseteq Fds /\ disturbed' \in BOOLEAN
    BY <1>1, InstallSteady DEF IInv, Things
  <1>4. MountsOK' /\ JobOK' /\ LeasesOK'
    BY <1>2, <1>3, SteadyKeeps, LeasesKept
  <1>5. fsopen_leases' \in Seq(FsopenLeases)
    <2>1. lease(n) \in FsopenLeases
      BY DEF FsopenLeases, ObjectNames
    <2>2. fsopen_leases \in Seq(FsopenLeases)
      BY DEF IInv, TypeOK, FsopenLeases
    <2> HIDE DEF lease
    <2> QED
      BY <1>1, <2>1, <2>2, AppendFacts
  <1>6. TypeOK'
    BY <1>2, <1>3, <1>5, RulesAssumption DEF IInv, TypeOK, FsopenLeases
  <1>7. OneMovePerGrant'
    BY <1>2 DEF IInv, OneMovePerGrant
  <1> QED
    BY <1>4, <1>6, <1>7 DEF IInv

(* fsconfig marks a lease as created.                                        *)
LEMMA FsConfigInv ==
  ASSUME IInv, NEW n \in Fds, FsConfig(n)
  PROVE  IInv'
  <1>1. PICK i \in DOMAIN fsopen_leases :
          fsopen_leases' = [fsopen_leases EXCEPT ![i].created = TRUE]
    BY DEF FsConfig
  <1>2. UNCHANGED <<fds, mount_leases, mounts, job, grants, tokens, moves, used, reuses, disturbed>>
    BY DEF FsConfig
  <1>3. fsopen_leases' \in Seq(FsopenLeases)
    <2> DEFINE lease == [fsopen_leases[i] EXCEPT !.created = TRUE]
    <2>1. fsopen_leases \in Seq(FsopenLeases)
      BY DEF IInv, TypeOK, FsopenLeases
    <2>2. lease \in FsopenLeases
      <3>1. fsopen_leases[i] \in FsopenLeases
        BY <2>1
      <3> QED
        BY <3>1 DEF FsopenLeases
    <2>3. fsopen_leases' = [fsopen_leases EXCEPT ![i] = lease]
      BY <1>1
    <2> HIDE DEF lease
    <2> QED
      BY <2>1, <2>2, <2>3, ReplaceFacts
  <1>4. TypeOK'
    BY <1>2, <1>3 DEF IInv, TypeOK, FsopenLeases
  <1>5. Steady
    BY <1>2 DEF Steady
  <1>6. MountsOK' /\ JobOK' /\ LeasesOK'
    BY <1>2, <1>5, SteadyKeeps, LeasesKept
  <1>7. OneMovePerGrant'
    BY <1>2 DEF IInv, OneMovePerGrant
  <1> QED
    BY <1>4, <1>6, <1>7 DEF IInv

(* A step of a request that changes at most the mounts and the request.      *)
LEMMA JobSteps ==
  ASSUME IInv, MountsOK', JobOK', mounts' \in Seq(Mounts),
         UNCHANGED <<fds, mount_leases, fsopen_leases, grants, tokens, moves, used, reuses, disturbed>>
  PROVE  IInv'
  <1>1. TypeOK'
    BY JobTyped DEF IInv, TypeOK, Mounts
  <1>2. Steady
    BY DEF Steady
  <1>3. LeasesOK'
    BY <1>2, LeasesKept
  <1>4. OneMovePerGrant'
    BY DEF IInv, OneMovePerGrant
  <1> QED
    BY <1>1, <1>3, <1>4 DEF IInv

(* The mounts, when nothing was disturbed in this step: old ones, or right.  *)
LEMMA MountsUnchanged ==
  ASSUME IInv, UNCHANGED <<mounts, disturbed>>
  PROVE  MountsOK' /\ mounts' \in Seq(Mounts)
  BY DEF IInv, TypeOK, MountsOK, MountOK, Mounts

(* open_tree sets a helper to clone a tree.                                  *)
LEMMA OpenTreeInv ==
  ASSUME IInv, NEW p \in Procs, NEW s \in Paths, OpenTree(p, s)
  PROVE  IInv'
  <1>1. UNCHANGED <<fds, mount_leases, fsopen_leases, mounts, grants, tokens, moves, used, reuses, disturbed>>
    BY DEF OpenTree
  <1>2. job' = [step |-> "fetch", proc |-> p, what |-> Tree(s)] /\ Tree(s) \in Handed
    BY DEF OpenTree, Handed
  <1>3. JobOK'
    BY <1>2 DEF JobOK
  <1> QED
    BY <1>1, <1>3, JobSteps, MountsUnchanged

(* fsmount spends a token, and may set a helper to make the object.          *)
LEMMA FsMountInv ==
  ASSUME IInv, NEW p \in Procs, NEW n \in Fds, NEW attrs \in SUBSET Attrs,
         FsMount(p, n, attrs)
  PROVE  IInv'
  <1>1. UNCHANGED <<fds, mount_leases, mounts, grants, tokens, moves, used, reuses, disturbed>>
    BY DEF FsMount
  <1>2. PICK i \in DOMAIN fsopen_leases :
          /\ fsopen_leases' = Taken(fsopen_leases, i)
          /\ \/ UNCHANGED job
             \/ job' = [step |-> "fetch", proc |-> p,
                        what |-> Object(fsopen_leases[i].object)]
    BY DEF FsMount
  <1>3. fsopen_leases \in Seq(FsopenLeases)
    BY DEF IInv, TypeOK, FsopenLeases
  <1>4. fsopen_leases' \in Seq(FsopenLeases)
    BY <1>2, <1>3, TakenFacts
  <1>5. Steady
    BY <1>1 DEF Steady
  <1>6. LeasesOK'
    BY <1>1, <1>5, LeasesKept
  <1>7. MountsOK'
    BY <1>1, MountsUnchanged
  <1>8. JobOK'
    <2>1. CASE UNCHANGED job
      BY <1>1, <1>5, <2>1, SteadyKeeps
    <2>2. CASE job' = [step |-> "fetch", proc |-> p, what |-> Object(fsopen_leases[i].object)]
      <3>1. fsopen_leases[i] \in FsopenLeases
        BY <1>3
      <3>2. Object(fsopen_leases[i].object) \in Handed
        BY <3>1 DEF FsopenLeases, Handed
      <3> QED
        BY <2>2, <3>2 DEF JobOK
    <2> QED
      BY <1>2, <2>1, <2>2
  <1>9. TypeOK'
    BY <1>1, <1>4, <1>8, JobTyped DEF IInv, TypeOK, FsopenLeases
  <1>10. OneMovePerGrant'
    BY <1>1 DEF IInv, OneMovePerGrant
  <1> QED
    BY <1>6, <1>7, <1>8, <1>9, <1>10 DEF IInv

(* A helper that failed leaves the mounts as they are.                       *)
LEMMA HelperFailsInv ==
  ASSUME IInv, HelperFails,
         UNCHANGED <<fds, mount_leases, fsopen_leases, grants, tokens, moves, used, reuses, disturbed>>
  PROVE  IInv'
  <1>1. JobOK' /\ UNCHANGED mounts
    BY DEF HelperFails, JobOK
  <1> QED
    BY <1>1, JobSteps, MountsUnchanged

(* The broker has the descriptor a helper made.                              *)
LEMMA FetchedInv ==
  ASSUME IInv, job.step = "fetch", job' = [job EXCEPT !.step = "reply"],
         UNCHANGED <<fds, mount_leases, fsopen_leases, mounts, grants, tokens, moves, used, reuses, disturbed>>
  PROVE  IInv'
  <1>1. PICK p \in Procs, what \in Handed : job = [step |-> "fetch", proc |-> p, what |-> what]
    BY DEF IInv, JobOK, Idle
  <1>2. job' = [step |-> "reply", proc |-> p, what |-> what]
    BY <1>1
  <1>3. JobOK'
    BY <1>2 DEF JobOK
  <1> QED
    BY <1>3, JobSteps, MountsUnchanged

(* A helper clones a tree.                                                   *)
LEMMA HelperClonesInv ==
  ASSUME IInv, HelperClones
  PROVE  IInv'
  BY HelperFailsInv, FetchedInv DEF HelperClones

(* A helper makes an object.                                                 *)
LEMMA HelperCreatesInv ==
  ASSUME IInv, HelperCreates
  PROVE  IInv'
  BY HelperFailsInv, FetchedInv DEF HelperCreates

(* The caller gets the descriptor, with a lease, without one, or not at all. *)
LEMMA ReplyAddFdInv ==
  ASSUME IInv, ReplyAddFd
  PROVE  IInv'
  <1>1. UNCHANGED <<fsopen_leases, mounts, tokens, moves, reuses>> /\ job' = Idle
    BY DEF ReplyAddFd
  <1>2. JobOK'
    BY <1>1 DEF JobOK
  <1>3. CASE UNCHANGED <<fds, mount_leases, grants, used, disturbed>>
    BY <1>1, <1>2, <1>3, JobSteps, MountsUnchanged
  <1>4. ASSUME grants < MaxGrants, grants' = grants + 1, NEW n \in Fds,
               Install(job.proc, n, job.what),
               \/ mount_leases' = Append(mount_leases, NewLease(n, job.what))
               \/ UNCHANGED mount_leases
        PROVE  IInv'
    <2>1. PICK p \in Procs, what \in Handed : job = [step |-> "reply", proc |-> p, what |-> what]
      BY DEF ReplyAddFd, IInv, JobOK, Idle
    <2>2. /\ Install(p, n, what)
          /\ \/ mount_leases' = Append(mount_leases, NewLease(n, what))
             \/ UNCHANGED mount_leases
      <3>1. job.proc = p /\ job.what = what
        BY <2>1
      <3> QED
        BY <1>4, <3>1
    <2>3. /\ mount_leases' \in Seq(MountLeases) /\ LeasesOK'
          /\ Len(mount_leases') \in Nat /\ Len(mount_leases') <= Len(mount_leases) + 1
          /\ MountsOK'
          /\ fds' \in [Procs -> [Fds -> Things]]
          /\ used' \subseteq Fds /\ disturbed' \in BOOLEAN
      BY <1>1, <2>2, GrantKeeps
    <2>4. TypeOK'
      <3>1. job' \in Jobs
        BY <1>2, JobTyped
      <3>2. grants' \in 0..MaxGrants
        BY <1>4, RulesAssumption DEF IInv, TypeOK
      <3>3. /\ fsopen_leases' \in Seq([fd : Fds, object : ObjectNames, created : BOOLEAN])
            /\ mounts' \in Seq([target : Paths, what : Things, ro : BOOLEAN, ok : BOOLEAN])
            /\ tokens' \in 0..MaxTokens /\ moves' \in Nat /\ reuses' \in 0..MaxReuse
        BY <1>1 DEF IInv, TypeOK
      <3> QED
        BY <2>3, <3>1, <3>2, <3>3 DEF TypeOK, MountLeases
    <2>5. OneMovePerGrant'
      <3>1. mount_leases \in Seq(MountLeases) /\ Len(mount_leases) \in Nat
        BY LenProperties DEF IInv, TypeOK, MountLeases
      <3> QED
        BY <1>1, <1>4, <2>3, <3>1, RulesAssumption DEF IInv, TypeOK, OneMovePerGrant
    <2> QED
      BY <1>2, <2>3, <2>4, <2>5 DEF IInv
  <1> QED
    BY <1>3, <1>4 DEF ReplyAddFd

(* mount with MS_BIND, and move_mount from a path.                           *)
LEMMA BindInv ==
  ASSUME IInv, NEW s \in Paths, NEW t \in Paths, NEW asked \in BOOLEAN, Bind(s, t, asked)
  PROVE  IInv'
  <1>1. UNCHANGED <<fds, mount_leases, fsopen_leases, mounts, grants, tokens, moves, used, reuses, disturbed>>
    BY DEF Bind
  <1>2. PICK r \in BindRule(s, t) :
          job' = [step |-> "mount", target |-> t, what |-> Tree(s),
                  must |-> MustBeReadOnly(r, asked)]
    BY DEF Bind
  <1>3. /\ MustBeReadOnly(r, asked) \in BOOLEAN
        /\ RequestOK(t, Tree(s), MustBeReadOnly(r, asked))
    BY BindFacts
  <1>4. Tree(s) \in Things
    BY DEF Things, Handed
  <1>5. JobOK'
    <2> HIDE DEF MustBeReadOnly, Tree
    <2>1. RequestOK(t, Tree(s), MustBeReadOnly(r, asked))'
      BY <1>1, <1>3 DEF RequestOK
    <2> QED
      BY <1>2, <1>3, <1>4, <2>1 DEF JobOK
  <1> QED
    BY <1>1, <1>5, JobSteps, MountsUnchanged

(* mount of a tmpfs.                                                         *)
LEMMA MountTmpfsInv ==
  ASSUME IInv, NEW t \in Paths, MountTmpfs(t)
  PROVE  IInv'
  <1>1. UNCHANGED <<fds, mount_leases, fsopen_leases, mounts, grants, tokens, moves, used, reuses, disturbed>>
    BY DEF MountTmpfs
  <1>2. job' = [step |-> "tmpfs", target |-> t] /\ t \in TmpfsPaths
    BY DEF MountTmpfs
  <1>3. JobOK'
    BY <1>2 DEF JobOK
  <1> QED
    BY <1>1, <1>3, JobSteps, MountsUnchanged

(* move_mount of a descriptor: the lease speaks for what is behind it.       *)
LEMMA MoveFdInv ==
  ASSUME IInv, NEW p \in Procs, NEW n \in Fds, NEW t \in Paths, MoveFd(p, n, t)
  PROVE  IInv'
  <1>1. /\ UNCHANGED <<fds, fsopen_leases, mounts, grants, tokens, used, reuses, disturbed>>
        /\ moves' = moves + 1 /\ ~Busy
    BY DEF MoveFd
  <1>2. PICK i \in DOMAIN mount_leases :
          /\ LeaseOf(mount_leases, n, i)
          /\ mount_leases' = Taken(mount_leases, i)
          /\ \/ UNCHANGED job
             \/ \E must \in Attachable(mount_leases[i].value, t) :
                  job' = [step |-> "dup", proc |-> p, fd |-> n, target |-> t, must |-> must]
    BY DEF MoveFd
  <1>3. mount_leases \in Seq(MountLeases) /\ Len(mount_leases) \in Nat
    BY LenProperties DEF IInv, TypeOK, MountLeases
  <1>4. /\ mount_leases' \in Seq(MountLeases) /\ Len(mount_leases') = Len(mount_leases) - 1
        /\ \A j \in DOMAIN mount_leases' :
              \E k \in DOMAIN mount_leases : mount_leases'[j] = mount_leases[k]
    BY <1>2, <1>3, TakenFacts
  <1>5. Steady
    BY <1>1 DEF Steady
  <1>6. LeasesOK'
    BY <1>4, <1>5, LeasesKept
  <1>7. MountsOK'
    BY <1>1, MountsUnchanged
  <1>8. JobOK'
    <2>1. CASE UNCHANGED job
      BY <1>1, <1>5, <2>1, SteadyKeeps
    <2>2. ASSUME NEW must \in Attachable(mount_leases[i].value, t),
                 job' = [step |-> "dup", proc |-> p, fd |-> n, target |-> t, must |-> must]
          PROVE  JobOK'
      <3> DEFINE value == mount_leases[i].value
      <3>1. value \in Handed /\ mount_leases[i].fd = n
        <4>1. mount_leases[i] \in MountLeases
          BY <1>3
        <4> QED
          BY <1>2, <4>1 DEF MountLeases, LeaseOf
      <3>2. LeaseOK(n, value)
        BY <3>1 DEF IInv, LeasesOK
      <3> HIDE DEF value
      <3>3. /\ must \in BOOLEAN /\ t \in Targets
            /\ t \in ReadOnlyTargets => must
            /\ Declared(value, t)
        BY <2>2, <3>1, AttachableFacts DEF value
      <3>4. DupOK(n, t, must)
        BY <3>2, <3>3 DEF LeaseOK, DupOK
      <3>5. DupOK(n, t, must)'
        BY <1>1, <3>4 DEF DupOK
      <3> QED
        BY <2>2, <3>3, <3>5 DEF JobOK
    <2> QED
      BY <1>2, <2>1, <2>2
  <1>9. TypeOK'
    BY <1>1, <1>4, <1>8, JobTyped DEF IInv, TypeOK, MountLeases
  <1>10. OneMovePerGrant'
    BY <1>1, <1>3, <1>4, RulesAssumption DEF IInv, TypeOK, OneMovePerGrant
  <1> QED
    BY <1>6, <1>7, <1>8, <1>9, <1>10 DEF IInv

(* The descriptor is taken over as it is at that moment.                     *)
LEMMA DupTraceeFdInv ==
  ASSUME IInv, DupTraceeFd
  PROVE  IInv'
  <1>1. UNCHANGED <<fds, mount_leases, fsopen_leases, mounts, grants, tokens, moves, used, reuses, disturbed>>
    BY DEF DupTraceeFd
  <1>2. CASE job' = Idle
    <2>1. JobOK'
      BY <1>2 DEF JobOK
    <2> QED
      BY <1>1, <2>1, JobSteps, MountsUnchanged
  <1>3. CASE /\ fds[job.proc][job.fd] \notin {Closed, Token}
             /\ job' = [step |-> "mount", target |-> job.target,
                        what |-> fds[job.proc][job.fd], must |-> job.must]
    <2>1. PICK p \in Procs, n \in Fds, t \in Paths, must \in BOOLEAN :
            /\ job = [step |-> "dup", proc |-> p, fd |-> n, target |-> t, must |-> must]
            /\ DupOK(n, t, must)
      BY DEF DupTraceeFd, IInv, JobOK, Idle
    <2>2. /\ job' = [step |-> "mount", target |-> t, what |-> fds[p][n], must |-> must]
          /\ fds[p][n] # Closed
      BY <1>3, <2>1
    <2>3. fds[p][n] \in Things
      BY DEF IInv, TypeOK
    <2>4. /\ t \in Targets /\ (t \in ReadOnlyTargets => must)
          /\ ~disturbed => Declared(fds[p][n], t)
      BY <2>1, <2>2 DEF DupOK
    <2>5. JobOK'
      <3>1. PICK what \in Things : what = fds[p][n]
        BY <2>3
      <3>2. RequestOK(t, what, must)'
        BY <1>1, <2>4, <3>1 DEF RequestOK
      <3>3. job' = [step |-> "mount", target |-> t, what |-> what, must |-> must]
        BY <2>2, <3>1
      <3> QED
        BY <3>2, <3>3 DEF JobOK
    <2> QED
      BY <1>1, <2>5, JobSteps, MountsUnchanged
  <1> QED
    BY <1>2, <1>3 DEF DupTraceeFd

(* A mount is at a checked target, and not yet reported.                     *)
LEMMA MountedInv ==
  ASSUME IInv, NEW t \in Paths, NEW what \in Things, NEW must \in BOOLEAN,
         job.target = t, RequestOK(t, what, must), Mounted(what),
         job' = [step |-> IF must THEN "readonly" ELSE "attach"],
         UNCHANGED <<fds, mount_leases, fsopen_leases, grants, tokens, moves, used, reuses, disturbed>>
  PROVE  IInv'
  <1> DEFINE new == [target |-> t, what |-> what, ro |-> FALSE, ok |-> FALSE]
  <1>2. mounts' = Append(mounts, new)
    BY DEF Mounted
  <1>3. new \in Mounts /\ new.target = t /\ new.what = what /\ new.ok = FALSE
    BY DEF Mounts
  <1>4. mounts \in Seq(Mounts)
    BY DEF IInv, TypeOK, Mounts
  <1> HIDE DEF new
  <1>5. /\ mounts' \in Seq(Mounts) /\ mounts' # <<>> /\ mounts'[Len(mounts')] = new
        /\ \A j \in DOMAIN mounts' :
              \/ j \in DOMAIN mounts /\ mounts'[j] = mounts[j]
              \/ mounts'[j] = new
    BY <1>2, <1>3, <1>4, AppendFacts
  <1>6. MountsOK'
    <2> SUFFICES ASSUME NEW j \in DOMAIN mounts'
                 PROVE  /\ mounts'[j].target \in Targets
                        /\ mounts'[j].ok /\ mounts'[j].target \in ReadOnlyTargets => mounts'[j].ro
                        /\ ~disturbed' => Declared(mounts'[j].what, mounts'[j].target)
      BY DEF MountsOK, MountOK
    <2>1. CASE j \in DOMAIN mounts /\ mounts'[j] = mounts[j]
      BY <2>1 DEF IInv, MountsOK, MountOK
    <2>2. CASE mounts'[j] = new
      BY <1>3, <2>2 DEF RequestOK
    <2> QED
      BY <1>5, <2>1, <2>2
  <1>7. JobOK'
    <2>1. CASE must
      BY <1>5, <2>1 DEF JobOK
    <2>2. CASE ~must
      BY <1>3, <1>5, <2>2 DEF JobOK, RequestOK
    <2> QED
      BY <2>1, <2>2
  <1> QED
    BY <1>5, <1>6, <1>7, JobSteps

(* The helper mounts a tmpfs.                                                *)
LEMMA HelperMountsTmpfsInv ==
  ASSUME IInv, HelperMountsTmpfs
  PROVE  IInv'
  <1>1. CASE HelperFails
    BY <1>1, HelperFailsInv DEF HelperMountsTmpfs
  <1>2. CASE Mounted(Tmpfs) /\ job' = [step |-> "attach"]
    <2>1. PICK t \in TmpfsPaths : job = [step |-> "tmpfs", target |-> t]
      BY DEF HelperMountsTmpfs, IInv, JobOK, Idle
    <2>2. t \in Paths /\ job.target = t /\ Tmpfs \in Things
      BY <2>1, RulesAssumption DEF Things
    <2>3. RequestOK(t, Tmpfs, FALSE)
      BY DEF RequestOK, Targets, ReadOnlyTargets, Declared, Tmpfs
    <2>4. job' = [step |-> IF FALSE THEN "readonly" ELSE "attach"]
      BY <1>2
    <2> QED
      BY <1>2, <2>2, <2>3, <2>4, MountedInv DEF HelperMountsTmpfs
  <1> QED
    BY <1>1, <1>2 DEF HelperMountsTmpfs

(* The helper binds a source, or moves a mount.                              *)
LEMMA HelperMountsInv ==
  ASSUME IInv, HelperMounts
  PROVE  IInv'
  <1>1. CASE HelperFails
    BY <1>1, HelperFailsInv DEF HelperMounts
  <1>2. CASE Mounted(job.what) /\ job' = [step |-> IF job.must THEN "readonly" ELSE "attach"]
    <2>1. PICK t \in Paths, what \in Things, must \in BOOLEAN :
            /\ job = [step |-> "mount", target |-> t, what |-> what, must |-> must]
            /\ RequestOK(t, what, must)
      BY DEF HelperMounts, IInv, JobOK, Idle
    <2>2. job.target = t /\ job.what = what /\ job.must = must
      BY <2>1
    <2> QED
      BY <1>2, <2>1, <2>2, MountedInv DEF HelperMounts
  <1> QED
    BY <1>1, <1>2 DEF HelperMounts

(* Changing one mount's flags, as long as it ends up read-only if it has to. *)
LEMMA FlagsKeep ==
  ASSUME IInv, UNCHANGED disturbed, NEW k \in DOMAIN mounts,
         NEW ro \in BOOLEAN, NEW ok \in BOOLEAN,
         mounts' = [mounts EXCEPT ![k] = [mounts[k] EXCEPT !.ro = ro, !.ok = ok]],
         ok /\ mounts[k].target \in ReadOnlyTargets => ro
  PROVE  /\ mounts' \in Seq(Mounts) /\ MountsOK' /\ Len(mounts') = Len(mounts)
         /\ mounts'[k].ro = ro /\ mounts'[k].target = mounts[k].target /\ mounts' # <<>>
  <1> DEFINE new == [mounts[k] EXCEPT !.ro = ro, !.ok = ok]
  <1>1. mounts \in Seq(Mounts)
    BY DEF IInv, TypeOK, Mounts
  <1>2. mounts[k] \in Mounts
    BY <1>1
  <1>3. /\ new \in Mounts /\ new.target = mounts[k].target /\ new.what = mounts[k].what
        /\ new.ro = ro /\ new.ok = ok
    BY <1>2 DEF Mounts
  <1>4. mounts' = [mounts EXCEPT ![k] = new]
    OBVIOUS
  <1> HIDE DEF new
  <1>5. /\ mounts' \in Seq(Mounts) /\ Len(mounts') = Len(mounts)
        /\ DOMAIN mounts' = DOMAIN mounts /\ mounts'[k] = new
        /\ \A i \in DOMAIN mounts \ {k} : mounts'[i] = mounts[i]
    BY <1>1, <1>3, <1>4, ReplaceFacts
  <1>6. mounts' # <<>>
    BY <1>5
  <1>7. MountsOK'
    <2> SUFFICES ASSUME NEW j \in DOMAIN mounts
                 PROVE  /\ mounts'[j].target \in Targets
                        /\ mounts'[j].ok /\ mounts'[j].target \in ReadOnlyTargets => mounts'[j].ro
                        /\ ~disturbed' => Declared(mounts'[j].what, mounts'[j].target)
      BY <1>5 DEF MountsOK, MountOK
    <2>1. MountOK(mounts[j])
      BY DEF IInv, MountsOK
    <2>2. CASE j = k
      BY <1>3, <1>5, <2>1, <2>2 DEF MountOK
    <2>3. CASE j # k
      BY <1>5, <2>1, <2>3 DEF MountOK
    <2> QED
      BY <2>2, <2>3
  <1> QED
    BY <1>3, <1>5, <1>6, <1>7

(* The mount is made read-only, or the request fails.                        *)
LEMMA HelperReadOnlyInv ==
  ASSUME IInv, HelperReadOnly
  PROVE  IInv'
  <1>1. UNCHANGED <<fds, mount_leases, fsopen_leases, grants, tokens, moves, used, reuses, disturbed>>
    BY DEF HelperReadOnly
  <1>2. CASE HelperFails
    BY <1>1, <1>2, HelperFailsInv
  <1>3. CASE mounts' = [mounts EXCEPT ![Len(mounts)].ro = TRUE] /\ job' = [step |-> "attach"]
    <2>1. mounts # <<>> /\ mounts \in Seq(Mounts)
      BY DEF HelperReadOnly, IInv, JobOK, Idle, TypeOK, Mounts
    <2>2. PICK k \in DOMAIN mounts : k = Len(mounts) /\ mounts[k] \in Mounts
      BY <2>1, LastFacts
    <2>3. /\ mounts[k].ok \in BOOLEAN
          /\ mounts' = [mounts EXCEPT ![k] = [mounts[k] EXCEPT !.ro = TRUE, !.ok = mounts[k].ok]]
      BY <1>3, <2>2 DEF Mounts
    <2>4. /\ mounts' \in Seq(Mounts) /\ MountsOK' /\ Len(mounts') = Len(mounts)
          /\ mounts'[k].ro = TRUE /\ mounts' # <<>>
      BY <1>1, <2>3, FlagsKeep
    <2>5. JobOK'
      BY <1>3, <2>2, <2>4 DEF JobOK
    <2> QED
      BY <1>1, <2>4, <2>5, JobSteps
  <1> QED
    BY <1>2, <1>3 DEF HelperReadOnly

(* The caller is answered.                                                   *)
LEMMA HelperAttachesInv ==
  ASSUME IInv, HelperAttaches
  PROVE  IInv'
  <1>1. UNCHANGED <<fds, mount_leases, fsopen_leases, grants, tokens, moves, used, reuses, disturbed>>
    BY DEF HelperAttaches
  <1>2. JobOK'
    BY DEF HelperAttaches, HelperFails, JobOK
  <1>3. CASE HelperFails
    BY <1>1, <1>3, HelperFailsInv
  <1>4. CASE mounts' = [mounts EXCEPT ![Len(mounts)].ok = TRUE]
    <2>1. /\ mounts # <<>> /\ mounts \in Seq(Mounts)
          /\ mounts[Len(mounts)].target \in ReadOnlyTargets => mounts[Len(mounts)].ro
      BY DEF HelperAttaches, IInv, JobOK, Idle, TypeOK, Mounts
    <2>2. PICK k \in DOMAIN mounts : k = Len(mounts) /\ mounts[k] \in Mounts
      BY <2>1, LastFacts
    <2>3. /\ mounts[k].ro \in BOOLEAN
          /\ mounts' = [mounts EXCEPT ![k] = [mounts[k] EXCEPT !.ro = mounts[k].ro, !.ok = TRUE]]
      BY <1>4, <2>2 DEF Mounts
    <2>4. mounts' \in Seq(Mounts) /\ MountsOK'
      BY <1>1, <2>1, <2>2, <2>3, FlagsKeep
    <2> QED
      BY <1>1, <1>2, <2>4, JobSteps
  <1> QED
    BY <1>3, <1>4 DEF HelperAttaches

(* mount_setattr only adds the read-only flag.                               *)
LEMMA MountSetattrInv ==
  ASSUME IInv, NEW t \in Paths, NEW attrs \in SUBSET Attrs, MountSetattr(t, attrs)
  PROVE  IInv'
  <1>1. UNCHANGED <<fds, mount_leases, fsopen_leases, job, grants, tokens, moves, used, reuses, disturbed>>
    BY DEF MountSetattr
  <1>2. PICK k \in DOMAIN mounts :
          mounts' = [mounts EXCEPT ![k].ro = @ \/ "rdonly" \in attrs]
    BY DEF MountSetattr
  <1>3. job' = Idle
    BY <1>1, NotBusy DEF MountSetattr, IInv
  <1>4. mounts[k] \in Mounts
    <2>1. mounts \in Seq(Mounts)
      BY DEF IInv, TypeOK, Mounts
    <2> QED
      BY <2>1
  <1>5. PICK ro \in BOOLEAN : ro = (mounts[k].ro \/ "rdonly" \in attrs)
    BY <1>4 DEF Mounts
  <1>6. /\ mounts[k].ok \in BOOLEAN
        /\ mounts' = [mounts EXCEPT ![k] = [mounts[k] EXCEPT !.ro = ro, !.ok = mounts[k].ok]]
    BY <1>2, <1>4, <1>5 DEF Mounts
  <1>7. mounts[k].ok /\ mounts[k].target \in ReadOnlyTargets => ro
    BY <1>5 DEF IInv, MountsOK, MountOK
  <1>8. mounts' \in Seq(Mounts) /\ MountsOK'
    BY <1>1, <1>6, <1>7, FlagsKeep
  <1>9. JobOK'
    BY <1>3 DEF JobOK
  <1> QED
    BY <1>1, <1>8, <1>9, JobSteps

(* umount2 removes a mount.                                                  *)
LEMMA UmountInv ==
  ASSUME IInv, NEW t \in Paths, Umount(t)
  PROVE  IInv'
  <1>1. UNCHANGED <<fds, mount_leases, fsopen_leases, job, grants, tokens, moves, used, reuses, disturbed>>
    BY DEF Umount
  <1>2. PICK i \in DOMAIN mounts : mounts' = Taken(mounts, i)
    BY DEF Umount
  <1>3. job' = Idle
    BY <1>1, NotBusy DEF Umount, IInv
  <1>4. mounts \in Seq(Mounts)
    BY DEF IInv, TypeOK, Mounts
  <1>5. /\ mounts' \in Seq(Mounts)
        /\ \A j \in DOMAIN mounts' : \E k \in DOMAIN mounts : mounts'[j] = mounts[k]
    BY <1>2, <1>4, TakenFacts
  <1>6. MountsOK'
    BY <1>1, <1>5 DEF IInv, MountsOK, MountOK
  <1>7. JobOK'
    BY <1>3 DEF JobOK
  <1> QED
    BY <1>1, <1>5, <1>6, <1>7, JobSteps

(* The workload replaces a descriptor: a number in use is a disturbance.     *)
LEMMA ReuseInv ==
  ASSUME IInv, NEW p \in Procs, NEW n \in Fds, NEW what \in Things, Reuse(p, n, what)
  PROVE  IInv'
  <1>1. /\ UNCHANGED <<mount_leases, fsopen_leases, mounts, job, grants, tokens, moves, used>>
        /\ fds' = [fds EXCEPT ![p][n] = what] /\ reuses' = reuses + 1 /\ reuses < MaxReuse
        /\ disturbed' = (disturbed \/ n \in used)
    BY DEF Reuse
  <1>2. fds' \in [Procs -> [Fds -> Things]] /\ disturbed' \in BOOLEAN
    BY <1>1 DEF IInv, TypeOK
  <1>3. \A q \in Procs : \A m \in Fds : m # n => fds'[q][m] = fds[q][m]
    BY <1>1 DEF IInv, TypeOK
  <1>4. Steady
    BY <1>1, <1>3 DEF Steady, IInv, TypeOK
  <1>5. MountsOK' /\ JobOK' /\ LeasesOK'
    BY <1>1, <1>4, SteadyKeeps, LeasesKept
  <1>6. TypeOK'
    BY <1>1, <1>2, RulesAssumption DEF IInv, TypeOK
  <1>7. OneMovePerGrant'
    BY <1>1 DEF IInv, OneMovePerGrant
  <1> QED
    BY <1>5, <1>6, <1>7 DEF IInv

(* Every step keeps the invariant.                                           *)
LEMMA NextInv == IInv /\ [Next]_vars => IInv'
  <1> SUFFICES ASSUME IInv, [Next]_vars PROVE IInv'
    OBVIOUS
  <1>1. CASE UNCHANGED vars
    <2>1. UNCHANGED <<fds, mount_leases, fsopen_leases, mounts, job, grants, tokens, moves, used, reuses, disturbed>>
      BY <1>1 DEF vars
    <2>2. Steady
      BY <2>1 DEF Steady
    <2>3. MountsOK' /\ JobOK'
      BY <2>1, <2>2, SteadyKeeps
    <2> QED
      BY <2>1, <2>3, JobSteps, MountsUnchanged
  <1>2. CASE Broker
    BY <1>2, OpenTreeInv, FsOpenInv, FsConfigInv, FsMountInv, BindInv, MountTmpfsInv,
       MoveFdInv, DupTraceeFdInv, HelperClonesInv, HelperCreatesInv, ReplyAddFdInv,
       HelperMountsTmpfsInv, HelperMountsInv, HelperReadOnlyInv, HelperAttachesInv,
       MountSetattrInv, UmountInv DEF Broker
  <1>3. CASE Workload
    <2>1. PICK p \in Procs, n \in Fds :
            \E what \in {Closed, Own} \cup {fds[q][m] : q \in Procs, m \in Fds} : Reuse(p, n, what)
      BY <1>3 DEF Workload
    <2>2. PICK what \in {Closed, Own} \cup {fds[q][m] : q \in Procs, m \in Fds} : Reuse(p, n, what)
      BY <2>1
    <2>3. what \in Things
      <3>1. \A q \in Procs, m \in Fds : fds[q][m] \in Things
        BY DEF IInv, TypeOK
      <3>2. Closed \in Things /\ Own \in Things
        BY DEF Things
      <3> QED
        BY <3>1, <3>2
    <2> QED
      BY <2>2, <2>3, ReuseInv
  <1> QED
    BY <1>1, <1>2, <1>3 DEF Next

---------------------------------------------------------------------------
(* The invariant holds of every behaviour.                                   *)
THEOREM Inductive == Spec => []IInv
  BY InitInv, NextInv, PTL DEF Spec

(* The broker's tables and requests keep their types, however requests,      *)
(* helper failures and descriptor reuse interleave.                          *)
THEOREM TypeCorrect == Spec => []TypeOK
  <1>1. IInv => TypeOK
    BY DEF IInv
  <1> QED
    BY <1>1, Inductive, PTL

(* For every policy and every workload, the broker mounts only at targets    *)
(* that the policy declares.                                                 *)
THEOREM OnlyDeclaredTargets == Spec => []DeclaredTargets
  <1>1. IInv => DeclaredTargets
    BY DEF IInv, MountsOK, MountOK, DeclaredTargets
  <1> QED
    BY <1>1, Inductive, PTL

(* For every policy, as long as handed-out numbers are not replaced, what is *)
(* mounted where is a declared pair.                                         *)
THEOREM OnlyDeclaredPairs == Spec => []PairsDeclared
  <1>1. IInv => PairsDeclared
    BY DEF IInv, MountsOK, MountOK, PairsDeclared
  <1> QED
    BY <1>1, Inductive, PTL

(* A mount descriptor buys at most one move_mount.                           *)
THEOREM MovesAreGranted == Spec => []OneMovePerGrant
  <1>1. IInv => OneMovePerGrant
    BY DEF IInv
  <1> QED
    BY <1>1, Inductive, PTL

(* A mount reported as made at a read-only target is read-only from then on, *)
(* also when the descriptor was replaced between the check and the mount.    *)
THEOREM ReadOnlyIsKept == Spec => []ReadOnlyMounts
  <1>1. IInv => ReadOnlyMounts
    BY DEF IInv, MountsOK, MountOK, ReadOnlyMounts
  <1> QED
    BY <1>1, Inductive, PTL
=============================================================================
