----------------------------- MODULE MountBroker -----------------------------
(* The broker's mount requests (src/src/landlockd_exec.c): the handlers of   *)
(* open_tree, fsopen, fsconfig, fsmount, mount, move_mount, mount_setattr    *)
(* and umount2, the leases that tie a descriptor number to what the broker   *)
(* put behind it, and the helper processes that mount in the namespace of    *)
(* the workload.                                                             *)
(*                                                                           *)
(* The broker serves one notification at a time, but the workload may have   *)
(* several processes: while one waits for its answer the others close and    *)
(* duplicate descriptors.  Paths are canonical; a path's text and the        *)
(* decoding of arguments are left out.                                       *)
EXTENDS Integers, Sequences

CONSTANTS
    Procs,         \* the processes of the workload
    Fds,           \* descriptor numbers, in each of them
    Paths,         \* canonical paths a request may name
    BindRules,     \* broker.mount.bind: [source, target, read_only]
    TmpfsPaths,    \* broker.mount.tmpfs: paths
    ObjectRules,   \* broker.mount.object: [name, attach, attrs]
    Attrs,         \* mount attributes
    AddFd,         \* broker.addfd: <<action, path>> pairs covered by a rule
    MaxGrants,     \* bound on mount descriptors handed out
    MaxTokens,     \* bound on fsopen tokens handed out
    MaxMounts,     \* bound on mounts at one time
    MaxReuse       \* bound on descriptors the workload replaces

ASSUME RulesAssumption ==
    /\ Fds \subseteq Nat
    /\ BindRules \subseteq [source : Paths, target : Paths, read_only : BOOLEAN]
    /\ TmpfsPaths \subseteq Paths
    /\ \A r \in ObjectRules : r.attach \subseteq Paths /\ r.attrs \subseteq Attrs
    /\ MaxGrants \in Nat /\ MaxTokens \in Nat /\ MaxMounts \in Nat /\ MaxReuse \in Nat

VARIABLES
    fds,           \* what each descriptor of each process refers to
    mount_leases,  \* struct landlockd_broker_mount_fd_leases, oldest first
    fsopen_leases, \* struct landlockd_broker_fsopen_leases, oldest first
    mounts,        \* the mounts made through the broker, oldest first
    job,           \* what a helper process is doing, and how far it has come
    grants,        \* mount descriptors handed out so far
    tokens,        \* fsopen tokens handed out so far
    moves,         \* leases spent by move_mount so far
    used,          \* descriptor numbers handed out so far
    reuses,        \* descriptors the workload has replaced so far
    disturbed      \* a number handed out was replaced, or handed out again

vars == <<fds, mount_leases, fsopen_leases, mounts, job, grants, tokens, moves, used, reuses, disturbed>>

(* What a descriptor may refer to: nothing, a file the workload opened, the  *)
(* token of an fsopen (/dev/null), a cloned tree of a source, or a mount of  *)
(* an object.                                                                *)
Closed == [kind |-> "closed", of |-> "none"]
Own == [kind |-> "own", of |-> "none"]
Token == [kind |-> "token", of |-> "none"]
Tree(s) == [kind |-> "tree", of |-> s]
Object(n) == [kind |-> "object", of |-> n]
Tmpfs == [kind |-> "tmpfs", of |-> "none"]

Idle == [step |-> "idle"]
Busy == job.step # "idle"

Sources == {r.source : r \in BindRules}
ObjectNames == {r.name : r \in ObjectRules}
Targets ==
    {r.target : r \in BindRules} \cup TmpfsPaths \cup UNION {r.attach : r \in ObjectRules}

Handed == {Tree(s) : s \in Paths} \cup {Object(n) : n \in ObjectNames}
Things == {Closed, Own, Token, Tmpfs} \cup Handed

Jobs ==
    {Idle, [step |-> "attach"], [step |-> "readonly"]}
    \cup [step : {"fetch", "reply"}, proc : Procs, what : Handed]
    \cup [step : {"dup"}, proc : Procs, fd : Fds, target : Paths, must : BOOLEAN]
    \cup [step : {"tmpfs"}, target : Paths]
    \cup [step : {"mount"}, target : Paths, what : Things, must : BOOLEAN]

TypeOK ==
    /\ fds \in [Procs -> [Fds -> Things]]
    /\ mount_leases \in Seq([fd : Fds, value : Handed])
    /\ fsopen_leases \in Seq([fd : Fds, object : ObjectNames, created : BOOLEAN])
    /\ mounts \in Seq([target : Paths, what : Things, ro : BOOLEAN, ok : BOOLEAN])
    /\ job \in Jobs
    /\ grants \in 0..MaxGrants /\ tokens \in 0..MaxTokens /\ moves \in Nat
    /\ used \subseteq Fds /\ reuses \in 0..MaxReuse /\ disturbed \in BOOLEAN

Init ==
    /\ fds = [p \in Procs |-> [n \in Fds |-> Closed]]
    /\ mount_leases = <<>> /\ fsopen_leases = <<>> /\ mounts = <<>>
    /\ job = Idle
    /\ grants = 0 /\ tokens = 0 /\ moves = 0
    /\ used = {} /\ reuses = 0 /\ disturbed = FALSE

---------------------------------------------------------------------------
(* Rules and leases.                                                         *)

(* Mutant: the target is not compared.                                       *)
BindRuleBySource(s, t) == {r \in BindRules : r.source = s}

(* landlockd_broker_find_bind_mount_rule: the rules that match.  The code    *)
(* takes the first; taking any of them allows no less.                       *)
BindRule(s, t) == {r \in BindRules : r.source = s /\ r.target = t}

(* landlockd_broker_find_mount_object_rule *)
ObjectRule(n) == {r \in ObjectRules : r.name = n}

(* landlockd_broker_mount_object_addfd_covers_action: every attach path.     *)
Covered(action, r) == r.attach # {} /\ \A t \in r.attach : <<action, t>> \in AddFd

(* Mutant: the newest lease in the table, whichever descriptor was named.    *)
LeaseOfAny(leases, n, i) == i = Len(leases) /\ i > 0

(* The oldest lease for a descriptor number; the process is not looked at.   *)
LeaseOf(leases, n, i) ==
    /\ i \in DOMAIN leases
    /\ leases[i].fd = n
    /\ \A j \in 1..(i - 1) : leases[j].fd # n

(* Mutant: the lease stays in the table.                                     *)
TakenKept(leases, i) == leases

(* What is left after landlockd_broker_*_lease_take: the entries behind the  *)
(* one that was taken move up.                                               *)
Taken(leases, i) == SubSeq(leases, 1, i - 1) \o SubSeq(leases, i + 1, Len(leases))

---------------------------------------------------------------------------
(* Handing out descriptors.                                                  *)

(* Mutant: the number stays at its initial -1.                               *)
NewLeaseUnset(n, value) == [fd |-> -1, value |-> value]

(* landlockd_broker_mount_fd_lease_add *)
NewLease(n, value) == [fd |-> n, value |-> value]

(* landlockd_broker_reply_addfd: the kernel puts the descriptor at the       *)
(* lowest free number of the process.                                        *)
Install(p, n, what) ==
    /\ fds[p][n] = Closed
    /\ \A m \in Fds : m < n => fds[p][m] # Closed
    /\ fds' = [fds EXCEPT ![p][n] = what]
    /\ disturbed' = (disturbed \/ n \in used \/ \E q \in Procs : fds[q][n] # Closed)
    /\ used' = used \cup {n}

MayClone(s) == s \in Sources /\ <<"open_tree", s>> \in AddFd

(* landlockd_broker_handle_open_tree_request: a helper clones the tree. *)
OpenTree(p, s) ==
    /\ ~Busy
    /\ MayClone(s)
    /\ job' = [step |-> "fetch", proc |-> p, what |-> Tree(s)]
    /\ UNCHANGED <<fds, mount_leases, fsopen_leases, mounts, grants, tokens, moves, used, reuses, disturbed>>

(* landlockd_broker_handle_fsopen_request: the caller gets a token. *)
FsOpen(p, r) ==
    /\ ~Busy /\ tokens < MaxTokens
    /\ Covered("fsopen", r)
    /\ \E n \in Fds :
        /\ Install(p, n, Token)
        /\ \/ fsopen_leases' =
                Append(fsopen_leases, [fd |-> n, object |-> r.name, created |-> FALSE])
           \/ UNCHANGED fsopen_leases
    /\ tokens' = tokens + 1
    /\ UNCHANGED <<mount_leases, mounts, job, grants, moves, reuses>>

(* landlockd_broker_handle_fsconfig_request: only the create command, once. *)
FsConfig(n) ==
    /\ ~Busy
    /\ \E i \in DOMAIN fsopen_leases :
        /\ LeaseOf(fsopen_leases, n, i)
        /\ ~fsopen_leases[i].created
        /\ fsopen_leases' = [fsopen_leases EXCEPT ![i].created = TRUE]
    /\ UNCHANGED <<fds, mount_leases, mounts, job, grants, tokens, moves, used, reuses, disturbed>>

MayCreate(lease, attrs) ==
    /\ lease.created
    /\ \E r \in ObjectRule(lease.object) : attrs \subseteq r.attrs /\ Covered("fsmount", r)

(* landlockd_broker_handle_fsmount_request: the token is spent, whatever     *)
(* becomes of the request; a helper makes the mount when the object was      *)
(* created, the attributes are allowed and broker.addfd covers it.           *)
FsMount(p, n, attrs) ==
    /\ ~Busy
    /\ \E i \in DOMAIN fsopen_leases :
        /\ LeaseOf(fsopen_leases, n, i)
        /\ fsopen_leases' = Taken(fsopen_leases, i)
        /\ \/ ~MayCreate(fsopen_leases[i], attrs) /\ UNCHANGED job
           \/ /\ MayCreate(fsopen_leases[i], attrs)
              /\ job' = [step |-> "fetch", proc |-> p,
                         what |-> Object(fsopen_leases[i].object)]
    /\ UNCHANGED <<fds, mount_leases, mounts, grants, tokens, moves, used, reuses, disturbed>>

(* landlockd_broker_wait_helper: a helper that did not exit with status 0    *)
(* has failed, and the caller gets an error; the code of a helper killed by  *)
(* a signal is the errno an earlier call left, taken not to be 0.            *)
HelperFails == job' = Idle /\ UNCHANGED mounts

(* landlockd_broker_open_tree_in_tracee_namespace: the helper enters the     *)
(* namespace, clones the tree and sends it.  The broker keeps the descriptor *)
(* only if the helper then exits with status 0.                              *)
HelperClones ==
    /\ job.step = "fetch" /\ job.what.kind = "tree"
    /\ \/ job' = [job EXCEPT !.step = "reply"] /\ UNCHANGED mounts
       \/ HelperFails
    /\ UNCHANGED <<fds, mount_leases, fsopen_leases, grants, tokens, moves, used, reuses, disturbed>>

(* landlockd_broker_fsmount_in_tracee_namespace: likewise, with fsopen,      *)
(* fsconfig and fsmount of its own.                                          *)
HelperCreates ==
    /\ job.step = "fetch" /\ job.what.kind = "object"
    /\ \/ job' = [job EXCEPT !.step = "reply"] /\ UNCHANGED mounts
       \/ HelperFails
    /\ UNCHANGED <<fds, mount_leases, fsopen_leases, grants, tokens, moves, used, reuses, disturbed>>

(* The end of both handlers.  The descriptor may arrive without a lease (no  *)
(* memory, or the reply failed after it was installed); when the caller is   *)
(* gone, or its table is full, nothing is installed.                         *)
ReplyAddFd ==
    /\ job.step = "reply" /\ job' = Idle
    /\ \/ /\ grants < MaxGrants /\ grants' = grants + 1
          /\ \E n \in Fds :
                /\ Install(job.proc, n, job.what)
                /\ \/ mount_leases' = Append(mount_leases, NewLease(n, job.what))
                   \/ UNCHANGED mount_leases
       \/ UNCHANGED <<fds, mount_leases, grants, used, disturbed>>
    /\ UNCHANGED <<fsopen_leases, mounts, tokens, moves, reuses>>

---------------------------------------------------------------------------
(* Mounting.                                                                 *)

(* Mutant: only the flag of the request counts, not the rule.                *)
MustBeReadOnlyAsked(r, asked) == asked

(* effective_read_only *)
MustBeReadOnly(r, asked) == r.read_only \/ asked

(* landlockd_broker_handle_mount_request with MS_BIND, and move_mount from a *)
(* path: a helper clones the source and mounts it.                           *)
Bind(s, t, asked) ==
    /\ ~Busy
    /\ \E r \in BindRule(s, t) :
        job' = [step |-> "mount", target |-> t, what |-> Tree(s),
                must |-> MustBeReadOnly(r, asked)]
    /\ UNCHANGED <<fds, mount_leases, fsopen_leases, mounts, grants, tokens, moves, used, reuses, disturbed>>

(* landlockd_broker_handle_mount_request for a tmpfs. *)
MountTmpfs(t) ==
    /\ ~Busy
    /\ t \in TmpfsPaths
    /\ job' = [step |-> "tmpfs", target |-> t]
    /\ UNCHANGED <<fds, mount_leases, fsopen_leases, mounts, grants, tokens, moves, used, reuses, disturbed>>

(* May what the lease names be attached at the target, and how? *)
Attachable(value, t) ==
    IF value.kind = "tree" THEN {MustBeReadOnly(r, FALSE) : r \in BindRule(value.of, t)}
    ELSE IF \E r \in ObjectRule(value.of) : t \in r.attach THEN {FALSE} ELSE {}

(* landlockd_broker_handle_move_mount_request with a descriptor: the lease   *)
(* is spent before the rules are looked at.                                  *)
MoveFd(p, n, t) ==
    /\ ~Busy
    /\ \E i \in DOMAIN mount_leases :
        /\ LeaseOf(mount_leases, n, i)
        /\ mount_leases' = Taken(mount_leases, i)
        /\ \/ Attachable(mount_leases[i].value, t) = {} /\ UNCHANGED job
           \/ \E must \in Attachable(mount_leases[i].value, t) :
                job' = [step |-> "dup", proc |-> p, fd |-> n, target |-> t, must |-> must]
    /\ moves' = moves + 1
    /\ UNCHANGED <<fds, fsopen_leases, mounts, grants, tokens, used, reuses, disturbed>>

(* landlockd_broker_dup_tracee_fd: what is behind the number now.  Whatever  *)
(* it is goes to the helper; the kernel may refuse to mount it.              *)
DupTraceeFd ==
    /\ job.step = "dup"
    /\ \/ /\ fds[job.proc][job.fd] \notin {Closed, Token}
          /\ job' = [step |-> "mount", target |-> job.target,
                     what |-> fds[job.proc][job.fd], must |-> job.must]
       \/ job' = Idle
    /\ UNCHANGED <<fds, mount_leases, fsopen_leases, mounts, grants, tokens, moves, used, reuses, disturbed>>

(* The mount is there, not yet made read-only.  A mount moved a second time  *)
(* also stays where it was: the model has one mount more than the kernel     *)
(* then, never one less.                                                     *)
Mounted(what) ==
    /\ Len(mounts) < MaxMounts
    /\ mounts' = Append(mounts, [target |-> job.target, what |-> what,
                                 ro |-> FALSE, ok |-> FALSE])

(* landlockd_broker_mount_tmpfs_in_tracee_namespace, up to the mount.        *)
HelperMountsTmpfs ==
    /\ job.step = "tmpfs"
    /\ \/ Mounted(Tmpfs) /\ job' = [step |-> "attach"]
       \/ HelperFails
    /\ UNCHANGED <<fds, mount_leases, fsopen_leases, grants, tokens, moves, used, reuses, disturbed>>

(* The three helpers that bind a source, clone and move it, or move what the *)
(* descriptor refers to.                                                     *)
HelperMounts ==
    /\ job.step = "mount"
    /\ \/ Mounted(job.what) /\ job' = [step |-> IF job.must THEN "readonly" ELSE "attach"]
       \/ HelperFails
    /\ UNCHANGED <<fds, mount_leases, fsopen_leases, grants, tokens, moves, used, reuses, disturbed>>

(* landlockd_broker_set_readonly_mount, or the remount of a bind mount.  On  *)
(* failure the mount stays.                                                  *)
HelperReadOnly ==
    /\ job.step = "readonly"
    /\ \/ mounts' = [mounts EXCEPT ![Len(mounts)].ro = TRUE] /\ job' = [step |-> "attach"]
       \/ HelperFails
    /\ UNCHANGED <<fds, mount_leases, fsopen_leases, grants, tokens, moves, used, reuses, disturbed>>

(* landlockd_attach_mount_rules, then the helper exits and the caller is     *)
(* answered.  On failure it gets an error, and the mount stays.              *)
HelperAttaches ==
    /\ job.step = "attach"
    /\ \/ mounts' = [mounts EXCEPT ![Len(mounts)].ok = TRUE] /\ job' = Idle
       \/ HelperFails
    /\ UNCHANGED <<fds, mount_leases, fsopen_leases, grants, tokens, moves, used, reuses, disturbed>>

(* The mount on top at a path. *)
Top(t, i) ==
    /\ i \in DOMAIN mounts
    /\ mounts[i].target = t
    /\ \A j \in (i + 1)..Len(mounts) : mounts[j].target # t

(* landlockd_broker_handle_mount_setattr_request can only add attributes     *)
(* that an object rule for the target allows.                                *)
MountSetattr(t, attrs) ==
    /\ ~Busy
    /\ \E r \in ObjectRules : t \in r.attach /\ attrs \subseteq r.attrs
    /\ \E i \in DOMAIN mounts :
        /\ Top(t, i)
        /\ mounts' = [mounts EXCEPT ![i].ro = @ \/ "rdonly" \in attrs]
    /\ UNCHANGED <<fds, mount_leases, fsopen_leases, job, grants, tokens, moves, used, reuses, disturbed>>

(* landlockd_broker_handle_umount_request: object mounts cannot be undone,   *)
(* unless their target is also declared for a tmpfs or a bind mount.         *)
Umount(t) ==
    /\ ~Busy
    /\ t \in TmpfsPaths \cup {r.target : r \in BindRules}
    /\ \E i \in DOMAIN mounts : Top(t, i) /\ mounts' = Taken(mounts, i)
    /\ UNCHANGED <<fds, mount_leases, fsopen_leases, job, grants, tokens, moves, used, reuses, disturbed>>

---------------------------------------------------------------------------
(* The workload, at any time.                                                *)

(* close, dup2, open, or the table a forked process starts with. *)
Reuse(p, n, what) ==
    /\ reuses < MaxReuse
    /\ fds[p][n] # what
    /\ fds' = [fds EXCEPT ![p][n] = what]
    /\ reuses' = reuses + 1
    /\ disturbed' = (disturbed \/ n \in used)
    /\ UNCHANGED <<mount_leases, fsopen_leases, mounts, job, grants, tokens, moves, used>>

Broker ==
    \/ \E p \in Procs, s \in Paths : OpenTree(p, s)
    \/ \E p \in Procs, r \in ObjectRules : FsOpen(p, r)
    \/ \E n \in Fds : FsConfig(n)
    \/ \E p \in Procs, n \in Fds, attrs \in SUBSET Attrs : FsMount(p, n, attrs)
    \/ \E s, t \in Paths, asked \in BOOLEAN : Bind(s, t, asked)
    \/ \E t \in Paths : MountTmpfs(t)
    \/ \E p \in Procs, n \in Fds, t \in Paths : MoveFd(p, n, t)
    \/ HelperClones \/ HelperCreates \/ ReplyAddFd
    \/ DupTraceeFd \/ HelperMountsTmpfs \/ HelperMounts \/ HelperReadOnly \/ HelperAttaches
    \/ \E t \in Paths, attrs \in SUBSET Attrs : MountSetattr(t, attrs)
    \/ \E t \in Paths : Umount(t)

Workload ==
    \E p \in Procs, n \in Fds :
        \E what \in {Closed, Own} \cup {fds[q][m] : q \in Procs, m \in Fds} : Reuse(p, n, what)

Next == Broker \/ Workload

Spec == Init /\ [][Next]_vars

---------------------------------------------------------------------------
(* Properties.                                                               *)

(* Whatever the workload does with its descriptors, and however helpers      *)
(* fail, the broker mounts only at declared targets.                         *)
DeclaredTargets == \A i \in DOMAIN mounts : mounts[i].target \in Targets

(* A rule declares that this may be mounted there.                           *)
Declared(what, t) ==
    \/ what.kind = "tree" /\ BindRule(what.of, t) # {}
    \/ what.kind = "object" /\ \E r \in ObjectRule(what.of) : t \in r.attach
    \/ what.kind = "tmpfs" /\ t \in TmpfsPaths

(* As long as the workload keeps each handed-out number for what it was      *)
(* handed out for, what is mounted and where are a declared pair, although   *)
(* tokens, trees and objects come and go in any order.  Leases know a number *)
(* only, not the process or whether it has been closed since: this is the    *)
(* discipline they rely on.                                                  *)
PairsDeclared ==
    ~disturbed => \A i \in DOMAIN mounts : Declared(mounts[i].what, mounts[i].target)

(* A descriptor is good for one move_mount: leases outstanding and spent     *)
(* never exceed the descriptors handed out.                                  *)
OneMovePerGrant == Len(mount_leases) + moves <= grants

(* Where only read-only bind mounts are declared, a mount whose caller has   *)
(* been told of success is read-only, and stays so, whichever descriptor it  *)
(* came through.                                                             *)
ReadOnlyTargets ==
    {t \in Targets : /\ \A r \in BindRules : r.target = t => r.read_only
                     /\ t \notin TmpfsPaths
                     /\ \A r \in ObjectRules : t \notin r.attach}
ReadOnlyMounts ==
    \A i \in DOMAIN mounts : mounts[i].ok /\ mounts[i].target \in ReadOnlyTargets => mounts[i].ro
=============================================================================
