---------------------------- MODULE StaticMounts ----------------------------
(* The static mounts of a run (src/src/landlockd_exec.c): the preflight      *)
(* probe, the mount namespace, tmpfs, bind and proc mounts with their        *)
(* Landlock rules, the change into runtime.root and runtime.cwd.  Several    *)
(* runs do this at the same time: their namespaces are their own, the        *)
(* directories on the disk are shared, and a run may be killed at any step.  *)
(*                                                                           *)
(* A path is a sequence of names.  A mount namespace is a tree of mounts,    *)
(* and a place in it is a mount and a path in that mount's file system.      *)
EXTENDS Integers, Sequences, SequencesExt, FiniteSets

CONSTANTS
    Runs,
    Names,           \* of directories and files
    Jobs,            \* which policy each run has
    Disks,           \* the directories and files there may be at the start
    Kernels,         \* what the kernel may offer
    OldRoot,         \* the name .landlockd-oldroot
    None

VARIABLES
    job,             \* the policy of a run
    kernel,          \* the features of the kernel
    disk,            \* path -> "dir", "file" or "other"
    pc,              \* the next step of a run
    at,              \* the rule of that step's list that is next
    ns,              \* the mount namespace of a run
    cwd,             \* its working directory
    met              \* another run with the same root was there meanwhile

vars == <<job, kernel, disk, pc, at, ns, cwd, met>>

Features == {"userns", "tmpfs", "bind", "remount", "proc", "pivot", "mount_api"}
BrokerMounts == {"tmpfs", "bind", "bind_ro", "object", "object_ro", "object_proc"}

Paths == Seq(Names)

PolicyOk(p) ==
    /\ p.tmpfs \in Seq(Paths) /\ p.proc \in Seq(Paths)
    /\ p.bind \in Seq([source : Paths, target : Paths, read_only : BOOLEAN])
    /\ p.broker \subseteq BrokerMounts
    /\ \A q \in p.rules \cup ({p.root, p.cwd} \ {None}) : q \in Paths
    \* runtime.root lies on the disk itself, so that what is made in it stays there
    /\ p.root # None =>
         \A t \in Range(p.tmpfs) \cup Range(p.proc) \cup {p.bind[i].target : i \in DOMAIN p.bind} :
            ~IsPrefix(t, p.root)

ASSUME JobAssumption ==
    /\ \A f \in Jobs : DOMAIN f = Runs /\ \A r \in Runs : PolicyOk(f[r])
    /\ \A d \in Disks : /\ <<>> \in DOMAIN d
                       /\ \A q \in DOMAIN d : q \in Paths /\ d[q] \in {"dir", "file", "other"}
    /\ Kernels \subseteq SUBSET Features
    /\ OldRoot \in Names

---------------------------------------------------------------------------
(* Mount namespaces (the kernel's side).                                     *)

Nowhere == [mnt |-> 0, path |-> <<>>]

(* One mount, of the disk. *)
HostNs ==
    [root |-> 1,
     mounts |-> <<[parent |-> 0, on |-> <<>>, fs |-> "disk", base |-> <<>>, ro |-> FALSE, made |-> <<"host">>]>>]

Kind(n, d, p) ==
    IF p = Nowhere THEN "none"
    ELSE IF n.mounts[p.mnt].fs # "disk" THEN IF p.path = <<>> THEN "dir" ELSE "none"
    ELSE IF p.path \in DOMAIN d THEN d[p.path] ELSE "none"

(* The mounts on a place, and the place that one of them puts in front.      *)
Over(n, p) == {i \in DOMAIN n.mounts : n.mounts[i].parent = p.mnt /\ n.mounts[i].on = p.path}
Root(n, i) == [mnt |-> i, path |-> n.mounts[i].base]
Covered(n, p) == IF Over(n, p) = {} THEN p ELSE Root(n, CHOOSE i \in Over(n, p) : TRUE)

(* The topmost mount at a place. *)
Follow(n, p) ==
    LET top[k \in 0..Len(n.mounts)] == IF k = 0 THEN p ELSE Covered(n, top[k - 1])
    IN top[Len(n.mounts)]

(* One name further. *)
In(p, name) == [mnt |-> p.mnt, path |-> Append(p.path, name)]
Enter(n, d, p, name) ==
    IF p = Nowhere \/ Kind(n, d, In(p, name)) = "none" THEN Nowhere ELSE Follow(n, In(p, name))

Walk(n, d, path) ==
    LET place[k \in 0..Len(path)] ==
            IF k = 0 THEN Root(n, n.root) ELSE Enter(n, d, place[k - 1], path[k])
    IN place[Len(path)]

Mount(n, p, fs, base, ro, made) ==
    [n EXCEPT !.mounts =
        Append(@, [parent |-> p.mnt, on |-> p.path, fs |-> fs, base |-> base, ro |-> ro, made |-> made])]

(* mount(source, target, MS_BIND): the one mount that source is in, without  *)
(* the mounts below it.                                                      *)
BindMount(n, d, source, target, made) ==
    LET s == Walk(n, d, source)
        m == n.mounts[s.mnt]
    IN Mount(n, Walk(n, d, target), m.fs, s.path, m.ro, made)

Remount(n, d, target) == [n EXCEPT !.mounts[Walk(n, d, target).mnt].ro = TRUE]

(* Some mounts and all that is mounted below them: the least set that has    *)
(* the children of its members.                                              *)
Below(n, some) ==
    LET Closed(S) == some \subseteq S /\ \A i \in DOMAIN n.mounts : n.mounts[i].parent \in S => i \in S
    IN {i \in DOMAIN n.mounts : \A S \in SUBSET DOMAIN n.mounts : Closed(S) => i \in S}

(* MNT_DETACH takes a mount away with all that is mounted below it.  A mount *)
(* taken away keeps its number and is nowhere.                               *)
Detach(n, gone) ==
    [n EXCEPT !.mounts = [i \in DOMAIN n.mounts |->
        IF i \in Below(n, gone) THEN [n.mounts[i] EXCEPT !.parent = 0, !.made = <<"detached">>]
        ELSE n.mounts[i]]]

(* pivot_root(new, put_old): the new root has to be where a mount is that is *)
(* not the root already; the old root goes to put_old.                       *)
CanPivot(n, d, new, put_old) ==
    /\ new # Nowhere /\ new.path = n.mounts[new.mnt].base
    /\ new.mnt # n.root /\ n.mounts[new.mnt].parent # 0
    /\ Kind(n, d, put_old) = "dir"
PivotRoot(n, new, put_old) ==
    [root |-> new.mnt,
     mounts |-> [n.mounts EXCEPT ![new.mnt].parent = 0, ![new.mnt].on = <<>>,
                                 ![n.root].parent = put_old.mnt, ![n.root].on = put_old.path]]

(* rmdir in one namespace ends the mounts on that directory in the others.   *)
LoseMountpoint(n, path) ==
    Detach(n, {i \in DOMAIN n.mounts :
                 /\ n.mounts[i].parent # 0 /\ n.mounts[i].on = path
                 /\ n.mounts[n.mounts[i].parent].fs = "disk"})

---------------------------------------------------------------------------
(* Which features a policy asks for, and the probe.                          *)

NeedsNamespace(p) ==
    p.tmpfs # <<>> \/ p.bind # <<>> \/ p.proc # <<>> \/ p.broker # {} \/ p.root # None

Objects(p) == p.broker \cap {"object", "object_ro", "object_proc"} # {}
NeedBind(p) == p.bind # <<>> \/ p.broker \cap {"bind", "bind_ro"} # {} \/ p.root # None
NeedTmpfs(p) == p.tmpfs # <<>> \/ "tmpfs" \in p.broker \/ Objects(p)
NeedProc(p) == p.proc # <<>> \/ "object_proc" \in p.broker
NeedReadOnly(p) ==
    (\E i \in DOMAIN p.bind : p.bind[i].read_only) \/ p.broker \cap {"bind_ro", "object_ro"} # {}

Needs(p) ==
    {"userns"}
    \cup (IF NeedBind(p) THEN {"bind"} ELSE {})
    \cup (IF NeedBind(p) /\ NeedReadOnly(p) THEN {"remount"} ELSE {})
    \cup (IF p.root # None THEN {"pivot"} ELSE {})
    \cup (IF NeedTmpfs(p) THEN {"tmpfs"} ELSE {})
    \cup (IF NeedProc(p) THEN {"proc"} ELSE {})
    \cup (IF Objects(p) THEN {"mount_api"} ELSE {})

(* landlockd_probe_mount_features tries the features in a directory of its   *)
(* own, pivot_root first: the mounts tried after it are named from the root  *)
(* that the probe has left.                                                  *)
ProbeDisk ==
    [q \in {<<>>, <<"tmp">>, <<"tmp", "source">>, <<"tmp", "source", OldRoot>>, <<"tmp", "mnt">>} |-> "dir"]

ProbeNs(p) ==
    IF p.root = None THEN HostNs
    ELSE LET source == <<"tmp", "source">>
             bound == BindMount(HostNs, ProbeDisk, source, source, <<"root">>)
             new == Walk(bound, ProbeDisk, source)
         IN PivotRoot(bound, new, In(new, OldRoot))

ProbeOk(p) ==
    /\ Needs(p) \subseteq kernel
    /\ NeedTmpfs(p) \/ NeedProc(p) => Walk(ProbeNs(p), ProbeDisk, <<"tmp", "mnt">>) # Nowhere

---------------------------------------------------------------------------
(* landlockd_path_is_under, landlockd_path_has_prefix: compared as text, so  *)
(* that a slash has to follow the root: nothing but "/" is under "/".        *)
IsUnder(root, path) == IsPrefix(root, path) /\ (root # <<>> \/ path = <<>>)

(* landlockd_attach_mount_rules: every rule about the mount, above it or     *)
(* below, is given to the ruleset again; there has to be one.                *)
Attach(p, path) ==
    {IF IsUnder(rule, path) THEN path ELSE rule :
        rule \in {q \in p.rules : IsUnder(q, path) \/ IsUnder(path, q)}}
AttachOk(n, d, p, path) ==
    Attach(p, path) # {} /\ \A q \in Attach(p, path) : Walk(n, d, q) # Nowhere

---------------------------------------------------------------------------
Init ==
    /\ job \in Jobs
    /\ kernel \in Kernels
    /\ disk \in Disks
    /\ pc = [r \in Runs |-> "off"]
    /\ at = [r \in Runs |-> 1]
    /\ ns = [r \in Runs |-> HostNs]
    /\ cwd = [r \in Runs |-> Nowhere]
    /\ met = [r \in Runs |-> FALSE]

Active(r) == pc[r] \notin {"off", "refused", "denied", "failed", "killed", "running"}

(* The run goes on to step next with namespace n, or it ends.  An ended run  *)
(* has no namespace.                                                         *)
Go(r, next, n) ==
    /\ pc' = [pc EXCEPT ![r] = next]
    /\ at' = [at EXCEPT ![r] = 1]
    /\ ns' = [ns EXCEPT ![r] = n]
    /\ UNCHANGED <<job, kernel, disk, cwd, met>>

Fail(r) == Go(r, "failed", HostNs)

(* A rule of a list is done. *)
Step(r, n) ==
    /\ at' = [at EXCEPT ![r] = @ + 1]
    /\ ns' = [ns EXCEPT ![r] = n]
    /\ UNCHANGED <<job, kernel, disk, pc, cwd, met>>

(* A run is started; every run that is on the same root has met it. *)
Start(r) ==
    LET others == {q \in Runs \ {r} : Active(q) /\ job[q].root = job[r].root} IN
    /\ pc[r] = "off"
    /\ pc' = [pc EXCEPT ![r] = "probe"]
    /\ met' = [q \in Runs |-> met[q] \/ q \in others \/ (q = r /\ others # {})]
    /\ UNCHANGED <<job, kernel, disk, at, ns, cwd>>

(* landlockd_run_preflight, as far as mounts are concerned *)
Preflight(r) ==
    /\ pc[r] = "probe"
    /\ \/ ~NeedsNamespace(job[r]) /\ Go(r, "cwd", HostNs)
       \/ NeedsNamespace(job[r]) /\ ProbeOk(job[r]) /\ Go(r, "namespace", HostNs)
       \/ NeedsNamespace(job[r]) /\ ~ProbeOk(job[r]) /\ Go(r, "refused", HostNs)

(* landlockd_setup_mount_namespace: a private copy of the host's namespace.  *)
(* What the probe was given just now may be denied by now.                   *)
Namespace(r) ==
    /\ pc[r] = "namespace"
    /\ Go(r, "tmpfs", HostNs) \/ Go(r, "denied", HostNs)

Tmpfs(r) ==
    LET p == job[r]
        path == p.tmpfs[at[r]]
        place == Walk(ns[r], disk, path)
        n == Mount(ns[r], place, "tmpfs", <<>>, FALSE, <<"tmpfs", at[r]>>)
    IN
    /\ pc[r] = "tmpfs"
    /\ \/ at[r] > Len(p.tmpfs) /\ Go(r, "bind", ns[r])
       \/ /\ at[r] <= Len(p.tmpfs)
          /\ IF Kind(ns[r], disk, place) = "dir" /\ AttachOk(n, disk, p, path)
             THEN Step(r, n) ELSE Fail(r)

(* A mutant: a bind mount stays writable. *)
ReadOnlyMutant(n, d, rule) == n

(* MS_BIND | MS_REMOUNT | MS_RDONLY, when the rule asks for it *)
ReadOnly(n, d, rule) == IF rule.read_only THEN Remount(n, d, rule.target) ELSE n

(* landlockd_apply_bind_mount *)
Bind(r) ==
    LET p == job[r]
        rule == p.bind[at[r]]
        source == Kind(ns[r], disk, Walk(ns[r], disk, rule.source))
        target == Kind(ns[r], disk, Walk(ns[r], disk, rule.target))
        n == ReadOnly(BindMount(ns[r], disk, rule.source, rule.target, <<"bind", at[r]>>), disk, rule)
    IN
    /\ pc[r] = "bind"
    /\ \/ at[r] > Len(p.bind) /\ Go(r, "proc", ns[r])
       \/ /\ at[r] <= Len(p.bind)
          /\ IF /\ source \in {"dir", "file"} /\ target # "none"
                /\ source = "dir" <=> target = "dir"
                /\ AttachOk(n, disk, p, rule.target)
             THEN Step(r, n) ELSE Fail(r)

Proc(r) ==
    LET p == job[r]
        path == p.proc[at[r]]
        place == Walk(ns[r], disk, path)
        n == Mount(ns[r], place, "proc", <<>>, FALSE, <<"proc", at[r]>>)
    IN
    /\ pc[r] = "proc"
    /\ \/ at[r] > Len(p.proc) /\ Go(r, IF p.root = None THEN "cwd" ELSE "root_bind", ns[r])
       \/ /\ at[r] <= Len(p.proc)
          /\ IF Kind(ns[r], disk, place) = "dir" /\ AttachOk(n, disk, p, path)
             THEN Step(r, n) ELSE Fail(r)

(* landlockd_setup_runtime_root: landlockd_bind_mount_self and the rules *)
RootBind(r) ==
    LET p == job[r]
        n == BindMount(ns[r], disk, p.root, p.root, <<"root">>)
    IN
    /\ pc[r] = "root_bind"
    /\ IF Kind(ns[r], disk, Walk(ns[r], disk, p.root)) = "dir" /\ AttachOk(n, disk, p, p.root)
       THEN Go(r, "root_mkdir", n) ELSE Fail(r)

(* A mutant: a directory that is there already is an error. *)
RootMkdirMutant(r) ==
    LET old == Append(Walk(ns[r], disk, job[r].root).path, OldRoot) IN
    /\ pc[r] = "root_mkdir"
    /\ \/ old \in DOMAIN disk /\ Fail(r)
       \/ /\ old \notin DOMAIN disk
          /\ disk' = [q \in DOMAIN disk \cup {old} |-> "dir"]
          /\ pc' = [pc EXCEPT ![r] = "root_pivot"]
          /\ UNCHANGED <<job, kernel, at, ns, cwd, met>>

(* A mutant: the directory is named from the working directory. *)
RootMkdirHereMutant(r) ==
    /\ pc[r] = "root_mkdir"
    /\ disk' = [q \in DOMAIN disk \cup {<<OldRoot>>} |-> IF q \in DOMAIN disk THEN disk[q] ELSE "dir"]
    /\ pc' = [pc EXCEPT ![r] = "root_pivot"]
    /\ UNCHANGED <<job, kernel, at, ns, cwd, met>>

(* mkdir, which may find the directory of another run or of a killed one *)
RootMkdir(r) ==
    LET root == Walk(ns[r], disk, job[r].root)
        old == Append(root.path, OldRoot)
    IN
    /\ pc[r] = "root_mkdir"
    /\ \/ root = Nowhere /\ Fail(r)
       \/ /\ root # Nowhere
          /\ disk' = [q \in DOMAIN disk \cup {old} |-> IF q \in DOMAIN disk THEN disk[q] ELSE "dir"]
          /\ pc' = [pc EXCEPT ![r] = "root_pivot"]
          /\ UNCHANGED <<job, kernel, at, ns, cwd, met>>

(* A mutant: the old root stays where it was put. *)
RootPivotMutant(r) ==
    LET new == Walk(ns[r], disk, job[r].root)
        old == In(new, OldRoot)
    IN
    /\ pc[r] = "root_pivot"
    /\ IF CanPivot(ns[r], disk, new, old) THEN Go(r, "cwd", PivotRoot(ns[r], new, old)) ELSE Fail(r)

(* chdir and pivot_root *)
RootPivot(r) ==
    LET new == Walk(ns[r], disk, job[r].root)
        old == In(new, OldRoot)
    IN
    /\ pc[r] = "root_pivot"
    /\ IF CanPivot(ns[r], disk, new, old)
       THEN Go(r, "root_detach", PivotRoot(ns[r], new, old))
       ELSE Fail(r)

(* chdir and umount2; what is not a mount cannot be unmounted *)
RootDetach(r) ==
    LET place == Walk(ns[r], disk, <<OldRoot>>) IN
    /\ pc[r] = "root_detach"
    /\ IF place # Nowhere /\ place.mnt # ns[r].root
       THEN Go(r, "root_rmdir", Detach(ns[r], {place.mnt}))
       ELSE Fail(r)

(* What rmdir removes: an empty directory on which nothing is mounted here.  *)
CanRemove(n, d, p) ==
    /\ Kind(n, d, p) = "dir" /\ p.path # n.mounts[p.mnt].base
    /\ \A q \in DOMAIN d : IsPrefix(p.path, q) => q = p.path

(* rmdir, which takes the directory from every run on this root *)
RootRmdir(r) ==
    LET old == Walk(ns[r], disk, <<OldRoot>>) IN
    /\ pc[r] = "root_rmdir"
    /\ \/ ~CanRemove(ns[r], disk, old) /\ Fail(r)
       \/ /\ CanRemove(ns[r], disk, old)
          /\ disk' = [q \in DOMAIN disk \ {old.path} |-> disk[q]]
          /\ ns' = [q \in Runs |-> LoseMountpoint(ns[q], old.path)]
          /\ pc' = [pc EXCEPT ![r] = "cwd"]
          /\ UNCHANGED <<job, kernel, at, cwd, met>>

(* landlockd_setup_runtime_cwd; then the workload starts.  The launcher is   *)
(* taken to have been started in "/".                                        *)
Cwd(r) ==
    LET p == job[r]
        place == Walk(ns[r], disk, IF p.cwd = None THEN <<>> ELSE p.cwd)
    IN
    /\ pc[r] = "cwd"
    /\ \/ Kind(ns[r], disk, place) # "dir" /\ Fail(r)
       \/ /\ Kind(ns[r], disk, place) = "dir"
          /\ pc' = [pc EXCEPT ![r] = "running"]
          /\ cwd' = [cwd EXCEPT ![r] = place]
          /\ UNCHANGED <<job, kernel, disk, at, ns, met>>

Killed(r) == Active(r) /\ Go(r, "killed", HostNs)

Next ==
    \E r \in Runs :
        \/ Start(r) \/ Preflight(r) \/ Namespace(r) \/ Tmpfs(r) \/ Bind(r) \/ Proc(r)
        \/ RootBind(r) \/ RootMkdir(r) \/ RootPivot(r) \/ RootDetach(r) \/ RootRmdir(r)
        \/ Cwd(r) \/ Killed(r)

Spec == Init /\ [][Next]_vars

---------------------------------------------------------------------------
(* Every mount of a run hangs in the tree of that run, and nothing changes   *)
(* on the disk but directories for an old root                               *)
(* (landlockd_setup_policy_mounts).                                          *)
TypeOK ==
    /\ \A r \in Runs :
        /\ pc[r] \in {"off", "probe", "namespace", "tmpfs", "bind", "proc", "root_bind", "root_mkdir",
                      "root_pivot", "root_detach", "root_rmdir", "cwd", "running", "refused", "denied",
                      "failed", "killed"}
        /\ \A i \in DOMAIN ns[r].mounts :
            LET m == ns[r].mounts[i] IN
            /\ m.parent \in 0..Len(ns[r].mounts)
            /\ m.parent = 0 => i = ns[r].root \/ m.made = <<"detached">>
            /\ m.parent # 0 => m.made # <<"detached">>
        /\ at[r] \in 1..(1 + Len(job[r].tmpfs) + Len(job[r].bind) + Len(job[r].proc))
    /\ \E d \in Disks : \A q \in DOMAIN d \cup DOMAIN disk :
        \/ q \in DOMAIN d /\ q \in DOMAIN disk /\ disk[q] = d[q]
        \/ \E r \in Runs : job[r].root # None /\ q = Append(job[r].root, OldRoot)

(* Fail closed: a workload with a runtime.root only starts when nothing of   *)
(* the host's tree outside that root can be reached, although other runs may *)
(* remove the directory the old root is put on at any moment                 *)
(* (landlockd_setup_runtime_root, lines 1796-1828).                          *)
OldRootGone ==
    \A r \in Runs : pc[r] = "running" /\ job[r].root # None =>
        /\ \A i \in DOMAIN ns[r].mounts :
             LET m == ns[r].mounts[i] IN
             m.made = <<"detached">> \/ m.fs # "disk" \/ IsPrefix(job[r].root, m.base)
        /\ cwd[r].mnt = ns[r].root /\ IsPrefix(job[r].root, cwd[r].path)

(* No path of the policy names the directory that landlockd makes itself.    *)
Plain(path) == \A i \in DOMAIN path : path[i] # OldRoot
PlainPolicy(p) ==
    /\ \A i \in DOMAIN p.tmpfs : Plain(p.tmpfs[i])
    /\ \A i \in DOMAIN p.bind : Plain(p.bind[i].source) /\ Plain(p.bind[i].target)
    /\ \A i \in DOMAIN p.proc : Plain(p.proc[i])
    /\ \A q \in p.rules \cup ({p.root, p.cwd} \ {None}) : Plain(q)
Reserved == \A r \in Runs : PlainPolicy(job[r])

(* What earlier runs left, ended or killed at whatever step, changes nothing *)
(* for a run that meets nobody on its root: it does not fail where another   *)
(* run with the same policy, alone or in company, gets through (the EEXIST   *)
(* of line 1796), unless a policy names the directory that runs make and     *)
(* remove.                                                                   *)
LoneRunsAgree ==
    Reserved => \A r, q \in Runs :
        pc[r] = "failed" /\ pc[q] = "running" /\ job[r] = job[q] => met[r]

(* The mount declared at path is the one a workload finds there. *)
Finds(r, path, made) ==
    LET place == Walk(ns[r], disk, path) IN place # Nowhere /\ ns[r].mounts[place.mnt].made = made

(* The mounts of a policy in the order they are made. *)
Declared(p) ==
    [i \in DOMAIN p.tmpfs |-> [path |-> p.tmpfs[i], made |-> <<"tmpfs", i>>, ro |-> FALSE]]
    \o [i \in DOMAIN p.bind |->
          [path |-> p.bind[i].target, made |-> <<"bind", i>>, ro |-> p.bind[i].read_only]]
    \o [i \in DOMAIN p.proc |-> [path |-> p.proc[i], made |-> <<"proc", i>>, ro |-> FALSE]]

(* Without a runtime.root the workload finds every mount that no later one   *)
(* covers, read-only where the policy says so, whatever runs beside it       *)
(* (landlockd_setup_policy_mounts).  One on "/" it does not find: the root   *)
(* of a process stays below what is mounted on it.                           *)
MountsInPlace ==
    Reserved => \A r \in Runs : pc[r] = "running" /\ job[r].root = None =>
        LET all == Declared(job[r]) IN
        \A i \in DOMAIN all :
            all[i].path # <<>> /\ (\A k \in (i + 1)..Len(all) : ~IsPrefix(all[k].path, all[i].path)) =>
                /\ Finds(r, all[i].path, all[i].made)
                /\ all[i].ro => ns[r].mounts[Walk(ns[r], disk, all[i].path).mnt].ro

(* The path of a mount inside runtime.root, as the workload names it. *)
Inside(root, path) == SubSeq(path, Len(root) + 1, Len(path))

(* "runtime.root pivots into the declared rootfs": the workload of           *)
(* tests/test_cli_root_pivot_live.c is started from a bind mount below the   *)
(* root.  A workload finds the bind mounts below its runtime.root.           *)
MountsInRoot ==
    \A r \in Runs : pc[r] = "running" /\ job[r].root # None =>
        \A i \in DOMAIN job[r].bind :
            LET target == job[r].bind[i].target IN
            IsPrefix(job[r].root, target) => Finds(r, Inside(job[r].root, target), <<"bind", i>>)

(* "mount.proc mounts proc inside the runtime root before exec"              *)
(* (tests/test_cli_root_pivot_live.c): a kernel that offers everything does  *)
(* not have such a policy refused by the preflight probe.                    *)
ProcInRoot ==
    \A r \in Runs : pc[r] = "refused" => ~(Needs(job[r]) \subseteq kernel)
=============================================================================
