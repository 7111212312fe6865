# A TLA+ verification of landlockd

landlockd runs a workload under a policy: Landlock layers and seccomp filters
confine it in the kernel, and a *broker* process answers, through seccomp user
notification, the few system calls the policy declares as exceptions. It runs
once from the command line, or as a daemon that caches loaded policies.

The modules here model the parts of it that are concurrent, that can fail
halfway, or that decide what a workload may do. TLC checks each of them on a
small instance; TLAPS proves the safety properties of all of them for every
value of the constants. Source paths below are relative to the repository
(`src/landlockd_exec.c` is the launcher and the broker).

## 1. Inventory

| Component | State | Operations | Modelled in |
|---|---|---|---|
| Launcher, `landlockd_run_policy_ir` | ruleset descriptors, socket pair, seccomp plans, child and broker processes, exit code | compile, fork, confine, execute, wait, stop the broker | `Launch` |
| Broker loop | the notify listener, one notification | receive the listener, fetch, answer, end | `Launch` |
| Static mounts | the child's mount namespace; `.landlockd-oldroot` on the disk | probe, namespace, tmpfs, bind, proc, root, cwd | `StaticMounts`; one step per stage in `Launch` |
| Mount broker | mount and fsopen leases, helper processes, mounts of the workload | `open_tree`, `fsopen`, `fsconfig`, `fsmount`, `mount`, `move_mount`, `mount_setattr`, `umount2` | `MountBroker` |
| Path broker | the policy's canonical path lists; the directories | `openat`, `mkdirat`, `unlinkat`, `renameat2`, `symlinkat`, `linkat` | `PathBroker` |
| Daemon policy cache | list of entries, counters | lookup, reload, evict, clean up | `PolicyCache`, against `PolicyStore` |
| Policy loader | pipes, helper process, buffer, IR being rebuilt | fork, wait, drain, parse | `PolicyLoad` |
| In-process loader, policy IR | the document; sections of rules | check and add an entry, init, reset, copy | `PolicyDoc`, `PolicyFile` |
| Rust helper, policy schema | none | a document is accepted, and what becomes of it | `PolicyHelperRs`, `PolicySchema`, compared in `PolicyParity` |
| Daemon serve loop, client protocol, socket activation | socket path, one client, the bytes read | listen, accept, authorise, read, run, reply, stop, exit | `DaemonServe` |
| Seccomp plans, BPF | lists of system calls | add, install | plans and installation in `Launch` |
| Landlock wrappers, ABI masks, compiler | none between calls | create, add rule, restrict | steps of `Launch` |
| Preflight, probes | none | ask the kernel | the mount probe in `StaticMounts`, the rest one step of `Launch` |
| CLI, audit log, TOML parsing, vendored libraries | none between calls | | not modelled |

How they interact. A client writes its request to the daemon's socket and waits
for one answer. The daemon (or the CLI) loads a policy through the loader,
which runs a helper process and reads its output from a pipe; the helper is the
in-process loader in a process of its own, or the Rust program. The launcher
forks the broker and the child; child and broker share a socket pair, over which
the child sends the listener of its notify filter. From then on broker and
workload interact through notifications: the broker reads arguments from the
workload's memory, decides, and either answers, installs a descriptor in the
workload, or forks a helper into the workload's mount namespace. The parent
waits for the child, then stops and reaps the broker.

What is hard. Three processes that wait for each other and may each fail at any
step; descriptors held by several processes, whose last close is what ends a
wait; a broker that checks a descriptor number or a path and uses it later,
while other processes of the workload go on; a cache stamped before the file is
read; two long functions that have to agree on a wire format, and two helpers
and a schema that have to agree on a document; a parent that waits for a child
that waits for the parent to read; daemons that take a socket path from each
other; runs that share a directory on the disk while their mounts are their own. `PROJECT.json` lists these under
`hazards`, each at its line.

What makes each part correct. *Launcher*: the workload runs fully confined or
not at all; every way out cleans up; success is never reported for a failure;
nobody waits for ever. *Mount broker*: mounts only where, of what, and as
writable as declared. *Path broker*: nothing outside the declared roots is
changed or opened. *Cache*: no different from reading the file each time.
*Loader*: the policy of the file, or an error and nothing, whichever
helper reads it. *Daemon*: what runs is what the client asked for, within the
limits, and every client gets an end. *Static mounts*: with a runtime root the
host's tree is out of reach before the workload starts.

## 2. Modules

Each component is a module with its properties at the end; `MC<module>` and a
`.cfg` give TLC an instance; `<module>Proofs` holds theorems. Operators whose
comment begins with "A mutant" or "Mutant" are plausible mistakes: replacing a definition by
one of them must make a property fail, which shows the property has teeth.

### Launch

One run, with three processes. `ppc`, `child` and `broker` are their program
counters. `rulesets`, `netfd`, `sock0`, `sock1`, `listener` and `inflight` say who holds
each descriptor; closing is leaving the set, and a peer that waits on a socket
nobody else holds sees end of file. `mounted`, `nnp`, `denied`, `notified`,
`restricted` and `netOn` record the confinement the kernel really has in force;
the plans are what the parent decided to ask for. Each setup action has an
outcome in which its system call fails and the code's error path runs: `ReturnFailure`
in the parent, `ChildFails` in the child, `BrokerEnds` in the broker.
`landlockd_setup_policy_mounts` is one action per stage;
`landlockd_apply_policy_in_child` is `SetNoNewPrivs`, `InstallDenylist`,
`InstallNotify`, `SendListener`, `CloseListener`, `CloseBrokerSock`, `RestrictLayer`,
`RestrictNet` and `Exec`, in that order. The listener is handed over in three steps of
the child, during which the broker may receive it, fail to, or end: between its
`sendmsg` and its `close` the child holds the listener beside the socket pair or the
broker. `OneListener` says that this is the only time it has two holders, and that
the child has none once the first restriction is in force.
Once the notify filter is in, the workload may at any time make a notified call,
be interrupted in it, or exit. A system call is a member of a group (`mount`,
`open`, `path`, `listed`): which numbers a group holds decides nothing here. What
handlers decide is the matter of the next two modules.

### MountBroker

The handlers of the mount system calls, both lease tables, and the helper
processes, for a workload of several processes. A descriptor refers to one of
nothing, a file of the workload, an fsopen token, a cloned tree or an object
mount. A request that is refused changes nothing, with two exceptions that are
modelled: `move_mount` spends the lease before it looks at the rules, and `fsmount`
its token. A request that needs a helper process is a `job` the broker works on in steps,
each of which may fail: `HelperClones` and `HelperCreates` fetch a descriptor, which
`ReplyAddFd` installs; `DupTraceeFd`, `HelperMounts` or `HelperMountsTmpfs`, `HelperReadOnly`
and `HelperAttaches` make a mount. Between the steps the workload's processes replace
descriptors (`Reuse`). `HelperFails` is `landlockd_broker_wait_helper` for a helper that
did not exit with 0. For one killed by a signal it leaves `errno` as an earlier call
set it; the model takes that value not to be 0, with which the workload would be told
of success. `disturbed` remembers that a handed-out number came to
mean something else; the property about pairs holds only without this, since leases
know numbers and not what is behind them. The first matching rule is taken by the code; the
model takes any matching rule, which allows more.

### PathBroker

The handlers of the path system calls over a small filesystem of directories,
files and symbolic links. `Reach` is `realpath` of a directory with a bound on the
links followed; `Final` follows the last component too. The target of a link is
absolute, or relative to the directory of the link, and may go up and end there
(`Place` is where a directory is); `ScratchParent`,
`OldParent` and `NewParent` are the checks on the canonical parent. The last component is
never followed when something is created, removed or opened in a scratch root. A
file created by an open stays also when its descriptor cannot be handed over. A
handler is one action: the broker is serial, and the module takes the broker to
be the only one that changes these directories. `Protected` are the nodes
in no scratch or export root. The assumptions on it say that the filesystem found at
the start is a tree as far as they go: a protected node has a name, and only in
protected directories.

### PolicyStore and PolicyCache

`PolicyStore` is what a client is promised: the policy that runs is what the
file held at one moment of the request. `PolicyCache` is the daemon's list with
its stamps, its reset of stale entries in place (which leaves a nameless entry when
the reload fails), its eviction before the load, and its counters, with files edited
between any two steps. A stamp stands for device, inode, size and
mtime, and each edit gives a stamp the file never had: an edit that the
clock cannot tell from the one before is outside the model. `Transparent` is the refinement.

### PolicyLoad

`landlockd_policy_load_file` with the helper. A policy is a sequence of entries
for each of 18 sections; the wire is a sequence of words. `Encode`, `Header` and
`BodyWords` are `write_ir`; `SectionAt` and the operators before it are
`load_ir_from_wire`, with the checks the IR's add functions make. A text is one word after its
length, which is 0 or 1, since only emptiness is ever tested. `Half` stands for
2^32, where the attribute mask of an object is split in two words, and is small
so that masks on both sides of it occur. `Ports`, `MaxErrno` and `MaxSyscall` stand for
2^16, 4095 and `INT32_MAX`: the reader takes a port modulo the first (`NetRuleAt`) and
refuses an errno (`ValueOk`) or a system call (`DenyAt`) beyond the others. `EntryOf` is an
entry as the in-process loader and the checks of `landlock_policy_ir.c` leave it, in these ranges;
`EntryAt` reads one of a section, and
`Repeat` as many as the header says. The helper may fail to execute, reject the file, be
killed, be another version, stop after any word of the wire with exit status 0, or write one
word too many. A helper that writes the well-formed wire of another policy is believed by
the code and is not in the model.

### PolicyDoc, PolicyFile, PolicyHelperRs, PolicySchema, PolicyParity

`PolicyDoc` is a parsed document: a tree of tagged values, with the accessors of
the TOML library, which return nothing for a key of another type. `PolicyFile` is
the in-process loader: `EntryOk` collects the checks of the `load_` functions,
`Entry` builds the entry, `AddOk` is what the IR's add functions refuse, and one
action loads one entry, so that a refusal or a failed allocation can come after
any of them. `Copy` and the actions after it are `landlockd_policy_ir_copy`.
`PolicyHelperRs` is the Rust helper as a function: `Visited` gives every struct that
is written as an array its keys, as the derived `Deserialize` does, `FromStr` asks for serde's
types, then `build_ir` follows. `PolicySchema` is the JSON schema as a predicate. `PolicyParity`
states what they owe each other. `HelpersAgree` goes one way, from the Rust helper to the C
loader, and is about documents in which no array stands for a struct (`Keyed`). The
other way is false: the Rust helper refuses empty broker lists and sections of
another type, which the C loader passes over. And with `runtime = ["/r", "/c"]` the Rust helper
has a root where the C loader sees no table. `result` tells a load (`loaded`) from a
copy (`copied`), so that `SchemaEnforced` is about loads only. Texts are known by three questions only: empty,
absolute, with a slash.

### DaemonServe

Daemons `1..NDaemons`, each started once, and clients that are landlockd itself
(`checked`: it tests the limits first) or another program, of the same user or
not. `path` is the daemon whose socket the path names; with `activated` systemd
holds the listener, and what waits there survives a daemon. `UnlinkPath`, `BindPath` and
`ListenPath` are `landlockd_daemon_listen_path`: between the last two connecting is
refused, and each of them may fail (`ListenPathFails`), before or after the path was
unlinked. A connection is the
sequence of words written and not yet read: header, letters, lengths. The daemon's
reads are one action each, `total` is `total_bytes` with its width (`Wrap` for
2^32). Writing to a peer that has closed is SIGPIPE, whose default action ends the
process (`sigpipe`). `shared` remembers that two daemons were alive at
once. The policy lookup is `PolicyCache`, the run `Launch`: here each is one step.
`getsockopt(SO_PEERCRED)` is taken to succeed.

### StaticMounts

The child's mounts, with several runs at a time. A namespace is a tree of mounts;
`Walk` resolves a path through it name by name (`Enter`), from each place on to the
topmost mount over it (`Follow`). `BindMount`, `Detach`, `PivotRoot` and
`LoseMountpoint` are the kernel's operations (external), the last being that removing
a directory ends mounts on it in other namespaces; `CanPivot` and `CanRemove` are the
kernel's conditions on `pivot_root` (the new root is a mount, and not the root
already) and on `rmdir` (an empty directory, nothing mounted on it here). Taking a
mount away takes what is mounted below it (`Below`, the least set closed under
children). The disk is shared by the runs; `landlockd_setup_runtime_root` is five
actions (`RootBind` to `RootRmdir`), since other runs on the same root interfere
between them. `met` remembers that another run was active on the same root. `ProbeOk`
is the mount probe in its own order. The policies are those whose `runtime.root` lies
on the disk itself, not below a tmpfs, bind or proc mount of the same policy
(`PolicyOk`). A policy may name `.landlockd-oldroot` in a path of its own; then other
runs remove what it uses, and `LoneRunsAgree` and `MountsInPlace` do not hold. They
are stated for policies that do not (`Reserved`), and the instance has both sorts.
`LoneRunsAgree` says that a run which failed where another with its policy got through
has met somebody itself: that the other one did is no excuse. Two disagreements with
the live test of runtime roots are kept as runs of their own (below).

## 3. Runs

| Run | Checks | Instance | Distinct states |
|---|---|---|---|
| `launch` | `TypeOK`, `Confined`, `NothingLeft`, `SuccessIsReal`, `OneListener`, `RunReturns`, `CallAnswered` | all mixes of 0 to 2 layers, network, broker lists, deny list, four mixes of mounts; exit codes 0 and 3 | 94,232 |
| `policy_cache` | `TypeOK`, `Accounting`, `UniqueNames`, `Transparent` | 3 files, 2 valid texts and a rejected one, 2 entries, 3 edits, 5 requests served | 600,827 |
| `mount_broker` | `TypeOK`, `DeclaredTargets`, `PairsDeclared`, `OneMovePerGrant`, `ReadOnlyMounts` | 2 processes with 2 descriptors, 2 bind rules, a tmpfs, an object, 2 grants, 1 token, 2 mounts, 1 reuse | 4,482,042 |
| `path_broker` | `TypeOK`, `Untouched`, `OpenDeclared`, `PublishedStays` | 8 nodes of which 3 are to be created, 2 names, an absolute and a relative link target, 2 links followed | 74,148 |
| `policy_load` | `TypeOK`, `FaithfulLoad`, `AllOrNothing`, `NothingLeft` | every pair of sections with one or two entries, two helper versions | 489,386 |
| `policy_load_returns` | `LoadReturns` | three policies, one larger than the pipe | 3,786 |
| `policy_file` | `TypeOK`, `WholeDocument`, `CopyComplete`, `HelpersAgree`, `WireReady` | documents with one or two of six sections, each section in 12 to 63 variants, good and bad | 185,835 |
| `daemon_serve` | `TypeOK`, `Delivered`, `LimitsAgree`, `OnlyLeaversHurt`, `Reachable`, `ClientReturns` | 2 daemons, 2 clients, 10 requests beside one to stop, limits of 7 words, 6 environments | 723,924 |
| `static_mounts` | `TypeOK`, `OldRootGone`, `LoneRunsAgree`, `MountsInPlace` | 3 runs, 23 mixes of policies, a disk of 6 names with and without an old-root directory left from before, 3 kernels | 249,976 |
| `schema_enforced`, `mounts_in_root`, `proc_in_root` | one property each, violated | as above | |

The last three runs show where the code does not do what the repository says of
it. `SchemaEnforced`: the schema claims that the loader enforces the same
constraints, but a key of the wrong type is read as absent: the trace is a load of
`broker.scratch = "/a"`, a string in place of an array, which gives a policy without that root,
and `[fs_layer]` in place of `[[fs_layer]]` likewise gives one without layers. `MountsInRoot`: mounts
declared below `runtime.root` are made first, then the root is bound onto itself
without `MS_REC`, which leaves them behind. `ProcInRoot`: the preflight probe
enters a new root and then tries tmpfs and proc by paths of the old one, so that
a policy with both is refused everywhere. `tests/test_cli_root_pivot_live.c`
expects the contrary of the last two. `findings` in `PROJECT.json` has the lines.

Why the bounds suffice. `launch`: two layers make the loop over layers fail in
the middle with something to close, and the policies include each branch alone
and combined; the broker answers any number of calls, so nothing is bounded there.
`policy_cache`: three files in two entries force eviction with a stale or nameless
entry in either place; one request needs at most one stale reload, one failure and
one edit in between, and three edits allow these in sequence. `mount_broker`: one
source that is read-only at one target and writable at another, two grants that
can meet under one number in two processes, and one replacement at the worst
moment. `path_broker`: three new nodes allow a link, a directory moved from under
it and a file; two followed links allow a link through a link, and the relative target,
which leads through the new directory and up again, is another file wherever the
link is moved. `policy_load`:
the sections are read one after the other from an offset, so that a
disagreement shows in the section itself or in the one after it; the entries include
the largest port, errno, system call and attribute mask. `policy_file`: the
loader treats sections one after the other and an entry by itself, so pairs of
neighbouring sections and lists of two suffice; each check has a document on
either side of it. `daemon_serve`: a killed or stopping daemon with a successor
beside or after it needs two; one client is served while the other waits. A request
of exactly 7 words, one of 8 and one whose sum wraps at 16 stand at the limits.
`static_mounts`: the directory for the old root is made, used and removed by one
run in three steps, which two others can interrupt; a killed run leaves it to a
third. Among the policies are a root that is `/`, a root inside the directory others remove, a mount
on it, and a mount on `/`.

Symmetry is used in `policy_cache` (files, valid texts) and in `mount_broker`
(processes), neither of which checks liveness or names one of them. Deadlock is
checked in `launch`, `mount_broker` and `policy_file`. It is not in the others: after a stop, a
return, or when the bound on requests or nodes is reached, nothing is left to do.

### Fairness

`Launch!Spec` assumes that the scheduler runs the parent, the child's setup and the
broker, that a pending SIGTERM is delivered, that a handler returns, and that
the kernel releases a call once no listener exists. It assumes nothing of the
workload, which may run for ever (hence the first disjunct of `RunReturns`), and nothing
of `BrokerRecvEnds`: older kernels do not wake a broker when the last
task using the filter is gone, so the parent's SIGTERM has to be enough.
`PolicyLoad!FairSpec` assumes that both processes run. `DaemonServe!Spec` assumes
that a daemon and a client that can go on do, and that workloads end; nobody has
to be started or killed. No strong fairness is used.

`ClientReturns` is conditional for sockets held by systemd: when the last daemon
has gone, a waiting client waits until another is started. A client that connects
and stays silent, which is not in the model, would block the daemon for ever: it
reads without a timeout.

`LoadReturns` is stated for policies that fit into the pipe. For larger ones the
caller waits in `waitpid` and the helper in `write`; the code has no way out of
that, and the instance holds such a policy.

## 4. Proofs

All proofs are about the specification without fairness. The assumptions are
those named in the modules, which TLC evaluates on each run. They say what the
constants are (`ExitCodesAssumption`, `CacheAssumption`, `RulesAssumption`,
`PathsAssumption`, `NoneAssumption`, `TextAssumption`, `PoliciesAssumption` of
`Launch`) and, beyond that: in `PathBroker`, that the directories found at the start
form a tree as above (`ProtectedAssumption`) and that an export root exists, in a protected
directory, apart from the scratch roots (`ExportAssumption`); in `DaemonServe`,
that the limits leave room below 2^32 for one more argument (`LimitAssumption`) and that
landlockd as a client sends the magic and a command it knows (`AskingAssumption`);
in `PolicyFile`, that integers of a document are numbers and its arrays
sequences, as deep as the loader looks (`DocumentAssumption`); in `PolicyLoad`, that a policy
the helper sends has passed the checks of the IR's add functions
(`PoliciesAssumption`), which `AlwaysWireReady` below establishes of what
the in-process loader builds; in `StaticMounts`, that `/` exists and `runtime.root` lies on
the disk as above (`JobAssumption`).

Most of the arguments about sequences and paths are inductions on a length. They are
made on sets of natural numbers: the set of lengths at which a statement fails has
a least element, by the library's theorem on well-founded orders, which is then
shown not to exist.

**LaunchProofs** proves `TypeCorrect`, `AlwaysConfined`, `NeverLeaks`, `SuccessReal`
and `SingleListener` for every set of policies. `Confined` is not inductive: it says
nothing before the workload runs. The invariant `IInv` states for each program
counter of the child how much of the confinement is in force, that the plans the
child inherited are those of the policy, and, for each counter of the parent, what
it holds and which processes exist. The listener is tied to the counters: the child
holds it only between installing the filter and closing it, the socket pair and the
broker only after the child sent it, and never both of these. One lemma per action shows that `IInv` is preserved.

**PolicyCacheProofs** proves `AlwaysAccounted`, `AlwaysUnique` and
`CacheIsTransparent`, the last being the refinement of `PolicyStore` for any number
of files, entries and edits. The strengthening is that an entry whose
stamp is the one the file has now holds what the file holds now, and that no stamp
exceeds the number of edits: an entry filled after an edit
carries a stamp older than that edit, and can never match again. While a request
loads, the entry it reloads is nameless and no other entry has its name.

**MountBrokerProofs** proves all properties of `MountBroker` for any rules,
processes and descriptors. The invariant says of each mount that it satisfies the
three properties, of each lease that it was given for a descriptor handed out,
of the job in progress that its target is declared and its read-only duty decided,
and, as long as nothing was disturbed, that a leased number refers to what it was
leased for in every process that has it.

**PathBrokerProofs** proves `TypeCorrect`, `RootsConfine` (`Untouched`),
`OpensDeclared` and `PublicationsStay` (the action property `PublishedStays`) for any
finite filesystem and any declared roots. The handlers compare canonical paths, and the
properties speak of nodes; between them stands an invariant of the tree. No node
that was there at the start changes its kind (`KindsStay`); no entry outside `Protected`
comes to point into it (`Sealed`), or to be another name of an export root (`ExportsApart`). From these
follows, by induction on the length of a path, that a walk through protected
directories gives what it gave at the start, so that a declared root still names the same
directory, and that a canonical path under a root leads to a node outside
`Protected`. Each handler then changes entries of such nodes only.

**DaemonServeProofs** proves `TypeCorrect`, `AlwaysDelivered`, `LimitsAlwaysAgree`,
`LeaversOnly` and `AlwaysReachable` for any number of daemons, clients and requests and any
limits. `Reachable` alone is not inductive: a daemon about to bind has to find
nothing at the path, which holds because the one that could have put something there
is not alive. `PathInv` says that, unless two daemons have met, at most one is
alive. The other four share an invariant in five parts. `PlaceInv`: a connection
is in one queue or with one daemon. `CallInv` and `PeerInv`: who can have closed
it and who can have answered, at each program counter. `FrameInv`: what lies
unread is what the client writes, from the word the daemon has come to up to
the word the client has sent, cut where the client left. `CountInv`: what was read is a prefix
of the request, `total` is its exact sum, and the sum cannot have wrapped since every length
was tested before it was added. `AnswerInv`: what ran is the request, and each answer other than
success has its cause. A step of a daemon is reduced to one of three shapes
(nothing held, connection given up, one word further), a step of a client to the change it
makes to its own stream, so that each part is shown for a shape and not again
for every action.

**PolicyFileProofs** proves `TypeCorrect`, `AlwaysWhole`, `CopiesComplete`,
`AlwaysWireReady` and `HelpersAlwaysAgree` for every set of
documents. The first three speak of a call that has
returned; the invariant says where a call in progress is: the sections before the
current one are whole, of the current one there are the first `item` entries, the
later ones are empty, and the same of the copy. While an IR is being loaded
nothing was copied; a failing call always passes through the reset. For `WireReady`
`CheckInv` adds that each entry in the IR passed its checks when it was
added, and `Ready` is what a checked entry guarantees, section by section.
For `HelpersAgree` the checks of the Rust helper are shown, section by section, to imply
those of the loader, and the entries the two build to be equal, for a document that
`Visited` leaves as it is.

**PolicyLoadProofs** proves `TypeCorrect`, `LoadsFaithfully` (`FaithfulLoad`),
`FailureChangesNothing` and `NeverLeaks` for every set
of policies in the ranges of `EntryOf`, wire version and pipe size. For the last two the invariant says at each program counter
of the caller which pipe ends are open and what has become of the helper: it runs
only while the caller waits for it. Only a call whose `out_ir` was empty gets past
its first test, so that emptying it restores it. `FaithfulLoad` needs that
`load_ir_from_wire` inverts `write_ir`. `Fits` says it of one read: where the words written for
a value begin, the read succeeds exactly if all of them are there, and yields
the value and the offset after them. For a port, an errno and a system call this is where
the ranges are needed: a larger one is cut or refused. It holds of a word and of a text, passes from two reads to their
sequence, and by induction to a counted list (`RepeatFits`); `EntryFits`,
`SectionFits` and `HeaderFits` assemble the format from these. The invariant of the
transfer is then short: the pipe holds the wire up to the part written last (`Sofar`), a
beginning of the wire that ends within a part, or the whole wire and a word too many; the buffer begins as the wire does; the caller's offset
is the length of the header and the sections read, and these are the policy's.

**StaticMountsProofs** proves `TypeCorrect`, `OldRootAlwaysGone`,
`LoneRunsAlwaysAgree` and `MountsAlwaysInPlace` for any number of runs, any policies,
disks and kernels. There are two invariants. `Inv` is about one run at a time: the
shape its namespace has at each program counter. Until the root is bound the host's
mount is the root and every other mount hangs below it, none of them on the way to
`runtime.root` (`Early`). Then there is one more, of the root directory onto itself,
unless it was taken away (`Bound`). After `pivot_root` that one is the root, and the
host's tree hangs on the directory for the old root, unless it was taken away
(`Pivoted`). After `umount2` nothing but the new root is attached (`Alone`).
`DiskKept` says that the disk differs from the one at the start in directories for an
old root only. Other runs interfere through `LoseMountpoint`: it can take the root's
mount away, which makes the run fail at `pivot_root`, or the host's tree, which makes
it fail at `umount2`; it cannot attach anything, so a run past `RootDetach` has
nothing of the host's tree. That `Follow` and `Walk` end where they should is shown by
induction on the number of mounts and on the length of a path.

`History` relates runs to one another. Two runs on one root that are active at the
same time have met (`Company`). Where no policy names the directory for an old root
(`Reserved`), what a run mounts, and whether a mount fails, is determined by the
policy and by the disk without such directories (`Clean`): `Past` is the sequence of
namespaces a policy goes through there, and each run is somewhere on it (`Sofar`). A
run that met nobody has its directory and its old root until it takes them away
itself, and where it failed, it failed for a reason that every run of its policy has
(`Smooth`, `Fails`); the lemma `Conflict` is that no run of a policy with such a
reason gets through. This gives `LoneRunsAgree`. The same sequence gives
`MountsInPlace`: a mount just made is what a walk to its path finds, and a later one
that is not at or above that path leaves that walk as it was (`Placed`).

Only model-checked: liveness (`RunReturns`, `CallAnswered`, `LoadReturns`,
`ClientReturns`), which needs ENABLED, and the three runs that end in a violation. Every
invariant and action property of the other runs is a theorem.

## 5. Not modelled, and why

- The command line and the audit log are sequential, keep no state between calls
  and print; the TOML parser is third-party code, of which only the accessors
  are modelled.
- Numbers of system calls, BPF programs, Landlock access masks per ABI: data
  that decides no control flow of the parts above.
- Path text: a path is a sequence of names, or a model value. The comparison of
  `landlockd_path_is_under`, for which a root of `/` covers only itself, is in
  `StaticMounts`; in `PathBroker` roots are directories of a tree.
- The Rust helper's own `write_ir`: `PolicyLoad` has the C one.
- A workload that is a client of the daemon it runs under, and silent clients.
- The content of `errno` in replies, and the wording of diagnostics. The one place where
  it decides something, a helper killed by a signal, is an assumption of `MountBroker`.
- A policy helper that writes another policy in good form.
- Reuse of process numbers after a notified task has died, a second writer in
  the scratch directories, a handler that blocks (a FIFO): see the plan.

## 6. Plan

Done in this order: `Launch`, `PolicyCache`, `MountBroker`, `PathBroker`,
`PolicyLoad` and the proofs of the first three; then `PolicyFile` with its
neighbours, `DaemonServe`, `StaticMounts` and the proofs of `Reachable`,
`WholeDocument`, `CopyComplete`, and of `AllOrNothing` and `NothingLeft` of
`PolicyLoad`; then the proofs of every property of `PathBroker`, of the remaining safety
properties of `DaemonServe` and `PolicyLoad`, and of `WireReady` and `HelpersAgree`; then those of
`StaticMounts`, together with the kernel's conditions on `pivot_root` and `rmdir`; then the
single steps of handing over the listener and of taking a socket path, the helper processes of
the mount broker, relative links, the ranges of the wire reader and serde's arrays. To come:

1. `Notify`: notification identifiers, tasks that die or are interrupted while
   the broker works, and the restart of a call already performed.
2. A second version of `PathBroker` in which resolving and opening the parent are
   two steps and another process may change the directories between them.
3. `Seccomp`: the filter program as an operator, checked against the plan.
4. `Run`, an abstract specification of one run (confined, then executed, then
   answered), with `Launch` shown to implement it; `Launch` and the brokers composed.
