------------------------------- MODULE Launch -------------------------------
(* One run of a workload under a loaded policy: landlockd_run_policy_ir in   *)
(* src/src/landlockd_exec.c.  Three processes take part:                     *)
(*                                                                           *)
(*   parent  compiles the rulesets, forks the broker and the child, waits    *)
(*           for the child, kills and reaps the broker, returns an exit code *)
(*   child   sets up mounts, installs the seccomp filters, hands the notify  *)
(*           listener to the broker, restricts itself layer by layer, and    *)
(*           finally executes the workload                                   *)
(*   broker  receives the listener and answers the notified system calls     *)
(*                                                                           *)
(* Every system call of a setup step may fail.  What the kernel does with    *)
(* descriptors is modelled by who holds each end: a socket end or listener   *)
(* that nobody holds is closed.                                              *)
EXTENDS Naturals, FiniteSets

CONSTANTS
    Policies,     \* the loaded policies (struct landlockd_policy_ir) to run
    ExitCodes     \* the exit codes a workload may choose

(* The mount work a policy may ask for, in the order the child performs it.  *)
MountStages == <<"namespace", "tmpfs", "bind", "proc", "root", "cwd">>
StageNames == {MountStages[i] : i \in 1..6}

(* What run_policy_ir looks at in a policy: the number of filesystem layers, *)
(* whether the network is restricted, which broker lists are not empty       *)
(* ("open": read or write paths, "scratch": scratch or export roots,         *)
(* "mount": any broker mount rule), the static mounts and the working        *)
(* directory, and the seccomp deny list ("overflow": more rules than a       *)
(* plan of LANDLOCKD_SECCOMP_MAX_EXCEPTIONS entries takes).                  *)
PolicyType ==
    [layers : Nat, net : BOOLEAN, broker : SUBSET {"open", "scratch", "mount"},
     mounts : SUBSET {"tmpfs", "bind", "proc", "root", "cwd"},
     deny : {"none", "some", "overflow"}]

ASSUME PoliciesAssumption == Policies \subseteq PolicyType
ASSUME ExitCodesAssumption == ExitCodes \subseteq 0..255

VARIABLES
    policy,       \* the policy of this run
    ppc,          \* the parent's program counter
    rulesets,     \* the filesystem layers whose ruleset fd the parent holds
    netfd,        \* the parent holds the network ruleset fd
    notify_plan,  \* the groups of system calls in the notify plan ...
    deny_plan,    \* ... and in the deny plan
    rc,           \* the exit code landlockd_run_policy_ir returns
    sock0,        \* the processes holding broker_socks[0] ...
    sock1,        \* ... and broker_socks[1]
    listener,     \* the processes holding the notify listener
    inflight,     \* the listener is queued on the socket pair, not received
    broker,       \* the broker's program counter
    term,         \* SIGTERM is pending for the broker
    child,        \* the child's program counter
    status,       \* the child's wait status
    mounted,      \* the mount stages the child has completed
    nnp,          \* the child runs with no_new_privs
    denied,       \* the groups of system calls its deny filter refuses ...
    notified,     \* ... and those its notify filter sends to the broker
    restricted,   \* the filesystem layers it has restricted itself with
    netOn,        \* it has restricted its network access
    call          \* its notified system call: none, waiting, or being served

parentVars == <<ppc, rulesets, netfd, notify_plan, deny_plan, rc>>
fdVars == <<sock0, sock1, listener, inflight>>
brokerVars == <<broker, term>>
confVars == <<mounted, nnp, denied, notified, restricted, netOn>>
childVars == <<child, status, confVars>>
vars == <<policy, parentVars, fdVars, brokerVars, childVars, call>>

---------------------------------------------------------------------------
(* What a policy asks for.                                                   *)

Brokered == policy.broker # {}
MountBroker == "mount" \in policy.broker
MountNamespace == policy.mounts \ {"cwd"} # {} \/ MountBroker

(* The stages of landlockd_setup_policy_mounts this policy goes through.     *)
Stages == policy.mounts \cup (IF MountNamespace THEN {"namespace"} ELSE {})

(* The plans as they stand before the policy's own deny rules are added: a   *)
(* private mount namespace has its mount system calls either brokered or     *)
(* denied, never left to the workload.                                       *)
NotifyPlan ==
    (IF MountBroker THEN {"mount"} ELSE {})
        \cup (IF Brokered THEN {"open"} ELSE {})
        \cup (IF "scratch" \in policy.broker THEN {"path"} ELSE {})

(* Mutant: without a mount broker the mount system calls are in no plan.     *)
DenyPlanEmpty == {}
DenyPlan == IF MountNamespace /\ ~MountBroker THEN {"mount"} ELSE {}

Exited(n) == [how |-> "exited", code |-> n]
Signaled(n) == [how |-> "signaled", code |-> n]
Unknown == [how |-> "unknown", code |-> 0]
StatusType == [how : {"exited", "signaled", "unknown"}, code : 0..255]
SIGPIPE == 13
SIGKILL == 9

(* Mutant: the raw wait status is returned, without WEXITSTATUS.             *)
StatusToExitCodeRaw(s) == IF s.how = "exited" THEN 256 * s.code ELSE s.code

(* Mutant: WEXITSTATUS without WIFEXITED; it is 0 for a killed process.      *)
StatusToExitCodeUnchecked(s) == IF s.how = "exited" THEN s.code ELSE 0

(* landlockd_status_to_exit_code *)
StatusToExitCode(s) ==
    CASE s.how = "exited" -> s.code
      [] s.how = "signaled" -> 128 + s.code
      [] OTHER -> 1

Alive(pc) == pc \notin {"none", "zombie", "reaped"}

(* The filter's listener still exists: somebody may answer.                  *)
ListenerOpen == listener # {} \/ inflight

ParentTypeOK ==
    /\ policy \in Policies
    /\ ppc \in {"preflight", "compile_fs", "compile_net", "allowlist", "plans",
                "fork_broker", "deny_rules", "fork_child", "wait_child",
                "stop_broker", "wait_broker", "returned"}
    /\ rc \in 0..255

PlanTypeOK ==
    /\ rulesets \subseteq 1..policy.layers
    /\ netfd \in BOOLEAN
    /\ notify_plan \subseteq {"mount", "open", "path"}
    /\ deny_plan \subseteq {"mount", "listed"}

FdTypeOK ==
    /\ sock0 \subseteq {"parent", "broker"}
    /\ sock1 \subseteq {"parent", "broker", "child"}
    /\ listener \subseteq {"child", "broker"}
    /\ inflight \in BOOLEAN

BrokerTypeOK ==
    /\ broker \in {"none", "start", "recv_fd", "loop", "serve", "zombie", "reaped"}
    /\ term \in BOOLEAN
    /\ call \in {"none", "waiting", "served"}

ChildTypeOK ==
    /\ child \in {"none", "mounts", "nnp", "denylist", "notify", "send_fd",
                  "close_listener", "close_sock", "layers", "net", "exec", "run",
                  "zombie", "reaped"}
    /\ status \in StatusType

ConfTypeOK ==
    /\ mounted \subseteq StageNames
    /\ nnp \in BOOLEAN
    /\ denied \subseteq {"mount", "listed"}
    /\ notified \subseteq {"mount", "open", "path"}
    /\ restricted \subseteq 1..policy.layers
    /\ netOn \in BOOLEAN

TypeOK ==
    /\ ParentTypeOK /\ PlanTypeOK /\ FdTypeOK
    /\ BrokerTypeOK /\ ChildTypeOK /\ ConfTypeOK

Init ==
    /\ policy \in Policies
    /\ ppc = "preflight"
    /\ rulesets = {} /\ netfd = FALSE
    /\ notify_plan = {} /\ deny_plan = {}
    /\ rc = 1
    /\ sock0 = {} /\ sock1 = {} /\ listener = {} /\ inflight = FALSE
    /\ broker = "none" /\ term = FALSE
    /\ child = "none" /\ status = Unknown
    /\ mounted = {} /\ nnp = FALSE /\ denied = {} /\ notified = {}
    /\ restricted = {} /\ netOn = FALSE
    /\ call = "none"

---------------------------------------------------------------------------
(* The parent.                                                               *)

(* Mutant: an early return that leaves the network ruleset open.             *)
ReturnFailureLeaking ==
    ppc' = "returned" /\ rulesets' = {} /\ rc' = 1 /\ UNCHANGED netfd

(* Every early return: close what is open and return 1.                      *)
ReturnFailure ==
    /\ ppc' = "returned"
    /\ rulesets' = {}
    /\ netfd' = FALSE
    /\ rc' = 1

(* landlockd_run_preflight: kernel features, probed before anything is held. *)
Preflight ==
    /\ ppc = "preflight"
    /\ \/ ppc' = "compile_fs" /\ UNCHANGED <<rulesets, netfd, rc>>
       \/ ReturnFailure
    /\ UNCHANGED <<policy, notify_plan, deny_plan, fdVars, brokerVars, childVars, call>>

(* landlockd_exec_compile_fs: one ruleset per layer; when creating a ruleset *)
(* or adding one of its rules fails, landlockd_exec_cleanup_fs closes those  *)
(* already created.                                                          *)
CompileFs ==
    /\ ppc = "compile_fs"
    /\ \/ \E i \in (1..policy.layers) \ rulesets :
            /\ i = Cardinality(rulesets) + 1
            /\ rulesets' = rulesets \cup {i}
            /\ UNCHANGED <<ppc, netfd, rc>>
       \/ /\ rulesets = 1..policy.layers
          /\ ppc' = "compile_net"
          /\ UNCHANGED <<rulesets, netfd, rc>>
       \/ rulesets # 1..policy.layers /\ ReturnFailure
    /\ UNCHANGED <<policy, notify_plan, deny_plan, fdVars, brokerVars, childVars, call>>

(* landlockd_exec_compile_net *)
CompileNet ==
    /\ ppc = "compile_net"
    /\ \/ /\ netfd' = policy.net
          /\ ppc' = "allowlist"
          /\ UNCHANGED <<rulesets, rc>>
       \/ policy.net /\ ReturnFailure
    /\ UNCHANGED <<policy, notify_plan, deny_plan, fdVars, brokerVars, childVars, call>>

(* landlockd_broker_allowlist_init: the declared paths are canonicalised.    *)
AllowlistInit ==
    /\ ppc = "allowlist"
    /\ \/ ppc' = "plans" /\ UNCHANGED <<rulesets, netfd, rc>>
       \/ ReturnFailure
    /\ UNCHANGED <<policy, notify_plan, deny_plan, fdVars, brokerVars, childVars, call>>

(* The notify and deny plans, and the socket pair when the run needs a       *)
(* broker.  These plans hold at most 16 of the 32 entries, so only           *)
(* socketpair can fail.                                                      *)
BuildPlans ==
    /\ ppc = "plans"
    /\ notify_plan' = NotifyPlan
    /\ deny_plan' = DenyPlan
    /\ \/ /\ ~Brokered
          /\ ppc' = "deny_rules"
          /\ UNCHANGED <<rulesets, netfd, rc, sock0, sock1>>
       \/ /\ Brokered
          /\ ppc' = "fork_broker"
          /\ sock0' = {"parent"} /\ sock1' = {"parent"}
          /\ UNCHANGED <<rulesets, netfd, rc>>
       \/ Brokered /\ ReturnFailure /\ UNCHANGED <<sock0, sock1>>
    /\ UNCHANGED <<policy, listener, inflight, brokerVars, childVars, call>>

(* Mutant: the parent keeps its copy of the broker's end.                    *)
ForkedSocksKept == sock0' = {"parent", "broker"} /\ sock1' = {"parent", "broker"}

(* After the fork both processes hold both ends; the parent closes           *)
(* broker_socks[0] at once.                                                  *)
ForkedSocks == sock0' = {"broker"} /\ sock1' = {"parent", "broker"}

(* Fork the broker. *)
ForkBroker ==
    /\ ppc = "fork_broker"
    /\ \/ /\ broker' = "start"
          /\ ForkedSocks
          /\ ppc' = "deny_rules"
          /\ UNCHANGED <<rulesets, netfd, rc>>
       \/ /\ sock0' = {} /\ sock1' = {}
          /\ ReturnFailure
          /\ UNCHANGED broker
    /\ UNCHANGED <<policy, notify_plan, deny_plan, listener, inflight, term,
                   childVars, call>>

(* The parent's end of the socket pair is closed.                            *)
CloseSock1 == sock1' = sock1 \ {"parent"}

(* The policy's own deny rules go on top of the deny plan.  A plan that is   *)
(* full aborts the run after the broker has been forked: the parent closes   *)
(* its socket, sends SIGTERM and waits for the broker before it returns 1.   *)
AddDenyRules ==
    /\ ppc = "deny_rules"
    /\ \/ /\ policy.deny # "overflow"
          /\ deny_plan' = deny_plan \cup (IF policy.deny = "some" THEN {"listed"} ELSE {})
          /\ ppc' = "fork_child"
          /\ UNCHANGED <<rulesets, netfd, rc, sock1, term>>
       \/ /\ policy.deny = "overflow"
          /\ CloseSock1
          /\ IF broker = "none"
             THEN ReturnFailure /\ UNCHANGED term
             ELSE ppc' = "wait_broker" /\ term' = TRUE /\ UNCHANGED <<rulesets, netfd, rc>>
          /\ UNCHANGED deny_plan
    /\ UNCHANGED <<policy, notify_plan, sock0, listener, inflight, broker, childVars, call>>

(* Fork the child.  A failed fork takes the same way out as a full plan.  On *)
(* success the parent closes its end of the socket pair and waits.           *)
ForkChild ==
    /\ ppc = "fork_child"
    /\ \/ /\ child' = "mounts"
          /\ sock1' = (sock1 \ {"parent"}) \cup (IF Brokered THEN {"child"} ELSE {})
          /\ ppc' = "wait_child"
          /\ UNCHANGED <<rulesets, netfd, rc, term>>
       \/ /\ CloseSock1
          /\ IF broker = "none"
             THEN ReturnFailure /\ UNCHANGED term
             ELSE ppc' = "wait_broker" /\ term' = TRUE /\ UNCHANGED <<rulesets, netfd, rc>>
          /\ UNCHANGED child
    /\ UNCHANGED <<policy, notify_plan, deny_plan, sock0, listener, inflight, broker,
                   status, confVars, call>>

(* waitpid on the child, retried on EINTR.  With SIGCHLD ignored the kernel  *)
(* reaps the child itself and waitpid fails with ECHILD: wait_failed.        *)
WaitChild ==
    /\ ppc = "wait_child"
    /\ child = "zombie"
    /\ child' = "reaped"
    /\ \E got \in BOOLEAN : rc' = IF got THEN StatusToExitCode(status) ELSE 1
    /\ ppc' = "stop_broker"
    /\ UNCHANGED <<policy, rulesets, netfd, notify_plan, deny_plan, fdVars,
                   brokerVars, status, confVars, call>>

(* Mutant: waitpid without the kill before it.                               *)
StopBrokerNoKill ==
    /\ ppc = "stop_broker" /\ ppc' = "wait_broker"
    /\ UNCHANGED <<policy, rulesets, netfd, notify_plan, deny_plan, rc, fdVars,
                   brokerVars, childVars, call>>

(* kill(broker_pid, SIGTERM), then waitpid. *)
StopBroker ==
    /\ ppc = "stop_broker"
    /\ ppc' = "wait_broker"
    /\ term' = (broker # "none")
    /\ UNCHANGED <<policy, rulesets, netfd, notify_plan, deny_plan, rc, fdVars,
                   broker, childVars, call>>

(* waitpid on the broker, then the rulesets are closed and the run returns.  *)
WaitBroker ==
    /\ ppc = "wait_broker"
    /\ broker \in {"none", "zombie"}
    /\ broker' = IF broker = "none" THEN "none" ELSE "reaped"
    /\ ppc' = "returned"
    /\ rulesets' = {}
    /\ netfd' = FALSE
    /\ UNCHANGED <<policy, notify_plan, deny_plan, rc, fdVars, term, childVars, call>>

Parent ==
    \/ Preflight \/ CompileFs \/ CompileNet \/ AllowlistInit \/ BuildPlans
    \/ ForkBroker \/ AddDenyRules \/ ForkChild \/ WaitChild \/ StopBroker \/ WaitBroker

---------------------------------------------------------------------------
(* The child, up to execvp.                                                  *)

(* A process that ends gives up its descriptors; a message queued on a       *)
(* socket whose receiving end is gone is dropped with the listener in it.    *)
ChildEnds(s) ==
    /\ child' = "zombie"
    /\ status' = s
    /\ sock1' = sock1 \ {"child"}
    /\ listener' = listener \ {"child"}
    /\ UNCHANGED <<sock0, inflight>>

ChildFails == ChildEnds(Exited(1))

(* landlockd_setup_policy_mounts: the stages in order, each of which may     *)
(* fail (a missing directory, a refused mount, no Landlock rule to attach).  *)
SetupMounts ==
    /\ child = "mounts"
    /\ \/ /\ Stages \subseteq mounted
          /\ child' = "nnp"
          /\ UNCHANGED <<mounted, status, fdVars>>
       \/ \E i \in 1..6 :
            /\ MountStages[i] \in Stages \ mounted
            /\ \A j \in 1..(i - 1) : MountStages[j] \notin Stages \ mounted
            /\ \/ /\ mounted' = mounted \cup {MountStages[i]}
                  /\ UNCHANGED <<child, status, fdVars>>
               \/ ChildFails /\ UNCHANGED mounted
    /\ UNCHANGED <<policy, parentVars, brokerVars, nnp, denied, notified, restricted,
                   netOn, call>>

(* landlockd_apply_policy_in_child: no_new_privs first, if there is any      *)
(* filter to install.                                                        *)
SetNoNewPrivs ==
    /\ child = "nnp"
    /\ \/ /\ notify_plan \cup deny_plan = {}
          /\ child' = "send_fd"
          /\ UNCHANGED <<nnp, status, fdVars>>
       \/ /\ notify_plan \cup deny_plan # {}
          /\ \/ child' = "denylist" /\ nnp' = TRUE /\ UNCHANGED <<status, fdVars>>
             \/ ChildFails /\ UNCHANGED nnp
    /\ UNCHANGED <<policy, parentVars, brokerVars, mounted, denied, notified,
                   restricted, netOn, call>>

InstallDenylist ==
    /\ child = "denylist"
    /\ \/ child' = "notify" /\ denied' = deny_plan /\ UNCHANGED <<status, fdVars>>
       \/ deny_plan # {} /\ ChildFails /\ UNCHANGED denied
    /\ UNCHANGED <<policy, parentVars, brokerVars, mounted, nnp, notified, restricted,
                   netOn, call>>

(* landlockd_seccomp_install returns the listener of the notify filter. *)
InstallNotify ==
    /\ child = "notify"
    /\ \/ /\ child' = "send_fd"
          /\ notified' = notify_plan
          /\ listener' = IF notify_plan = {} THEN {} ELSE {"child"}
          /\ UNCHANGED <<status, sock0, sock1, inflight>>
       \/ notify_plan # {} /\ ChildFails /\ UNCHANGED notified
    /\ UNCHANGED <<policy, parentVars, brokerVars, mounted, nnp, denied, restricted,
                   netOn, call>>

(* landlockd_send_fd puts a copy of the listener onto the socket pair; the   *)
(* child still has its own.  sendmsg has no MSG_NOSIGNAL: with the broker    *)
(* gone the child dies of SIGPIPE.  A broker socket without a listener is an *)
(* error (EINVAL).                                                           *)
SendListener ==
    /\ child = "send_fd"
    /\ \/ "child" \notin sock1 /\ child' = "layers" /\ UNCHANGED <<status, fdVars>>
       \/ /\ "child" \in sock1 /\ "child" \in listener /\ sock0 # {}
          /\ child' = "close_listener"
          /\ inflight' = TRUE
          /\ UNCHANGED <<status, sock0, sock1, listener>>
       \/ "child" \in sock1 /\ sock0 = {} /\ ChildEnds(Signaled(SIGPIPE))
       \/ "child" \in sock1 /\ ChildFails
    /\ UNCHANGED <<policy, parentVars, brokerVars, confVars, call>>

(* Mutant: the child keeps its own copy of the listener.                     *)
CloseListenerKept ==
    /\ child = "close_listener" /\ child' = "close_sock"
    /\ UNCHANGED <<policy, parentVars, fdVars, brokerVars, status, confVars, call>>

(* close(listener_fd): the broker may have received its copy by now, or be   *)
(* gone with it.                                                             *)
CloseListener ==
    /\ child = "close_listener"
    /\ child' = "close_sock"
    /\ listener' = listener \ {"child"}
    /\ UNCHANGED <<policy, parentVars, sock0, sock1, inflight, brokerVars, status,
                   confVars, call>>

(* close(broker_sock_fd) *)
CloseBrokerSock ==
    /\ child = "close_sock"
    /\ child' = "layers"
    /\ sock1' = sock1 \ {"child"}
    /\ UNCHANGED <<policy, parentVars, sock0, listener, inflight, brokerVars, status,
                   confVars, call>>

(* landlockd_apply_sandbox on each layer: no_new_privs, then restrict_self.  *)
RestrictLayer ==
    /\ child = "layers"
    /\ \/ /\ restricted = 1..policy.layers
          /\ child' = "net"
          /\ UNCHANGED <<restricted, nnp, status, fdVars>>
       \/ \E i \in (1..policy.layers) \ restricted :
            /\ i = Cardinality(restricted) + 1
            /\ \/ /\ restricted' = restricted \cup {i}
                  /\ nnp' = TRUE
                  /\ UNCHANGED <<child, status, fdVars>>
               \/ ChildFails /\ UNCHANGED <<restricted, nnp>>
    /\ UNCHANGED <<policy, parentVars, brokerVars, mounted, denied, notified, netOn, call>>

RestrictNet ==
    /\ child = "net"
    /\ \/ /\ child' = "exec"
          /\ netOn' = netfd
          /\ nnp' = (nnp \/ netfd)
          /\ UNCHANGED <<status, fdVars>>
       \/ netfd /\ ChildFails /\ UNCHANGED <<netOn, nnp>>
    /\ UNCHANGED <<policy, parentVars, brokerVars, mounted, denied, notified,
                   restricted, call>>

(* execvp closes what is close-on-exec, sockets and listener included; when  *)
(* it returns, the child leaves with 127.                                    *)
Exec ==
    /\ child = "exec"
    /\ \/ /\ child' = "run"
          /\ sock1' = sock1 \ {"child"}
          /\ listener' = listener \ {"child"}
          /\ UNCHANGED <<status, sock0, inflight>>
       \/ ChildEnds(Exited(127))
    /\ UNCHANGED <<policy, parentVars, brokerVars, confVars, call>>

ChildSetup ==
    \/ SetupMounts \/ SetNoNewPrivs \/ InstallDenylist \/ InstallNotify
    \/ SendListener \/ CloseListener \/ CloseBrokerSock
    \/ RestrictLayer \/ RestrictNet \/ Exec

---------------------------------------------------------------------------
(* The workload, and the kernel's side of its notified system calls.         *)

WorkloadCalls ==
    /\ child = "run" /\ call = "none" /\ notified # {}
    /\ call' = "waiting"
    /\ UNCHANGED <<policy, parentVars, fdVars, brokerVars, childVars>>

(* A signal interrupts the system call: the notification is withdrawn. *)
WorkloadInterrupted ==
    /\ child = "run" /\ call # "none"
    /\ call' = "none"
    /\ UNCHANGED <<policy, parentVars, fdVars, brokerVars, childVars>>

(* Once the listener is closed, the kernel answers with ENOSYS. *)
KernelAnswers ==
    /\ call # "none" /\ ~ListenerOpen
    /\ call' = "none"
    /\ UNCHANGED <<policy, parentVars, fdVars, brokerVars, childVars>>

WorkloadExits ==
    /\ child = "run"
    /\ \/ call = "none" /\ \E n \in ExitCodes : ChildEnds(Exited(n))
       \/ ChildEnds(Signaled(SIGKILL))
    /\ call' = "none"
    /\ UNCHANGED <<policy, parentVars, brokerVars, confVars>>

---------------------------------------------------------------------------
(* The broker.                                                               *)

BrokerEnds ==
    /\ broker' = "zombie"
    /\ sock0' = sock0 \ {"broker"}
    /\ sock1' = sock1 \ {"broker"}
    /\ listener' = listener \ {"broker"}
    /\ inflight' = (inflight /\ sock0' # {})

(* The broker closes the child's end and hardens itself, or leaves. *)
BrokerStart ==
    /\ broker = "start"
    /\ \/ /\ broker' = "recv_fd"
          /\ sock1' = sock1 \ {"broker"}
          /\ UNCHANGED <<sock0, listener, inflight>>
       \/ BrokerEnds
    /\ UNCHANGED <<policy, parentVars, term, childVars, call>>

(* landlockd_recv_fd waits for the listener; end of file (nobody is left to  *)
(* send) ends the broker.                                                    *)
BrokerRecvFd ==
    /\ broker = "recv_fd"
    /\ \/ /\ inflight
          /\ inflight' = FALSE
          /\ listener' = listener \cup {"broker"}
          /\ sock0' = sock0 \ {"broker"}
          /\ broker' = "loop"
          /\ UNCHANGED sock1
       \/ ~inflight /\ sock1 = {} /\ BrokerEnds
    /\ UNCHANGED <<policy, parentVars, term, childVars, call>>

(* recvmsg fails (a signal, no memory), or what it received carries no       *)
(* descriptor (no room for it): the broker leaves, and a listener that was   *)
(* queued goes with it.                                                      *)
BrokerRecvFdFails ==
    /\ broker = "recv_fd"
    /\ BrokerEnds
    /\ UNCHANGED <<policy, parentVars, term, childVars, call>>

(* SECCOMP_IOCTL_NOTIF_RECV. *)
BrokerRecv ==
    /\ broker = "loop" /\ call = "waiting"
    /\ broker' = "serve" /\ call' = "served"
    /\ UNCHANGED <<policy, parentVars, fdVars, term, childVars>>

(* The notification was withdrawn as it was being fetched (ENOENT), or no    *)
(* task uses the filter any more: the loop ends and so does the broker.      *)
BrokerRecvEnds ==
    /\ broker = "loop"
    /\ \/ call = "waiting" /\ call' = "none"
       \/ child \in {"zombie", "reaped"} /\ UNCHANGED call
    /\ BrokerEnds
    /\ UNCHANGED <<policy, parentVars, term, childVars>>

(* A handler answers the call (if it is still there), or fails and takes the *)
(* broker down with it.                                                      *)
BrokerServe ==
    /\ broker = "serve"
    /\ \/ /\ broker' = "loop"
          /\ call' = IF call = "served" THEN "none" ELSE call
          /\ UNCHANGED fdVars
       \/ BrokerEnds /\ UNCHANGED call
    /\ UNCHANGED <<policy, parentVars, term, childVars>>

(* SIGTERM has its default action in the broker. *)
BrokerTerminated ==
    /\ term /\ Alive(broker)
    /\ BrokerEnds
    /\ UNCHANGED <<policy, parentVars, term, childVars, call>>

Broker ==
    \/ BrokerStart \/ BrokerRecvFd \/ BrokerRecvFdFails \/ BrokerRecv
    \/ BrokerRecvEnds \/ BrokerServe \/ BrokerTerminated

---------------------------------------------------------------------------
Done == ppc = "returned" /\ UNCHANGED vars

Next ==
    \/ Parent \/ ChildSetup \/ Broker
    \/ WorkloadCalls \/ WorkloadInterrupted \/ KernelAnswers \/ WorkloadExits
    \/ Done

Safety == Init /\ [][Next]_vars

(* The scheduler runs every launcher process, a pending signal is delivered, *)
(* the kernel releases calls nobody can answer, a handler returns.  The      *)
(* workload owes nothing, and older kernels never tell a broker waiting for  *)
(* a notification that the last task using the filter is gone.               *)
Spec ==
    /\ Safety
    /\ WF_vars(Parent) /\ WF_vars(ChildSetup) /\ WF_vars(KernelAnswers)
    /\ WF_vars(BrokerStart \/ BrokerRecvFd \/ BrokerServe \/ BrokerTerminated)
    /\ WF_vars(BrokerRecv)

---------------------------------------------------------------------------
(* Properties.                                                               *)

(* Fail closed: once the workload executes, every restriction of its policy  *)
(* is in force, whichever setup steps failed, were skipped or raced with the *)
(* broker before it (landlockd_setup_policy_mounts and                       *)
(* landlockd_apply_policy_in_child return -1 on the first failure and the    *)
(* child leaves without execvp).                                             *)
Confined ==
    child = "run" =>
        /\ Stages \subseteq mounted
        /\ restricted = 1..policy.layers
        /\ policy.net => netOn
        /\ policy.deny # "none" => "listed" \in denied
        /\ Brokered => "open" \in notified
        /\ MountNamespace => "mount" \in denied \cup notified
        /\ denied \cup notified # {} => nnp

(* On every way out of landlockd_run_policy_ir, early or late, the parent    *)
(* holds no ruleset, network or socket descriptor and has reaped every       *)
(* process it forked: a daemon that runs policies for weeks leaks nothing.   *)
NothingLeft ==
    ppc = "returned" =>
        /\ rulesets = {} /\ ~netfd
        /\ "parent" \notin sock0 \cup sock1
        /\ broker \in {"none", "reaped"}
        /\ child \in {"none", "reaped"}

(* The run reports success only for a workload that ran fully confined and   *)
(* itself exited with 0: no setup failure, signal or lost wait status is     *)
(* ever reported as success.                                                 *)
SuccessIsReal ==
    (ppc = "returned" /\ rc = 0) =>
        status = Exited(0) /\ restricted = 1..policy.layers
            /\ (policy.net => netOn) /\ Stages \subseteq mounted

(* Who can answer a notification.  The listener has two holders only while   *)
(* the child is handing it over, between its sendmsg and its own close: the  *)
(* child and either the socket pair or the broker, never both of these.      *)
(* From the first restriction on the child has no copy any more, so that     *)
(* nobody but the broker can answer, and the broker's end, at whatever       *)
(* point, closes the listener and releases the calls that wait on it.        *)
OneListener ==
    /\ Cardinality(listener \cup (IF inflight THEN {"socket"} ELSE {}))
            <= IF child = "close_listener" THEN 2 ELSE 1
    /\ child \in {"layers", "net", "exec", "run"} => "child" \notin listener

(* Nobody waits for ever: unless the run returns, the workload is again and  *)
(* again executing and not blocked in a notified system call.  The parent    *)
(* waits for the child, the child for the broker, the broker for the child   *)
(* and for SIGTERM: no way of failing leaves them waiting for each other.    *)
RunReturns == []<>(child = "run" /\ call = "none") \/ <>(ppc = "returned")

(* A notified system call is eventually answered, by the broker or, when the *)
(* broker is gone at whatever point, by the kernel.                          *)
CallAnswered == (call # "none") ~> (call = "none")
=============================================================================
