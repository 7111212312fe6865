---------------------------- MODULE LaunchProofs ----------------------------
(* Proofs about Launch, for every set of policies and exit codes.            *)
EXTENDS Launch, FiniteSetTheorems, TLAPS

(* Where the processes can be relative to each other.                        *)
BeforeFork == {"preflight", "compile_fs", "compile_net", "allowlist", "plans",
               "fork_broker", "deny_rules", "fork_child"}

Phases ==
    /\ ppc \in BeforeFork => child = "none" /\ rc = 1
    /\ Alive(child) => ppc = "wait_child"
    /\ child = "zombie" => ppc = "wait_child"
    /\ ppc = "wait_child" => child \notin {"none", "reaped"}
    /\ ppc \in BeforeFork \ {"deny_rules", "fork_child"} => broker = "none"
    /\ broker = "reaped" => ppc = "returned"
    /\ ppc = "returned" => broker \in {"none", "reaped"}

(* What the parent holds and has computed at each point.                     *)
Holdings ==
    /\ ppc \in {"allowlist", "plans", "fork_broker", "deny_rules", "fork_child",
                "wait_child", "stop_broker", "wait_broker"} => netfd = policy.net
    /\ ppc = "returned" => rulesets = {} /\ ~netfd
    /\ "parent" \in sock0 => ppc = "fork_broker"
    /\ "parent" \in sock1 => ppc \in {"fork_broker", "deny_rules", "fork_child"}
    /\ ppc \in {"fork_broker", "deny_rules", "fork_child", "wait_child"} =>
            notify_plan = NotifyPlan
    /\ ppc \in {"fork_broker", "deny_rules"} => deny_plan = DenyPlan
    /\ ppc \in {"fork_child", "wait_child"} =>
            /\ policy.deny # "overflow"
            /\ deny_plan = DenyPlan \cup (IF policy.deny = "some" THEN {"listed"} ELSE {})

(* How far the child's restrictions have come at each point.                 *)
Progress ==
    /\ child \in {"nnp", "denylist", "notify", "send_fd", "close_listener", "close_sock",
                  "layers", "net", "exec", "run"}
            => Stages \subseteq mounted
    /\ child \in {"mounts", "nnp", "denylist"} => denied = {}
    /\ child \in {"mounts", "nnp", "denylist", "notify"} => notified = {}
    /\ child \in {"denylist", "notify"} => nnp
    /\ child = "notify" => denied = deny_plan
    /\ child \in {"send_fd", "close_listener", "close_sock", "layers", "net", "exec",
                  "run"} =>
            /\ denied = deny_plan /\ notified = notify_plan
            /\ denied \cup notified # {} => nnp
    /\ child \in {"net", "exec", "run"} => restricted = 1..policy.layers
    /\ child \in {"exec", "run"} => netOn = netfd
    /\ child = "none" => denied = {} /\ notified = {}

(* A success status comes from a confined workload, and rc reports it.       *)
Outcome ==
    /\ (child \in {"zombie", "reaped"} /\ status = Exited(0)) =>
            /\ restricted = 1..policy.layers
            /\ policy.net => netOn
            /\ Stages \subseteq mounted
    /\ rc = 0 => child = "reaped" /\ status = Exited(0)
    /\ status.how = "signaled" => status.code < 128

(* Who can hold the listener, and that a child with a broker still has its   *)
(* end of the socket pair when it comes to hand the listener over.           *)
Ownership ==
    /\ child \in {"none", "mounts", "nnp", "denylist", "notify"} =>
            "child" \notin listener /\ "broker" \notin listener /\ ~inflight
    /\ "child" \in listener => child \in {"send_fd", "close_listener", "zombie", "reaped"}
    /\ child = "send_fd" => "broker" \notin listener /\ ~inflight
    /\ child \in {"zombie", "reaped"} => "child" \notin listener
    /\ inflight => "broker" \notin listener
    /\ child \in {"mounts", "nnp", "denylist", "notify"} /\ Brokered => "child" \in sock1
    /\ child = "send_fd" /\ "child" \in listener => "child" \in sock1

IInv == TypeOK /\ Phases /\ Holdings /\ Progress /\ Outcome /\ Ownership

---------------------------------------------------------------------------
(* What a policy asks for depends on the policy only.                        *)
LEMMA PolicyFrame ==
  ASSUME policy' = policy
  PROVE  /\ Stages' = Stages
         /\ NotifyPlan' = NotifyPlan
         /\ DenyPlan' = DenyPlan
         /\ Brokered' = Brokered
  BY DEF Stages, NotifyPlan, DenyPlan, MountNamespace, MountBroker, Brokered

(* Only a policy with a broker has system calls notified.                    *)
LEMMA NotifyBrokered == NotifyPlan # {} => Brokered
  BY DEF NotifyPlan, Brokered, MountBroker

(* The statuses landlockd's own code and signals end the child with.         *)
LEMMA StatusTypes ==
  \A n \in 0..255 :
    /\ Exited(n) \in StatusType
    /\ Signaled(n) \in StatusType
  BY DEF Exited, Signaled, StatusType

(* landlockd_status_to_exit_code yields an exit code, and 0 only for a child *)
(* that itself exited with 0.                                                *)
LEMMA ExitCode ==
  ASSUME ChildTypeOK, Outcome
  PROVE  /\ StatusToExitCode(status) \in 0..255
         /\ StatusToExitCode(status) = 0 => status = Exited(0)
  <1>1. /\ status = [how |-> status.how, code |-> status.code]
        /\ status.how \in {"exited", "signaled", "unknown"}
        /\ status.code \in 0..255
    BY DEF ChildTypeOK, StatusType
  <1>2. CASE status.how = "exited"
    BY <1>1, <1>2 DEF StatusToExitCode, Exited
  <1>3. CASE status.how = "signaled"
    <2>1. StatusToExitCode(status) = 128 + status.code /\ status.code < 128
      BY <1>3 DEF StatusToExitCode, Outcome
    <2> QED
      BY <1>1, <2>1
  <1>4. CASE status.how = "unknown"
    BY <1>4 DEF StatusToExitCode
  <1> QED
    BY <1>1, <1>2, <1>3, <1>4

(* The initial state satisfies the inductive invariant.                      *)
LEMMA InitInv == Init => IInv
  <1> SUFFICES ASSUME Init PROVE IInv
    OBVIOUS
  <1>1. TypeOK
    <2>1. ParentTypeOK
      BY DEF Init, ParentTypeOK
    <2>2. PlanTypeOK
      BY DEF Init, PlanTypeOK
    <2>3. FdTypeOK /\ BrokerTypeOK
      BY DEF Init, FdTypeOK, BrokerTypeOK
    <2>4. ChildTypeOK
      BY DEF Init, ChildTypeOK, StatusType, Unknown
    <2>5. ConfTypeOK
      BY DEF Init, ConfTypeOK
    <2> QED
      BY <2>1, <2>2, <2>3, <2>4, <2>5 DEF TypeOK
  <1>2. Phases /\ Holdings /\ Progress /\ Outcome /\ Ownership
    BY DEF Init, Phases, Holdings, Progress, Outcome, Ownership, BeforeFork, Alive,
           Unknown, Exited
  <1> QED
    BY <1>1, <1>2 DEF IInv

---------------------------------------------------------------------------
(* Every step keeps the types, process by process.                           *)
LEMMA ParentTypes ==
  ASSUME IInv, Parent
  PROVE  TypeOK'
  <1> USE DEF ReturnFailure, ForkedSocks, CloseSock1, parentVars, fdVars,
          brokerVars, childVars, confVars
  <1>1. ParentTypeOK'
    <2>1. CASE CompileFs
      <3>1. /\ policy' = policy
            /\ rc' \in {rc, 1}
            /\ ppc' \in {"compile_fs", "compile_net", "returned"}
        BY <2>1 DEF CompileFs
      <3> QED
        BY <3>1 DEF IInv, TypeOK, ParentTypeOK
    <2>2. CASE WaitChild
      <3>1. /\ policy' = policy /\ ppc' = "stop_broker"
            /\ rc' \in {StatusToExitCode(status), 1}
        BY <2>2 DEF WaitChild
      <3> QED
        BY <3>1, ExitCode DEF IInv, TypeOK, ParentTypeOK
    <2>3. CASE Parent /\ ~CompileFs /\ ~WaitChild
      BY <2>3 DEF IInv, TypeOK, ParentTypeOK, Parent, Preflight,
         CompileNet, AllowlistInit, BuildPlans, ForkBroker,
         AddDenyRules, ForkChild, StopBroker, WaitBroker
    <2> QED
      BY <2>1, <2>2, <2>3
  <1>2. PlanTypeOK'
    BY PoliciesAssumption DEF IInv, TypeOK, PlanTypeOK, ParentTypeOK,
       PolicyType, NotifyPlan, DenyPlan, Parent, Preflight, CompileFs,
       CompileNet, AllowlistInit, BuildPlans, ForkBroker, AddDenyRules,
       ForkChild, WaitChild, StopBroker, WaitBroker
  <1>3. FdTypeOK'
    BY DEF IInv, TypeOK, FdTypeOK, Parent, Preflight, CompileFs,
       CompileNet, AllowlistInit, BuildPlans, ForkBroker, AddDenyRules,
       ForkChild, WaitChild, StopBroker, WaitBroker
  <1>4. BrokerTypeOK'
    BY DEF IInv, TypeOK, BrokerTypeOK, Parent, Preflight, CompileFs,
       CompileNet, AllowlistInit, BuildPlans, ForkBroker, AddDenyRules,
       ForkChild, WaitChild, StopBroker, WaitBroker
  <1>5. ChildTypeOK'
    BY DEF IInv, TypeOK, ChildTypeOK, Parent, Preflight, CompileFs,
       CompileNet, AllowlistInit, BuildPlans, ForkBroker, AddDenyRules,
       ForkChild, WaitChild, StopBroker, WaitBroker
  <1>6. ConfTypeOK'
    BY DEF IInv, TypeOK, ConfTypeOK, ParentTypeOK, PlanTypeOK, Parent,
       Preflight, CompileFs, CompileNet, AllowlistInit, BuildPlans,
       ForkBroker, AddDenyRules, ForkChild, WaitChild, StopBroker,
       WaitBroker
  <1> QED
    BY <1>1, <1>2, <1>3, <1>4, <1>5, <1>6 DEF TypeOK

(* The child's steps up to execvp keep the types.                            *)
LEMMA ChildSetupTypes ==
  ASSUME IInv, ChildSetup
  PROVE  TypeOK'
  <1> USE DEF ChildEnds, ChildFails, parentVars, fdVars,
          brokerVars, childVars, confVars
  <1>1. ParentTypeOK'
    BY ZenonT(40) DEF IInv, TypeOK, ParentTypeOK, ChildSetup, SetupMounts,
       SetNoNewPrivs, InstallDenylist, InstallNotify, SendListener, CloseListener, CloseBrokerSock,
       RestrictLayer, RestrictNet, Exec
  <1>2. PlanTypeOK'
    BY DEF IInv, TypeOK, PlanTypeOK, ParentTypeOK, ChildSetup,
       SetupMounts, SetNoNewPrivs, InstallDenylist, InstallNotify,
       SendListener, CloseListener, CloseBrokerSock, RestrictLayer, RestrictNet, Exec
  <1>3. FdTypeOK'
    BY DEF IInv, TypeOK, FdTypeOK, ChildSetup, SetupMounts, SetNoNewPrivs,
       InstallDenylist, InstallNotify, SendListener, CloseListener, CloseBrokerSock, RestrictLayer,
       RestrictNet, Exec
  <1>4. BrokerTypeOK'
    BY DEF IInv, TypeOK, BrokerTypeOK, ChildSetup, SetupMounts,
       SetNoNewPrivs, InstallDenylist, InstallNotify, SendListener, CloseListener, CloseBrokerSock,
       RestrictLayer, RestrictNet, Exec
  <1>5. ChildTypeOK'
    <2>1. status' \in {status, Exited(1), Exited(127), Signaled(SIGPIPE)}
      BY DEF ChildSetup, SetupMounts, SetNoNewPrivs, InstallDenylist,
         InstallNotify, SendListener, CloseListener, CloseBrokerSock, RestrictLayer, RestrictNet, Exec
    <2>2. child' \in {"mounts", "nnp", "denylist", "notify", "send_fd", "close_listener",
                    "close_sock", "layers", "net", "exec", "run", "zombie"}
      BY DEF ChildSetup, SetupMounts, SetNoNewPrivs, InstallDenylist,
         InstallNotify, SendListener, CloseListener, CloseBrokerSock, RestrictLayer, RestrictNet, Exec
    <2>3. /\ Exited(1) \in StatusType
          /\ Exited(127) \in StatusType
          /\ Signaled(SIGPIPE) \in StatusType
      BY StatusTypes DEF SIGPIPE
    <2> QED
      BY <2>1, <2>2, <2>3 DEF IInv, TypeOK, ChildTypeOK
  <1>6. ConfTypeOK'
    <2>1. CASE SetupMounts
      BY <2>1 DEF SetupMounts, IInv, TypeOK, ParentTypeOK, ConfTypeOK, MountStages, StageNames
    <2>2. CASE RestrictLayer
      BY <2>2 DEF RestrictLayer, IInv, TypeOK, ParentTypeOK, ConfTypeOK
    <2>3. CASE ChildSetup /\ ~SetupMounts /\ ~RestrictLayer
      BY <2>3 DEF IInv, TypeOK, ConfTypeOK, ParentTypeOK, PlanTypeOK,
         ChildSetup, SetNoNewPrivs, InstallDenylist, InstallNotify,
         SendListener, CloseListener, CloseBrokerSock, RestrictNet, Exec
    <2> QED
      BY <2>1, <2>2, <2>3
  <1> QED
    BY <1>1, <1>2, <1>3, <1>4, <1>5, <1>6 DEF TypeOK

(* The broker's steps keep the types.                                        *)
LEMMA BrokerTypes ==
  ASSUME IInv, Broker
  PROVE  TypeOK'
  <1> USE DEF BrokerEnds, parentVars, fdVars,
          brokerVars, childVars, confVars
  <1>1. ParentTypeOK'
    BY DEF IInv, TypeOK, ParentTypeOK, Broker, BrokerStart, BrokerRecvFd, BrokerRecvFdFails,
       BrokerRecv, BrokerRecvEnds, BrokerServe, BrokerTerminated
  <1>2. PlanTypeOK'
    BY DEF IInv, TypeOK, PlanTypeOK, ParentTypeOK, Broker, BrokerStart,
       BrokerRecvFd, BrokerRecvFdFails, BrokerRecv, BrokerRecvEnds, BrokerServe,
       BrokerTerminated
  <1>3. FdTypeOK'
    BY DEF IInv, TypeOK, FdTypeOK, Broker, BrokerStart, BrokerRecvFd, BrokerRecvFdFails,
       BrokerRecv, BrokerRecvEnds, BrokerServe, BrokerTerminated
  <1>4. BrokerTypeOK'
    BY DEF IInv, TypeOK, BrokerTypeOK, Broker, BrokerStart, BrokerRecvFd, BrokerRecvFdFails,
       BrokerRecv, BrokerRecvEnds, BrokerServe, BrokerTerminated
  <1>5. ChildTypeOK'
    BY DEF IInv, TypeOK, ChildTypeOK, Broker, BrokerStart, BrokerRecvFd, BrokerRecvFdFails,
       BrokerRecv, BrokerRecvEnds, BrokerServe, BrokerTerminated
  <1>6. ConfTypeOK'
    BY DEF IInv, TypeOK, ConfTypeOK, ParentTypeOK, PlanTypeOK, Broker,
       BrokerStart, BrokerRecvFd, BrokerRecvFdFails, BrokerRecv, BrokerRecvEnds, BrokerServe,
       BrokerTerminated
  <1> QED
    BY <1>1, <1>2, <1>3, <1>4, <1>5, <1>6 DEF TypeOK

(* The workload's steps keep the types.                                      *)
LEMMA WorkloadTypes ==
  ASSUME IInv, WorkloadCalls \/ WorkloadInterrupted \/ KernelAnswers \/ WorkloadExits
  PROVE  TypeOK'
  <1> USE DEF ChildEnds, parentVars, fdVars,
          brokerVars, childVars, confVars
  <1>1. ParentTypeOK'
    BY DEF IInv, TypeOK, ParentTypeOK, WorkloadCalls, WorkloadInterrupted,
       KernelAnswers, WorkloadExits
  <1>2. PlanTypeOK'
    BY DEF IInv, TypeOK, PlanTypeOK, ParentTypeOK, WorkloadCalls,
       WorkloadInterrupted, KernelAnswers, WorkloadExits
  <1>3. FdTypeOK'
    BY DEF IInv, TypeOK, FdTypeOK, WorkloadCalls, WorkloadInterrupted,
       KernelAnswers, WorkloadExits
  <1>4. BrokerTypeOK'
    BY DEF IInv, TypeOK, BrokerTypeOK, WorkloadCalls, WorkloadInterrupted,
       KernelAnswers, WorkloadExits
  <1>5. ChildTypeOK'
    <2>1. CASE WorkloadExits
      <3>1. \/ status' = Signaled(SIGKILL)
            \/ \E n \in 0..255 : status' = Exited(n)
        BY <2>1, ExitCodesAssumption DEF WorkloadExits
      <3>2. status' \in StatusType
        BY <3>1, StatusTypes DEF SIGKILL
      <3> QED
        BY <2>1, <3>2 DEF WorkloadExits, ChildTypeOK
    <2>2. CASE WorkloadCalls \/ WorkloadInterrupted \/ KernelAnswers
      BY <2>2 DEF IInv, TypeOK, ChildTypeOK, WorkloadCalls, WorkloadInterrupted, KernelAnswers
    <2> QED
      BY <2>1, <2>2
  <1>6. ConfTypeOK'
    BY DEF IInv, TypeOK, ConfTypeOK, ParentTypeOK, PlanTypeOK,
       WorkloadCalls, WorkloadInterrupted, KernelAnswers, WorkloadExits
  <1> QED
    BY <1>1, <1>2, <1>3, <1>4, <1>5, <1>6 DEF TypeOK

---------------------------------------------------------------------------
(* Every step keeps the rest of the inductive invariant, action by action.   *)
Rest == Phases /\ Holdings /\ Progress /\ Outcome /\ Ownership

(* The steps of landlockd_run_policy_ir keep the rest of IInv.               *)
LEMMA ParentRest ==
  ASSUME IInv, Parent
  PROVE  Rest'
  <1> USE PolicyFrame
      DEF IInv, Rest, TypeOK, ParentTypeOK, PlanTypeOK, FdTypeOK, BrokerTypeOK, ChildTypeOK,
          ConfTypeOK, BeforeFork, Alive, Exited,
          ReturnFailure, ForkedSocks, CloseSock1, parentVars, fdVars,
          brokerVars, childVars, confVars
  <1>1. CASE Preflight
    <2>1. (Phases /\ Holdings)'
      BY <1>1 DEF Preflight, Phases, Holdings
    <2>2. Progress'
      BY <1>1 DEF Preflight, Phases, Holdings, Progress
    <2>3. (Outcome /\ Ownership)'
      BY <1>1 DEF Preflight, Phases, Holdings, Progress, Outcome,
         Ownership
    <2> QED
      BY <2>1, <2>2, <2>3
  <1>2. CASE CompileFs
    <2>1. (Phases /\ Holdings)'
      BY <1>2 DEF CompileFs, Phases, Holdings
    <2>2. Progress'
      BY <1>2 DEF CompileFs, Phases, Holdings, Progress
    <2>3. (Outcome /\ Ownership)'
      BY <1>2 DEF CompileFs, Phases, Holdings, Progress, Outcome,
         Ownership
    <2> QED
      BY <2>1, <2>2, <2>3
  <1>3. CASE CompileNet
    <2>1. (Phases /\ Holdings)'
      BY <1>3 DEF CompileNet, Phases, Holdings
    <2>2. Progress'
      BY <1>3 DEF CompileNet, Phases, Holdings, Progress
    <2>3. (Outcome /\ Ownership)'
      BY <1>3 DEF CompileNet, Phases, Holdings, Progress, Outcome,
         Ownership
    <2> QED
      BY <2>1, <2>2, <2>3
  <1>4. CASE AllowlistInit
    <2>1. (Phases /\ Holdings)'
      BY <1>4 DEF AllowlistInit, Phases, Holdings
    <2>2. Progress'
      BY <1>4 DEF AllowlistInit, Phases, Holdings, Progress
    <2>3. (Outcome /\ Ownership)'
      BY <1>4 DEF AllowlistInit, Phases, Holdings, Progress, Outcome,
         Ownership
    <2> QED
      BY <2>1, <2>2, <2>3
  <1>5. CASE BuildPlans
    <2>1. (Phases /\ Holdings)'
      BY <1>5 DEF BuildPlans, Phases, Holdings
    <2>2. Progress'
      BY <1>5 DEF BuildPlans, Phases, Holdings, Progress
    <2>3. (Outcome /\ Ownership)'
      BY <1>5 DEF BuildPlans, Phases, Holdings, Progress, Outcome,
         Ownership
    <2> QED
      BY <2>1, <2>2, <2>3
  <1>6. CASE ForkBroker
    <2>1. (Phases /\ Holdings)'
      BY <1>6 DEF ForkBroker, Phases, Holdings
    <2>2. Progress'
      BY <1>6 DEF ForkBroker, Phases, Holdings, Progress
    <2>3. (Outcome /\ Ownership)'
      BY <1>6 DEF ForkBroker, Phases, Holdings, Progress, Outcome,
         Ownership
    <2> QED
      BY <2>1, <2>2, <2>3
  <1>7. CASE AddDenyRules
    <2>1. (Phases /\ Holdings)'
      BY <1>7 DEF AddDenyRules, Phases, Holdings
    <2>2. Progress'
      BY <1>7 DEF AddDenyRules, Phases, Holdings, Progress
    <2>3. (Outcome /\ Ownership)'
      BY <1>7 DEF AddDenyRules, Phases, Holdings, Progress, Outcome,
         Ownership
    <2> QED
      BY <2>1, <2>2, <2>3
  <1>8. CASE ForkChild
    <2>1. (Phases /\ Holdings)'
      BY <1>8 DEF ForkChild, Phases, Holdings
    <2>2. Progress'
      BY <1>8 DEF ForkChild, Phases, Holdings, Progress
    <2>3. (Outcome /\ Ownership)'
      BY <1>8 DEF ForkChild, Phases, Holdings, Progress, Outcome,
         Ownership
    <2> QED
      BY <2>1, <2>2, <2>3
  <1>9. CASE WaitChild
    <2>1. (Phases /\ Holdings)'
      BY <1>9 DEF WaitChild, Phases, Holdings
    <2>2. Progress'
      BY <1>9 DEF WaitChild, Phases, Holdings, Progress
    <2>3. Outcome'
      <3>1. rc' = 0 => status = Exited(0)
        BY <1>9, ExitCode DEF WaitChild
      <3> QED
        BY <1>9, <3>1 DEF WaitChild, Phases, Outcome
    <2>4. Ownership'
      BY <1>9 DEF WaitChild, Phases, Ownership
    <2> QED
      BY <2>1, <2>2, <2>3, <2>4
  <1>10. CASE StopBroker
    <2>1. (Phases /\ Holdings)'
      BY <1>10 DEF StopBroker, Phases, Holdings
    <2>2. Progress'
      BY <1>10 DEF StopBroker, Phases, Holdings, Progress
    <2>3. (Outcome /\ Ownership)'
      BY <1>10 DEF StopBroker, Phases, Holdings, Progress, Outcome,
         Ownership
    <2> QED
      BY <2>1, <2>2, <2>3
  <1>11. CASE WaitBroker
    <2>1. (Phases /\ Holdings)'
      BY <1>11 DEF WaitBroker, Phases, Holdings
    <2>2. Progress'
      BY <1>11 DEF WaitBroker, Phases, Holdings, Progress
    <2>3. (Outcome /\ Ownership)'
      BY <1>11 DEF WaitBroker, Phases, Holdings, Progress, Outcome,
         Ownership
    <2> QED
      BY <2>1, <2>2, <2>3
  <1> QED
    BY <1>1, <1>2, <1>3, <1>4, <1>5, <1>6, <1>7, <1>8, <1>9, <1>10, <1>11
       DEF Parent

(* The child's steps up to execvp keep the rest of IInv.                     *)
LEMMA ChildSetupRest ==
  ASSUME IInv, ChildSetup
  PROVE  Rest'
  <1> USE PolicyFrame
      DEF IInv, Rest, TypeOK, ParentTypeOK, PlanTypeOK, FdTypeOK, BrokerTypeOK, ChildTypeOK,
          ConfTypeOK, BeforeFork, Alive, Exited,
          ChildEnds, ChildFails, parentVars, fdVars,
          brokerVars, childVars, confVars
  <1>1. CASE SetupMounts
    <2>1. (Phases /\ Holdings)'
      BY <1>1 DEF SetupMounts, Phases, Holdings
    <2>2. Progress'
      BY <1>1 DEF SetupMounts, Phases, Holdings, Progress
    <2>3. (Outcome /\ Ownership)'
      BY <1>1 DEF SetupMounts, Phases, Holdings, Progress, Outcome,
         Ownership
    <2> QED
      BY <2>1, <2>2, <2>3
  <1>2. CASE SetNoNewPrivs
    <2>1. (Phases /\ Holdings)'
      BY <1>2 DEF SetNoNewPrivs, Phases, Holdings
    <2>2. Progress'
      BY <1>2, ZenonT(40) DEF SetNoNewPrivs, Phases, Holdings, Progress
    <2>3. (Outcome /\ Ownership)'
      BY <1>2 DEF SetNoNewPrivs, Phases, Holdings, Progress, Outcome,
         Ownership
    <2> QED
      BY <2>1, <2>2, <2>3
  <1>3. CASE InstallDenylist
    <2>1. (Phases /\ Holdings)'
      BY <1>3 DEF InstallDenylist, Phases, Holdings
    <2>2. Progress'
      BY <1>3 DEF InstallDenylist, Phases, Holdings, Progress
    <2>3. (Outcome /\ Ownership)'
      BY <1>3 DEF InstallDenylist, Phases, Holdings, Progress, Outcome,
         Ownership
    <2> QED
      BY <2>1, <2>2, <2>3
  <1>4. CASE InstallNotify
    <2>1. (Phases /\ Holdings)'
      BY <1>4 DEF InstallNotify, Phases, Holdings
    <2>2. Progress'
      BY <1>4 DEF InstallNotify, Phases, Holdings, Progress
    <2>3. (Outcome /\ Ownership)'
      BY <1>4, NotifyBrokered DEF InstallNotify, Phases, Holdings, Progress, Outcome,
         Ownership
    <2> QED
      BY <2>1, <2>2, <2>3
  <1>5. CASE SendListener
    <2>1. (Phases /\ Holdings)'
      BY <1>5 DEF SendListener, Signaled, SIGPIPE, Phases, Holdings
    <2>2. Progress'
      BY <1>5 DEF SendListener, Signaled, SIGPIPE, Phases, Holdings, Progress
    <2>3. (Outcome /\ Ownership)'
      BY <1>5 DEF SendListener, Signaled, SIGPIPE, Phases, Holdings,
         Progress, Outcome, Ownership
    <2> QED
      BY <2>1, <2>2, <2>3
  <1>6. CASE RestrictLayer
    <2>1. (Phases /\ Holdings)'
      BY <1>6 DEF RestrictLayer, Phases, Holdings
    <2>2. Progress'
      BY <1>6 DEF RestrictLayer, Phases, Holdings, Progress
    <2>3. (Outcome /\ Ownership)'
      BY <1>6 DEF RestrictLayer, Phases, Holdings, Progress, Outcome,
         Ownership
    <2> QED
      BY <2>1, <2>2, <2>3
  <1>7. CASE RestrictNet
    <2>1. (Phases /\ Holdings)'
      BY <1>7 DEF RestrictNet, Phases, Holdings
    <2>2. Progress'
      BY <1>7 DEF RestrictNet, Phases, Holdings, Progress
    <2>3. (Outcome /\ Ownership)'
      BY <1>7 DEF RestrictNet, Phases, Holdings, Progress, Outcome,
         Ownership
    <2> QED
      BY <2>1, <2>2, <2>3
  <1>8. CASE Exec
    <2>1. (Phases /\ Holdings)'
      BY <1>8 DEF Exec, Phases, Holdings
    <2>2. Progress'
      BY <1>8 DEF Exec, Phases, Holdings, Progress
    <2>3. (Outcome /\ Ownership)'
      BY <1>8 DEF Exec, Phases, Holdings, Progress, Outcome, Ownership
    <2> QED
      BY <2>1, <2>2, <2>3
  <1>9. CASE CloseListener
    <2>1. (Phases /\ Holdings)'
      BY <1>9 DEF CloseListener, Phases, Holdings
    <2>2. Progress'
      BY <1>9 DEF CloseListener, Phases, Holdings, Progress
    <2>3. (Outcome /\ Ownership)'
      BY <1>9 DEF CloseListener, Phases, Holdings, Progress, Outcome,
         Ownership
    <2> QED
      BY <2>1, <2>2, <2>3
  <1>10. CASE CloseBrokerSock
    <2>1. (Phases /\ Holdings)'
      BY <1>10 DEF CloseBrokerSock, Phases, Holdings
    <2>2. Progress'
      BY <1>10 DEF CloseBrokerSock, Phases, Holdings, Progress
    <2>3. (Outcome /\ Ownership)'
      BY <1>10 DEF CloseBrokerSock, Phases, Holdings, Progress, Outcome,
         Ownership
    <2> QED
      BY <2>1, <2>2, <2>3
  <1> QED
    BY <1>1, <1>2, <1>3, <1>4, <1>5, <1>6, <1>7, <1>8, <1>9, <1>10 DEF ChildSetup

(* The broker's steps keep the rest of IInv.                                 *)
LEMMA BrokerRest ==
  ASSUME IInv, Broker
  PROVE  Rest'
  <1> USE PolicyFrame
      DEF IInv, Rest, TypeOK, ParentTypeOK, PlanTypeOK, FdTypeOK, BrokerTypeOK, ChildTypeOK,
          ConfTypeOK, BeforeFork, Alive, Exited,
          BrokerEnds, parentVars, fdVars,
          brokerVars, childVars, confVars
  <1>1. CASE BrokerStart
    <2>1. (Phases /\ Holdings)'
      BY <1>1 DEF BrokerStart, Phases, Holdings
    <2>2. Progress'
      BY <1>1 DEF BrokerStart, Phases, Holdings, Progress
    <2>3. (Outcome /\ Ownership)'
      BY <1>1 DEF BrokerStart, Phases, Holdings, Progress, Outcome,
         Ownership
    <2> QED
      BY <2>1, <2>2, <2>3
  <1>2. CASE BrokerRecvFd
    <2>1. (Phases /\ Holdings)'
      BY <1>2 DEF BrokerRecvFd, Phases, Holdings
    <2>2. Progress'
      BY <1>2 DEF BrokerRecvFd, Phases, Holdings, Progress
    <2>3. (Outcome /\ Ownership)'
      BY <1>2 DEF BrokerRecvFd, Phases, Holdings, Progress, Outcome,
         Ownership
    <2> QED
      BY <2>1, <2>2, <2>3
  <1>3. CASE BrokerRecv
    <2>1. (Phases /\ Holdings)'
      BY <1>3 DEF BrokerRecv, Phases, Holdings
    <2>2. Progress'
      BY <1>3 DEF BrokerRecv, Phases, Holdings, Progress
    <2>3. (Outcome /\ Ownership)'
      BY <1>3 DEF BrokerRecv, Phases, Holdings, Progress, Outcome,
         Ownership
    <2> QED
      BY <2>1, <2>2, <2>3
  <1>4. CASE BrokerRecvEnds
    <2>1. (Phases /\ Holdings)'
      BY <1>4 DEF BrokerRecvEnds, Phases, Holdings
    <2>2. Progress'
      BY <1>4 DEF BrokerRecvEnds, Phases, Holdings, Progress
    <2>3. (Outcome /\ Ownership)'
      BY <1>4 DEF BrokerRecvEnds, Phases, Holdings, Progress, Outcome,
         Ownership
    <2> QED
      BY <2>1, <2>2, <2>3
  <1>5. CASE BrokerServe
    <2>1. (Phases /\ Holdings)'
      BY <1>5 DEF BrokerServe, Phases, Holdings
    <2>2. Progress'
      BY <1>5 DEF BrokerServe, Phases, Holdings, Progress
    <2>3. (Outcome /\ Ownership)'
      BY <1>5 DEF BrokerServe, Phases, Holdings, Progress, Outcome,
         Ownership
    <2> QED
      BY <2>1, <2>2, <2>3
  <1>6. CASE BrokerTerminated
    <2>1. (Phases /\ Holdings)'
      BY <1>6 DEF BrokerTerminated, Phases, Holdings
    <2>2. Progress'
      BY <1>6 DEF BrokerTerminated, Phases, Holdings, Progress
    <2>3. (Outcome /\ Ownership)'
      BY <1>6 DEF BrokerTerminated, Phases, Holdings, Progress, Outcome,
         Ownership
    <2> QED
      BY <2>1, <2>2, <2>3
  <1>7. CASE BrokerRecvFdFails
    <2>1. (Phases /\ Holdings)'
      BY <1>7 DEF BrokerRecvFdFails, Phases, Holdings
    <2>2. Progress'
      BY <1>7 DEF BrokerRecvFdFails, Phases, Holdings, Progress
    <2>3. (Outcome /\ Ownership)'
      BY <1>7 DEF BrokerRecvFdFails, Phases, Holdings, Progress, Outcome,
         Ownership
    <2> QED
      BY <2>1, <2>2, <2>3
  <1> QED
    BY <1>1, <1>2, <1>3, <1>4, <1>5, <1>6, <1>7 DEF Broker

(* The workload's steps keep the rest of IInv.                               *)
LEMMA WorkloadRest ==
  ASSUME IInv, WorkloadCalls \/ WorkloadInterrupted \/ KernelAnswers \/ WorkloadExits
  PROVE  Rest'
  <1> USE PolicyFrame
      DEF IInv, Rest, TypeOK, ParentTypeOK, PlanTypeOK, FdTypeOK, BrokerTypeOK, ChildTypeOK,
          ConfTypeOK, BeforeFork, Alive, Exited,
          ChildEnds, parentVars, fdVars,
          brokerVars, childVars, confVars
  <1>1. CASE WorkloadCalls
    <2>1. (Phases /\ Holdings)'
      BY <1>1 DEF WorkloadCalls, Phases, Holdings
    <2>2. Progress'
      BY <1>1 DEF WorkloadCalls, Phases, Holdings, Progress
    <2>3. (Outcome /\ Ownership)'
      BY <1>1 DEF WorkloadCalls, Phases, Holdings, Progress, Outcome,
         Ownership
    <2> QED
      BY <2>1, <2>2, <2>3
  <1>2. CASE WorkloadInterrupted
    <2>1. (Phases /\ Holdings)'
      BY <1>2 DEF WorkloadInterrupted, Phases, Holdings
    <2>2. Progress'
      BY <1>2 DEF WorkloadInterrupted, Phases, Holdings, Progress
    <2>3. (Outcome /\ Ownership)'
      BY <1>2 DEF WorkloadInterrupted, Phases, Holdings, Progress,
         Outcome, Ownership
    <2> QED
      BY <2>1, <2>2, <2>3
  <1>3. CASE KernelAnswers
    <2>1. (Phases /\ Holdings)'
      BY <1>3 DEF KernelAnswers, Phases, Holdings
    <2>2. Progress'
      BY <1>3 DEF KernelAnswers, Phases, Holdings, Progress
    <2>3. (Outcome /\ Ownership)'
      BY <1>3 DEF KernelAnswers, Phases, Holdings, Progress, Outcome,
         Ownership
    <2> QED
      BY <2>1, <2>2, <2>3
  <1>4. CASE WorkloadExits
    <2>1. (Phases /\ Holdings)'
      BY <1>4 DEF WorkloadExits, Signaled, SIGKILL, Phases, Holdings
    <2>2. Progress'
      BY <1>4 DEF WorkloadExits, Signaled, SIGKILL, Phases, Holdings, Progress
    <2>3. (Outcome /\ Ownership)'
      BY <1>4 DEF WorkloadExits, Signaled, SIGKILL, Phases, Holdings,
         Progress, Outcome, Ownership
    <2> QED
      BY <2>1, <2>2, <2>3
  <1> QED
    BY <1>1, <1>2, <1>3, <1>4

---------------------------------------------------------------------------
(* The inductive invariant is preserved by every step, stuttering included.  *)
LEMMA NextInv == IInv /\ [Next]_vars => IInv'
  <1> SUFFICES ASSUME IInv, [Next]_vars PROVE IInv'
    OBVIOUS
  <1>1. CASE Parent
    BY <1>1, ParentTypes, ParentRest DEF Rest, IInv
  <1>2. CASE ChildSetup
    BY <1>2, ChildSetupTypes, ChildSetupRest DEF Rest, IInv
  <1>3. CASE Broker
    BY <1>3, BrokerTypes, BrokerRest DEF Rest, IInv
  <1>4. CASE WorkloadCalls \/ WorkloadInterrupted \/ KernelAnswers \/ WorkloadExits
    BY <1>4, WorkloadTypes, WorkloadRest DEF Rest, IInv
  <1>5. CASE UNCHANGED vars
    <2>1. TypeOK'
      BY <1>5
      DEF vars, parentVars, fdVars, brokerVars, childVars, confVars, IInv, TypeOK,
          ParentTypeOK, PlanTypeOK, FdTypeOK, BrokerTypeOK, ChildTypeOK, ConfTypeOK
    <2>2. Rest'
      BY <1>5, PolicyFrame
      DEF vars, parentVars, fdVars, brokerVars, childVars, confVars, IInv, Rest,
          Phases, Holdings, Progress, Outcome, Ownership, Alive
    <2> QED
      BY <2>1, <2>2 DEF Rest, IInv
  <1> QED
    BY <1>1, <1>2, <1>3, <1>4, <1>5 DEF Next, Done

(* IInv implies Confined: the program counters fix how far setup has come.   *)
LEMMA InvConfined == IInv => Confined
  BY PoliciesAssumption
  DEF IInv, TypeOK, ParentTypeOK, PolicyType, Phases, Alive, Holdings, Progress, Confined,
      NotifyPlan, DenyPlan, MountNamespace, MountBroker, Brokered

(* IInv rules out a descriptor or process left behind by the parent.         *)
LEMMA InvNothingLeft == IInv => NothingLeft
  BY DEF IInv, TypeOK, ChildTypeOK, Phases, Alive, Holdings, NothingLeft

(* IInv ties an exit code of 0 to a confined child that exited with 0.       *)
LEMMA InvSuccess == IInv => SuccessIsReal
  BY DEF IInv, Outcome, SuccessIsReal

(* IInv limits the holders of the listener: two only between the child's     *)
(* sendmsg and its close.                                                    *)
LEMMA InvOneListener == IInv => OneListener
  <1> DEFINE Holders == listener \cup (IF inflight THEN {"socket"} ELSE {})
  <1> SUFFICES ASSUME IInv PROVE OneListener
    OBVIOUS
  <1>1. child \in {"layers", "net", "exec", "run"} => "child" \notin listener
    BY DEF IInv, Ownership
  <1>2. \/ Holders \in {{}, {"child"}, {"broker"}, {"socket"}}
        \/ child = "close_listener" /\ Holders \in {{"child", "socket"}, {"child", "broker"}}
    <2>1. child \notin {"send_fd", "close_listener"} => "child" \notin listener
      BY DEF IInv, Ownership
    <2>2. child = "send_fd" => "broker" \notin listener /\ ~inflight
      BY DEF IInv, Ownership
    <2>3. inflight => "broker" \notin listener
      BY DEF IInv, Ownership
    <2>4. listener \subseteq {"child", "broker"} /\ inflight \in BOOLEAN
      BY DEF IInv, TypeOK, FdTypeOK
    <2> QED
      BY <2>1, <2>2, <2>3, <2>4
  <1>3. /\ Cardinality({}) = 0 /\ Cardinality({"child"}) = 1
        /\ Cardinality({"broker"}) = 1 /\ Cardinality({"socket"}) = 1
    BY FS_EmptySet, FS_Singleton
  <1>4. Cardinality({"child", "socket"}) = 2 /\ Cardinality({"child", "broker"}) = 2
    <2>1. IsFiniteSet({"child"}) /\ Cardinality({"child"}) = 1
      BY FS_Singleton
    <2>2. Cardinality({"child"} \cup {"socket"}) = 2 /\ Cardinality({"child"} \cup {"broker"}) = 2
      BY <2>1, FS_AddElement
    <2>3. /\ {"child", "socket"} = {"child"} \cup {"socket"}
          /\ {"child", "broker"} = {"child"} \cup {"broker"}
      OBVIOUS
    <2> QED
      BY <2>2, <2>3
  <1>5. Cardinality(Holders) <= IF child = "close_listener" THEN 2 ELSE 1
    BY <1>2, <1>3, <1>4
  <1> QED
    BY <1>1, <1>5 DEF OneListener

---------------------------------------------------------------------------
(* IInv is an invariant of every run of landlockd_run_policy_ir.             *)
THEOREM Inductive == Safety => []IInv
  BY InitInv, NextInv, PTL DEF Safety

(* Every variable keeps its type; the exit code landlockd_run_policy_ir      *)
(* returns is one a process can exit with.                                   *)
THEOREM TypeCorrect == Safety => []TypeOK
  <1>1. IInv => TypeOK
    BY DEF IInv
  <1> QED
    BY <1>1, Inductive, PTL

(* A workload executes only with every restriction of its policy in force,   *)
(* for every policy and whatever fails on the way.                           *)
THEOREM AlwaysConfined == Safety => []Confined
  BY Inductive, InvConfined, PTL

(* Whatever way out landlockd_run_policy_ir takes, no descriptor or process  *)
(* is left behind.                                                           *)
THEOREM NeverLeaks == Safety => []NothingLeft
  BY Inductive, InvNothingLeft, PTL

(* Success is reported only for a confined workload that exited with 0.      *)
THEOREM SuccessReal == Safety => []SuccessIsReal
  BY Inductive, InvSuccess, PTL

(* Nobody but the broker holds the notify listener once the child restricts  *)
(* itself, and there are never two holders but in the child's handing over.  *)
THEOREM SingleListener == Safety => []OneListener
  BY Inductive, InvOneListener, PTL
=============================================================================
