----------------------------- MODULE PolicyLoad -----------------------------
(* landlockd_policy_load_file with the policy helper                         *)
(* (src/src/landlock_policy_loader.c): a child process parses the policy and *)
(* writes it to a pipe in the wire format; the parent waits for it, reads    *)
(* what it wrote and rebuilds the policy, one section after the other.       *)
(*                                                                           *)
(* A policy is a sequence of entries per section.  The wire is a sequence of *)
(* words: numbers, and texts after their length.  Only whether a text is     *)
(* empty matters, so a text is one word and its length is 0 or 1.  Masks of  *)
(* access rights have 64 bits on both sides, and counts are below 2^32.      *)
EXTENDS Naturals, SequencesExt

CONSTANTS
    Texts,         \* paths, names and actions, never empty
    KnownActions,  \* wire_broker_addfd_action_is_known
    NoText,        \* a NULL string
    Policies,      \* what the policy file may hold
    WireVersion,   \* LANDLOCKD_POLICY_WIRE_VERSION, and the magic before it
    Versions,      \* what helper binaries write there
    Half,          \* 2^32 in the code: where a mount attribute mask is split
    Ports,         \* 2^16: what the cast to uint16_t leaves of a port
    MaxErrno,      \* 4095
    MaxSyscall,    \* INT32_MAX
    PipeCap        \* words that fit into a pipe

(* The sections, in the order of the header and of the body.                 *)
PathLists == {"open_read", "open_write", "scratch", "export", "broker_tmpfs",
              "mount_tmpfs", "mount_proc"}
BindLists == {"broker_bind", "mount_bind"}
Order == <<"fs_layer", "net", "net_rule", "open_read", "open_write", "scratch", "export",
           "broker_tmpfs", "broker_bind", "broker_object", "addfd", "mount_tmpfs",
           "mount_bind", "mount_proc", "root", "cwd", "seccomp", "deny">>
Sections == Range(Order)

(* The sections whose header is a flag and a value, with nothing in the body. *)
Wide == {"net", "seccomp"}

(* landlockd_policy_ir_init, landlockd_policy_ir_reset *)
EmptyIr == [s \in Sections |-> <<>>]

(* An entry of a section, as the checks of landlock_policy_ir.c leave it.    *)
EntryOf(s) ==
    CASE s = "fs_layer" ->
            [handled : Nat \ {0}, rules : Seq([access : Nat \ {0}, path : Texts])]
      [] s = "net_rule" -> [port : 0..(Ports - 1), access : Nat \ {0}]
      [] s \in PathLists \cup {"root", "cwd"} -> Texts
      [] s \in BindLists -> [source : Texts, target : Texts, read_only : {0, 1}]
      [] s = "broker_object" ->
            [name : Texts, fs_type : Texts, attach : Seq(Texts) \ {<<>>},
             attrs : 0..(Half * Half - 1)]
      [] s = "addfd" -> [action : KnownActions, target : Texts, mode : Texts \cup {NoText}]
      [] s = "net" -> Nat \ {0}
      [] s = "seccomp" -> 1..MaxErrno
      [] s = "deny" -> 0..MaxSyscall

(* What every policy the in-process loader accepts has (see also WireReady   *)
(* of PolicyParity): entries that passed the checks, at most one value where *)
(* the IR has a field, rules only where the section is enabled.              *)
ASSUME PoliciesAssumption ==
    /\ NoText \notin Texts /\ KnownActions \subseteq Texts
    /\ Texts \cap Nat = {} /\ Versions \subseteq Nat
    /\ {Half, Ports, MaxErrno, MaxSyscall} \subseteq Nat \ {0} /\ PipeCap \in Nat
    /\ \A ir \in Policies :
        /\ ir = [s \in Sections |-> ir[s]]
        /\ \A s \in Sections : ir[s] \in Seq(EntryOf(s))
        /\ \A s \in {"net", "seccomp", "root", "cwd"} : Len(ir[s]) <= 1
        /\ ir["net_rule"] # <<>> => ir["net"] # <<>>
        /\ ir["deny"] # <<>> <=> ir["seccomp"] # <<>>

VARIABLES
    policy,        \* what the file holds
    version,       \* the wire version of the helper binary that is found
    given,         \* what out_ir held when the call was made
    out_ir,        \* what it holds now
    pc,            \* where the caller is
    result,        \* what the call returned
    ends,          \* pipe ends the caller has open
    helper,        \* where the helper is
    written,       \* parts of the wire the helper has written
    pipe,          \* out_pipe, written and not yet read
    buf,           \* wire_buf
    off,           \* words of it consumed
    head,          \* the header, as read
    section,       \* the section to be read next
    failed         \* something went wrong that the call has to report

vars == <<policy, version, given, out_ir, pc, result, ends, helper, written, pipe, buf, off, head, section, failed>>
helperVars == <<helper, written, pipe>>
readVars == <<buf, off, head, section>>

ReadEnds == {"out_r", "err_r", "exec_r"}
WriteEnds == {"out_w", "err_w", "exec_w"}
Dead == {"exited", "failed", "killed", "noexec"}

---------------------------------------------------------------------------
(* Writing: write_ir.                                                        *)

Text(t) == IF t = NoText THEN <<0>> ELSE <<1, t>>

(* The entry of a section, as it goes on the wire. *)
Encode(s, e) ==
    CASE s = "fs_layer" ->
            <<e.handled, Len(e.rules)>>
            \o FlattenSeq([i \in DOMAIN e.rules |-> <<e.rules[i].access>> \o Text(e.rules[i].path)])
      [] s = "net_rule" -> <<e.port, e.access>>
      [] s \in PathLists -> Text(e)
      [] s \in BindLists -> Text(e.source) \o Text(e.target) \o <<e.read_only>>
      [] s = "broker_object" ->
            Text(e.name) \o Text(e.fs_type)
            \o <<Len(e.attach), e.attrs % Half, e.attrs \div Half>>
            \o FlattenSeq([i \in DOMAIN e.attach |-> Text(e.attach[i])])
      [] s = "addfd" -> Text(e.action) \o Text(e.target) \o Text(e.mode)
      [] OTHER -> <<e>>

(* What the header says of a section: a count, or a flag and a value. *)
HeadWords(ir, s) ==
    IF s \in Wide
    THEN IF ir[s] = <<>> THEN <<0, 0>> ELSE <<1, ir[s][1]>>
    ELSE <<Len(ir[s])>>

Header(ir) == <<version>> \o FlattenSeq([i \in DOMAIN Order |-> HeadWords(ir, Order[i])])

BodyWords(ir, s) ==
    IF s \in Wide THEN <<>>
    ELSE FlattenSeq([i \in DOMAIN ir[s] |-> Encode(s, ir[s][i])])

(* The parts of the wire, in the order they are written: the header, and one *)
(* for each section.                                                         *)
Part(ir, i) == IF i = 0 THEN Header(ir) ELSE BodyWords(ir, Order[i])
Wire(ir) == Header(ir) \o FlattenSeq([i \in DOMAIN Order |-> BodyWords(ir, Order[i])])

---------------------------------------------------------------------------
(* Reading: load_ir_from_wire.  A read yields a value, the offset behind it  *)
(* and whether it succeeded.                                                 *)

Got(value, at, ok) == [value |-> value, off |-> at, ok |-> ok]

(* read_u32_buf, read_u64_buf *)
Num(at) ==
    IF at < Len(buf) /\ buf[at + 1] \notin Texts
    THEN Got(buf[at + 1], at + 1, TRUE) ELSE Got(0, at, FALSE)

(* A length, then as many bytes of text. *)
TextAt(at) ==
    LET n == Num(at) IN
    IF ~n.ok \/ n.value = 0 THEN Got(NoText, n.off, n.ok)
    ELSE IF n.off < Len(buf) /\ buf[n.off + 1] \in Texts
         THEN Got(buf[n.off + 1], n.off + 1, TRUE) ELSE Got(NoText, n.off, FALSE)

(* The same read once, twice, up to n times, each where the last one ended;  *)
(* read[at] is what it yields at an offset.                                  *)
Offsets == 0..Len(buf)
Reads(read, n, at) ==
    LET step[k \in 0..n] ==
          IF k = 0 THEN Got(<<>>, at, TRUE)
          ELSE LET last == step[k - 1]
                   next == read[last.off]
               IN Got(Append(last.value, next.value), next.off, last.ok /\ next.ok)
    IN step
Repeat(read, n, at) == Reads(read, n, at)[n]

(* landlockd_policy_ir_add_fs_layer, landlockd_policy_ir_add_fs_rule *)
FsRuleAt(at) ==
    LET access == Num(at)
        path == TextAt(access.off)
    IN Got([access |-> access.value, path |-> path.value], path.off,
           access.ok /\ path.ok /\ access.value # 0)
FsLayerAt(at) ==
    LET handled == Num(at)
        count == Num(handled.off)
        rules == Repeat([p \in Offsets |-> FsRuleAt(p)], count.value, count.off)
    IN Got([handled |-> handled.value, rules |-> rules.value], rules.off,
           handled.ok /\ count.ok /\ rules.ok /\ handled.value # 0)

(* landlockd_policy_ir_add_net_rule; the port is cast to uint16_t *)
NetRuleAt(at) ==
    LET port == Num(at)
        access == Num(port.off)
    IN Got([port |-> port.value % Ports, access |-> access.value], access.off,
           port.ok /\ access.ok /\ access.value # 0)

(* The lists of paths, which may not be empty. *)
PathAt(at) ==
    LET path == TextAt(at) IN Got(path.value, path.off, path.ok /\ path.value # NoText)

BindAt(at) ==
    LET source == PathAt(at)
        tgt == PathAt(source.off)
        ro == Num(tgt.off)
    IN Got([source |-> source.value, target |-> tgt.value, read_only |-> ro.value], ro.off,
           source.ok /\ tgt.ok /\ ro.ok /\ ro.value <= 1)

(* Mutant: the upper half of the attributes is lost.                         *)
AttrsLow(lo, hi) == lo

(* allowed_attr_set, put together again *)
Attrs(lo, hi) == hi * Half + lo

ObjectAt(at) ==
    LET name == PathAt(at)
        type == PathAt(name.off)
        count == Num(type.off)
        lo == Num(count.off)
        hi == Num(lo.off)
        attach == Repeat([p \in Offsets |-> PathAt(p)], count.value, hi.off)
    IN Got([name |-> name.value, fs_type |-> type.value, attach |-> attach.value,
            attrs |-> Attrs(lo.value, hi.value)], attach.off,
           /\ name.ok /\ type.ok /\ count.ok /\ lo.ok /\ hi.ok /\ attach.ok
           /\ count.value # 0)

AddFdAt(at) ==
    LET action == PathAt(at)
        tgt == PathAt(action.off)
        mode == TextAt(tgt.off)
    IN Got([action |-> action.value, target |-> tgt.value, mode |-> mode.value], mode.off,
           action.ok /\ tgt.ok /\ mode.ok /\ action.value \in KnownActions)

(* Mutant: a terminating zero is skipped as well.                            *)
RuntimeAtNul(at) ==
    IF at < Len(buf) /\ buf[at + 1] \in Texts
    THEN Got(buf[at + 1], at + 2, TRUE) ELSE Got(NoText, at, FALSE)

(* runtime.root and runtime.cwd: the length is in the header. *)
RuntimeAt(at) ==
    IF at < Len(buf) /\ buf[at + 1] \in Texts
    THEN Got(buf[at + 1], at + 1, TRUE) ELSE Got(NoText, at, FALSE)

(* The number of a system call is an int. *)
DenyAt(at) == LET nr == Num(at) IN Got(nr.value, nr.off, nr.ok /\ nr.value <= MaxSyscall)

(* The header: behind the version, a flag and a value for net and seccomp, a *)
(* count for the rest.                                                       *)
HeadOffset(i) == i + Cardinality({j \in 1..(i - 1) : Order[j] \in Wide})
HeaderRead ==
    [i \in DOMAIN Order |->
        [count |-> Num(HeadOffset(i)).value,
         value |-> IF Order[i] \in Wide THEN Num(HeadOffset(i) + 1).value ELSE 0]]
HeaderWidth == HeadOffset(Len(Order) + 1)

HeadOf(s) == head[CHOOSE i \in DOMAIN Order : Order[i] = s]

(* The entry of a section. *)
EntryAt(s, at) ==
    CASE s = "fs_layer" -> FsLayerAt(at)
      [] s = "net_rule" -> NetRuleAt(at)
      [] s \in PathLists -> PathAt(at)
      [] s \in BindLists -> BindAt(at)
      [] s = "broker_object" -> ObjectAt(at)
      [] s = "addfd" -> AddFdAt(at)
      [] s \in {"root", "cwd"} -> RuntimeAt(at)
      [] s = "deny" -> DenyAt(at)

(* The value of an enabled section: landlockd_policy_ir_enable_net, and the  *)
(* range of an errno.                                                        *)
ValueOk(s, value) == value # 0 /\ (s = "seccomp" => value <= MaxErrno)

(* All entries of a section, as many as the header says; none where it says  *)
(* that the section is not enabled.                                          *)
SectionAt(s) ==
    LET n == HeadOf(s).count IN
    CASE s \in Wide ->
            IF n = 0 THEN Got(<<>>, off, TRUE)
            ELSE Got(<<HeadOf(s).value>>, off, ValueOk(s, HeadOf(s).value))
      [] s = "net_rule" /\ HeadOf("net").count = 0 -> Got(<<>>, off, TRUE)
      [] s = "deny" /\ HeadOf("seccomp").count = 0 -> Got(<<>>, off, TRUE)
      [] OTHER ->
            Repeat([p \in Offsets |-> EntryAt(s, p)],
                   IF s \in {"root", "cwd"} /\ n > 0 THEN 1 ELSE n, off)

---------------------------------------------------------------------------
TypeOK ==
    /\ \A ir \in {policy, given, out_ir} : DOMAIN ir = Sections
    /\ version \in Versions
    /\ pc \in {"called", "forking", "waiting", "draining", "checking", "header", "section",
               "finish", "returned"}
    /\ result \in {"none", "ok", "error"}
    /\ ends \subseteq ReadEnds \cup WriteEnds
    /\ helper \in {"none", "child", "loading", "writing"} \cup Dead
    /\ written \in 0..(Len(Order) + 1)
    /\ Len(pipe) <= PipeCap
    /\ off <= Len(buf) /\ section \in 1..Len(Order)
    /\ failed \in BOOLEAN

Init ==
    /\ policy \in Policies /\ version \in Versions
    /\ given \in {EmptyIr, policy} /\ out_ir = given
    /\ pc = "called" /\ result = "none"
    /\ ends = {} /\ helper = "none" /\ written = 0 /\ pipe = <<>>
    /\ buf = <<>> /\ off = 0 /\ head = <<>> /\ section = 1
    /\ failed = FALSE

Return(r) == pc' = "returned" /\ result' = r

(* Mutant: what was read before the error is kept.                           *)
FailKeeping(open) == Return("error") /\ ends' = open /\ failed' = TRUE /\ UNCHANGED out_ir

(* An error: what the caller still has open, and out_ir empty again.         *)
Fail(open) == Return("error") /\ ends' = open /\ failed' = TRUE /\ out_ir' = EmptyIr

---------------------------------------------------------------------------
(* The caller.                                                               *)

(* out_ir must be empty. *)
Refuse ==
    /\ pc = "called" /\ given # EmptyIr
    /\ Return("error") /\ failed' = TRUE
    /\ UNCHANGED <<policy, version, given, out_ir, ends, helperVars, readVars>>

(* pipe, three times.  When one fails the ends of the earlier ones stay open. *)
Pipes ==
    /\ pc = "called" /\ given = EmptyIr
    /\ \/ /\ pc' = "forking" /\ ends' = ReadEnds \cup WriteEnds
          /\ UNCHANGED <<result, out_ir, failed>>
       \/ \E open \in {{}, {"out_r", "out_w"}, {"out_r", "out_w", "err_r", "err_w"}} : Fail(open)
    /\ UNCHANGED <<policy, version, given, helperVars, readVars>>

(* Mutant: the write end of the output pipe stays open in the caller.        *)
ForkedEndsKept == ReadEnds \cup {"out_w"}

(* What the caller keeps open once there is a helper.                        *)
ForkedEnds == ReadEnds

Fork ==
    /\ pc = "forking"
    /\ \/ /\ pc' = "waiting" /\ ends' = ForkedEnds /\ helper' = "child"
          /\ UNCHANGED <<result, out_ir, failed, written, pipe>>
       \/ Fail({}) /\ UNCHANGED helperVars
    /\ UNCHANGED <<policy, version, given, readVars>>

(* waitpid comes before anything is read. *)
WaitHelper ==
    /\ pc = "waiting" /\ helper \in Dead
    /\ \/ pc' = "draining" /\ UNCHANGED <<result, ends, out_ir, failed>>
       \/ Fail({})
    /\ UNCHANGED <<policy, version, given, helperVars, readVars>>

(* Mutant: the error pipe is forgotten when reading fails.                   *)
DrainFailedEndsKept == {"err_r"}

(* What is open when reading the pipes fails. *)
DrainFailedEnds == {}

(* append_fd reads until every write end is closed. *)
Drain ==
    /\ pc = "draining" /\ {"out_w", "err_w"} \cap ends = {}
    /\ \/ /\ buf' = pipe /\ pipe' = <<>>
          /\ pc' = "checking" /\ ends' = {}
          /\ UNCHANGED <<result, out_ir, failed>>
       \/ Fail(DrainFailedEnds) /\ UNCHANGED <<buf, pipe>>
    /\ UNCHANGED <<policy, version, given, helper, written, off, head, section>>

(* The exec error, then the exit status. *)
CheckHelper ==
    /\ pc = "checking"
    /\ IF helper = "exited" THEN pc' = "header" /\ UNCHANGED <<result, ends, out_ir, failed>>
       ELSE Fail({})
    /\ UNCHANGED <<policy, version, given, helperVars, readVars>>

ReadHeader ==
    /\ pc = "header"
    /\ IF Len(buf) >= HeaderWidth /\ Num(0).value = WireVersion
       THEN /\ head' = HeaderRead /\ off' = HeaderWidth /\ pc' = "section"
            /\ UNCHANGED <<result, ends, out_ir, failed>>
       ELSE Return("error") /\ out_ir' = EmptyIr /\ UNCHANGED <<ends, failed, off, head>>
    /\ UNCHANGED <<policy, version, given, helperVars, buf, section>>

(* A section is added to out_ir; memory may run out on the way. *)
ReadSection ==
    /\ pc = "section"
    /\ LET s == Order[section]
           got == SectionAt(s)
       IN \/ /\ got.ok
             /\ out_ir' = [out_ir EXCEPT ![s] = got.value] /\ off' = got.off
             /\ IF section = Len(Order) THEN pc' = "finish" /\ UNCHANGED section
                ELSE section' = section + 1 /\ UNCHANGED pc
             /\ UNCHANGED <<result, ends, failed>>
          \/ got.ok /\ Fail({}) /\ UNCHANGED <<off, section>>
          \/ /\ ~got.ok /\ Return("error") /\ out_ir' = EmptyIr
             /\ UNCHANGED <<off, section, ends, failed>>
    /\ UNCHANGED <<policy, version, given, helperVars, buf, head>>

(* Nothing may be left over. *)
Finish ==
    /\ pc = "finish"
    /\ IF off = Len(buf) THEN Return("ok") /\ UNCHANGED out_ir
       ELSE Return("error") /\ out_ir' = EmptyIr
    /\ UNCHANGED <<policy, version, given, ends, failed, helperVars, readVars>>

Caller ==
    \/ Refuse \/ Pipes \/ Fork \/ WaitHelper \/ Drain \/ CheckHelper
    \/ ReadHeader \/ ReadSection \/ Finish

---------------------------------------------------------------------------
(* The helper.                                                               *)

callerVars == <<policy, version, given, out_ir, pc, result, ends, readVars, failed>>

HelperExecs ==
    /\ helper = "child"
    /\ helper' \in {"loading", "noexec"}
    /\ UNCHANGED <<callerVars, written, pipe>>

(* landlockd_policy_load_file_in_process *)
HelperLoads ==
    /\ helper = "loading"
    /\ helper' \in {"writing", "failed"}
    /\ UNCHANGED <<callerVars, written, pipe>>

(* A write waits until there is room. *)
HelperWrites ==
    /\ helper = "writing" /\ written <= Len(Order)
    /\ Len(pipe) + Len(Part(policy, written)) <= PipeCap
    /\ pipe' = pipe \o Part(policy, written)
    /\ written' = written + 1
    /\ UNCHANGED <<callerVars, helper>>

HelperExits ==
    /\ helper = "writing" /\ written = Len(Order) + 1
    /\ helper' = "exited"
    /\ UNCHANGED <<callerVars, written, pipe>>

Helper == HelperExecs \/ HelperLoads \/ HelperWrites \/ HelperExits

(* Another program, found through LANDLOCKD_POLICY_HELPER, or a helper that  *)
(* went wrong, stops after any word of the wire, or writes a word too many,  *)
(* and still reports success.                                                *)
HelperMisbehaves ==
    /\ helper = "writing"
    /\ helper' = "exited"
    /\ \/ /\ written <= Len(Order)
          /\ \E n \in 0..Len(Part(policy, written)) :
               /\ Len(pipe) + n <= PipeCap
               /\ pipe' = pipe \o SubSeq(Part(policy, written), 1, n)
       \/ /\ written = Len(Order) + 1 /\ Len(pipe) < PipeCap
          /\ \E word \in Texts \cup {0} : pipe' = Append(pipe, word)
    /\ UNCHANGED <<callerVars, written>>

(* Somebody kills the helper. *)
HelperKilled ==
    /\ helper \in {"child", "loading", "writing"}
    /\ helper' = "killed"
    /\ UNCHANGED <<callerVars, written, pipe>>

Next == Caller \/ Helper \/ HelperMisbehaves \/ HelperKilled

Spec == Init /\ [][Next]_vars

(* Both processes are scheduled.                                             *)
FairSpec == Spec /\ WF_vars(Caller) /\ WF_vars(Helper)

---------------------------------------------------------------------------
(* Properties.                                                               *)

Returned == pc = "returned"

(* The call succeeds exactly when nothing failed, the helper speaks this     *)
(* version and its output is complete and no longer than it should be,       *)
(* wherever it stopped; then out_ir is the policy of the file, whichever     *)
(* sections it uses and up to the largest errno, system call and port: what  *)
(* write_ir puts on the wire is what load_ir_from_wire makes of it.          *)
FaithfulLoad ==
    Returned => /\ result = "ok" <=> ~failed /\ version = WireVersion /\ buf = Wire(policy)
                /\ result = "ok" => out_ir = policy

(* A failed call leaves out_ir as it was, also when it failed in the middle  *)
(* of rebuilding the policy: nobody can run half a policy.                   *)
AllOrNothing == Returned /\ result = "error" => out_ir = given

(* No pipe end stays open and no helper runs on, unless the pipes could not  *)
(* all be made.                                                              *)
NothingLeft == Returned /\ helper # "none" => ends = {} /\ helper \in Dead

(* If the policy fits into the pipe, the call returns, whatever becomes of   *)
(* the helper.  (If it does not, both wait: the caller in waitpid, the       *)
(* helper in write.)                                                         *)
LoadReturns == Len(Wire(policy)) <= PipeCap ~> Returned
=============================================================================
