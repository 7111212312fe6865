----------------------------- MODULE PolicyFile -----------------------------
(* landlockd_policy_load_file_in_process                                     *)
(* (src/src/landlock_policy_loader_in_process.c): a document is read section *)
(* by section, each entry checked and added to the IR; whatever fails, the   *)
(* IR is reset.  Its caller may copy the IR at any time                      *)
(* (landlockd_policy_ir_copy, src/src/landlock_policy_ir.c).                 *)
(*                                                                           *)
(* Left out: the messages, and which of several defects is reported.  An     *)
(* entry with parts (a layer and its rules, an object and its attach paths)  *)
(* is checked and added in one step.                                         *)
EXTENDS PolicyDoc

CONSTANTS
    Documents,       \* what the policy file may hold: the keys of its root table
    EPERM            \* seccomp.errno when the document gives none

(* A value of a document: arrays are sequences, integers are numbers, and a  *)
(* key that is there has something.                                          *)
Sound(v) ==
    /\ v[2] # NULL
    /\ Is(v, "integer") => v[2] \in Int
    /\ Is(v, "array") =>
         /\ v[2] \in Seq({v[2][i] : i \in DOMAIN v[2]})
         /\ \A i \in DOMAIN v[2] : v[2][i][2] # NULL

(* A table, and one whose arrays may hold tables. *)
Flat(t) == \A k \in DOMAIN t : Sound(t[k])
Nested(t) ==
    /\ Flat(t)
    /\ \A k \in DOMAIN t :
         Is(t[k], "array") =>
             \A i \in DOMAIN t[k][2] : Is(t[k][2][i], "table") => Flat(t[k][2][i][2])

ASSUME DocumentAssumption ==
    /\ EPERM \in Errnos
    /\ \A doc \in Documents :
         /\ doc # NULL /\ Flat(doc)
         /\ \A k \in DOMAIN doc :
              /\ Is(doc[k], "table") => Nested(doc[k][2])
              /\ Is(doc[k], "array") =>
                    \A i \in DOMAIN doc[k][2] :
                        Is(doc[k][2][i], "table") => Nested(doc[k][2][i][2])

VARIABLES
    root,            \* the document
    out_ir,          \* the IR the caller passed
    copy,            \* the IR it is copied to
    pc,              \* where the caller is
    section,         \* position in Order of the section being loaded or copied
    item,            \* entries of it already taken
    result           \* what the last call returned; 0 by what it did

vars == <<root, out_ir, copy, pc, section, item, result>>

(* load_root and load_broker, in their order. *)
Order == <<"fs_layer", "net", "net_rule", "open_read", "open_write", "scratch", "export",
           "broker_tmpfs", "addfd", "broker_bind", "broker_object", "mount_tmpfs",
           "mount_bind", "mount_proc", "root", "cwd", "seccomp", "deny">>

(* The table of the document a section is read from, and its key there.      *)
Place(s) ==
    CASE s = "fs_layer" -> <<"", "fs_layer">>
      [] s = "net" -> <<"net", "handled_access_net">>
      [] s = "net_rule" -> <<"net", "rule">>
      [] s = "open_read" -> <<"broker", "allow_read">>
      [] s = "open_write" -> <<"broker", "allow_write">>
      [] s = "scratch" -> <<"broker", "scratch">>
      [] s = "export" -> <<"broker", "export">>
      [] s = "broker_tmpfs" -> <<"broker", "mount_tmpfs">>
      [] s = "addfd" -> <<"broker", "addfd">>
      [] s = "broker_bind" -> <<"broker", "mount_bind">>
      [] s = "broker_object" -> <<"broker", "mount_object">>
      [] s = "mount_tmpfs" -> <<"mount", "tmpfs">>
      [] s = "mount_bind" -> <<"mount", "bind">>
      [] s = "mount_proc" -> <<"mount", "proc">>
      [] s = "root" -> <<"runtime", "root">>
      [] s = "cwd" -> <<"runtime", "cwd">>
      [] s = "seccomp" -> <<"seccomp", "errno">>
      [] s = "deny" -> <<"seccomp", "deny">>

BrokerPaths == {"open_read", "open_write", "scratch", "export", "broker_tmpfs"}
MountPaths == {"mount_tmpfs", "mount_proc"}
Binds == {"broker_bind", "mount_bind"}

(* table_has_only_keys *)
OnlyKeys(t, allowed) == DOMAIN t \subseteq allowed

---------------------------------------------------------------------------
(* Checking an entry: what each load_ function asks of it.                   *)

(* load_access_array, resolve_access *)
AccessOk(arr, names) ==
    /\ arr # NULL
    /\ arr # <<>>
    /\ \A i \in DOMAIN arr : DatumAt(arr, i, "string") \in names
Access(arr) == {arr[i][2] : i \in DOMAIN arr}

FsRuleOk(t) ==
    /\ OnlyKeys(t, {"path", "allowed_access"})
    /\ NonEmpty(DatumIn(t, "path", "string"))
    /\ AccessOk(ArrayIn(t, "allowed_access"), FsAccess)

FsLayerOk(t) ==
    /\ OnlyKeys(t, {"handled_access_fs", "rule"})
    /\ AccessOk(ArrayIn(t, "handled_access_fs"), FsAccess)
    /\ LET rules == ArrayIn(t, "rule") IN
       rules # NULL => \A i \in DOMAIN rules : Is(rules[i], "table") /\ FsRuleOk(rules[i][2])

NetRuleOk(t) ==
    /\ OnlyKeys(t, {"port", "allowed_access"})
    /\ LET port == DatumIn(t, "port", "integer") IN port # NULL /\ port >= 0 /\ port <= MaxPort
    /\ AccessOk(ArrayIn(t, "allowed_access"), NetAccess)

AddfdOk(t) ==
    /\ OnlyKeys(t, {"action", "target", "mode"})
    /\ DatumIn(t, "action", "string") \in AddfdActions
    /\ IsAbsolute(DatumIn(t, "target", "string"))
    /\ KeyExists(t, "mode") => DatumIn(t, "mode", "string") \in Modes

BindOk(t) ==
    /\ OnlyKeys(t, {"source", "target", "read_only"})
    /\ IsAbsolute(DatumIn(t, "source", "string"))
    /\ IsAbsolute(DatumIn(t, "target", "string"))
    /\ KeyExists(t, "read_only") => DatumIn(t, "read_only", "boolean") # NULL

(* attrs of another type than an array is passed over; an empty one is not.  *)
MountObjectOk(t) ==
    /\ OnlyKeys(t, {"name", "fs_type", "attach", "attrs"})
    /\ LET name == DatumIn(t, "name", "string") IN NonEmpty(name) /\ name \notin Slashed
    /\ DatumIn(t, "fs_type", "string") \in FsTypes
    /\ LET attach == ArrayIn(t, "attach") IN
       /\ attach # NULL /\ attach # <<>>
       /\ \A i \in DOMAIN attach : IsAbsolute(DatumAt(attach, i, "string"))
    /\ LET attrs == ArrayIn(t, "attrs") IN attrs # NULL => AccessOk(attrs, MountAttr)

(* A mutant: off by one. *)
ErrnoOkMutant(errno) == errno # NULL => errno > 0 /\ errno <= MaxErrno + 1

ErrnoOk(errno) == errno # NULL => errno > 0 /\ errno <= MaxErrno

(* The entry v of section s. *)
EntryOk(s, v) ==
    CASE s = "fs_layer" -> Is(v, "table") /\ FsLayerOk(v[2])
      [] s = "net" -> AccessOk(ArrayIn(v[2], "handled_access_net"), NetAccess)
      [] s = "net_rule" -> Is(v, "table") /\ NetRuleOk(v[2])
      [] s \in BrokerPaths -> Is(v, "string") /\ NonEmpty(v[2])
      [] s \in MountPaths \cup {"root", "cwd"} -> Is(v, "string") /\ IsAbsolute(v[2])
      [] s \in Binds -> Is(v, "table") /\ BindOk(v[2])
      [] s = "addfd" -> Is(v, "table") /\ AddfdOk(v[2])
      [] s = "broker_object" -> Is(v, "table") /\ MountObjectOk(v[2])
      [] s = "seccomp" -> ErrnoOk(DatumIn(v[2], "errno", "integer"))
      [] s = "deny" -> Is(v, "string") /\ v[2] \in Syscalls

---------------------------------------------------------------------------
(* Building an entry of the IR.                                              *)

FsLayer(t) ==
    LET rules == ArrayIn(t, "rule")
    IN [handled |-> Access(ArrayIn(t, "handled_access_fs")),
        rules |-> IF rules = NULL THEN <<>>
                  ELSE [i \in DOMAIN rules |->
                           [path |-> DatumIn(rules[i][2], "path", "string"),
                            access |-> Access(ArrayIn(rules[i][2], "allowed_access"))]]]

(* A mutant: a bind is writable unless the document says otherwise. *)
BindMutant(t) ==
    LET ro == DatumIn(t, "read_only", "boolean")
    IN [source |-> DatumIn(t, "source", "string"),
        target |-> DatumIn(t, "target", "string"),
        read_only |-> IF ro = NULL THEN FALSE ELSE ro]

Bind(t) ==
    LET ro == DatumIn(t, "read_only", "boolean")
    IN [source |-> DatumIn(t, "source", "string"),
        target |-> DatumIn(t, "target", "string"),
        read_only |-> IF ro = NULL THEN TRUE ELSE ro]

MountObject(t) ==
    LET attach == ArrayIn(t, "attach")
        attrs == ArrayIn(t, "attrs")
    IN [name |-> DatumIn(t, "name", "string"),
        fs_type |-> DatumIn(t, "fs_type", "string"),
        attach |-> [i \in DOMAIN attach |-> attach[i][2]],
        attrs |-> IF attrs = NULL THEN {} ELSE Access(attrs)]

Entry(s, v) ==
    CASE s = "fs_layer" -> FsLayer(v[2])
      [] s = "net" -> Access(ArrayIn(v[2], "handled_access_net"))
      [] s = "net_rule" ->
            [port |-> DatumIn(v[2], "port", "integer") % 65536,
             access |-> Access(ArrayIn(v[2], "allowed_access"))]
      [] s \in Binds -> Bind(v[2])
      [] s = "addfd" ->
            [action |-> DatumIn(v[2], "action", "string"),
             target |-> DatumIn(v[2], "target", "string"),
             mode |-> DatumIn(v[2], "mode", "string")]
      [] s = "broker_object" -> MountObject(v[2])
      [] s = "seccomp" ->
            LET errno == DatumIn(v[2], "errno", "integer")
            IN IF errno = NULL THEN EPERM ELSE errno
      [] OTHER -> v[2]

---------------------------------------------------------------------------
(* The sections of a document.                                               *)

TableOf(s) ==
    LET t == Place(s)[1] IN IF t = "" THEN root ELSE TableIn(root, t)

(* The entries of a section, unread: none when the table is not there, or is *)
(* not a table, or the list is not a list.                                   *)
Items(s) ==
    LET t == TableOf(s)
        k == Place(s)[2]
        value == IF s \in {"root", "cwd"} THEN DatumIn(t, k, "string") ELSE ArrayIn(t, k)
    IN IF t = NULL THEN <<>>
       ELSE IF s \in {"net", "seccomp"} THEN <<Table(t)>>
       ELSE IF value = NULL THEN <<>>
       ELSE IF s \in {"root", "cwd"} THEN <<String(value)>> ELSE value

(* The keys a table may have. *)
AllowedKeys(t) ==
    IF t = "" THEN {"version", "fs_layer", "net", "broker", "mount", "runtime", "seccomp"}
    ELSE {Place(s)[2] : s \in {x \in Sections : Place(x)[1] = t}}

(* What is asked of a section as a whole, by load_broker_addfd_array,        *)
(* load_bind_rule_array, load_mount_object_rule_array, load_mount,           *)
(* load_runtime and load_seccomp.                                            *)
SectionOk(s) ==
    LET t == TableOf(s) IN
    t # NULL =>
        /\ OnlyKeys(t, AllowedKeys(Place(s)[1]))
        /\ s \in Binds \cup MountPaths \cup {"addfd", "broker_object"} =>
               ArrayIn(t, Place(s)[2]) # <<>>
        /\ s = "deny" => Items(s) # <<>>
        /\ s = "mount_proc" => \E k \in DOMAIN t : Is(t[k], "array")
        /\ s = "cwd" => Items("root") # <<>> \/ Items("cwd") # <<>>

---------------------------------------------------------------------------
(* Adding an entry: what the functions of landlock_policy_ir.c refuse.       *)

(* landlockd_policy_ir_add_fs_layer, _add_fs_rule *)
AddFsLayerOk(e) == e.handled # {} /\ \A i \in DOMAIN e.rules : e.rules[i].access # {}

(* landlockd_policy_ir_enable_net, _add_net_rule *)
AddNetRuleOk(ir, e) == ir["net"] # <<>> /\ e.access # {}

(* landlockd_policy_ir_add_broker_mount_object_rule *)
AddObjectOk(e) ==
    /\ e.name # "" /\ e.fs_type # ""
    /\ e.attach # <<>> /\ \A i \in DOMAIN e.attach : e.attach[i] # ""

(* landlockd_policy_ir_set_runtime_root, _set_runtime_cwd *)
SetRuntimeOk(ir, s, e) == e # "" /\ ir[s] = <<>>

(* landlockd_policy_ir_enable_seccomp, _add_seccomp_deny_rule *)
SeccompOk(ir, s, e) == IF s = "seccomp" THEN e # 0 ELSE ir["seccomp"] # <<>>

AddOk(ir, s, e) ==
    CASE s = "fs_layer" -> AddFsLayerOk(e)
      [] s = "net" -> e # {}
      [] s = "net_rule" -> AddNetRuleOk(ir, e)
      [] s \in BrokerPaths \cup MountPaths -> e # ""
      [] s \in Binds -> e.source # "" /\ e.target # ""
      [] s = "broker_object" -> AddObjectOk(e)
      [] s = "addfd" -> e.action # "" /\ e.target # ""
      [] s \in {"root", "cwd"} -> SetRuntimeOk(ir, s, e)
      [] s \in {"seccomp", "deny"} -> SeccompOk(ir, s, e)

(* A list grows by the entry; a field is set to it. *)
Add(ir, s, e) ==
    [ir EXCEPT ![s] = IF s \in {"net", "seccomp"} THEN <<e>> ELSE Append(@, e)]

---------------------------------------------------------------------------
Init ==
    /\ root \in Documents
    /\ out_ir = EmptyIr
    /\ copy = EmptyIr
    /\ pc = "idle"
    /\ section = 1
    /\ item = 0
    /\ result = "none"

(* landlockd_policy_load_file_in_process is called: the IR must be empty,    *)
(* the file must open and parse, the root table must have only known keys    *)
(* and version 1.                                                            *)
Load ==
    /\ pc = "idle"
    /\ section' = 1 /\ item' = 0
    /\ UNCHANGED <<root, out_ir, copy>>
    /\ \/ out_ir # EmptyIr /\ pc' = "idle" /\ result' = "EINVAL"
       \/ out_ir = EmptyIr /\ pc' = "idle" /\ result' = "open"
       \/ /\ out_ir = EmptyIr
          /\ IF OnlyKeys(root, AllowedKeys("")) /\ DatumIn(root, "version", "integer") = 1
             THEN pc' = "load" /\ result' = "none"
             ELSE pc' = "reset" /\ result' = "refused"

(* The next entry of the section is checked and added. *)
LoadEntry ==
    LET s == Order[section]
        v == Items(s)[item + 1]
    IN
    /\ pc = "load" /\ section <= Len(Order)
    /\ SectionOk(s)
    /\ item < Len(Items(s))
    /\ EntryOk(s, v)
    /\ UNCHANGED <<root, copy, section>>
    /\ \/ /\ AddOk(out_ir, s, Entry(s, v))
          /\ out_ir' = Add(out_ir, s, Entry(s, v))
          /\ item' = item + 1
          /\ UNCHANGED <<pc, result>>
       \/ /\ pc' = "reset"
          /\ result' = IF AddOk(out_ir, s, Entry(s, v)) THEN "ENOMEM" ELSE "internal"
          /\ UNCHANGED <<out_ir, item>>

(* The section, or its next entry, is refused. *)
Refuse ==
    LET s == Order[section] IN
    /\ pc = "load" /\ section <= Len(Order)
    /\ \/ ~SectionOk(s)
       \/ item < Len(Items(s)) /\ ~EntryOk(s, Items(s)[item + 1])
    /\ pc' = "reset"
    /\ result' = "refused"
    /\ UNCHANGED <<root, out_ir, copy, section, item>>

(* A mutant: the entries are counted on. *)
NextSectionMutant ==
    /\ pc = "load" /\ section <= Len(Order)
    /\ SectionOk(Order[section])
    /\ item = Len(Items(Order[section]))
    /\ section' = section + 1
    /\ UNCHANGED <<root, out_ir, copy, pc, item, result>>

NextSection ==
    /\ pc = "load" /\ section <= Len(Order)
    /\ SectionOk(Order[section])
    /\ item = Len(Items(Order[section]))
    /\ section' = section + 1
    /\ item' = 0
    /\ UNCHANGED <<root, out_ir, copy, pc, result>>

Loaded ==
    /\ pc = "load" /\ section > Len(Order)
    /\ pc' = "idle"
    /\ result' = "loaded"
    /\ UNCHANGED <<root, out_ir, copy, section, item>>

(* A mutant: what was added stays. *)
ResetMutant ==
    /\ pc = "reset"
    /\ pc' = "idle"
    /\ UNCHANGED <<root, out_ir, copy, section, item, result>>

(* load_root failed: landlockd_policy_ir_reset *)
Reset ==
    /\ pc = "reset"
    /\ out_ir' = EmptyIr
    /\ pc' = "idle"
    /\ UNCHANGED <<root, copy, section, item, result>>

(* landlockd_policy_ir_copy: the destination must be empty. *)
Copy ==
    /\ pc = "idle"
    /\ section' = 1
    /\ UNCHANGED <<root, out_ir, copy, item>>
    /\ IF copy = EmptyIr THEN pc' = "copy" /\ result' = "none"
       ELSE pc' = "idle" /\ result' = "EINVAL"

CopySection ==
    /\ pc = "copy" /\ section <= Len(Order)
    /\ LET s == Order[section] IN
       /\ copy' = [copy EXCEPT ![s] = out_ir[s]]
       /\ section' = section + 1
       /\ UNCHANGED <<root, out_ir, pc, item, result>>

Copied ==
    /\ pc = "copy" /\ section > Len(Order)
    /\ pc' = "idle"
    /\ result' = "copied"
    /\ UNCHANGED <<root, out_ir, copy, section, item>>

(* A mutant: the destination is left as it is. *)
CopyFailsMutant ==
    /\ pc = "copy" /\ section <= Len(Order)
    /\ out_ir[Order[section]] # <<>>
    /\ pc' = "idle"
    /\ result' = "ENOMEM"
    /\ UNCHANGED <<root, out_ir, copy, section, item>>

(* An allocation for a section that has entries fails: the destination is    *)
(* reset.                                                                    *)
CopyFails ==
    /\ pc = "copy" /\ section <= Len(Order)
    /\ out_ir[Order[section]] # <<>>
    /\ copy' = EmptyIr
    /\ pc' = "idle"
    /\ result' = "ENOMEM"
    /\ UNCHANGED <<root, out_ir, section, item>>

Next ==
    \/ Load \/ LoadEntry \/ Refuse \/ NextSection \/ Loaded \/ Reset
    \/ Copy \/ CopySection \/ Copied \/ CopyFails

Spec == Init /\ [][Next]_vars
=============================================================================
