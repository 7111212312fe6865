--------------------------- MODULE PolicyHelperRs ---------------------------
(* The Rust policy helper (src/tools/landlockd-policy-helper-rs/src/main.rs) *)
(* as a function of the document: serde first checks the types of all keys,  *)
(* then build_ir checks and builds the IR.                                   *)
EXTENDS PolicyDoc

(* The Deserialize that serde derives takes a struct from a table or from an *)
(* array (visit_seq), and the toml crate hands arrays on.  The elements of   *)
(* an array are the fields in the order of their declaration.  Only fields   *)
(* with serde(default) may be missing, not an Option; what is behind the     *)
(* last field is passed over.  least is the number of the other fields.      *)
VisitSeq(v, fields, least) ==
    IF Is(v, "array") /\ Len(v[2]) >= least
    THEN LET given == {i \in DOMAIN fields : i <= Len(v[2])}
         IN Table([k \in {fields[i] : i \in given} |->
                      v[2][CHOOSE i \in given : fields[i] = k]])
    ELSE v

(* The elements of a list, and the value of a key. *)
Each(v, Visit(_)) == IF Is(v, "array") THEN Array([i \in DOMAIN v[2] |-> Visit(v[2][i])]) ELSE v
Key(v, k, Visit(_)) ==
    IF Is(v, "table") /\ KeyExists(v[2], k) THEN Table([v[2] EXCEPT ![k] = Visit(@)]) ELSE v

VisitFsRule(v) == VisitSeq(v, <<"path", "allowed_access">>, 2)
VisitFsLayer(v) ==
    Key(VisitSeq(v, <<"handled_access_fs", "rule">>, 1), "rule", LAMBDA w : Each(w, VisitFsRule))
VisitNetRule(v) == VisitSeq(v, <<"port", "allowed_access">>, 2)
VisitNet(v) ==
    Key(VisitSeq(v, <<"handled_access_net", "rule">>, 1), "rule", LAMBDA w : Each(w, VisitNetRule))
VisitBind(v) == VisitSeq(v, <<"source", "target", "read_only">>, 3)
VisitObject(v) == VisitSeq(v, <<"name", "fs_type", "attach", "attrs">>, 4)
VisitAddfd(v) == VisitSeq(v, <<"action", "target", "mode">>, 3)
VisitBroker(v) ==
    LET broker == VisitSeq(v, <<"allow_read", "allow_write", "scratch", "export", "mount_tmpfs",
                                "mount_bind", "mount_object", "addfd">>, 8)
        binds == Key(broker, "mount_bind", LAMBDA w : Each(w, VisitBind))
        objects == Key(binds, "mount_object", LAMBDA w : Each(w, VisitObject))
    IN Key(objects, "addfd", LAMBDA w : Each(w, VisitAddfd))
VisitMount(v) ==
    Key(VisitSeq(v, <<"tmpfs", "bind", "proc">>, 3), "bind", LAMBDA w : Each(w, VisitBind))

(* The document with a table for every struct. *)
Visited(doc) ==
    [k \in DOMAIN doc |->
        CASE k = "fs_layer" -> Each(doc[k], VisitFsLayer)
          [] k = "net" -> VisitNet(doc[k])
          [] k = "broker" -> VisitBroker(doc[k])
          [] k = "mount" -> VisitMount(doc[k])
          [] k = "runtime" -> VisitSeq(doc[k], <<"root", "cwd">>, 2)
          [] k = "seccomp" -> VisitSeq(doc[k], <<"deny", "errno">>, 2)
          [] OTHER -> doc[k]]

(* No array stands for a struct. *)
Keyed(doc) == Visited(doc) = doc

---------------------------------------------------------------------------
(* The types of the keys, of a document with a table for every struct.       *)

(* Vec<String>, Vec<...Doc> *)
Strings(v) == Is(v, "array") /\ \A i \in DOMAIN v[2] : Is(v[2][i], "string")
Tables(v) == Is(v, "array") /\ \A i \in DOMAIN v[2] : Is(v[2][i], "table")

(* A struct with deny_unknown_fields: the keys it must and may have. *)
Struct(t, required, optional) ==
    required \subseteq DOMAIN t /\ DOMAIN t \subseteq required \cup optional

FsLayerDoc(t) ==
    /\ Struct(t, {"handled_access_fs"}, {"rule"})
    /\ Strings(t["handled_access_fs"])
    /\ KeyExists(t, "rule") =>
         /\ Tables(t["rule"])
         /\ \A i \in DOMAIN t["rule"][2] :
              LET r == t["rule"][2][i][2] IN
              /\ Struct(r, {"path", "allowed_access"}, {})
              /\ Is(r["path"], "string") /\ Strings(r["allowed_access"])

NetDoc(t) ==
    /\ Struct(t, {"handled_access_net"}, {"rule"})
    /\ Strings(t["handled_access_net"])
    /\ KeyExists(t, "rule") =>
         /\ Tables(t["rule"])
         /\ \A i \in DOMAIN t["rule"][2] :
              LET r == t["rule"][2][i][2] IN
              /\ Struct(r, {"port", "allowed_access"}, {})
              /\ Is(r["port"], "integer") /\ Strings(r["allowed_access"])

BindMountDoc(t) ==
    /\ Struct(t, {"source", "target"}, {"read_only"})
    /\ Is(t["source"], "string") /\ Is(t["target"], "string")
    /\ KeyExists(t, "read_only") => Is(t["read_only"], "boolean")

AddfdDoc(t) ==
    /\ Struct(t, {"action", "target"}, {"mode"})
    /\ \A k \in DOMAIN t : Is(t[k], "string")

MountObjectDoc(t) ==
    /\ Struct(t, {"name", "fs_type", "attach"}, {"attrs"})
    /\ Is(t["name"], "string") /\ Is(t["fs_type"], "string") /\ Strings(t["attach"])
    /\ KeyExists(t, "attrs") => Strings(t["attrs"])

BrokerDoc(t) ==
    /\ Struct(t, {}, {"allow_read", "allow_write", "scratch", "export", "mount_tmpfs",
                      "mount_bind", "mount_object", "addfd"})
    /\ \A k \in DOMAIN t :
         IF k \in {"mount_bind", "mount_object", "addfd"}
         THEN /\ Tables(t[k])
              /\ \A i \in DOMAIN t[k][2] :
                   LET e == t[k][2][i][2] IN
                   CASE k = "mount_bind" -> BindMountDoc(e)
                     [] k = "mount_object" -> MountObjectDoc(e)
                     [] k = "addfd" -> AddfdDoc(e)
         ELSE Strings(t[k])

MountDoc(t) ==
    /\ Struct(t, {}, {"tmpfs", "bind", "proc"})
    /\ \A k \in DOMAIN t :
         IF k = "bind"
         THEN Tables(t[k]) /\ \A i \in DOMAIN t[k][2] : BindMountDoc(t[k][2][i][2])
         ELSE Strings(t[k])

RuntimeDoc(t) == Struct(t, {}, {"root", "cwd"}) /\ \A k \in DOMAIN t : Is(t[k], "string")

SeccompDoc(t) ==
    /\ Struct(t, {"deny"}, {"errno"})
    /\ Strings(t["deny"])
    /\ KeyExists(t, "errno") => Is(t["errno"], "integer")

(* toml::from_str::<PolicyDoc>; version is a u32. *)
FromStr(doc) ==
    /\ Struct(doc, {"version"}, {"fs_layer", "net", "broker", "mount", "runtime", "seccomp"})
    /\ Is(doc["version"], "integer") /\ doc["version"][2] >= 0
    /\ KeyExists(doc, "fs_layer") =>
         /\ Tables(doc["fs_layer"])
         /\ \A i \in DOMAIN doc["fs_layer"][2] : FsLayerDoc(doc["fs_layer"][2][i][2])
    /\ \A k \in DOMAIN doc \ {"version", "fs_layer"} :
         /\ Is(doc[k], "table")
         /\ LET t == doc[k][2] IN
            CASE k = "net" -> NetDoc(t)
              [] k = "broker" -> BrokerDoc(t)
              [] k = "mount" -> MountDoc(t)
              [] k = "runtime" -> RuntimeDoc(t)
              [] k = "seccomp" -> SeccompDoc(t)

---------------------------------------------------------------------------
(* build_ir: the checks.  The lists are arrays of plain values by now.       *)

Plain(v) == [i \in DOMAIN v[2] |-> v[2][i][2]]

RequireAbsolute(s) == s # "" /\ s \in Absolute

ParseAccessList(items, names) ==
    items # <<>> /\ \A i \in DOMAIN items : items[i] \in names \ {""}

(* parse_path_list: a list that is there and empty is refused, whatever the  *)
(* key.                                                                      *)
ParsePathList(t, k, absolute) ==
    KeyExists(t, k) =>
        LET items == Plain(t[k]) IN
        /\ items # <<>>
        /\ \A i \in DOMAIN items : IF absolute THEN RequireAbsolute(items[i]) ELSE items[i] # ""

ParseBindList(t, k) ==
    KeyExists(t, k) =>
        LET items == Plain(t[k]) IN
        /\ items # <<>>
        /\ \A i \in DOMAIN items :
             RequireAbsolute(items[i]["source"][2]) /\ RequireAbsolute(items[i]["target"][2])

ParseAddfdList(t, k) ==
    KeyExists(t, k) =>
        LET items == Plain(t[k]) IN
        /\ items # <<>>
        /\ \A i \in DOMAIN items :
             /\ items[i]["action"][2] \in AddfdActions
             /\ RequireAbsolute(items[i]["target"][2])
             /\ KeyExists(items[i], "mode") => items[i]["mode"][2] \in Modes

ParseMountObject(o) ==
    /\ o["name"][2] # "" /\ o["name"][2] \notin Slashed
    /\ o["fs_type"][2] \in FsTypes
    /\ o["attach"][2] # <<>>
    /\ \A j \in DOMAIN o["attach"][2] : RequireAbsolute(o["attach"][2][j][2])
    /\ KeyExists(o, "attrs") => ParseAccessList(Plain(o["attrs"]), MountAttr)
ParseMountObjectList(t, k) ==
    KeyExists(t, k) =>
        LET items == Plain(t[k]) IN
        items # <<>> /\ \A i \in DOMAIN items : ParseMountObject(items[i])

RuleTables(t) == IF KeyExists(t, "rule") THEN Plain(t["rule"]) ELSE <<>>

BuildsLayer(t) ==
    /\ ParseAccessList(Plain(t["handled_access_fs"]), FsAccess)
    /\ LET rules == RuleTables(t) IN
       \A j \in DOMAIN rules :
           /\ rules[j]["path"][2] # ""
           /\ ParseAccessList(Plain(rules[j]["allowed_access"]), FsAccess)
BuildsFs(layers) == \A i \in DOMAIN layers : BuildsLayer(layers[i])

BuildsNet(t) ==
    /\ ParseAccessList(Plain(t["handled_access_net"]), NetAccess)
    /\ LET rules == RuleTables(t) IN
       \A j \in DOMAIN rules :
           /\ rules[j]["port"][2] \in Ports
           /\ ParseAccessList(Plain(rules[j]["allowed_access"]), NetAccess)

BuildsBroker(t) ==
    /\ \A k \in {"allow_read", "allow_write", "scratch", "export", "mount_tmpfs"} :
         ParsePathList(t, k, FALSE)
    /\ ParseBindList(t, "mount_bind")
    /\ ParseMountObjectList(t, "mount_object")
    /\ ParseAddfdList(t, "addfd")

BuildsMount(t) ==
    /\ ParsePathList(t, "tmpfs", TRUE)
    /\ ParseBindList(t, "bind")
    /\ ParsePathList(t, "proc", TRUE)
    /\ DOMAIN t # {}

BuildsRuntime(t) == DOMAIN t # {} /\ \A k \in DOMAIN t : RequireAbsolute(t[k][2])

BuildsSeccomp(t) ==
    /\ KeyExists(t, "errno") => t["errno"][2] \in Errnos
    /\ t["deny"][2] # <<>>
    /\ \A i \in DOMAIN t["deny"][2] : t["deny"][2][i][2] \in Syscalls

(* A document with a table for every struct is accepted. *)
Accepts(doc) ==
    /\ FromStr(doc)
    /\ doc["version"][2] = 1
    /\ KeyExists(doc, "fs_layer") => BuildsFs(Plain(doc["fs_layer"]))
    /\ KeyExists(doc, "net") => BuildsNet(doc["net"][2])
    /\ KeyExists(doc, "broker") => BuildsBroker(doc["broker"][2])
    /\ KeyExists(doc, "mount") => BuildsMount(doc["mount"][2])
    /\ KeyExists(doc, "runtime") => BuildsRuntime(doc["runtime"][2])
    /\ KeyExists(doc, "seccomp") => BuildsSeccomp(doc["seccomp"][2])

---------------------------------------------------------------------------
(* build_ir: what is built.                                                  *)

Names(v) == {v[2][i][2] : i \in DOMAIN v[2]}

Unwrap(doc, table, key) ==
    IF KeyExists(doc, table) /\ KeyExists(doc[table][2], key)
    THEN Plain(doc[table][2][key]) ELSE <<>>

BuildLayer(t) ==
    LET rules == RuleTables(t)
    IN [handled |-> Names(t["handled_access_fs"]),
        rules |-> [j \in DOMAIN rules |->
                     [path |-> rules[j]["path"][2],
                      access |-> Names(rules[j]["allowed_access"])]]]

BuildLayers(doc) ==
    IF ~KeyExists(doc, "fs_layer") THEN <<>>
    ELSE [i \in DOMAIN doc["fs_layer"][2] |-> BuildLayer(doc["fs_layer"][2][i][2])]

BuildBinds(items) ==
    [i \in DOMAIN items |->
        [source |-> items[i]["source"][2],
         target |-> items[i]["target"][2],
         read_only |-> IF KeyExists(items[i], "read_only") THEN items[i]["read_only"][2] ELSE TRUE]]

BuildObjects(items) ==
    [i \in DOMAIN items |->
        [name |-> items[i]["name"][2],
         fs_type |-> items[i]["fs_type"][2],
         attach |-> Plain(items[i]["attach"]),
         attrs |-> IF KeyExists(items[i], "attrs") THEN Names(items[i]["attrs"]) ELSE {}]]

BuildAddfd(items) ==
    [i \in DOMAIN items |->
        [action |-> items[i]["action"][2],
         target |-> items[i]["target"][2],
         mode |-> IF KeyExists(items[i], "mode") THEN items[i]["mode"][2] ELSE NULL]]

BuildRules(items) ==
    [i \in DOMAIN items |->
        [port |-> items[i]["port"][2], access |-> Names(items[i]["allowed_access"])]]

BuildRuntime(doc, k) ==
    IF KeyExists(doc, "runtime") /\ KeyExists(doc["runtime"][2], k)
    THEN <<doc["runtime"][2][k][2]>> ELSE <<>>

BuildErrno(doc, default) ==
    IF ~KeyExists(doc, "seccomp") THEN <<>>
    ELSE IF KeyExists(doc["seccomp"][2], "errno") THEN <<doc["seccomp"][2]["errno"][2]>>
    ELSE <<default>>

BuildSection(doc, default, s) ==
    CASE s = "fs_layer" -> BuildLayers(doc)
      [] s = "net" ->
            IF KeyExists(doc, "net") THEN <<Names(doc["net"][2]["handled_access_net"])>> ELSE <<>>
      [] s = "net_rule" -> BuildRules(Unwrap(doc, "net", "rule"))
      [] s = "open_read" -> Unwrap(doc, "broker", "allow_read")
      [] s = "open_write" -> Unwrap(doc, "broker", "allow_write")
      [] s = "scratch" -> Unwrap(doc, "broker", "scratch")
      [] s = "export" -> Unwrap(doc, "broker", "export")
      [] s = "broker_tmpfs" -> Unwrap(doc, "broker", "mount_tmpfs")
      [] s = "addfd" -> BuildAddfd(Unwrap(doc, "broker", "addfd"))
      [] s = "broker_bind" -> BuildBinds(Unwrap(doc, "broker", "mount_bind"))
      [] s = "broker_object" -> BuildObjects(Unwrap(doc, "broker", "mount_object"))
      [] s = "mount_tmpfs" -> Unwrap(doc, "mount", "tmpfs")
      [] s = "mount_bind" -> BuildBinds(Unwrap(doc, "mount", "bind"))
      [] s = "mount_proc" -> Unwrap(doc, "mount", "proc")
      [] s \in {"root", "cwd"} -> BuildRuntime(doc, s)
      [] s = "seccomp" -> BuildErrno(doc, default)
      [] s = "deny" -> Unwrap(doc, "seccomp", "deny")

BuildIr(doc, default) == [s \in Sections |-> BuildSection(doc, default, s)]

(* The helper writes an IR and exits with 0; which IR. *)
HelperAccepts(doc) == Accepts(Visited(doc))
HelperIr(doc, default) == BuildIr(Visited(doc), default)
=============================================================================
