---------------------------- MODULE PolicySchema ----------------------------
(* policy/landlockd.schema.json: which documents conform to it.              *)
EXTENDS PolicyDoc

(* "type": "string", with "enum" or "minLength" and "pattern" *)
AString(v, allowed) == Is(v, "string") /\ v[2] \in allowed
AText(v) == Is(v, "string") /\ v[2] # ""
APath(v) == Is(v, "string") /\ v[2] \in Absolute

(* "type": "object" with additionalProperties false *)
AnObject(v, required, optional) ==
    /\ Is(v, "table")
    /\ required \subseteq DOMAIN v[2]
    /\ DOMAIN v[2] \subseteq required \cup optional

(* "type": "array", with minItems *)
AnArray(v, least) == Is(v, "array") /\ Len(v[2]) >= least
At(v, k) == v[2][k]

AccessList(v, names) == AnArray(v, 1) /\ \A i \in DOMAIN v[2] : AString(v[2][i], names)
PathList(v, least) == AnArray(v, least) /\ \A i \in DOMAIN v[2] : APath(v[2][i])
TextList(v) == AnArray(v, 0) /\ \A i \in DOMAIN v[2] : AText(v[2][i])

SchemaFsRule(v) ==
    /\ AnObject(v, {"path", "allowed_access"}, {})
    /\ AText(At(v, "path")) /\ AccessList(At(v, "allowed_access"), FsAccess)

SchemaFsLayer(v) ==
    /\ AnObject(v, {"handled_access_fs"}, {"rule"})
    /\ AccessList(At(v, "handled_access_fs"), FsAccess)
    /\ KeyExists(v[2], "rule") =>
         /\ AnArray(At(v, "rule"), 0)
         /\ \A i \in DOMAIN At(v, "rule")[2] : SchemaFsRule(At(v, "rule")[2][i])

SchemaNetRule(v) ==
    /\ AnObject(v, {"port", "allowed_access"}, {})
    /\ Is(At(v, "port"), "integer") /\ At(v, "port")[2] \in Ports
    /\ AccessList(At(v, "allowed_access"), NetAccess)

SchemaNet(v) ==
    /\ AnObject(v, {"handled_access_net"}, {"rule"})
    /\ AccessList(At(v, "handled_access_net"), NetAccess)
    /\ KeyExists(v[2], "rule") =>
         /\ AnArray(At(v, "rule"), 0)
         /\ \A i \in DOMAIN At(v, "rule")[2] : SchemaNetRule(At(v, "rule")[2][i])

SchemaBind(v) ==
    /\ AnObject(v, {"source", "target"}, {"read_only"})
    /\ APath(At(v, "source")) /\ APath(At(v, "target"))
    /\ KeyExists(v[2], "read_only") => Is(At(v, "read_only"), "boolean")

SchemaObject(v) ==
    /\ AnObject(v, {"name", "fs_type", "attach"}, {"attrs"})
    /\ AText(At(v, "name")) /\ At(v, "name")[2] \notin Slashed
    /\ AString(At(v, "fs_type"), FsTypes)
    /\ PathList(At(v, "attach"), 1)
    /\ KeyExists(v[2], "attrs") =>
         /\ AnArray(At(v, "attrs"), 0)
         /\ \A i \in DOMAIN At(v, "attrs")[2] : AString(At(v, "attrs")[2][i], MountAttr)

SchemaAddfd(v) ==
    /\ AnObject(v, {"action", "target"}, {"mode"})
    /\ AString(At(v, "action"), AddfdActions) /\ APath(At(v, "target"))
    /\ KeyExists(v[2], "mode") => AString(At(v, "mode"), Modes)

SchemaBroker(v) ==
    /\ AnObject(v, {}, {"allow_read", "allow_write", "scratch", "export", "mount_tmpfs",
                        "mount_bind", "mount_object", "addfd"})
    /\ \A k \in DOMAIN v[2] :
         LET list == At(v, k) IN
         CASE k = "mount_tmpfs" -> PathList(list, 0)
           [] k = "mount_bind" -> AnArray(list, 1) /\ \A i \in DOMAIN list[2] : SchemaBind(list[2][i])
           [] k = "mount_object" -> AnArray(list, 1) /\ \A i \in DOMAIN list[2] : SchemaObject(list[2][i])
           [] k = "addfd" -> AnArray(list, 1) /\ \A i \in DOMAIN list[2] : SchemaAddfd(list[2][i])
           [] OTHER -> TextList(list)

(* "anyOf": tmpfs or bind is required *)
SchemaMount(v) ==
    /\ AnObject(v, {}, {"tmpfs", "bind", "proc"})
    /\ KeyExists(v[2], "tmpfs") \/ KeyExists(v[2], "bind")
    /\ \A k \in DOMAIN v[2] :
         LET list == At(v, k) IN
         IF k = "bind" THEN AnArray(list, 1) /\ \A i \in DOMAIN list[2] : SchemaBind(list[2][i])
         ELSE PathList(list, 1)

SchemaRuntime(v) ==
    /\ AnObject(v, {}, {"root", "cwd"})
    /\ DOMAIN v[2] # {}
    /\ \A k \in DOMAIN v[2] : APath(At(v, k))

SchemaSeccomp(v) ==
    /\ AnObject(v, {"deny"}, {"errno"})
    /\ AccessList(At(v, "deny"), Syscalls)
    /\ KeyExists(v[2], "errno") => Is(At(v, "errno"), "integer") /\ At(v, "errno")[2] \in Errnos

Conforms(doc) ==
    /\ AnObject(Table(doc), {"version"}, {"fs_layer", "net", "broker", "mount", "runtime", "seccomp"})
    /\ \A k \in DOMAIN doc :
         CASE k = "version" -> Is(doc[k], "integer") /\ doc[k][2] = 1
           [] k = "fs_layer" -> AnArray(doc[k], 0) /\ \A i \in DOMAIN doc[k][2] : SchemaFsLayer(doc[k][2][i])
           [] k = "net" -> SchemaNet(doc[k])
           [] k = "broker" -> SchemaBroker(doc[k])
           [] k = "mount" -> SchemaMount(doc[k])
           [] k = "runtime" -> SchemaRuntime(doc[k])
           [] k = "seccomp" -> SchemaSeccomp(doc[k])
=============================================================================
