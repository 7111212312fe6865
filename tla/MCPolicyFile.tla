---------------------------- MODULE MCPolicyFile ----------------------------
(* Documents with one or two of the six sections, each in every variant      *)
(* below: well formed, with a value of another type, out of range, empty,    *)
(* with a key nobody knows, or as an array of the fields.                    *)
EXTENDS PolicyParity, TLC

Text == String("name")
Path == String("/a")
Empty == String("")

(* One key with one of the given values. *)
With(k, values) == {k :> v : v \in values}

PathLists == {Array(<<Path, String("/b")>>), Array(<<Text>>), Array(<<Path, Empty>>), Array(<<>>),
              Array(<<Path, Integer(1)>>), Path}

AccessLists(name) ==
    {Array(<<String(name)>>), Array(<<String(name), String("bogus")>>), Array(<<>>), String(name)}

FsRules ==
    {Array(<<Table("path" :> p @@ "allowed_access" :> a)>>) :
        p \in {Text, Empty}, a \in AccessLists("read_file")}
    \cup {Array(<<Text>>), Text, Array(<<Array(<<Text, Array(<<String("read_file")>>)>>)>>)}

FsLayers ==
    {Array(<<Table("handled_access_fs" :> a)>>) : a \in AccessLists("execute")}
    \cup {Array(<<Table("handled_access_fs" :> Array(<<String("execute"), String("read_file")>>)
                        @@ "rule" :> r)>>) : r \in FsRules}
    \cup {Table("rule" :> Text), Array(<<Text>>), Array(<<>>),
          Array(<<Array(<<Array(<<String("execute")>>)>>)>>)}

Nets ==
    {Table("handled_access_net" :> a) : a \in AccessLists("bind_tcp")}
    \cup {Table("handled_access_net" :> Array(<<String("bind_tcp")>>)
                @@ "rule" :> Array(<<Table("port" :> p @@ "allowed_access" :> a)>>)) :
            p \in {Integer(0), Integer(65535), Integer(65536), Integer(-1), Text},
            a \in {Array(<<String("connect_tcp")>>)}}
    \cup {Table("rule" :> Array(<<>>)), Integer(5), Array(<<Array(<<String("bind_tcp")>>)>>)}

BindEntries ==
    {"source" :> Path @@ "target" :> Path, "source" :> Path,
     "source" :> Path @@ "target" :> Text,
     "source" :> Path @@ "target" :> Path @@ "read_only" :> Boolean(FALSE),
     "source" :> Path @@ "target" :> Path @@ "read_only" :> Text}
BindLists == {Array(<<Table(b)>>) : b \in BindEntries} \cup {Array(<<>>), Array(<<Path>>), Path,
                     Array(<<Array(<<Path, Path, Boolean(FALSE)>>)>>)}

Objects ==
    {"name" :> n @@ "fs_type" :> String("tmpfs") @@ "attach" :> Array(<<Path>>) :
        n \in {Text, Path, Empty}}
    \cup {"name" :> Text @@ "fs_type" :> String("tmpfs") @@ "attach" :> Array(<<Path>>) @@ "attrs" :> a :
        a \in AccessLists("nosuid")}
    \cup {"name" :> Text @@ "fs_type" :> f @@ "attach" :> a :
        f \in {String("proc"), String("ext4")}, a \in {Array(<<Path>>), Array(<<>>), Array(<<Text>>)}}

Addfds ==
    {"action" :> String("open") @@ "target" :> Path,
     "action" :> String("close") @@ "target" :> Path,
     "action" :> String("open") @@ "target" :> Text}
    \cup {"action" :> String("open") @@ "target" :> Path @@ "mode" :> m :
            m \in {String("write"), String("append"), Integer(1)}}

Brokers ==
    {Table(t) :
        t \in UNION {With(k, PathLists) :
                        k \in {"allow_read", "allow_write", "scratch", "export", "mount_tmpfs"}}
              \cup With("mount_bind", BindLists)
              \cup {"mount_object" :> Array(<<Table(o)>>) : o \in Objects}
              \cup {"addfd" :> Array(<<Table(o)>>) : o \in Addfds}
              \cup {"addfd" :> Array(<<>>), "mount_object" :> Text}
              \cup {"allow_read" :> Array(<<Path>>) @@ "unknown" :> Text,
                    "allow_read" :> Array(<<Path>>) @@ "mount_bind" :> Text}}
    \cup {Array(<<>>)}

Mounts ==
    {Table(t) :
        t \in With("tmpfs", PathLists) \cup With("bind", BindLists) \cup With("proc", PathLists)
              \cup {"tmpfs" :> Array(<<Path>>) @@ "bind" :> Text,
                    "proc" :> Array(<<Path>>) @@ "tmpfs" :> Array(<<String("/b")>>)}}
    \cup {Text}

Runtimes ==
    {Table(t) :
        t \in With("root", {Path, Text, Empty, Integer(1)})
              \cup {"cwd" :> Path @@ "root" :> v : v \in {Path, Text, Integer(1)}}
              \cup With("cwd", {Path, Text})}
    \cup {Path, Array(<<Path, String("/b")>>), Array(<<Path>>)}

Seccomps ==
    {Table(t) :
        t \in With("deny", AccessLists("getpid") \cup {Array(<<Empty>>)})
              \cup {"deny" :> Array(<<String("openat"), String("getpid")>>) @@ "errno" :> e :
                        e \in {Integer(0), Integer(1), Integer(4095), Integer(4096), Text}}
              \cup With("errno", {Integer(1)})}
    \cup {Text, Array(<<Array(<<String("getpid")>>), Integer(1)>>)}

Variants(k) ==
    CASE k = "fs_layer" -> FsLayers
      [] k = "net" -> Nets
      [] k = "broker" -> Brokers
      [] k = "mount" -> Mounts
      [] k = "runtime" -> Runtimes
      [] k = "seccomp" -> Seccomps

Keys == {"fs_layer", "net", "broker", "mount", "runtime", "seccomp"}
(* Neighbours in the order of loading, and what a run's mounts depend on. *)
Pairs == {<<"fs_layer", "net">>, <<"net", "broker">>, <<"broker", "mount">>, <<"mount", "runtime">>,
          <<"runtime", "seccomp">>, <<"fs_layer", "seccomp">>, <<"broker", "runtime">>}
Version1 == "version" :> Integer(1)

MCDocuments ==
    {Version1, "version" :> Integer(2), "version" :> Text, Version1 @@ "unknown" :> Text}
    \cup UNION {{Version1 @@ k :> v : v \in Variants(k)} : k \in Keys}
    \cup UNION {{Version1 @@ p[1] :> v @@ p[2] :> w : v \in Variants(p[1]), w \in Variants(p[2])} :
                  p \in Pairs}

(* One section each. *)
MCSchemaDocuments == UNION {{Version1 @@ k :> v : v \in Variants(k)} : k \in Keys}
=============================================================================
