----------------------------- MODULE PolicyDoc ------------------------------
(* A parsed policy document, as the TOML library (src/subprojects/tomlc99)   *)
(* hands it to the loader: a tree of tagged values, and the accessors by     *)
(* which the loader reads it.  Texts are known only by what the loader asks  *)
(* of them.                                                                  *)
EXTENDS Integers, Sequences

CONSTANTS
    NULL,            \* what an accessor returns for a key that is not there
    Absolute,        \* texts that start with a slash
    Slashed          \* texts that contain one

ASSUME TextAssumption ==
    /\ Absolute \subseteq Slashed /\ "" \notin Slashed
    /\ NULL # <<>> /\ NULL \notin Slashed

(* The values of a document. *)
String(s) == <<"string", s>>
Integer(n) == <<"integer", n>>
Boolean(b) == <<"boolean", b>>
Array(items) == <<"array", items>>
Table(keys) == <<"table", keys>>

Is(v, type) == v[1] = type

(* toml_key_exists *)
KeyExists(t, k) == k \in DOMAIN t

(* toml_string_in, toml_int_in, toml_bool_in: nothing when the key is there  *)
(* with a value of another type.                                             *)
DatumIn(t, k, type) == IF KeyExists(t, k) /\ Is(t[k], type) THEN t[k][2] ELSE NULL

(* toml_array_in, toml_table_in: the same.                                   *)
ArrayIn(t, k) == DatumIn(t, k, "array")
TableIn(t, k) == DatumIn(t, k, "table")

(* toml_string_at, toml_table_at *)
DatumAt(arr, i, type) == IF Is(arr[i], type) THEN arr[i][2] ELSE NULL

(* What the loader asks of a text. *)
NonEmpty(s) == s # NULL /\ s # ""
IsAbsolute(s) == s \in Absolute

---------------------------------------------------------------------------
(* The policy IR: for each section the entries added to it.  A section that  *)
(* is one field of the IR (net, seccomp, root, cwd) has at most one entry.   *)
(* Access masks are sets of the names their bits stand for.                  *)
Sections == {"fs_layer", "net", "net_rule", "open_read", "open_write", "scratch", "export",
             "broker_tmpfs", "addfd", "broker_bind", "broker_object", "mount_tmpfs",
             "mount_bind", "mount_proc", "root", "cwd", "seccomp", "deny"}

(* landlockd_policy_ir_init *)
EmptyIr == [s \in Sections |-> <<>>]

FsAccess == {"execute", "write_file", "read_file", "read_dir", "remove_dir", "remove_file",
             "make_char", "make_dir", "make_reg", "make_sock", "make_fifo", "make_block",
             "make_sym", "refer", "truncate", "ioctl_dev"}
NetAccess == {"bind_tcp", "connect_tcp"}
MountAttr == {"readonly", "nosuid", "nodev", "noexec"}
MaxPort == 65535
MaxErrno == 4095
Ports == 0..MaxPort
Errnos == 1..MaxErrno
AddfdActions == {"open", "open_tree", "scratch_open", "fsopen", "fsmount"}
Modes == {"read", "write"}
FsTypes == {"tmpfs", "proc"}
Syscalls == {"getpid", "getppid", "openat", "openat2", "mkdirat", "unlinkat", "renameat2",
             "symlinkat", "linkat", "socket", "connect", "mount", "umount2", "pivot_root",
             "open_tree", "move_mount", "fsopen", "fsconfig", "fsmount", "mount_setattr",
             "unshare", "setns", "clone3", "ptrace", "bpf", "perf_event_open", "kexec_load",
             "init_module", "finit_module", "delete_module", "open_by_handle_at", "swapon",
             "swapoff", "reboot"}
=============================================================================
