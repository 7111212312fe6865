---------------------------- MODULE MCPolicyLoad ----------------------------
(* MCPolicyLoad.cfg: every policy with one or two entries in at most two     *)
(* sections (and in the sections those need).  MCPolicyLoadLive.cfg: three   *)
(* policies, of which the largest does not fit into the pipe.                *)
EXTENDS PolicyLoad

CONSTANTS t1, t2

Objects(attrs, attach) == [name |-> t1, fs_type |-> t2, attach |-> attach, attrs |-> attrs]

(* Two different entries for each section, the largest numbers among them. *)
Entries(s) ==
    CASE s = "fs_layer" ->
            <<[handled |-> 3, rules |-> <<[access |-> 1, path |-> t1], [access |-> 2, path |-> t2]>>],
              [handled |-> 1, rules |-> <<>>]>>
      [] s = "net" -> <<3>>
      [] s = "net_rule" -> <<[port |-> 0, access |-> 1], [port |-> Ports - 1, access |-> 3]>>
      [] s \in PathLists -> <<t1, t2>>
      [] s \in BindLists ->
            <<[source |-> t1, target |-> t2, read_only |-> 1],
              [source |-> t2, target |-> t1, read_only |-> 0]>>
      [] s = "broker_object" -> <<Objects(Half * Half - 1, <<t1, t2>>), Objects(1, <<t2>>)>>
      [] s = "addfd" ->
            <<[action |-> t1, target |-> t2, mode |-> NoText],
              [action |-> t1, target |-> t1, mode |-> t2]>>
      [] s \in {"root", "cwd"} -> <<t1>>
      [] s = "seccomp" -> <<MaxErrno>>
      [] s = "deny" -> <<0, MaxSyscall>>

Needed(used) ==
    used \cup (IF "net_rule" \in used THEN {"net"} ELSE {})
         \cup (IF {"deny", "seccomp"} \cap used # {} THEN {"deny", "seccomp"} ELSE {})

Policy(used, n) ==
    [s \in Sections |->
        IF s \in Needed(used) THEN SubSeq(Entries(s), 1, IF n > Len(Entries(s)) THEN 1 ELSE n)
        ELSE <<>>]

MCPolicies == {Policy({s, t}, n) : s, t \in Sections, n \in 1..2} \cup {EmptyIr}
MCLivePolicies == {EmptyIr, Policy({"scratch"}, 1), Policy({"scratch"}, 2)}
=============================================================================
