---------------------------- MODULE MCPathBroker ----------------------------
(* A scratch root /a; a directory /b outside, which holds an export root     *)
(* /b/a and a file /b/b that may be read but not written; and three nodes    *)
(* yet to be created.                                                        *)
EXTENDS PathBroker, TLC

CONSTANTS a, b

MCEntry == [x \in Nodes |-> [n \in Names |->
    CASE x = 1 /\ n = a -> 2
      [] x = 1 /\ n = b -> 3
      [] x = 3 /\ n = a -> 4
      [] x = 3 /\ n = b -> 5
      [] OTHER -> 0]]
MCKind == [x \in Nodes |-> IF x < 5 THEN "dir" ELSE IF x = 5 THEN "file" ELSE "free"]

MCRequested == {<<a>>, <<b, a>>, <<a, a>>}
MCLinkTargets ==
    {[absolute |-> TRUE, path |-> <<b>>], [absolute |-> FALSE, path |-> <<a, Up, b, b>>]}
MCReadPaths == {<<b, b>>}
MCScratchPaths == {<<a>>}
MCExportPaths == {<<b, a>>}
MCAddFd ==
    {[action |-> "open", target |-> <<b, b>>, mode |-> "any"],
     [action |-> "scratch_open", target |-> <<a>>, mode |-> "write"]}
=============================================================================
