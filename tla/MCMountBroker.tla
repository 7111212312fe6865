--------------------------- MODULE MCMountBroker ---------------------------
(* Two processes that share descriptor numbers; one source that may be bound *)
(* read-only at one target and writable at another; a tmpfs and an object    *)
(* that share a third.                                                       *)
EXTENDS MountBroker, TLC

CONSTANTS p1, p2, data, roTarget, rwTarget, scratch, cache

MCPaths == {data, roTarget, rwTarget, scratch}
MCBindRules ==
    {[source |-> data, target |-> roTarget, read_only |-> TRUE],
     [source |-> data, target |-> rwTarget, read_only |-> FALSE]}
MCObjectRules == {[name |-> cache, attach |-> {scratch}, attrs |-> {"rdonly"}]}
MCAddFd == {<<"open_tree", data>>, <<"fsopen", scratch>>, <<"fsmount", scratch>>}
MCSymmetry == Permutations(Procs)
=============================================================================
