--------------------------- MODULE MCStaticMounts ---------------------------
(* Three runs on one small disk: two of them on the same runtime.root, the   *)
(* third with any of the policies below.                                     *)
EXTENDS StaticMounts, TLC

CONSTANTS r1, r2, r3

MCRuns == {r1, r2, r3}

A == <<"a">>
AX == <<"a", "x">>
B == <<"b">>
F == <<"f">>
D == <<"d">>

Old == <<"a", OldRoot>>
MCNames == {"a", "b", "c", "d", "f", "x", OldRoot}

Policy(rules) ==
    [tmpfs |-> <<>>, bind |-> <<>>, proc |-> <<>>, broker |-> {}, root |-> None, cwd |-> None,
     rules |-> rules]
BindRule(source, target, read_only) == [source |-> source, target |-> target, read_only |-> read_only]

Rooted == [Policy({A}) EXCEPT !.root = A, !.cwd = <<"x">>]
RootedBind == [Rooted EXCEPT !.bind = <<BindRule(B, AX, FALSE)>>]
RootedProc == [Rooted EXCEPT !.proc = <<AX>>]

Others == {
    RootedBind, RootedProc,
    [Rooted EXCEPT !.tmpfs = <<AX>>],
    [Rooted EXCEPT !.root = <<"c">>],                            \* no such directory
    [Rooted EXCEPT !.rules = {<<>>}],                            \* a rule for / covers only /
    [Rooted EXCEPT !.rules = {AX}],                              \* a rule below the root
    [Policy({}) EXCEPT !.cwd = A],
    [Policy({}) EXCEPT !.cwd = <<"c">>],
    [Policy({}) EXCEPT !.cwd = F],
    [Policy({A, B}) EXCEPT !.tmpfs = <<AX>>, !.bind = <<BindRule(A, B, TRUE)>>, !.proc = <<AX>>],
    [Policy({A, B}) EXCEPT !.tmpfs = <<A>>, !.bind = <<BindRule(B, AX, TRUE)>>],
    [Policy({AX}) EXCEPT !.tmpfs = <<A>>],                       \* the rule's path is covered
    [Policy({A}) EXCEPT !.bind = <<BindRule(A, AX, TRUE), BindRule(B, AX, TRUE)>>],
    [Policy({A}) EXCEPT !.bind = <<BindRule(F, AX, FALSE)>>],    \* a file on a directory
    [Policy({F}) EXCEPT !.bind = <<BindRule(F, F, TRUE)>>],
    [Policy({F}) EXCEPT !.bind = <<BindRule(D, F, TRUE)>>],      \* a device
    [Policy({<<>>, A}) EXCEPT !.tmpfs = <<<<>>, A>>],              \* on "/", unseen
    [Rooted EXCEPT !.root = <<>>, !.rules = {<<>>}],             \* not another root
    [Rooted EXCEPT !.root = Old, !.rules = {Old}, !.cwd = None], \* inside what others remove
    [Policy({A}) EXCEPT !.tmpfs = <<Old>>],
    [Policy({A}) EXCEPT !.broker = {"object_proc", "bind_ro"}]}

MCJobs ==
    {(r1 :> Rooted) @@ (r2 :> Rooted) @@ (r3 :> p) : p \in Others \cup {Rooted}}
    \cup {(r1 :> p) @@ (r2 :> p) @@ (r3 :> p) : p \in {RootedBind}}

(* The directory for the old root may be left from before. *)
MCDisks ==
    {[q \in {<<>>, A, AX, B, D, F} \cup left |->
        IF q = F THEN "file" ELSE IF q = D THEN "other" ELSE "dir"] :
            left \in {{}, {Old}}}
MCKernels == {Features, Features \ {"pivot"}, Features \ {"proc"}}
=============================================================================
