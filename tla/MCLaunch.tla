------------------------------ MODULE MCLaunch ------------------------------
(* Launch on every policy with up to two layers and a few mixes of mounts:   *)
(* every branch of landlockd_run_policy_ir, alone and combined.              *)
EXTENDS Launch

MCPolicies ==
    [layers : 0..2, net : BOOLEAN, broker : SUBSET {"open", "scratch", "mount"},
     mounts : {{}, {"cwd"}, {"tmpfs", "root", "cwd"}, {"bind", "proc"}},
     deny : {"none", "some", "overflow"}]

MCExitCodes == {0, 3}
=============================================================================
