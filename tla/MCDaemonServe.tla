--------------------------- MODULE MCDaemonServe ----------------------------
(* Two clients and two daemons.  The limits are scaled down: a request has   *)
(* at most MaxBytes = 7 words, of which "largest" uses every one.            *)
EXTENDS DaemonServe, TLC

CONSTANTS c1, c2

MCClients == {c1, c2}

Request(command, policy_len, args) ==
    [checked |-> TRUE, same_uid |-> TRUE, magic |-> TRUE, command |-> command,
     policy_len |-> policy_len, args |-> args]

Run == Request("run", 1, <<1>>)
Largest == Request("run", 1, <<3, 1>>)
TooLarge == Request("run", 2, <<5>>)
Stop == Request("stop", 0, <<>>)
Status == Request("status", 0, <<>>)

(* Other programs than landlockd. *)
Foreign == [Run EXCEPT !.same_uid = FALSE]
BadMagic == [Status EXCEPT !.checked = FALSE, !.magic = FALSE]
Unknown == [Status EXCEPT !.checked = FALSE, !.command = "unknown"]
NoArgs == [Run EXCEPT !.checked = FALSE, !.args = <<>>]
Unchecked == [TooLarge EXCEPT !.checked = FALSE]
Wrapping == [Run EXCEPT !.checked = FALSE, !.args = <<14>>]

(* Any request beside the one that stops the daemon. *)
MCAsking ==
    {(c1 :> other) @@ (c2 :> Stop) :
        other \in {Largest, TooLarge, Stop, Status, Foreign, BadMagic, Unknown, NoArgs, Unchecked,
                   Wrapping}}

(* The process has number 3. *)
Environment(listen_pid, listen_fds, listening) ==
    [pid |-> 3, listen_pid |-> listen_pid, listen_fds |-> listen_fds, listening |-> listening]

MCEnvironments ==
    {Environment(3, 1, TRUE), Environment(3, 2, TRUE), Environment(4, 1, TRUE), Environment(3, 1, FALSE),
     Environment(None, 1, TRUE), Environment(3, None, TRUE)}
=============================================================================
