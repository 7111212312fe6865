---------------------------- MODULE DaemonServe -----------------------------
(* landlockd serve and its clients (src/src/landlockd_daemon.c): daemons     *)
(* that take over one socket path from each other, or a socket systemd holds *)
(* for them, serve one connection at a time; clients check their request,    *)
(* connect, write it piece by piece and wait for one answer.                 *)
(*                                                                           *)
(* A connection carries words: a header, the letters of a policy name and of *)
(* arguments, and their lengths.  Every daemon process is started at most    *)
(* once; a daemon or a client may be killed at any step.                     *)
EXTENDS Integers, Sequences, FiniteSets

CONSTANTS
    Clients,
    NDaemons,        \* daemons that are ever started
    Asking,          \* what the clients ask: functions from clients to requests
    Environments,    \* what systemd may pass to a daemon
    None,
    MaxArgs,         \* LANDLOCKD_DAEMON_MAX_ARGS
    MaxPolicyLen,    \* LANDLOCKD_DAEMON_MAX_POLICY_LEN
    MaxArgLen,       \* LANDLOCKD_DAEMON_MAX_ARG_LEN
    MaxBytes,        \* LANDLOCKD_DAEMON_MAX_REQUEST_BYTES
    Word,            \* sizeof(uint32_t)
    Wrap,            \* 2^32, where total_bytes wraps
    Backlog          \* connections a listener keeps waiting

(* A request: the client (landlockd itself, which checks first, or another   *)
(* program), its user, and what it sends.  args holds the lengths.           *)
RequestType ==
    [checked : BOOLEAN, same_uid : BOOLEAN, magic : BOOLEAN,
     command : {"run", "stop", "status", "unknown"}, policy_len : Nat, args : Seq(Nat)]

Daemons == 1..NDaemons
Systemd == 0
Listeners == Daemons \cup {Systemd}

ASSUME LimitAssumption ==
    /\ {NDaemons, MaxArgs, MaxPolicyLen, MaxArgLen, MaxBytes, Word, Backlog} \subseteq Nat \ {0}
    /\ MaxPolicyLen <= MaxBytes
    /\ Wrap \in Nat /\ MaxBytes + Word + MaxArgLen < Wrap

(* landlockd itself sends the magic and one of the commands it has.          *)
ASSUME AskingAssumption ==
    /\ Asking \subseteq [Clients -> RequestType]
    /\ \A ask \in Asking, c \in Clients :
          ask[c].checked => ask[c].magic /\ ask[c].command # "unknown"

Answers == {"ok", "EPERM", "EPROTO", "EINVAL", "EPIPE", "ENOMEM", "load"}

ASSUME NoneAssumption ==
    /\ None \notin Clients /\ None \notin Answers
    /\ None \notin [policy_len : Nat, args : Seq(Nat)]

VARIABLES
    activated,       \* systemd holds the listening socket
    path,            \* the daemon whose listener the socket path names
    shared,          \* two daemons have been alive at the same time
    dpc,             \* where a daemon is
    cur,             \* the client it serves
    got,             \* what it has read of the request
    backlog,         \* clients waiting to be accepted, per listener
    req,             \* the request of a client
    cpc,             \* where a client is
    sent,            \* writes it has made
    stream,          \* words written and not yet read
    closed,          \* the daemon has closed the connection
    reply,           \* the answer on its way to the client
    result,          \* what the client returned
    ran              \* what was run for the client

daemonVars == <<path, shared, dpc, cur, got, backlog>>
clientVars == <<req, cpc, sent, result>>
wireVars == <<stream, closed, reply>>
vars == <<activated, path, shared, dpc, cur, got, backlog, req, cpc, sent, stream, closed, reply,
          result, ran>>

Nothing == [argc |-> 0, policy_len |-> 0, args |-> <<>>, total |-> 0]

(* A socket of its own, or the one systemd passed. *)
Listener(d) == IF activated THEN Systemd ELSE d
Alive(d) == dpc[d] \notin {"off", "nobind", "failed", "exited", "killed", "sigpipe"}
Listening(d) == Alive(d) /\ dpc[d] \notin {"unlink", "bind", "listen"}

Sum(lens) ==
    LET total[i \in 0..Len(lens)] == IF i = 0 THEN 0 ELSE total[i - 1] + lens[i] IN total[Len(lens)]

---------------------------------------------------------------------------
Init ==
    /\ activated \in BOOLEAN
    /\ path = IF activated THEN Systemd ELSE None
    /\ shared = FALSE
    /\ dpc = [d \in Daemons |-> "off"]
    /\ cur = [d \in Daemons |-> None]
    /\ got = [d \in Daemons |-> Nothing]
    /\ backlog = [l \in Listeners |-> <<>>]
    /\ req \in Asking
    /\ cpc = [c \in Clients |-> "check"]
    /\ sent = [c \in Clients |-> 0]
    /\ stream = [c \in Clients |-> <<>>]
    /\ closed = [c \in Clients |-> FALSE]
    /\ reply = [c \in Clients |-> None]
    /\ result = [c \in Clients |-> None]
    /\ ran = [c \in Clients |-> None]

---------------------------------------------------------------------------
(* The client: landlockd_daemon_run, _status, _stop.                         *)

(* The test before connecting; only a run has anything to test. *)
ClientCheckOk(r) ==
    \/ ~r.checked \/ r.command # "run"
    \/ /\ \A i \in DOMAIN r.args : r.args[i] # 0 /\ r.args[i] <= MaxArgLen
       /\ Len(r.args) \in 1..MaxArgs
       /\ r.policy_len \in 1..MaxPolicyLen
       /\ Sum(r.args) + Word * Len(r.args) + r.policy_len <= MaxBytes

ClientCheck(c) ==
    /\ cpc[c] = "check"
    /\ IF ClientCheckOk(req[c])
       THEN cpc' = [cpc EXCEPT ![c] = "connect"] /\ UNCHANGED result
       ELSE cpc' = [cpc EXCEPT ![c] = "done"] /\ result' = [result EXCEPT ![c] = "local"]
    /\ UNCHANGED <<activated, ran, req, sent>> /\ UNCHANGED daemonVars /\ UNCHANGED wireVars

(* landlockd_daemon_connect: refused when the path is not there or its       *)
(* listener is gone; waits while the backlog is full.                        *)
ClientConnect(c) ==
    /\ cpc[c] = "connect"
    /\ IF path = Systemd \/ path \in {d \in Daemons : Listening(d)}
       THEN /\ Len(backlog[path]) < Backlog
            /\ backlog' = [backlog EXCEPT ![path] = Append(@, c)]
            /\ cpc' = [cpc EXCEPT ![c] = "write"]
            /\ UNCHANGED result
       ELSE /\ cpc' = [cpc EXCEPT ![c] = "done"]
            /\ result' = [result EXCEPT ![c] = "refused"]
            /\ UNCHANGED backlog
    /\ UNCHANGED <<activated, ran, req, sent, path, shared, dpc, cur, got>> /\ UNCHANGED wireVars

(* The writes of a request: the header, the policy, and for each argument    *)
(* its length and its letters.                                               *)
Letters(n) == [i \in 1..n |-> "x"]
Writes(r) ==
    IF r.command # "run" THEN <<<<r>>>>
    ELSE <<<<r>>, Letters(r.policy_len)>>
         \o [i \in 1..(2 * Len(r.args)) |->
               LET n == r.args[(i + 1) \div 2] IN IF i % 2 = 1 THEN <<n>> ELSE Letters(n)]

(* A mutant: a client that asks the daemon to stop does not wait for the     *)
(* answer.                                                                   *)
ClientWriteMutant(c) ==
    /\ cpc[c] = "write" /\ ~closed[c]
    /\ stream' = [stream EXCEPT ![c] = @ \o Writes(req[c])[sent[c] + 1]]
    /\ sent' = [sent EXCEPT ![c] = @ + 1]
    /\ cpc' = [cpc EXCEPT ![c] = IF sent'[c] < Len(Writes(req[c])) THEN "write"
                                ELSE IF req[c].command = "stop" THEN "done" ELSE "read"]
    /\ UNCHANGED <<activated, ran, req, result, closed, reply>> /\ UNCHANGED daemonVars

(* A write to a connection the daemon has closed ends the client (SIGPIPE).  *)
ClientWrite(c) ==
    /\ cpc[c] = "write"
    /\ IF closed[c]
       THEN /\ cpc' = [cpc EXCEPT ![c] = "sigpipe"]
            /\ UNCHANGED <<sent, stream>>
       ELSE /\ stream' = [stream EXCEPT ![c] = @ \o Writes(req[c])[sent[c] + 1]]
            /\ sent' = [sent EXCEPT ![c] = @ + 1]
            /\ cpc' = [cpc EXCEPT ![c] = IF sent'[c] = Len(Writes(req[c])) THEN "read" ELSE "write"]
    /\ UNCHANGED <<activated, ran, req, result, closed, reply>> /\ UNCHANGED daemonVars

(* The answer, or the end of the connection.  A refusal is shorter than what *)
(* a status client reads: it sees the end of the connection as well.         *)
ClientRead(c) ==
    /\ cpc[c] = "read"
    /\ reply[c] # None \/ closed[c]
    /\ cpc' = [cpc EXCEPT ![c] = "done"]
    /\ result' = [result EXCEPT ![c] =
                    IF reply[c] = None \/ (req[c].command = "status" /\ reply[c] # "ok")
                    THEN "lost" ELSE reply[c]]
    /\ UNCHANGED <<activated, ran, req, sent>> /\ UNCHANGED daemonVars /\ UNCHANGED wireVars

(* The client is killed, and its end of the connection closed. *)
ClientKilled(c) ==
    /\ cpc[c] \in {"write", "read"}
    /\ cpc' = [cpc EXCEPT ![c] = "killed"]
    /\ UNCHANGED <<activated, ran, req, sent, result>> /\ UNCHANGED daemonVars /\ UNCHANGED wireVars

---------------------------------------------------------------------------
(* The daemon.                                                               *)

(* landlockd_daemon_get_systemd_listener: the numbers of LISTEN_PID and      *)
(* LISTEN_FDS are read with strtoul and cut to an unsigned int.  A missing   *)
(* variable, or one that is no number, is None.                              *)
Activation(env) ==
    /\ env.listen_pid # None /\ env.listen_fds # None
    /\ env.listen_pid % Wrap = env.pid /\ env.listen_fds % Wrap = 1
    /\ env.listening

(* landlockd_daemon_serve, landlockd_daemon_serve_systemd *)
Start(d) ==
    /\ dpc[d] = "off" /\ \A e \in 1..(d - 1) : dpc[e] # "off"
    /\ \/ ~activated /\ dpc' = [dpc EXCEPT ![d] = "unlink"]
       \/ /\ activated
          /\ \E env \in Environments :
               dpc' = [dpc EXCEPT ![d] = IF Activation(env) THEN "accept" ELSE "nobind"]
    /\ shared' = (shared \/ \E e \in Daemons : Alive(e))
    /\ UNCHANGED <<activated, path, cur, got, backlog, ran>>
    /\ UNCHANGED clientVars /\ UNCHANGED wireVars

(* A mutant: what an earlier daemon left at the path stays there. *)
UnlinkPathMutant(d) ==
    /\ dpc[d] = "unlink"
    /\ dpc' = [dpc EXCEPT ![d] = "bind"]
    /\ UNCHANGED <<activated, path, shared, cur, got, backlog, ran>>
    /\ UNCHANGED clientVars /\ UNCHANGED wireVars

(* landlockd_daemon_listen_path: socket and unlink, then bind, then listen.  *)
UnlinkPath(d) ==
    /\ dpc[d] = "unlink"
    /\ path' = None
    /\ dpc' = [dpc EXCEPT ![d] = "bind"]
    /\ UNCHANGED <<activated, shared, cur, got, backlog, ran>>
    /\ UNCHANGED clientVars /\ UNCHANGED wireVars

(* bind finds the path free, or fails because something is there again; what *)
(* is there is then unlinked.                                                *)
BindPath(d) ==
    /\ dpc[d] = "bind"
    /\ IF path = None
       THEN path' = d /\ dpc' = [dpc EXCEPT ![d] = "listen"]
       ELSE path' = None /\ dpc' = [dpc EXCEPT ![d] = "nobind"]
    /\ UNCHANGED <<activated, shared, cur, got, backlog, ran>>
    /\ UNCHANGED clientVars /\ UNCHANGED wireVars

(* Between bind and listen the path is there, and connecting to it refused.  *)
ListenPath(d) ==
    /\ dpc[d] = "listen"
    /\ dpc' = [dpc EXCEPT ![d] = "accept"]
    /\ UNCHANGED <<activated, path, shared, cur, got, backlog, ran>>
    /\ UNCHANGED clientVars /\ UNCHANGED wireVars

(* The other failures: of socket, before the unlink; of a name too long for  *)
(* sun_path, after it; of bind (no permission, no directory) and of listen,  *)
(* which unlink whatever is at the path.                                     *)
ListenPathFails(d) ==
    /\ \/ dpc[d] = "unlink" /\ UNCHANGED path
       \/ dpc[d] = "bind" /\ UNCHANGED path
       \/ dpc[d] \in {"bind", "listen"} /\ path' = None
    /\ dpc' = [dpc EXCEPT ![d] = "failed"]
    /\ UNCHANGED <<activated, shared, cur, got, backlog, ran>>
    /\ UNCHANGED clientVars /\ UNCHANGED wireVars

(* landlockd_seccomp_apply_daemon_hardening fails, or accept4 does: the      *)
(* listener is closed and the path unlinked.                                 *)
GiveUp(d) ==
    /\ dpc[d] = "accept"
    /\ dpc' = [dpc EXCEPT ![d] = "exit"]
    /\ UNCHANGED <<activated, path, shared, cur, got, backlog, ran>>
    /\ UNCHANGED clientVars /\ UNCHANGED wireVars

(* The client has closed its end of the connection. *)
Gone(c) == cpc[c] \in {"done", "killed", "sigpipe"}

(* The connections that wait at a listener end when it is closed by the last *)
(* process that has it: systemd keeps its own.                               *)
Dropped(d) ==
    IF activated THEN {} ELSE {c \in Clients : \E i \in DOMAIN backlog[d] : backlog[d][i] = c}

(* policy_file and argv are freed, whichever way the connection ends. *)
Forget(d) ==
    /\ cur' = [cur EXCEPT ![d] = None]
    /\ got' = [got EXCEPT ![d] = Nothing]

(* What was not read from a connection is lost when it is closed. *)
Close(cs) ==
    /\ closed' = [c \in Clients |-> closed[c] \/ c \in cs]
    /\ stream' = [c \in Clients |-> IF c \in cs THEN <<>> ELSE stream[c]]

(* The daemon is ended by a signal. *)
Dies(d, signal) ==
    /\ dpc' = [dpc EXCEPT ![d] = signal]
    /\ Close(Dropped(d) \cup ({cur[d]} \ {None}))
    /\ Forget(d)
    /\ UNCHANGED <<path, shared, backlog>>

(* The answer is written and the connection closed; writing to a client that *)
(* has left raises SIGPIPE, which nobody handles.                            *)
Answer(d, answer, next) ==
    LET c == cur[d] IN
    IF Gone(c) THEN Dies(d, "sigpipe") /\ UNCHANGED reply
    ELSE /\ reply' = [reply EXCEPT ![c] = answer]
         /\ Close({c})
         /\ dpc' = [dpc EXCEPT ![d] = next]
         /\ Forget(d)
         /\ UNCHANGED <<path, shared, backlog>>

(* The connection is closed without an answer. *)
HangUp(d) ==
    /\ Close({cur[d]})
    /\ dpc' = [dpc EXCEPT ![d] = "accept"]
    /\ Forget(d)
    /\ UNCHANGED <<path, shared, backlog, reply>>

(* accept4, landlockd_daemon_peer_authorized: another user is turned away    *)
(* before anything is read.  getsockopt is taken not to fail.                *)
Accept(d) ==
    LET l == Listener(d) IN
    /\ dpc[d] = "accept" /\ backlog[l] # <<>>
    /\ backlog' = [backlog EXCEPT ![l] = Tail(@)]
    /\ cur' = [cur EXCEPT ![d] = Head(backlog[l])]
    /\ dpc' = [dpc EXCEPT ![d] = IF req[Head(backlog[l])].same_uid THEN "header" ELSE "deny"]
    /\ UNCHANGED <<activated, path, shared, got, ran>>
    /\ UNCHANGED clientVars /\ UNCHANGED wireVars

(* A mutant: the connection of another user is left alone. *)
DenyMutant(d) ==
    /\ dpc[d] = "deny"
    /\ dpc' = [dpc EXCEPT ![d] = "accept"]
    /\ Forget(d)
    /\ UNCHANGED <<activated, path, shared, backlog, ran>>
    /\ UNCHANGED clientVars /\ UNCHANGED wireVars

Deny(d) ==
    /\ dpc[d] = "deny"
    /\ Answer(d, "EPERM", "accept")
    /\ UNCHANGED <<activated, ran>> /\ UNCHANGED clientVars

(* landlockd_daemon_read_all waits for n words, or for the end of the stream. *)
Readable(c, n) == Len(stream[c]) >= n
Ended(c, n) == ~Readable(c, n) /\ Gone(c)
Consume(c, n) == stream' = [stream EXCEPT ![c] = SubSeq(@, n + 1, Len(@))]

(* The header, and what is done about it at once.  The buffers for the       *)
(* policy name, for argv and for each argument may not be had: ENOMEM.       *)
HeaderOk(r) ==
    Len(r.args) \in 1..MaxArgs /\ r.policy_len \in 1..MaxPolicyLen

ReadHeader(d) ==
    LET c == cur[d] IN
    /\ dpc[d] = "header"
    /\ UNCHANGED <<activated, ran>> /\ UNCHANGED clientVars
    /\ \/ /\ Ended(c, 1)
          /\ HangUp(d)
       \/ /\ Readable(c, 1)
          /\ LET r == Head(stream[c]) IN
             \/ ~r.magic /\ Answer(d, "EPROTO", "accept")
             \/ r.magic /\ r.command = "stop" /\ Answer(d, "ok", "exit")
             \/ r.magic /\ r.command = "status" /\ Answer(d, "ok", "accept")
             \/ r.magic /\ r.command = "unknown" /\ Answer(d, "EINVAL", "accept")
             \/ r.magic /\ r.command = "run" /\ ~HeaderOk(r) /\ Answer(d, "EINVAL", "accept")
             \/ r.magic /\ r.command = "run" /\ HeaderOk(r) /\ Answer(d, "ENOMEM", "accept")
             \/ /\ r.magic /\ r.command = "run" /\ HeaderOk(r)
                /\ got' = [got EXCEPT ![d] = [argc |-> Len(r.args), policy_len |-> r.policy_len,
                                               args |-> <<>>, total |-> r.policy_len]]
                /\ dpc' = [dpc EXCEPT ![d] = "policy"]
                /\ Consume(c, 1)
                /\ UNCHANGED <<path, shared, cur, backlog, closed, reply>>

(* landlockd_daemon_handle_run *)
ReadPolicy(d) ==
    LET c == cur[d] IN
    /\ dpc[d] = "policy"
    /\ UNCHANGED <<activated, ran>> /\ UNCHANGED clientVars
    /\ \/ Ended(c, got[d].policy_len) /\ HangUp(d)
       \/ /\ Readable(c, got[d].policy_len)
          /\ \/ Answer(d, "ENOMEM", "accept")
             \/ /\ Consume(c, got[d].policy_len)
                /\ dpc' = [dpc EXCEPT ![d] = "length"]
                /\ UNCHANGED <<path, shared, cur, got, backlog, closed, reply>>

(* A mutant: the length alone is not bounded. *)
ArgOkMutant(n, total) == n # 0 /\ total <= MaxBytes /\ (total + n) % Wrap <= MaxBytes

(* A mutant: what is added up is tested before this argument only. *)
ArgOkSumMutant(n, total) == n # 0 /\ n <= MaxArgLen /\ total <= MaxBytes

(* The tests on the length n of an argument; total_bytes is a uint32_t.      *)
ArgOk(n, total) ==
    n # 0 /\ n <= MaxArgLen /\ total <= MaxBytes /\ (total + n) % Wrap <= MaxBytes

(* A mutant: the length word is counted twice. *)
CountedMutant(total) == (total + Word + Word) % Wrap

Counted(total) == (total + Word) % Wrap

ReadLength(d) ==
    LET c == cur[d]
        n == Head(stream[c])
        total == Counted(got[d].total)
    IN
    /\ dpc[d] = "length" /\ Len(got[d].args) < got[d].argc
    /\ UNCHANGED <<activated, ran>> /\ UNCHANGED clientVars
    /\ \/ Ended(c, 1) /\ Answer(d, "EPIPE", "accept")
       \/ Readable(c, 1) /\ ~ArgOk(n, total) /\ Answer(d, "EINVAL", "accept")
       \/ Readable(c, 1) /\ ArgOk(n, total) /\ Answer(d, "ENOMEM", "accept")
       \/ /\ Readable(c, 1)
          /\ Consume(c, 1)
          /\ ArgOk(n, total)
          /\ got' = [got EXCEPT ![d].args = Append(@, n), ![d].total = total]
          /\ dpc' = [dpc EXCEPT ![d] = "arg"]
          /\ UNCHANGED <<path, shared, cur, backlog, closed, reply>>

ReadArg(d) ==
    LET c == cur[d]
        n == got[d].args[Len(got[d].args)]
    IN
    /\ dpc[d] = "arg"
    /\ UNCHANGED <<activated, ran>> /\ UNCHANGED clientVars
    /\ \/ Ended(c, n) /\ Answer(d, "EPIPE", "accept")
       \/ /\ Readable(c, n)
          /\ Consume(c, n)
          /\ got' = [got EXCEPT ![d].total = (@ + n) % Wrap]
          /\ dpc' = [dpc EXCEPT ![d] = "length"]
          /\ UNCHANGED <<path, shared, cur, backlog, closed, reply>>

(* landlockd_daemon_cache_get_policy and the run; see PolicyCache and Launch. *)
RunPolicy(d) ==
    /\ dpc[d] = "length" /\ Len(got[d].args) = got[d].argc
    /\ UNCHANGED activated /\ UNCHANGED clientVars
    /\ \/ Answer(d, "load", "accept") /\ UNCHANGED ran
       \/ /\ ran' = [ran EXCEPT ![cur[d]] = [policy_len |-> got[d].policy_len, args |-> got[d].args]]
          /\ dpc' = [dpc EXCEPT ![d] = "running"]
          /\ UNCHANGED <<path, shared, cur, got, backlog>> /\ UNCHANGED wireVars

(* The workload has ended, with its status. *)
RunEnds(d) ==
    /\ dpc[d] = "running"
    /\ Answer(d, "ok", "accept")
    /\ UNCHANGED <<activated, ran>> /\ UNCHANGED clientVars

(* After the loop: the listener is closed, the path unlinked unless systemd  *)
(* owns it, whatever is at the path by now.                                  *)
Exit(d) ==
    /\ dpc[d] = "exit"
    /\ dpc' = [dpc EXCEPT ![d] = "exited"]
    /\ path' = IF activated THEN path ELSE None
    /\ Close(Dropped(d))
    /\ UNCHANGED <<activated, shared, cur, got, backlog, ran, reply>>
    /\ UNCHANGED clientVars

DaemonKilled(d) ==
    /\ Alive(d)
    /\ Dies(d, "killed")
    /\ UNCHANGED <<activated, ran, reply>> /\ UNCHANGED clientVars

Serve(d) ==
    \/ UnlinkPath(d) \/ BindPath(d) \/ ListenPath(d) \/ Accept(d) \/ Deny(d) \/ ReadHeader(d)
    \/ ReadPolicy(d) \/ ReadLength(d) \/ ReadArg(d) \/ RunPolicy(d) \/ RunEnds(d) \/ Exit(d)

Call(c) == ClientCheck(c) \/ ClientConnect(c) \/ ClientWrite(c) \/ ClientRead(c)

Next ==
    \/ \E d \in Daemons :
         Serve(d) \/ Start(d) \/ ListenPathFails(d) \/ GiveUp(d) \/ DaemonKilled(d)
    \/ \E c \in Clients : Call(c) \/ ClientKilled(c)

(* Processes that can take a step take it: the kernel schedules them, and a  *)
(* workload is assumed to end.  Nobody has to be started, to fail or to be   *)
(* killed.                                                                   *)
Fairness ==
    /\ \A d \in Daemons : WF_vars(Serve(d))
    /\ \A c \in Clients : WF_vars(Call(c))

Spec == Init /\ [][Next]_vars /\ Fairness

---------------------------------------------------------------------------
(* Types of daemons, clients and connections (landlockd_daemon.c). *)
TypeOK ==
    /\ activated \in BOOLEAN /\ shared \in BOOLEAN
    /\ path \in Listeners \cup {None}
    /\ \A d \in Daemons :
        /\ dpc[d] \in {"off", "unlink", "bind", "listen", "nobind", "failed", "accept", "deny",
                       "header", "policy", "length", "arg", "running", "exit", "exited",
                       "killed", "sigpipe"}
        /\ cur[d] \in Clients \cup {None}
        /\ cur[d] # None <=> dpc[d] \in {"deny", "header", "policy", "length", "arg", "running"}
        /\ got[d].total \in 0..MaxBytes /\ Len(got[d].args) <= MaxArgs
    /\ \A l \in Listeners : Len(backlog[l]) <= Backlog
    /\ \A c \in Clients :
        /\ cpc[c] \in {"check", "connect", "write", "read", "done", "killed", "sigpipe"}
        /\ sent[c] \in 0..Len(Writes(req[c]))
        /\ reply[c] \in Answers \cup {None}
        /\ result[c] \in (Answers \ {"EPIPE"}) \cup {None, "local", "refused", "lost"}

(* What runs for a client is what that client asked for, every argument of   *)
(* it, never more than the limits and never for another user; and a client   *)
(* of run that is told success had its workload run                          *)
(* (landlockd_daemon_handle_run; the framing of lines 772 and 434).          *)
Delivered ==
    \A c \in Clients :
        /\ ran[c] # None =>
             /\ ran[c].policy_len = req[c].policy_len /\ ran[c].args = req[c].args
             /\ req[c].same_uid
             /\ Sum(ran[c].args) + Word * Len(ran[c].args) + ran[c].policy_len <= MaxBytes
        /\ result[c] = "ok" /\ req[c].command = "run" => ran[c] # None

(* The two sides count alike: a request that passes the client's own limits  *)
(* (lines 737-762) is never refused for its size by the daemon (409, 440).   *)
LimitsAgree == \A c \in Clients : req[c].checked => reply[c] # "EINVAL"

(* SIGPIPE ends a process only when the other one left or would not listen   *)
(* (write without MSG_NOSIGNAL, line 137): a client that is not killed never *)
(* takes the daemon down, whatever it sends and however it is answered, and  *)
(* a client whose request is in order is only hit when a daemon has ended or *)
(* was out of memory.                                                        *)
OnlyLeaversHurt ==
    /\ (\E d \in Daemons : dpc[d] = "sigpipe") => \E c \in Clients : cpc[c] = "killed"
    /\ (\E c \in Clients : cpc[c] = "sigpipe" /\ req[c].checked /\ req[c].same_uid)
       => \/ \E d \in Daemons : dpc[d] \in {"exited", "killed", "sigpipe"}
          \/ \E c \in Clients : reply[c] = "ENOMEM"

(* A daemon that never met another one on its path never finds it taken,     *)
(* whatever a killed one left there or one that failed to listen, and has    *)
(* the path while it listens (landlockd_daemon_listen_path, and the unlink   *)
(* after the loop, line 558).                                                *)
Reachable ==
    ~shared => \A d \in Daemons :
        (dpc[d] = "nobind" => activated) /\ (Listening(d) /\ dpc[d] # "exit" => path = Listener(d))

(* Every client comes back: with an answer, or with an error once the daemon *)
(* is gone (landlockd_daemon_read_all sees the end of the connection).  Only *)
(* a client of a systemd socket that nobody serves any more keeps waiting.   *)
ClientReturns ==
    \A c \in Clients :
        (activated => <>[](\E d \in Daemons : Alive(d)))
        => (cpc[c] = "connect" ~> cpc[c] \in {"done", "killed", "sigpipe"})
=============================================================================
