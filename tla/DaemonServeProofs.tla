------------------------- MODULE DaemonServeProofs --------------------------
(* landlockd serve and its clients, for any number of daemons and clients,   *)
(* any requests and any limits: who has the socket path, what a connection   *)
(* carries, what is run and answered, and whom SIGPIPE ends.                 *)
EXTENDS DaemonServe, WellFoundedInduction, SequenceTheorems, TLAPS

---------------------------------------------------------------------------
(* The socket path (landlockd_daemon_listen_path, and the end of             *)
(* landlockd_daemon_serve_listener).                                         *)

States ==
    {"off", "unlink", "bind", "listen", "nobind", "failed", "accept", "deny", "header", "policy",
     "length", "arg", "running", "exit", "exited", "killed", "sigpipe"}

(* A daemon that met no other: it is the only one alive, nothing is at the   *)
(* path when it binds, and from then on the path is its own.                 *)
Alone ==
    \A d \in Daemons :
        /\ Alive(d) => \A e \in Daemons : Alive(e) => e = d
        /\ dpc[d] = "bind" => path = None
        /\ dpc[d] = "nobind" => activated
        /\ dpc[d] = "listen" \/ (Listening(d) /\ dpc[d] # "exit") => path = Listener(d)

PathInv ==
    /\ activated \in BOOLEAN
    /\ dpc \in [Daemons -> States]
    /\ activated => path = Systemd /\ \A d \in Daemons : dpc[d] \notin {"unlink", "bind", "listen"}
    /\ ~shared => Alone

(* What a step of daemon d may do to the daemons and to the path, as far as  *)
(* PathInv is concerned: nothing to the path, and d goes from one state in   *)
(* which it listens to another, or ends.                                     *)
Quiet(d, next) ==
    /\ UNCHANGED <<activated, path, shared>>
    /\ dpc' = [dpc EXCEPT ![d] = next]
    /\ \/ Listening(d) /\ dpc[d] # "exit" /\ next \in States \ {"off", "nobind", "unlink", "bind", "listen"}
       \/ Alive(d) /\ next \in {"killed", "sigpipe"}

(* Initially no daemon is running.                                           *)
LEMMA InitPath == Init => PathInv
BY DEF Init, PathInv, States, Alone, Alive, Listening, Daemons

(* A daemon that serves, or is ended by a signal, leaves the path alone.     *)
LEMMA QuietPath ==
    ASSUME PathInv, NEW d \in Daemons, NEW next, Quiet(d, next)
    PROVE  PathInv'
<1>1. activated' \in BOOLEAN /\ dpc' \in [Daemons -> States]
  BY DEF PathInv, Quiet, States
<1>2. activated' => path' = Systemd /\ \A e \in Daemons : dpc'[e] \notin {"unlink", "bind", "listen"}
  BY DEF PathInv, Quiet, States
<1>3. ASSUME ~shared' PROVE Alone'
  <2>1. Alone
    BY <1>3 DEF PathInv, Quiet
  <2>2. \A e \in Daemons : Alive(e)' => Alive(e)
    BY DEF PathInv, Quiet, States, Alive, Listening
  <2>3. \A e \in Daemons : dpc'[e] \in {"bind", "listen", "nobind"} => dpc[e] = dpc'[e]
    BY DEF PathInv, Quiet, States
  <2>4. \A e \in Daemons : (Listening(e) /\ dpc[e] # "exit")' => Listening(e) /\ dpc[e] # "exit"
    BY DEF PathInv, Quiet, States, Alive, Listening
  <2>5. QED
    BY <2>1, <2>2, <2>3, <2>4 DEF Alone, Quiet, Listener
<1>4. QED
  BY <1>1, <1>2, <1>3 DEF PathInv

(* Starting a daemon: another one that is alive has been met.                *)
LEMMA StartPath ==
    ASSUME PathInv, NEW d \in Daemons, Start(d)
    PROVE  PathInv'
<1> PICK next \in {"unlink", "accept", "nobind"} :
      /\ dpc[d] = "off" /\ dpc' = [dpc EXCEPT ![d] = next]
      /\ next = "unlink" <=> ~activated
  BY DEF Start, PathInv
<1>1. UNCHANGED <<activated, path>> /\ shared' = (shared \/ \E e \in Daemons : Alive(e))
  BY DEF Start
<1>2. activated' \in BOOLEAN /\ dpc' \in [Daemons -> States]
  BY <1>1 DEF PathInv, States
<1>3. activated' => path' = Systemd /\ \A e \in Daemons : dpc'[e] \notin {"unlink", "bind", "listen"}
  BY <1>1 DEF PathInv, States
<1>4. ASSUME ~shared' PROVE Alone'
  <2>1. ~shared /\ Alone /\ \A e \in Daemons : ~Alive(e)
    BY <1>1, <1>4 DEF PathInv
  <2>2. \A e \in Daemons : e # d => ~Alive(e)' /\ dpc'[e] = dpc[e]
    BY <2>1 DEF PathInv, Alive
  <2>3. \A e \in Daemons : Listening(e)' => e = d /\ activated
    BY <2>2 DEF Listening, Alive, PathInv
  <2>4. \A e \in Daemons : dpc'[e] \notin {"bind", "listen"}
    BY <2>1 DEF Alive, PathInv, States
  <2>5. \A e \in Daemons : dpc'[e] = "nobind" => activated
    BY <2>1 DEF PathInv, Alone
  <2>6. QED
    BY <1>1, <2>2, <2>3, <2>4, <2>5 DEF Alone, Listener, PathInv
<1>5. QED
  BY <1>2, <1>3, <1>4 DEF PathInv

(* unlink, bind, listen, their failures, and the exit: the steps that change *)
(* the path.                                                                 *)
LEMMA TakeoverPath ==
    ASSUME PathInv, NEW d \in Daemons,
           UnlinkPath(d) \/ BindPath(d) \/ ListenPath(d) \/ ListenPathFails(d) \/ Exit(d)
    PROVE  PathInv'
<1>1. Alive(d) /\ UNCHANGED <<activated, shared>>
  BY DEF UnlinkPath, BindPath, ListenPath, ListenPathFails, Exit, Alive
<1> PICK next \in {"bind", "listen", "accept", "nobind", "failed", "exited"} :
      /\ dpc' = [dpc EXCEPT ![d] = next]
      /\ next # "exited" => dpc[d] \in {"unlink", "bind", "listen"}
      /\ next = "bind" => path' = None
      /\ next = "listen" => path' = d
      /\ next = "nobind" => dpc[d] = "bind" /\ path # None
      /\ next = "accept" => dpc[d] = "listen" /\ path' = path
      /\ activated /\ next = "exited" => path' = path
  BY DEF UnlinkPath, BindPath, ListenPath, ListenPathFails, Exit
<1>2. activated' \in BOOLEAN /\ dpc' \in [Daemons -> States]
  BY <1>1 DEF PathInv, States
<1>3. activated' => path' = Systemd /\ \A e \in Daemons : dpc'[e] \notin {"unlink", "bind", "listen"}
  BY <1>1 DEF PathInv, States
<1>4. ASSUME ~shared' PROVE Alone'
  <2>1. Alone /\ \A e \in Daemons : Alive(e) => e = d
    BY <1>1, <1>4 DEF PathInv, Alone
  <2>2. \A e \in Daemons : e # d => ~Alive(e)' /\ dpc'[e] = dpc[e]
    BY <2>1 DEF PathInv, Alive
  <2>3. \A e \in Daemons : dpc'[e] = "bind" => path' = None
    BY <2>2 DEF Alive, PathInv
  <2>4. \A e \in Daemons : dpc'[e] = "nobind" => activated
    BY <2>1 DEF PathInv, Alone
  <2>5. \A e \in Daemons : (Listening(e) /\ dpc[e] # "exit")' => e = d /\ next = "accept"
    BY <2>2 DEF Listening, Alive, PathInv
  <2>6. \A e \in Daemons : dpc'[e] = "listen" => e = d /\ next = "listen"
    BY <2>2 DEF Alive, PathInv
  <2>7. next = "accept" => path' = Listener(d)'
    BY <1>1, <2>1 DEF Alone, Listener
  <2>8. next = "listen" => path' = Listener(d)'
    BY <1>1 DEF PathInv, Listener
  <2>9. \A e \in Daemons :
          (dpc[e] = "listen" \/ (Listening(e) /\ dpc[e] # "exit"))' => path' = Listener(e)'
    BY <2>5, <2>6, <2>7, <2>8
  <2>10. QED
    BY <1>1, <2>2, <2>3, <2>4, <2>9 DEF Alone
<1>5. QED
  BY <1>2, <1>3, <1>4 DEF PathInv

(* The steps of clients do not concern the daemons.                          *)
LEMMA ClientPath ==
    ASSUME PathInv, UNCHANGED <<activated, path, shared, dpc>>
    PROVE  PathInv'
BY DEF PathInv, Alone, Alive, Listening, Listener

(* What an answer, or hanging up, does to the daemon.                        *)
LEMMA AnswerQuiet ==
    ASSUME NEW d \in Daemons, NEW next \in {"accept", "exit"}, NEW answer,
           Listening(d), dpc[d] # "exit", UNCHANGED activated, Answer(d, answer, next)
    PROVE  \E n \in States : Quiet(d, n)
<1>1. \/ dpc' = [dpc EXCEPT ![d] = next] /\ UNCHANGED <<path, shared>>
      \/ dpc' = [dpc EXCEPT ![d] = "sigpipe"] /\ UNCHANGED <<path, shared>>
  BY DEF Answer, Dies
<1>2. QED
  BY <1>1 DEF Quiet, States, Listening

(* Serving a client is quiet.                                                *)
LEMMA ServeQuiet ==
    ASSUME PathInv, NEW d \in Daemons,
           \/ Accept(d) \/ Deny(d) \/ ReadHeader(d) \/ ReadPolicy(d) \/ ReadLength(d) \/ ReadArg(d)
           \/ RunPolicy(d) \/ RunEnds(d) \/ GiveUp(d) \/ DaemonKilled(d)
    PROVE  \E n \in States : Quiet(d, n)
<1>1. CASE Accept(d)
  BY <1>1 DEF Accept, Quiet, States, Listening, Alive
<1>2. CASE Deny(d)
  BY <1>2, AnswerQuiet DEF Deny, Listening, Alive
<1>3. CASE ReadHeader(d)
  <2>1. Listening(d) /\ dpc[d] # "exit" /\ UNCHANGED activated
    BY <1>3 DEF ReadHeader, Listening, Alive
  <2>2. \/ HangUp(d)
        \/ \E answer : Answer(d, answer, "accept") \/ Answer(d, answer, "exit")
        \/ dpc' = [dpc EXCEPT ![d] = "policy"] /\ UNCHANGED <<path, shared>>
    BY <1>3 DEF ReadHeader
  <2>3. QED
    BY <2>1, <2>2, AnswerQuiet DEF HangUp, Quiet, States
<1>4. CASE ReadPolicy(d)
  <2>1. Listening(d) /\ dpc[d] # "exit" /\ UNCHANGED activated
    BY <1>4 DEF ReadPolicy, Listening, Alive
  <2>2. \/ HangUp(d)
        \/ \E answer : Answer(d, answer, "accept")
        \/ dpc' = [dpc EXCEPT ![d] = "length"] /\ UNCHANGED <<path, shared>>
    BY <1>4 DEF ReadPolicy
  <2>3. QED
    BY <2>1, <2>2, AnswerQuiet DEF HangUp, Quiet, States
<1>5. CASE ReadLength(d)
  <2>1. Listening(d) /\ dpc[d] # "exit" /\ UNCHANGED activated
    BY <1>5 DEF ReadLength, Listening, Alive
  <2>2. \/ \E answer : Answer(d, answer, "accept")
        \/ dpc' = [dpc EXCEPT ![d] = "arg"] /\ UNCHANGED <<path, shared>>
    BY <1>5 DEF ReadLength
  <2>3. QED
    BY <2>1, <2>2, AnswerQuiet DEF Quiet, States
<1>6. CASE ReadArg(d)
  <2>1. Listening(d) /\ dpc[d] # "exit" /\ UNCHANGED activated
    BY <1>6 DEF ReadArg, Listening, Alive
  <2>2. \/ \E answer : Answer(d, answer, "accept")
        \/ dpc' = [dpc EXCEPT ![d] = "length"] /\ UNCHANGED <<path, shared>>
    BY <1>6 DEF ReadArg
  <2>3. QED
    BY <2>1, <2>2, AnswerQuiet DEF Quiet, States
<1>7. CASE RunPolicy(d)
  <2>1. Listening(d) /\ dpc[d] # "exit" /\ UNCHANGED activated
    BY <1>7 DEF RunPolicy, Listening, Alive
  <2>2. \/ \E answer : Answer(d, answer, "accept")
        \/ dpc' = [dpc EXCEPT ![d] = "running"] /\ UNCHANGED <<path, shared>>
    BY <1>7 DEF RunPolicy
  <2>3. QED
    BY <2>1, <2>2, AnswerQuiet DEF Quiet, States
<1>8. CASE RunEnds(d)
  BY <1>8, AnswerQuiet DEF RunEnds, Listening, Alive
<1>9. CASE GiveUp(d)
  BY <1>9 DEF GiveUp, Quiet, States, Listening, Alive
<1>10. CASE DaemonKilled(d)
  BY <1>10 DEF DaemonKilled, Dies, Quiet, States
<1>11. QED
  BY <1>1, <1>2, <1>3, <1>4, <1>5, <1>6, <1>7, <1>8, <1>9, <1>10

(* Every step keeps the invariant.                                           *)
LEMMA NextPath == PathInv /\ [Next]_vars => PathInv'
<1> SUFFICES ASSUME PathInv, [Next]_vars PROVE PathInv'
  OBVIOUS
<1>1. ASSUME NEW d \in Daemons,
             Serve(d) \/ Start(d) \/ ListenPathFails(d) \/ GiveUp(d) \/ DaemonKilled(d)
      PROVE  PathInv'
  <2>1. CASE Start(d)
    BY <2>1, StartPath
  <2>2. CASE UnlinkPath(d) \/ BindPath(d) \/ ListenPath(d) \/ ListenPathFails(d) \/ Exit(d)
    BY <2>2, TakeoverPath
  <2>3. CASE \/ Accept(d) \/ Deny(d) \/ ReadHeader(d) \/ ReadPolicy(d) \/ ReadLength(d)
        \/ ReadArg(d)
             \/ RunPolicy(d) \/ RunEnds(d) \/ GiveUp(d) \/ DaemonKilled(d)
    BY <2>3, ServeQuiet, QuietPath
  <2>4. QED
    BY <1>1, <2>1, <2>2, <2>3 DEF Serve
<1>2. ASSUME NEW c \in Clients, Call(c) \/ ClientKilled(c) PROVE PathInv'
  <2>1. UNCHANGED <<activated, path, shared, dpc>>
    BY <1>2 DEF Call, ClientCheck, ClientConnect, ClientWrite, ClientRead, ClientKilled, daemonVars
  <2>2. QED
    BY <2>1, ClientPath
<1>3. CASE UNCHANGED vars
  BY <1>3, ClientPath DEF vars
<1>4. QED
  BY <1>1, <1>2, <1>3 DEF Next

(* A daemon that never met another one on its path never finds it taken,     *)
(* whatever a killed one left there, and has the path while it listens, for  *)
(* any number of daemons that follow each other and any clients.             *)
THEOREM AlwaysReachable == Spec => []Reachable
<1>1. PathInv => Reachable
  BY DEF PathInv, Alone, Reachable
<1>2. QED
  BY <1>1, InitPath, NextPath, PTL DEF Spec

---------------------------------------------------------------------------
(* Counting: the lengths of a request, and the words of its writes.          *)

(* Induction over the naturals, on sets: of the numbers outside T there      *)
(* would be a least one.                                                     *)
LEMMA SetInduction ==
    ASSUME NEW T, 0 \in T, \A k \in Nat : k \in T => k + 1 \in T
    PROVE  Nat \subseteq T
<1> DEFINE R == OpToRel(<, Nat)
<1> SUFFICES ASSUME Nat \ T # {} PROVE FALSE
  OBVIOUS
<1>1. \A y, x \in Nat : y < x => <<y, x>> \in R
  BY DEF OpToRel
<1>2. IsWellFoundedOn(R, Nat)
  BY NatLessThanWellFounded
<1> HIDE DEF R
<1>3. PICK x \in Nat \ T : \A y \in Nat \ T : ~ (<<y, x>> \in R)
  BY <1>2, WFMin
<1>4. x # 0 /\ x - 1 \in Nat
  OBVIOUS
<1>5. x - 1 \in T
  <2>1. x - 1 < x /\ <<x - 1, x>> \in R
    BY <1>1, <1>4
  <2>2. QED
    BY <1>3, <1>4, <2>1
<1>6. x - 1 + 1 \in T
  BY <1>4, <1>5
<1>7. QED
  BY <1>6

(* The running totals of a sequence of numbers.                              *)
Totals(lens, t) ==
    /\ t \in [0..Len(lens) -> Nat]
    /\ t[0] = 0
    /\ \A i \in 1..Len(lens) : t[i] = t[i - 1] + lens[i]

(* Every sequence of numbers has running totals.                             *)
LEMMA TotalsExist == ASSUME NEW lens \in Seq(Nat) PROVE \E t : Totals(lens, t)
<1> DEFINE Upto(n, t) == t \in [0..n -> Nat] /\ t[0] = 0
/\ \A i \in 1..n : t[i] = t[i - 1] + lens[i]
           T == {n \in Nat : n <= Len(lens) => \E t : Upto(n, t)}
<1>0. Len(lens) \in Nat /\ \A n \in Nat : n \in T <=> (n <= Len(lens) => \E t : Upto(n, t))
  <2> HIDE DEF Upto
  <2> QED OBVIOUS
<1>1. 0 \in T
  <2>1. Upto(0, [i \in 0..0 |-> 0])
    OBVIOUS
  <2> HIDE DEF Upto
  <2>2. QED
    BY <1>0, <2>1
<1>2. ASSUME NEW n \in Nat, n \in T, n + 1 <= Len(lens) PROVE \E t : Upto(n + 1, t)
  <2>1. PICK t : Upto(n, t)
    <3> HIDE DEF Upto, T
    <3> QED BY <1>0, <1>2
  <2> DEFINE u == [i \in 0..(n + 1) |-> IF i = n + 1 THEN t[n] + lens[n + 1] ELSE t[i]]
  <2>2. lens[n + 1] \in Nat /\ t[n] \in Nat
    BY <1>2, <2>1
  <2>3. u \in [0..(n + 1) -> Nat] /\ u[0] = 0
    BY <2>1, <2>2
  <2>4. \A i \in 1..(n + 1) : u[i] = u[i - 1] + lens[i]
    BY <2>1, <2>2
  <2>5. QED
    BY <2>3, <2>4
<1> HIDE DEF Upto, T
<1>3. \A n \in Nat : n \in T => n + 1 \in T
  BY <1>0, <1>2
<1>4. Nat \subseteq T
  BY <1>1, <1>3, SetInduction
<1>5. PICK t : Upto(Len(lens), t)
  BY <1>0, <1>4
<1>6. QED
  BY <1>5 DEF Totals, Upto

(* Sequences that agree on their first elements have the same totals there.  *)
LEMMA TotalsAgree ==
    ASSUME NEW s \in Seq(Nat), NEW u \in Seq(Nat), NEW t, NEW v, Totals(s, t), Totals(u, v),
           NEW n \in Nat, n <= Len(s), n <= Len(u), \A i \in 1..n : s[i] = u[i]
    PROVE  t[n] = v[n]
<1> DEFINE T == {k \in Nat : k <= n => t[k] = v[k]}
<1>1. 0 \in T
  BY DEF Totals
<1>2. \A k \in Nat : k \in T => k + 1 \in T
  BY DEF Totals
<1>3. Nat \subseteq T
  <2> HIDE DEF T
  <2> QED BY <1>1, <1>2, SetInduction
<1>4. QED
  BY <1>3

(* Totals grow.                                                              *)
LEMMA TotalsGrow ==
    ASSUME NEW s \in Seq(Nat), NEW t, Totals(s, t), NEW n \in Nat, NEW m \in Nat,
           n <= m, m <= Len(s)
    PROVE  t[n] <= t[m]
<1> DEFINE T == {k \in Nat : n + k <= Len(s) => t[n] <= t[n + k]}
<1>1. 0 \in T
  <2>1. n + 0 = n /\ n \in 0..Len(s)
    OBVIOUS
  <2>2. t[n] \in Nat
    BY <2>1 DEF Totals
  <2>3. t[n] <= t[n + 0]
    BY <2>1, <2>2
  <2>4. QED
    BY <2>3
<1>2. \A k \in Nat : k \in T => k + 1 \in T
  <2> SUFFICES ASSUME NEW k \in Nat, k \in T, n + (k + 1) <= Len(s) PROVE t[n] <= t[n + (k + 1)]
    OBVIOUS
  <2>1. /\ t[n + (k + 1)] = t[n + k] + s[n + (k + 1)]
        /\ s[n + (k + 1)] \in Nat /\ t[n + k] \in Nat /\ t[n] \in Nat
    <3>1. /\ n + (k + 1) \in 1..Len(s) /\ n + (k + 1) - 1 = n + k
          /\ n + k \in 0..Len(s) /\ n \in 0..Len(s)
      OBVIOUS
    <3>2. t[n + (k + 1)] = t[n + (k + 1) - 1] + s[n + (k + 1)]
      BY <3>1 DEF Totals
    <3>3. t[n + k] \in Nat /\ t[n] \in Nat
      BY <3>1 DEF Totals
    <3>4. s[n + (k + 1)] \in Nat
      BY <3>1
    <3>5. QED
      BY <3>1, <3>2, <3>3, <3>4
  <2>2. QED
    BY <2>1
<1>3. Nat \subseteq T
  <2> HIDE DEF T
  <2> QED BY <1>1, <1>2, SetInduction
<1>4. m - n \in Nat /\ n + (m - n) = m
  OBVIOUS
<1>5. QED
  BY <1>3, <1>4

(* Sum is the last total.                                                    *)
LEMMA SumTotals == ASSUME NEW lens \in Seq(Nat)
PROVE  \E t : Totals(lens, t) /\ Sum(lens) = t[Len(lens)]
<1> DEFINE D(t) == t = [i \in 0..Len(lens) |-> IF i = 0 THEN 0 ELSE t[i - 1] + lens[i]]
<1>1. PICK t : Totals(lens, t)
  BY TotalsExist
<1>2. D(t)
  BY <1>1 DEF Totals
<1>3. ASSUME NEW v, D(v) PROVE v = t
  <2> DEFINE T == {k \in Nat : k <= Len(lens) => v[k] = t[k]}
  <2>0. \A i \in 0..Len(lens) : v[i] = IF i = 0 THEN 0 ELSE v[i - 1] + lens[i]
    BY <1>3
  <2>1. 0 \in T
    BY <1>1, <2>0 DEF Totals
  <2>2. \A k \in Nat : k \in T => k + 1 \in T
    BY <1>1, <2>0 DEF Totals
  <2>3. Nat \subseteq T
    <3> HIDE DEF T
    <3> QED BY <2>1, <2>2, SetInduction
  <2>4. \A k \in 0..Len(lens) : v[k] = t[k]
    BY <2>3
  <2>5. v = [i \in 0..Len(lens) |-> v[i]] /\ t = [i \in 0..Len(lens) |-> t[i]]
    BY <1>1, <1>3 DEF Totals
  <2>6. QED
    BY <2>4, <2>5
<1>4. (CHOOSE v : D(v)) = t
  BY <1>2, <1>3
<1>5. Sum(lens) = t[Len(lens)]
  BY <1>4 DEF Sum
<1>6. QED
  BY <1>1, <1>5

(* Sum counts every element once, and less for a beginning of the sequence.  *)
LEMMA SumFacts ==
    /\ Sum(<<>>) = 0
    /\ \A s \in Seq(Nat) : Sum(s) \in Nat
    /\ \A s \in Seq(Nat), n \in Nat : Sum(Append(s, n)) = Sum(s) + n
    /\ \A s, u \in Seq(Nat) : Len(s) <= Len(u)
       /\ (\A i \in 1..Len(s) : s[i] = u[i]) => Sum(s) <= Sum(u)
<1>1. Sum(<<>>) = 0
  <2>1. <<>> \in Seq(Nat) /\ Len(<<>>) = 0
    OBVIOUS
  <2>2. PICK t : Totals(<<>>, t) /\ Sum(<<>>) = t[Len(<<>>)]
    BY <2>1, SumTotals
  <2>3. QED
    BY <2>1, <2>2 DEF Totals
<1>2. \A s \in Seq(Nat) : Sum(s) \in Nat
  BY SumTotals DEF Totals
<1>3. ASSUME NEW s \in Seq(Nat), NEW n \in Nat PROVE Sum(Append(s, n)) = Sum(s) + n
  <2> DEFINE u == Append(s, n)
  <2>1. u \in Seq(Nat) /\ Len(u) = Len(s) + 1 /\ u[Len(s) + 1] = n
        /\ \A i \in 1..Len(s) : s[i] = u[i]
    OBVIOUS
  <2> HIDE DEF u
  <2>2. PICK t : Totals(s, t) /\ Sum(s) = t[Len(s)]
    BY SumTotals
  <2>3. PICK v : Totals(u, v) /\ Sum(u) = v[Len(u)]
    BY <2>1, SumTotals
  <2>4. t[Len(s)] = v[Len(s)]
    <3>1. Len(s) \in Nat /\ Len(s) <= Len(s) /\ Len(s) <= Len(u)
      BY <2>1
    <3>2. u \in Seq(Nat) /\ Totals(s, t) /\ Totals(u, v) /\ \A i \in 1..Len(s) : s[i] = u[i]
      BY <2>1, <2>2, <2>3
    <3>3. QED
      BY <3>1, <3>2, TotalsAgree
  <2>5. v[Len(s) + 1] = v[Len(s)] + n
    <3>1. Len(s) + 1 \in 1..Len(u) /\ Len(s) + 1 - 1 = Len(s)
      BY <2>1
    <3>2. v[Len(s) + 1] = v[Len(s) + 1 - 1] + u[Len(s) + 1]
      BY <2>3, <3>1 DEF Totals
    <3>3. QED
      BY <2>1, <3>1, <3>2
  <2>6. QED
    BY <2>1, <2>2, <2>3, <2>4, <2>5 DEF u
<1>4. ASSUME NEW s \in Seq(Nat), NEW u \in Seq(Nat), Len(s) <= Len(u), \A i \in 1..Len(s) : s[i] = u[i]
      PROVE  Sum(s) <= Sum(u)
  <2>1. PICK t : Totals(s, t) /\ Sum(s) = t[Len(s)]
    BY SumTotals
  <2>2. PICK v : Totals(u, v) /\ Sum(u) = v[Len(u)]
    BY SumTotals
  <2>3. t[Len(s)] = v[Len(s)]
    BY <1>4, <2>1, <2>2, TotalsAgree
  <2>4. v[Len(s)] <= v[Len(u)]
    BY <1>4, <2>2, TotalsGrow
  <2>5. QED
    BY <2>1, <2>2, <2>3, <2>4
<1>5. QED
  BY <1>1, <1>2, <1>3, <1>4

(* w holds the writes of a request; after k of them e[k] words are written.  *)
Ends(S, w, e) ==
    /\ \A k \in 1..Len(w) : w[k] \in Seq(S)
    /\ e \in [0..Len(w) -> Nat] /\ e[0] = 0
    /\ \A k \in 1..Len(w) : e[k] = e[k - 1] + Len(w[k])
    /\ \A j, k \in 0..Len(w) : j <= k => e[j] <= e[k]

(* s is what the writes a + 1 to b put on a connection, one after the other. *)
Spells(s, w, e, a, b) ==
    /\ a <= b /\ Len(s) = e[b] - e[a]
    /\ \A k \in (a + 1)..b : \A i \in 1..Len(w[k]) : s[e[k - 1] - e[a] + i] = w[k][i]

(* A place within one of the writes is a place within all of them.           *)
LEMMA Within ==
    ASSUME NEW x \in Nat, NEW y \in Nat, NEW z \in Nat, NEW l \in Nat, NEW i \in 1..l,
           y <= x, x + l <= z
    PROVE  x - y + i \in 1..(z - y)
OBVIOUS

(* Counting from a later place.                                              *)
LEMMA Later ==
    ASSUME NEW x \in Nat, NEW y \in Nat, NEW z \in Nat, NEW n \in Nat, NEW i \in Int, z = y + n
    PROVE  n + (x - z + i) = x - y + i
OBVIOUS

(* What is left of a sequence.                                               *)
LEMMA LeftOver ==
    ASSUME NEW l \in Nat, NEW n \in Nat, n <= l
    PROVE  (IF n + 1 <= l THEN l - (n + 1) + 1 ELSE 0) = l - n
OBVIOUS

(* Nothing is on a connection whose writes have all been taken.              *)
LEMMA SpellsNone ==
    ASSUME NEW S, NEW w, NEW e, Len(w) \in Nat, Ends(S, w, e), NEW a \in 0..Len(w)
    PROVE  Spells(<<>>, w, e, a, a)
<1>1. e[a] \in Nat
  BY DEF Ends
<1>2. (a + 1)..a = {} /\ Len(<<>>) = 0
  OBVIOUS
<1>3. QED
  BY <1>1, <1>2 DEF Spells

(* One more write.                                                           *)
LEMMA SpellsMore ==
    ASSUME NEW S, NEW w, NEW e, Len(w) \in Nat, Ends(S, w, e), NEW s \in Seq(S),
           NEW a \in Nat, NEW b \in Nat, b < Len(w), Spells(s, w, e, a, b)
    PROVE  s \o w[b + 1] \in Seq(S) /\ Spells(s \o w[b + 1], w, e, a, b + 1)
<1> DEFINE v == w[b + 1]
           n == Len(v)
           t == s \o v
<1>1. /\ b + 1 \in 1..Len(w) /\ b + 1 \in 0..Len(w) /\ b \in 0..Len(w) /\ b + 1 - 1 = b
      /\ a \in 0..Len(w) /\ a <= b
  BY DEF Spells
<1>2. v \in Seq(S)
  BY <1>1 DEF Ends
<1>3. /\ e[b + 1] = e[b] + n /\ e[a] \in Nat /\ e[b] \in Nat /\ e[b + 1] \in Nat /\ e[a] <= e[b]
  <2>1. e[b + 1] = e[b + 1 - 1] + n
    BY <1>1 DEF Ends
  <2>2. e[a] \in Nat /\ e[b] \in Nat /\ e[b + 1] \in Nat
    BY <1>1 DEF Ends
  <2>3. e[a] <= e[b]
    BY <1>1 DEF Ends
  <2>4. QED
    BY <1>1, <2>1, <2>2, <2>3
<1> HIDE DEF v
<1>4. n \in Nat /\ Len(s) \in Nat
  BY <1>2
<1>5. /\ t \in Seq(S) /\ Len(t) = Len(s) + n
      /\ \A i \in 1..Len(s) : t[i] = s[i]
      /\ \A i \in 1..n : t[Len(s) + i] = v[i]
  BY <1>2, <1>4, ConcatProperties
<1> HIDE DEF t, n
<1>6. Len(s) = e[b] - e[a]
  BY DEF Spells
<1>7. Len(t) = e[b + 1] - e[a]
  BY <1>3, <1>4, <1>5, <1>6
<1>8. ASSUME NEW k \in (a + 1)..(b + 1), NEW i \in 1..Len(w[k])
      PROVE  t[e[k - 1] - e[a] + i] = w[k][i]
  <2>1. CASE k = b + 1
    <3>1. e[k - 1] - e[a] + i = Len(s) + i /\ w[k] = v
      BY <2>1, <1>1, <1>6 DEF v
    <3>2. i \in 1..n
      BY <3>1 DEF n
    <3>3. QED
      BY <3>1, <3>2, <1>5
  <2>2. CASE k # b + 1
    <3>1. k \in (a + 1)..b /\ k - 1 \in 0..Len(w) /\ k \in 1..Len(w) /\ k \in 0..Len(w)
          /\ a <= k - 1 /\ k <= b
      BY <2>2, <1>1
    <3>2. e[k] = e[k - 1] + Len(w[k]) /\ e[k - 1] \in Nat /\ e[k] \in Nat /\ e[a] <= e[k - 1]
          /\ e[k] <= e[b]
      BY <1>1, <3>1 DEF Ends
    <3>3. Len(w[k]) \in Nat
      <4>1. w[k] \in Seq(S)
        BY <3>1 DEF Ends
      <4>2. QED
        BY <4>1
    <3>4. e[k - 1] - e[a] + i \in 1..Len(s)
      <4>1. e[k - 1] + Len(w[k]) <= e[b]
        BY <3>2
      <4>2. e[k - 1] - e[a] + i \in 1..(e[b] - e[a])
        BY <4>1, <3>2, <3>3, <1>3, Within
      <4>3. QED
        BY <4>2, <1>6
    <3>5. s[e[k - 1] - e[a] + i] = w[k][i]
      BY <3>1 DEF Spells
    <3>6. QED
      BY <3>4, <3>5, <1>5
  <2>3. QED
    BY <2>1, <2>2
<1>9. a <= b + 1
  BY <1>1
<1>10. Spells(t, w, e, a, b + 1)
  BY <1>7, <1>8, <1>9 DEF Spells
<1>11. QED
  BY <1>5, <1>10 DEF t, v

(* The first of the writes is taken off.                                     *)
LEMMA SpellsTake ==
    ASSUME NEW S, NEW w, NEW e, Len(w) \in Nat, Ends(S, w, e), NEW s \in Seq(S),
           NEW a \in Nat, NEW b \in Nat, a < b, b <= Len(w), Spells(s, w, e, a, b)
    PROVE  /\ Len(w[a + 1]) <= Len(s)
           /\ \A i \in 1..Len(w[a + 1]) : s[i] = w[a + 1][i]
           /\ SubSeq(s, Len(w[a + 1]) + 1, Len(s)) \in Seq(S)
           /\ Spells(SubSeq(s, Len(w[a + 1]) + 1, Len(s)), w, e, a + 1, b)
<1> DEFINE v == w[a + 1]
           n == Len(v)
           t == SubSeq(s, n + 1, Len(s))
<1>1. /\ a + 1 \in 1..Len(w) /\ a + 1 \in 0..Len(w) /\ a \in 0..Len(w) /\ b \in 0..Len(w)
      /\ a + 1 - 1 = a /\ a + 1 \in (a + 1)..b /\ a + 1 <= b
  OBVIOUS
<1>2. v \in Seq(S)
  BY <1>1 DEF Ends
<1>3. /\ e[a + 1] = e[a] + n /\ e[a] \in Nat /\ e[b] \in Nat /\ e[a + 1] \in Nat /\ e[a + 1] <= e[b]
  BY <1>1 DEF Ends
<1>4. Len(s) = e[b] - e[a]
  BY DEF Spells
<1>5. \A i \in 1..n : s[e[a] - e[a] + i] = v[i]
  BY <1>1 DEF Spells
<1> HIDE DEF v
<1>6. n \in Nat /\ Len(s) \in Nat
  BY <1>2
<1> HIDE DEF n
<1>7. n <= Len(s)
  BY <1>3, <1>4, <1>6
<1>8. \A i \in 1..n : s[i] = v[i]
  <2>1. \A i \in 1..n : e[a] - e[a] + i = i
    BY <1>3, <1>6
  <2>2. QED
    BY <1>5, <2>1
<1>9. t \in Seq(S) /\ Len(t) = Len(s) - n /\ \A i \in 1..(Len(s) - n) : t[i] = s[n + i]
  <2>1. \A i \in (n + 1)..Len(s) : s[i] \in S
    BY <1>6
  <2>2. n + 1 \in Int /\ Len(s) \in Int
    BY <1>6
  <2>3. /\ t \in Seq(S)
        /\ Len(t) = IF n + 1 <= Len(s) THEN Len(s) - (n + 1) + 1 ELSE 0
        /\ \A i \in 1..(Len(s) - (n + 1) + 1) : t[i] = s[(n + 1) + i - 1]
    BY <2>1, <2>2, SubSeqProperties
  <2> HIDE DEF t
  <2>4. Len(s) - (n + 1) + 1 = Len(s) - n /\ \A i \in 1..(Len(s) - n) : (n + 1) + i - 1 = n + i
    BY <1>6
  <2>5. Len(t) = Len(s) - n
    BY <2>3, <1>6, <1>7, LeftOver
  <2>6. \A i \in 1..(Len(s) - n) : t[i] = s[n + i]
    BY <2>3, <2>4
  <2>7. QED
    BY <2>3, <2>5, <2>6
<1> HIDE DEF t
<1>10. Len(t) = e[b] - e[a + 1]
  BY <1>3, <1>4, <1>6, <1>9
<1>11. ASSUME NEW k \in ((a + 1) + 1)..b, NEW i \in 1..Len(w[k])
       PROVE  t[e[k - 1] - e[a + 1] + i] = w[k][i]
  <2>1. k \in (a + 1)..b /\ k - 1 \in 0..Len(w) /\ k \in 1..Len(w) /\ k \in 0..Len(w)
        /\ a + 1 <= k - 1 /\ k <= b
    BY <1>1
  <2>2. e[k] = e[k - 1] + Len(w[k]) /\ e[k - 1] \in Nat /\ e[k] \in Nat /\ e[a + 1] <= e[k - 1]
        /\ e[k] <= e[b]
    BY <1>1, <2>1 DEF Ends
  <2>3. Len(w[k]) \in Nat
    <3>1. w[k] \in Seq(S)
      BY <2>1 DEF Ends
    <3>2. QED
      BY <3>1
  <2>4. s[e[k - 1] - e[a] + i] = w[k][i]
    BY <2>1 DEF Spells
  <2>5. e[k - 1] - e[a + 1] + i \in 1..(Len(s) - n)
        /\ n + (e[k - 1] - e[a + 1] + i) = e[k - 1] - e[a] + i
    <3>1. e[k - 1] + Len(w[k]) <= e[b] /\ Len(s) - n = e[b] - e[a + 1]
      BY <2>2, <1>3, <1>4, <1>6
    <3>2. e[k - 1] - e[a + 1] + i \in 1..(e[b] - e[a + 1])
      BY <3>1, <2>2, <2>3, <1>3, Within
    <3>3. i \in Int
      BY <2>3
    <3>4. n + (e[k - 1] - e[a + 1] + i) = e[k - 1] - e[a] + i
      <4> DEFINE x == e[k - 1]
                 y == e[a]
                 z == e[a + 1]
      <4>1. x \in Nat /\ y \in Nat /\ z \in Nat /\ n \in Nat /\ i \in Int /\ z = y + n
        BY <3>3, <2>2, <1>3, <1>6
      <4> HIDE DEF x, y, z
      <4>2. n + (x - z + i) = x - y + i
        BY <4>1, Later
      <4>3. QED
        BY <4>2 DEF x, y, z
    <3>5. QED
      BY <3>1, <3>2, <3>4
  <2>6. QED
    BY <2>4, <2>5, <1>9
<1>12. Spells(t, w, e, a + 1, b)
  BY <1>1, <1>10, <1>11 DEF Spells
<1>13. QED
  BY <1>7, <1>8, <1>9, <1>12 DEF t, n, v

---------------------------------------------------------------------------
(* The writes of a request.                                                  *)

Words == RequestType \cup Nat \cup {"x"}

(* The first is the header; a run goes on with the policy and, for every     *)
(* argument, its length and its letters.                                     *)
LEMMA WritesFacts ==
    ASSUME NEW r \in RequestType
    PROVE  /\ Len(Writes(r)) \in Nat
           /\ Len(Writes(r)) = IF r.command = "run" THEN 2 + 2 * Len(r.args) ELSE 1
           /\ \A k \in 1..Len(Writes(r)) : Writes(r)[k] \in Seq(Words)
           /\ Writes(r)[1] = <<r>>
           /\ r.command = "run" =>
                /\ Writes(r)[2] = Letters(r.policy_len)
                /\ \A k \in 1..Len(r.args) :
                     /\ Writes(r)[2 * k + 1] = <<r.args[k]>>
                     /\ Writes(r)[2 * k + 2] = Letters(r.args[k])
<1>0. r \in Words /\ r.policy_len \in Nat /\ r.args \in Seq(Nat) /\ Len(r.args) \in Nat
  BY DEF RequestType, Words
<1>1. CASE r.command # "run"
  <2>1. Writes(r) = <<<<r>>>>
    BY <1>1 DEF Writes
  <2> DEFINE w == Writes(r)
  <2>2. Len(w) = 1 /\ w[1] = <<r>> /\ <<r>> \in Seq(Words)
    BY <1>0, <2>1
  <2> HIDE DEF w
  <2>3. \A k \in 1..Len(w) : w[k] \in Seq(Words)
    <3>1. \A k \in 1..1 : k = 1
      OBVIOUS
    <3>2. QED
      BY <2>2, <3>1
  <2>4. QED
    BY <1>1, <2>2, <2>3 DEF w
<1>2. CASE r.command = "run"
  <2> DEFINE m == 2 * Len(r.args)
             u == <<<<r>>, Letters(r.policy_len)>>
             n(i) == r.args[(i + 1) \div 2]
             v == [i \in 1..m |-> IF i % 2 = 1 THEN <<n(i)>> ELSE Letters(n(i))]
             w == Writes(r)
  <2>1. m \in Nat
    BY <1>0
  <2>2. \A i \in 1..m : (i + 1) \div 2 \in 1..Len(r.args)
    BY <1>0
  <2>3. \A i \in 1..m : n(i) \in Nat
    BY <1>0, <2>2
  <2>4. \A j \in Nat : Letters(j) \in Seq(Words)
    BY DEF Letters, Words
  <2>5. \A j \in Nat : <<j>> \in Seq(Words)
    BY DEF Words
  <2>6. <<r>> \in Seq(Words)
    BY <1>0
  <2> HIDE DEF n
  <2>7. v \in Seq(Seq(Words)) /\ Len(v) = m
    <3>1. \A i \in 1..m : (IF i % 2 = 1 THEN <<n(i)>> ELSE Letters(n(i))) \in Seq(Words)
      BY <2>3, <2>4, <2>5
    <3> HIDE DEF m
    <3>2. QED
      BY <2>1, <3>1
  <2>8. u \in Seq(Seq(Words)) /\ Len(u) = 2 /\ u[1] = <<r>> /\ u[2] = Letters(r.policy_len)
    BY <1>0, <2>4, <2>6
  <2>9. w = u \o v
    BY <1>2 DEF Writes, n
  <2> HIDE DEF u, w
  <2>10. /\ w \in Seq(Seq(Words)) /\ Len(w) = 2 + m
         /\ w[1] = <<r>> /\ w[2] = Letters(r.policy_len)
         /\ \A i \in 1..m : w[2 + i] = v[i]
    <3> HIDE DEF v, m
    <3>1. /\ u \o v \in Seq(Seq(Words)) /\ Len(u \o v) = Len(u) + Len(v)
          /\ \A i \in 1..(Len(u) + Len(v)) :
                (u \o v)[i] = IF i <= Len(u) THEN u[i] ELSE v[i - Len(u)]
      BY <2>7, <2>8, ConcatProperties
    <3>2. 1 \in 1..(2 + m) /\ 2 \in 1..(2 + m) /\ 1 <= 2
      BY <2>1
    <3>3. \A i \in 1..m : 2 + i \in 1..(2 + m) /\ ~(2 + i <= 2) /\ 2 + i - 2 = i
      BY <2>1
    <3>4. QED
      BY <2>7, <2>8, <2>9, <3>1, <3>2, <3>3
  <2>11. ASSUME NEW k \in 1..Len(r.args)
         PROVE  w[2 * k + 1] = <<r.args[k]>> /\ w[2 * k + 2] = Letters(r.args[k])
    <3> DEFINE i == 2 * k - 1
               j == 2 * k
    <3>1. i \in 1..m /\ j \in 1..m /\ 2 + i = 2 * k + 1 /\ 2 + j = 2 * k + 2
      BY <1>0
    <3>2. i % 2 = 1 /\ (i + 1) \div 2 = k /\ j % 2 = 0 /\ (j + 1) \div 2 = k
      BY <1>0
    <3> HIDE DEF i, j, m
    <3>3. v[i] = <<n(i)>> /\ v[j] = Letters(n(j))
      BY <3>1, <3>2
    <3>4. n(i) = r.args[k] /\ n(j) = r.args[k]
      BY <3>2 DEF n
    <3>5. QED
      BY <2>10, <3>1, <3>3, <3>4
  <2>12. \A k \in 1..Len(w) : w[k] \in Seq(Words)
    <3> HIDE DEF v, m
    <3> QED BY <2>10
  <2>13. Len(w) \in Nat /\ Len(w) = 2 + 2 * Len(r.args)
    BY <2>1, <2>10
  <2> HIDE DEF m, n, v
  <2>14. QED
    BY <1>2, <2>10, <2>11, <2>12, <2>13 DEF w
<1>3. QED
  BY <1>1, <1>2

(* The words written after each of them.                                     *)
EndsOf(r) == CHOOSE e : Ends(Words, Writes(r), e)

(* They exist for every request.                                             *)
LEMMA EndsFacts ==
    ASSUME NEW r \in RequestType
    PROVE  Ends(Words, Writes(r), EndsOf(r))
<1> DEFINE w == Writes(r)
           lens == [k \in 1..Len(w) |-> Len(w[k])]
<1>1. Len(w) \in Nat /\ \A k \in 1..Len(w) : w[k] \in Seq(Words)
  BY WritesFacts
<1> HIDE DEF w
<1>2. \A k \in 1..Len(w) : Len(w[k]) \in Nat
  BY <1>1
<1>3. lens \in Seq(Nat) /\ Len(lens) = Len(w) /\ \A k \in 1..Len(w) : lens[k] = Len(w[k])
  BY <1>1, <1>2
<1> HIDE DEF lens
<1>4. PICK e : Totals(lens, e)
  BY <1>3, TotalsExist
<1>5. \A j, k \in 0..Len(w) : j <= k => e[j] <= e[k]
  <2> SUFFICES ASSUME NEW j \in 0..Len(w), NEW k \in 0..Len(w), j <= k PROVE e[j] <= e[k]
    OBVIOUS
  <2>1. j \in Nat /\ k \in Nat /\ k <= Len(lens)
    BY <1>1, <1>3
  <2>2. QED
    BY <1>3, <1>4, <2>1, TotalsGrow
<1>6. Ends(Words, w, e)
  <2>1. e \in [0..Len(w) -> Nat] /\ e[0] = 0
    BY <1>3, <1>4 DEF Totals
  <2>2. \A k \in 1..Len(w) : e[k] = e[k - 1] + Len(w[k])
    BY <1>3, <1>4 DEF Totals
  <2>3. QED
    BY <1>1, <1>5, <2>1, <2>2 DEF Ends
<1>7. QED
  BY <1>6 DEF EndsOf, w

---------------------------------------------------------------------------
(* The invariant.                                                            *)

Serving == {"deny", "header", "policy", "length", "arg", "running"}
Reading == {"policy", "length", "arg", "running"}
Dead == {"exited", "killed", "sigpipe"}
ClientStates == {"check", "connect", "write", "read", "done", "killed", "sigpipe"}
GotType == [argc : Nat, policy_len : Nat, args : Seq(Nat), total : Nat]
RanType == [policy_len : Nat, args : Seq(Nat)]

TypeInv ==
    /\ activated \in BOOLEAN /\ shared \in BOOLEAN /\ path \in Listeners \cup {None}
    /\ dpc \in [Daemons -> States] /\ cur \in [Daemons -> Clients \cup {None}]
    /\ got \in [Daemons -> GotType] /\ backlog \in [Listeners -> Seq(Clients)]
    /\ req \in [Clients -> RequestType]
    /\ \A c \in Clients : req[c].checked => req[c].magic /\ req[c].command # "unknown"
    /\ cpc \in [Clients -> ClientStates] /\ sent \in [Clients -> Nat]
    /\ stream \in [Clients -> Seq(Words)] /\ closed \in [Clients -> BOOLEAN]
    /\ reply \in [Clients -> Answers \cup {None}]
    /\ result \in [Clients -> (Answers \ {"EPIPE"}) \cup {None, "local", "refused", "lost"}]
    /\ ran \in [Clients -> RanType \cup {None}]

(* A connection is in one place: served by one daemon, or waiting once at    *)
(* one listener.                                                             *)
Waiting(l, c) == \E i \in 1..Len(backlog[l]) : backlog[l][i] = c
PlaceInv ==
    /\ \A d \in Daemons : cur[d] # None <=> dpc[d] \in Serving
    /\ \A l \in Listeners : Len(backlog[l]) <= Backlog
    /\ \A d, e \in Daemons : cur[d] # None /\ cur[d] = cur[e] => d = e
    /\ \A d \in Daemons, l \in Listeners : cur[d] # None => ~Waiting(l, cur[d])
    /\ \A l, m \in Listeners : \A i \in 1..Len(backlog[l]), j \in 1..Len(backlog[m]) :
          backlog[l][i] = backlog[m][j] => l = m /\ i = j

(* What a client has done so far. *)
CallOK(c) ==
    /\ cpc[c] \in {"check", "connect"} =>
         /\ ~closed[c] /\ reply[c] = None /\ sent[c] = 0 /\ stream[c] = <<>>
         /\ \A d \in Daemons : cur[d] # c
         /\ \A l \in Listeners : ~Waiting(l, c)
    /\ sent[c] <= Len(Writes(req[c]))
    /\ cpc[c] = "write" => sent[c] < Len(Writes(req[c]))
    /\ cpc[c] = "read" => sent[c] = Len(Writes(req[c]))
    /\ cpc[c] \in {"connect", "write", "read", "killed", "sigpipe"} => ClientCheckOk(req[c])
    /\ cpc[c] = "sigpipe" => closed[c]
CallInv == \A c \in Clients : CallOK(c)

(* A client that is served or waits has no answer yet; it is cut off only    *)
(* with its listener.                                                        *)
PeerInv ==
    /\ \A d \in Daemons : cur[d] # None =>
          ~closed[cur[d]] /\ reply[cur[d]] = None /\ cpc[cur[d]] \in {"write", "read", "killed"}
    /\ \A l \in Listeners, c \in Clients : Waiting(l, c) =>
          /\ reply[c] = None
          /\ closed[c] => ~activated /\ l \in Daemons /\ dpc[l] \in Dead
          /\ ~closed[c] => cpc[c] \in {"write", "read", "killed"}

(* What is on a connection is what the client has written and the daemon has *)
(* not yet read, cut where the client cut it.                                *)
Taken(d) ==
    IF dpc[d] \in {"deny", "header"} THEN 0
    ELSE IF dpc[d] = "policy" THEN 1
    ELSE IF dpc[d] = "arg" THEN 1 + 2 * Len(got[d].args)
    ELSE 2 + 2 * Len(got[d].args)
On(c, a) == Spells(stream[c], Writes(req[c]), EndsOf(req[c]), a, sent[c])
FrameInv ==
    /\ \A l \in Listeners, c \in Clients : Waiting(l, c) /\ ~closed[c] => On(c, 0)
    /\ \A d \in Daemons : cur[d] # None => On(cur[d], Taken(d))

(* What the daemon has read is the beginning of the request, and the count   *)
(* is exact and within the limit.                                            *)
Amount(d) == IF dpc[d] = "arg" THEN got[d].total + got[d].args[Len(got[d].args)] ELSE got[d].total
ReadOK(d) ==
    /\ req[cur[d]].magic /\ req[cur[d]].command = "run" /\ HeaderOk(req[cur[d]])
    /\ got[d].argc = Len(req[cur[d]].args) /\ got[d].policy_len = req[cur[d]].policy_len
    /\ Len(got[d].args) <= Len(req[cur[d]].args)
    /\ \A i \in 1..Len(got[d].args) : got[d].args[i] = req[cur[d]].args[i] /\ got[d].args[i] # 0
    /\ Amount(d) = got[d].policy_len + Sum(got[d].args) + Word * Len(got[d].args)
    /\ Amount(d) <= MaxBytes
    /\ dpc[d] = "policy" => got[d].args = <<>>
    /\ dpc[d] = "arg" => got[d].args # <<>>
    /\ dpc[d] = "running" => Len(got[d].args) = got[d].argc
CountOK(d) ==
    /\ dpc[d] \in Serving \ {"deny"} => req[cur[d]].same_uid
    /\ dpc[d] = "deny" => ~req[cur[d]].same_uid
    /\ dpc[d] \in Reading => ReadOK(d)
    /\ dpc[d] \notin Reading => got[d] = Nothing
CountInv == \A d \in Daemons : CountOK(d)

(* What was run and what was answered. *)
RanOK(c) ==
    /\ ran[c].policy_len = req[c].policy_len /\ ran[c].args = req[c].args
    /\ req[c].same_uid
    /\ Sum(ran[c].args) + Word * Len(ran[c].args) + ran[c].policy_len <= MaxBytes
Excused == (\E d \in Daemons : dpc[d] \in Dead) \/ \E c \in Clients : reply[c] = "ENOMEM"
AnswerOK(c) ==
    /\ ran[c] # None => RanOK(c)
    /\ reply[c] # "EPIPE"
    /\ req[c].checked => reply[c] # "EINVAL"
    /\ reply[c] = "ok" /\ req[c].command = "run" => ran[c] # None
    /\ result[c] = "ok" => reply[c] = "ok"
    /\ closed[c] /\ cpc[c] \in {"write", "sigpipe"} /\ req[c].checked /\ req[c].same_uid => Excused
AnswerInv ==
    /\ \A c \in Clients : AnswerOK(c)
    /\ \A d \in Daemons : dpc[d] = "running" => ran[cur[d]] # None
    /\ (\E d \in Daemons : dpc[d] = "sigpipe") => \E c \in Clients : cpc[c] = "killed"

Inv == TypeInv /\ PlaceInv /\ CallInv /\ PeerInv /\ FrameInv /\ CountInv /\ AnswerInv

---------------------------------------------------------------------------
(* Steps of a daemon, by what they do to connections.                        *)

(* A daemon that a step leaves alone.                                        *)
LEMMA SameDaemon ==
    ASSUME NEW e \in Daemons, dpc'[e] = dpc[e], cur'[e] = cur[e], got'[e] = got[e], req' = req
    PROVE  Taken(e)' = Taken(e) /\ (CountOK(e) => CountOK(e)')
<1>1. Taken(e)' = Taken(e)
  BY DEF Taken
<1>2. ReadOK(e) => ReadOK(e)'
  BY DEF ReadOK, Amount
<1>3. QED
  BY <1>1, <1>2 DEF CountOK

(* A daemon that serves nobody goes on.                                      *)
Idle(d, next) ==
    /\ dpc[d] \notin Serving \cup Dead /\ next \in States \ (Serving \cup Dead)
    /\ dpc' = [dpc EXCEPT ![d] = next]
    /\ path' \in Listeners \cup {None} /\ shared' \in BOOLEAN
    /\ UNCHANGED <<activated, cur, got, backlog, ran>> /\ UNCHANGED clientVars /\ UNCHANGED wireVars

(* Such a step keeps the invariant.                                          *)
LEMMA IdleInv ==
    ASSUME Inv, NEW d \in Daemons, NEW next, Idle(d, next)
    PROVE  Inv'
<1> USE DEF clientVars, wireVars
<1>1. TypeInv'
  BY DEF Inv, TypeInv, Idle, States
<1>2. /\ dpc'[d] = next /\ \A e \in Daemons : e # d => dpc'[e] = dpc[e]
      /\ \A e \in Daemons : dpc[e] \in Dead => e # d /\ dpc'[e] \in Dead
      /\ \A e \in Daemons : dpc'[e] \in Serving \cup Dead => e # d
  BY DEF Inv, TypeInv, Idle
<1>3. PlaceInv'
  BY <1>2 DEF Inv, PlaceInv, Idle, Waiting
<1>4. CallInv'
  BY DEF Inv, CallInv, CallOK, Idle, Waiting
<1>5. PeerInv'
  BY <1>2 DEF Inv, PeerInv, Idle, Waiting
<1>6. \A e \in Daemons : e # d => Taken(e)' = Taken(e) /\ CountOK(e)'
  BY <1>2, SameDaemon DEF Idle, Inv, CountInv
<1>7. FrameInv'
  <2>1. \A e \in Daemons : cur'[e] # None => e # d /\ cur'[e] = cur[e]
    BY <1>2 DEF Inv, PlaceInv, Idle
  <2>2. \A c, a : On(c, a)' <=> On(c, a)
    BY DEF On, Idle
  <2>3. QED
    BY <1>6, <2>1, <2>2 DEF Inv, FrameInv, Idle, Waiting
<1>8. CountInv'
  <2>1. CountOK(d)'
    BY <1>2 DEF Inv, CountInv, CountOK, Idle, Serving, Reading
  <2>2. QED
    BY <1>6, <2>1 DEF CountInv
<1>9. AnswerInv'
  <2>1. Excused => Excused'
    BY <1>2 DEF Excused, Idle
  <2>2. \A c \in Clients : AnswerOK(c)'
    BY <2>1 DEF Inv, AnswerInv, AnswerOK, RanOK, Idle
  <2>3. QED
    BY <1>2, <2>2 DEF Inv, AnswerInv, Idle, Serving, Dead
<1>10. QED
  BY <1>1, <1>3, <1>4, <1>5, <1>7, <1>8, <1>9 DEF Inv

(* An answer that the client c may be given. *)
Fits(c, answer) ==
    /\ answer \in Answers \ {"EPIPE"}
    /\ req[c].checked => answer # "EINVAL"
    /\ answer = "ok" /\ req[c].command = "run" => ran[c] # None
    /\ req[c].checked /\ req[c].same_uid /\ cpc[c] = "write" => answer = "ENOMEM"

(* A daemon closes its connection, if it has one, with an answer or without; *)
(* when it ends, the connections that wait for it end as well.               *)
Cut(d, next) == ({cur[d]} \ {None}) \cup (IF next \in Dead THEN Dropped(d) ELSE {})
Release(d, next) ==
    /\ Alive(d) /\ next \in {"accept", "exit"} \cup Dead
    /\ next = "sigpipe" => \E c \in Clients : cpc[c] = "killed"
    /\ dpc' = [dpc EXCEPT ![d] = next]
    /\ cur' = [cur EXCEPT ![d] = None] /\ got' = [got EXCEPT ![d] = Nothing]
    /\ closed' = [c \in Clients |-> closed[c] \/ c \in Cut(d, next)]
    /\ stream' = [c \in Clients |-> IF c \in Cut(d, next) THEN <<>> ELSE stream[c]]
    /\ \/ reply' = reply /\ (cur[d] # None /\ next \notin Dead => Gone(cur[d]))
       \/ /\ cur[d] # None
          /\ \E answer : Fits(cur[d], answer) /\ reply' = [reply EXCEPT ![cur[d]] = answer]
    /\ path' \in Listeners \cup {None}
    /\ UNCHANGED <<activated, shared, backlog, ran>> /\ UNCHANGED clientVars

(* Who waits at a listener that is closed.                                   *)
LEMMA DroppedFacts ==
    ASSUME TypeInv, NEW d \in Daemons, NEW c
    PROVE  c \in Dropped(d) <=> c \in Clients /\ ~activated /\ Waiting(d, c)
<1>1. backlog[d] \in Seq(Clients)
  BY DEF TypeInv, Listeners
<1>2. DOMAIN backlog[d] = 1..Len(backlog[d])
  BY <1>1
<1>3. QED
  BY <1>2 DEF Dropped, Waiting

(* Closing connections keeps the invariant.                                  *)
LEMMA ReleaseInv ==
    ASSUME Inv, NEW d \in Daemons, NEW next, Release(d, next)
    PROVE  Inv'
<1> USE DEF clientVars
<1> DEFINE cs == Cut(d, next)
<1>1. /\ dpc'[d] = next /\ \A e \in Daemons : e # d => dpc'[e] = dpc[e]
      /\ cur'[d] = None /\ \A e \in Daemons : e # d => cur'[e] = cur[e]
      /\ got'[d] = Nothing /\ \A e \in Daemons : e # d => got'[e] = got[e]
      /\ next \notin Serving /\ dpc[d] \notin Dead /\ next \in States
  BY DEF Inv, TypeInv, Release, Serving, Dead, States, Alive
<1>2. \A c \in Clients : closed'[c] = (closed[c] \/ c \in cs)
      /\ stream'[c] = IF c \in cs THEN <<>> ELSE stream[c]
  BY DEF Release
<1>3. \A c \in Clients : c \in cs =>
         c = cur[d] \/ (next \in Dead /\ ~activated /\ Waiting(d, c))
  BY DroppedFacts DEF Inv, Cut
<1>4. cur[d] \in Clients \cup {None} /\ (cur[d] # None => reply[cur[d]] = None)
  BY DEF Inv, TypeInv, PeerInv
<1>5. /\ \A c \in Clients : reply'[c] # reply[c] => c = cur[d] /\ Fits(c, reply'[c])
      /\ reply' \in [Clients -> Answers \cup {None}]
  <2>1. CASE reply' = reply
    BY <2>1 DEF Inv, TypeInv
  <2>2. ASSUME cur[d] # None, NEW answer, Fits(cur[d], answer),
               reply' = [reply EXCEPT ![cur[d]] = answer]
        PROVE  <1>5!:
    <3>1. cur[d] \in Clients /\ answer \in Answers
      BY <1>4, <2>2 DEF Fits
    <3>2. QED
      BY <2>2, <3>1 DEF Inv, TypeInv
  <2>3. QED
    BY <2>1, <2>2 DEF Release
<1> HIDE DEF cs
<1>6. TypeInv'
  <2>1. dpc' \in [Daemons -> States] /\ cur' \in [Daemons -> Clients \cup {None}]
    BY <1>1 DEF Inv, TypeInv, Release
  <2>2. got' \in [Daemons -> GotType]
    BY DEF Inv, TypeInv, Release, GotType, Nothing
  <2>3. closed' \in [Clients -> BOOLEAN]
    BY DEF Inv, TypeInv, Release
  <2>4. stream' \in [Clients -> Seq(Words)]
    <3>1. <<>> \in Seq(Words)
      OBVIOUS
    <3>2. QED
      BY <3>1 DEF Inv, TypeInv, Release
  <2>5. QED
    BY <1>5, <2>1, <2>2, <2>3, <2>4 DEF Inv, TypeInv, Release
<1>7. PlaceInv'
  BY <1>1 DEF Inv, PlaceInv, Release, Waiting
<1>8. CallInv'
  <2> SUFFICES ASSUME NEW c \in Clients PROVE CallOK(c)'
    BY DEF CallInv
  <2>1. CallOK(c)
    BY DEF Inv, CallInv
  <2>2. ASSUME cpc[c] \in {"check", "connect"} PROVE c \notin cs /\ c # cur[d]
    BY <1>3, <2>1, <2>2 DEF CallOK, Listeners
  <2>3. ASSUME cpc[c] \in {"check", "connect"}
        PROVE  /\ ~closed'[c] /\ reply'[c] = None /\ sent[c] = 0 /\ stream'[c] = <<>>
               /\ \A e \in Daemons : cur'[e] # c
    <3>1. \A e \in Daemons : cur'[e] # c
      BY <1>1, <2>1, <2>3, NoneAssumption DEF CallOK
    <3>2. QED
      BY <1>2, <1>5, <2>1, <2>2, <2>3, <3>1 DEF CallOK
  <2>4. \A l \in Listeners : Waiting(l, c)' <=> Waiting(l, c)
    BY DEF Release, Waiting
  <2>5. cpc[c] = "sigpipe" => closed'[c]
    BY <1>2, <2>1 DEF CallOK
  <2>6. QED
    BY <2>1, <2>3, <2>4, <2>5 DEF CallOK, Release
<1>9. \A e \in Daemons : cur'[e] # None =>
        e # d /\ cur'[e] = cur[e] /\ cur[e] \in Clients /\ cur[e] \notin cs /\ cur[e] # cur[d]
  BY <1>1, <1>3 DEF Inv, TypeInv, PlaceInv, Listeners
<1>10. \A l \in Listeners, c \in Clients : Waiting(l, c) =>
         /\ c # cur[d]
         /\ c \in cs => next \in Dead /\ ~activated /\ l = d
  <2> SUFFICES ASSUME NEW l \in Listeners, NEW c \in Clients, Waiting(l, c)
               PROVE  c # cur[d] /\ (c \in cs => next \in Dead /\ ~activated /\ l = d)
    OBVIOUS
  <2>1. c # cur[d]
    BY NoneAssumption DEF Inv, PlaceInv
  <2>2. Waiting(d, c) => l = d
    BY DEF Inv, PlaceInv, Waiting, Listeners
  <2>3. QED
    BY <1>3, <2>1, <2>2
<1>11. PeerInv'
  <2>1. \A e \in Daemons : cur'[e] # None =>
          ~closed'[cur'[e]] /\ reply'[cur'[e]] = None
          /\ cpc'[cur'[e]] \in {"write", "read", "killed"}
    BY <1>2, <1>5, <1>9, ZenonT(40) DEF Inv, PeerInv, Release
  <2>2. ASSUME NEW l \in Listeners, NEW c \in Clients, Waiting(l, c)
        PROVE  /\ reply'[c] = None
               /\ closed'[c] => ~activated /\ l \in Daemons /\ dpc'[l] \in Dead
               /\ ~closed'[c] => cpc[c] \in {"write", "read", "killed"}
    <3>1. reply'[c] = None
      BY <1>5, <1>10, <2>2 DEF Inv, PeerInv
    <3>2. ASSUME closed[c] PROVE ~activated /\ l \in Daemons /\ dpc'[l] \in Dead
      BY <1>1, <2>2, <3>2 DEF Inv, PeerInv
    <3>3. ASSUME c \in cs PROVE ~activated /\ l \in Daemons /\ dpc'[l] \in Dead
      BY <1>1, <1>10, <2>2, <3>3
    <3>4. ~closed'[c] => cpc[c] \in {"write", "read", "killed"}
      BY <1>2, <2>2 DEF Inv, PeerInv
    <3>5. QED
      BY <1>2, <3>1, <3>2, <3>3, <3>4
  <2>3. \A l \in Listeners, c \in Clients : Waiting(l, c)' <=> Waiting(l, c)
    BY DEF Release, Waiting
  <2>4. QED
    BY <2>1, <2>2, <2>3 DEF PeerInv, Release
<1>12. \A e \in Daemons : e # d => Taken(e)' = Taken(e) /\ CountOK(e)'
  BY <1>1, SameDaemon DEF Release, Inv, CountInv
<1>13. FrameInv'
  <2>1. \A c \in Clients : \A a : c \notin cs => (On(c, a)' <=> On(c, a))
    BY <1>2 DEF On, Release
  <2>2. \A l \in Listeners, c \in Clients : Waiting(l, c)' <=> Waiting(l, c)
    BY DEF Release, Waiting
  <2>3. \A l \in Listeners, c \in Clients : Waiting(l, c)' /\ ~closed'[c] => On(c, 0)'
    BY <1>2, <2>1, <2>2 DEF Inv, FrameInv
  <2>4. ASSUME NEW e \in Daemons, cur'[e] # None PROVE On(cur[e], Taken(e))' /\ cur'[e] = cur[e]
    <3>1. e # d /\ cur'[e] = cur[e] /\ cur[e] \in Clients /\ cur[e] \notin cs
      BY <1>9, <2>4
    <3>2. On(cur[e], Taken(e)) /\ Taken(e)' = Taken(e)
      BY <1>12, <2>4, <3>1 DEF Inv, FrameInv
    <3>3. stream'[cur[e]] = stream[cur[e]]
      BY <1>2, <3>1
    <3>4. QED
      BY <3>1, <3>2, <3>3 DEF On, Release
  <2>5. QED
    BY <2>3, <2>4 DEF FrameInv
<1>14. CountInv'
  <2>1. CountOK(d)'
    BY <1>1 DEF CountOK, Serving, Reading
  <2>2. QED
    BY <1>12, <2>1 DEF CountInv
<1>15. AnswerInv'
  <2>1. Excused => Excused'
    <3>1. \A e \in Daemons : dpc[e] \in Dead => dpc'[e] \in Dead
      BY <1>1
    <3>2. \A c \in Clients : reply[c] = "ENOMEM" => reply'[c] = "ENOMEM"
      BY <1>4, <1>5, NoneAssumption DEF Answers
    <3>3. QED
      BY <3>1, <3>2 DEF Excused
  <2>2. ASSUME NEW c \in Clients PROVE AnswerOK(c)'
    <3>1. AnswerOK(c)
      BY DEF Inv, AnswerInv
    <3>2. ran'[c] # None => RanOK(c)'
      BY <3>1 DEF AnswerOK, RanOK, Release
    <3>3. reply'[c] # "EPIPE" /\ (req[c].checked => reply'[c] # "EINVAL")
      BY <1>5, <3>1 DEF AnswerOK, Fits
    <3>4. reply'[c] = "ok" /\ req[c].command = "run" => ran[c] # None
      BY <1>5, <3>1 DEF AnswerOK, Fits
    <3>5. result[c] = "ok" => reply'[c] = "ok"
      BY <1>4, <1>5, <3>1, NoneAssumption DEF AnswerOK, Answers
    <3>6. ASSUME closed'[c], cpc[c] \in {"write", "sigpipe"}, req[c].checked, req[c].same_uid
          PROVE  Excused'
      <4>1. CASE closed[c]
        BY <2>1, <3>1, <3>6, <4>1 DEF AnswerOK
      <4>2. CASE next \in Dead
        BY <1>1, <4>2 DEF Excused
      <4>3. CASE c \in cs /\ next \notin Dead
        <5>1. c = cur[d] /\ cur[d] # None
          BY <1>3, <4>3, NoneAssumption
        <5>2. cpc[c] = "write"
          BY <3>6, <5>1 DEF Inv, PeerInv
        <5>3. ~Gone(c)
          BY <5>2 DEF Gone
        <5>4. PICK answer : Fits(c, answer) /\ reply' = [reply EXCEPT ![c] = answer]
          BY <4>3, <5>1, <5>3 DEF Release
        <5>5. answer = "ENOMEM"
          BY <3>6, <5>2, <5>4 DEF Fits
        <5>6. reply'[c] = "ENOMEM"
          BY <5>4, <5>5 DEF Inv, TypeInv
        <5>7. QED
          BY <5>6 DEF Excused
      <4>4. QED
        BY <1>2, <3>6, <4>1, <4>2, <4>3
    <3>7. QED
      BY <3>2, <3>3, <3>4, <3>5, <3>6 DEF AnswerOK, Release
  <2>3. \A e \in Daemons : dpc'[e] = "running" => ran'[cur'[e]] # None
    BY <1>1 DEF Inv, AnswerInv, Release, Serving
  <2>4. (\E e \in Daemons : dpc'[e] = "sigpipe") => \E c \in Clients : cpc'[c] = "killed"
    BY <1>1 DEF Inv, AnswerInv, Release
  <2>5. QED
    BY <2>2, <2>3, <2>4 DEF AnswerInv
<1>16. QED
  BY <1>6, <1>7, <1>8, <1>11, <1>13, <1>14, <1>15 DEF Inv

(* A daemon reads on, or runs what it has read.                              *)
Progress(d, next, g, s) ==
    /\ dpc[d] \in Serving \ {"deny"} /\ next \in Reading
    /\ dpc' = [dpc EXCEPT ![d] = next]
    /\ g \in GotType /\ got' = [got EXCEPT ![d] = g]
    /\ s \in Seq(Words) /\ stream' = [stream EXCEPT ![cur[d]] = s]
    /\ UNCHANGED <<activated, path, shared, cur, backlog, closed, reply>> /\ UNCHANGED clientVars
    /\ ReadOK(d)' /\ On(cur[d], Taken(d))'
    /\ \/ ran' = ran
       \/ \E what \in RanType : ran' = [ran EXCEPT ![cur[d]] = what] /\ RanOK(cur[d])'
    /\ next = "running" => ran'[cur[d]] # None

(* Reading on keeps the invariant.                                           *)
LEMMA ProgressInv ==
    ASSUME Inv, NEW d \in Daemons, NEW next, NEW g, NEW s, Progress(d, next, g, s)
    PROVE  Inv'
<1> USE DEF clientVars
<1> DEFINE c == cur[d]
<1>1. /\ dpc'[d] = next /\ \A e \in Daemons : e # d => dpc'[e] = dpc[e]
      /\ got'[d] = g /\ \A e \in Daemons : e # d => got'[e] = got[e]
      /\ next \in Serving /\ next \notin Dead /\ next # "deny" /\ dpc[d] \notin Dead
         /\ next \in States
  BY DEF Inv, TypeInv, Progress, Serving, Reading, Dead, States
<1>2. c \in Clients /\ c # None
  BY DEF Inv, TypeInv, PlaceInv, Progress
<1>3. /\ stream' \in [Clients -> Seq(Words)]
      /\ \A b \in Clients : b # c => stream'[b] = stream[b]
  BY <1>2 DEF Inv, TypeInv, Progress
<1>4. /\ ran' \in [Clients -> RanType \cup {None}]
      /\ \A b \in Clients : ran'[b] # ran[b] => b = c /\ RanOK(c)'
      /\ \A b \in Clients : ran[b] # None => ran'[b] # None
  <2>1. CASE ran' = ran
    BY <2>1 DEF Inv, TypeInv
  <2>2. ASSUME NEW what \in RanType, ran' = [ran EXCEPT ![c] = what], RanOK(c)'
        PROVE  <1>4!:
    <3>1. what # None
      BY NoneAssumption DEF RanType
    <3>2. ran \in [Clients -> RanType \cup {None}]
      BY DEF Inv, TypeInv
    <3> HIDE DEF c
    <3>3. QED
      BY <1>2, <2>2, <3>1, <3>2
  <2>3. QED
    BY <2>1, <2>2 DEF Progress
<1>5. TypeInv'
  <2>1. dpc' \in [Daemons -> States] /\ got' \in [Daemons -> GotType]
    BY <1>1 DEF Inv, TypeInv, Progress
  <2>2. QED
    BY <1>3, <1>4, <2>1 DEF Inv, TypeInv, Progress
<1>6. PlaceInv'
  BY <1>1, <1>2 DEF Inv, PlaceInv, Progress, Waiting
<1>7. \A l \in Listeners, b \in Clients : Waiting(l, b)' <=> Waiting(l, b)
  BY DEF Progress, Waiting
<1>8. CallInv'
  <2> SUFFICES ASSUME NEW b \in Clients PROVE CallOK(b)'
    BY DEF CallInv
  <2>1. CallOK(b)
    BY DEF Inv, CallInv
  <2>2. cpc[b] \in {"check", "connect"} => b # c
    BY <2>1 DEF CallOK
  <2>3. cpc[b] \in {"check", "connect"} => stream'[b] = stream[b]
    BY <1>3, <2>2
  <2>4. QED
    BY <1>7, <2>1, <2>3 DEF CallOK, Progress
<1>9. PeerInv'
  <2>1. \A e \in Daemons : dpc[e] \in Dead => dpc'[e] \in Dead
    BY <1>1
  <2>2. QED
    BY <1>7, <2>1 DEF Inv, PeerInv, Progress
<1>10. \A e \in Daemons : e # d => Taken(e)' = Taken(e) /\ CountOK(e)'
  <2> SUFFICES ASSUME NEW e \in Daemons, e # d PROVE Taken(e)' = Taken(e) /\ CountOK(e)'
    OBVIOUS
  <2>1. dpc'[e] = dpc[e] /\ cur'[e] = cur[e] /\ got'[e] = got[e] /\ req' = req
    BY <1>1 DEF Progress
  <2>2. QED
    BY <2>1, SameDaemon DEF Inv, CountInv
<1>11. FrameInv'
  <2>1. ASSUME NEW b \in Clients, NEW a, b # c, On(b, a) PROVE On(b, a)'
    BY <1>3, <2>1 DEF On, Progress
  <2>2. \A l \in Listeners : ~Waiting(l, c)
    BY <1>2 DEF Inv, PlaceInv
  <2>3. ASSUME NEW l \in Listeners, NEW b \in Clients, Waiting(l, b)', ~closed'[b] PROVE On(b, 0)'
    <3>1. Waiting(l, b) /\ ~closed[b] /\ b # c
      BY <1>7, <2>2, <2>3 DEF Progress
    <3>2. QED
      BY <2>1, <3>1 DEF Inv, FrameInv
  <2>4. ASSUME NEW e \in Daemons, cur'[e] # None PROVE On(cur[e], Taken(e))'
    <3>1. CASE e = d
      BY <3>1 DEF Progress
    <3>2. CASE e # d
      <4>1. cur[e] # None /\ cur[e] # c /\ cur[e] \in Clients
        BY <1>2, <2>4, <3>2 DEF Inv, PlaceInv, TypeInv, Progress
      <4>2. On(cur[e], Taken(e)) /\ Taken(e)' = Taken(e)
        BY <1>10, <3>2, <4>1 DEF Inv, FrameInv
      <4>3. stream'[cur[e]] = stream[cur[e]]
        BY <1>3, <4>1
      <4>4. QED
        BY <4>2, <4>3 DEF On, Progress
    <3>3. QED
      BY <3>1, <3>2
  <2>5. QED
    BY <2>3, <2>4 DEF FrameInv, Progress
<1>12. CountInv'
  <2>1. CountOK(d)'
    BY <1>1 DEF Inv, CountInv, CountOK, Progress
  <2>2. QED
    BY <1>10, <2>1 DEF CountInv
<1>13. AnswerInv'
  <2>1. Excused => Excused'
    BY <1>1 DEF Excused, Progress
  <2>2. ASSUME NEW b \in Clients PROVE AnswerOK(b)'
    <3>1. AnswerOK(b)
      BY DEF Inv, AnswerInv
    <3>2. ran'[b] # None => RanOK(b)'
      <4>1. CASE ran'[b] = ran[b]
        BY <3>1, <4>1 DEF AnswerOK, RanOK, Progress
      <4>2. CASE ran'[b] # ran[b]
        BY <1>4, <4>2 DEF RanOK, Progress
      <4>3. QED
        BY <4>1, <4>2
    <3>3. QED
      BY <1>4, <2>1, <3>1, <3>2 DEF AnswerOK, Progress
  <2>3. ASSUME NEW e \in Daemons, dpc'[e] = "running" PROVE ran'[cur'[e]] # None
    <3>1. CASE e = d
      BY <1>1, <2>3, <3>1 DEF Progress
    <3>2. CASE e # d
      <4>1. dpc[e] = "running" /\ cur'[e] = cur[e]
        BY <1>1, <2>3, <3>2 DEF Progress
      <4>2. cur[e] \in Clients
        BY <4>1 DEF Inv, PlaceInv, TypeInv, Serving
      <4>3. QED
        BY <1>4, <4>1, <4>2 DEF Inv, AnswerInv
    <3>3. QED
      BY <3>1, <3>2
  <2>4. (\E e \in Daemons : dpc'[e] = "sigpipe") => \E b \in Clients : cpc'[b] = "killed"
    BY <1>1 DEF Inv, AnswerInv, Progress, Dead
  <2>5. QED
    BY <2>2, <2>3, <2>4 DEF AnswerInv
<1>14. QED
  BY <1>5, <1>6, <1>8, <1>9, <1>11, <1>12, <1>13 DEF Inv

---------------------------------------------------------------------------
(* The actions of a daemon.                                                  *)

(* What holds of the connection a daemon serves.                             *)
LEMMA ServedFacts ==
    ASSUME Inv, NEW d \in Daemons, dpc[d] \in Serving
    PROVE  /\ cur[d] \in Clients /\ cur[d] # None /\ req[cur[d]] \in RequestType
           /\ stream[cur[d]] \in Seq(Words) /\ sent[cur[d]] \in Nat
           /\ cpc[cur[d]] \in {"write", "read", "killed"} /\ ClientCheckOk(req[cur[d]])
           /\ sent[cur[d]] <= Len(Writes(req[cur[d]]))
           /\ cpc[cur[d]] = "write" => sent[cur[d]] < Len(Writes(req[cur[d]]))
           /\ Gone(cur[d]) => cpc[cur[d]] = "killed"
           /\ On(cur[d], Taken(d))
           /\ Alive(d) /\ CountOK(d)
<1>1. cur[d] \in Clients /\ cur[d] # None
  BY DEF Inv, TypeInv, PlaceInv
<1>2. req[cur[d]] \in RequestType /\ stream[cur[d]] \in Seq(Words) /\ sent[cur[d]] \in Nat
  BY <1>1 DEF Inv, TypeInv
<1>3. cpc[cur[d]] \in {"write", "read", "killed"}
  BY <1>1 DEF Inv, PeerInv
<1>4. CallOK(cur[d])
  BY <1>1 DEF Inv, CallInv
<1>5. On(cur[d], Taken(d)) /\ CountOK(d)
  BY <1>1 DEF Inv, FrameInv, CountInv
<1>6. Alive(d)
  BY DEF Alive, Serving
<1>7. QED
  BY <1>1, <1>2, <1>3, <1>4, <1>5, <1>6 DEF CallOK, Gone

(* An answer, given or not, ends the connection.                             *)
LEMMA AnswerInvariant ==
    ASSUME Inv, NEW d \in Daemons, dpc[d] \in Serving, NEW answer, NEW next \in {"accept", "exit"},
           Answer(d, answer, next), UNCHANGED <<activated, ran>>, UNCHANGED clientVars,
           ~Gone(cur[d]) => Fits(cur[d], answer)
    PROVE  Inv'
<1> DEFINE c == cur[d]
<1>1. c \in Clients /\ c # None /\ Alive(d) /\ (Gone(c) => cpc[c] = "killed")
  BY ServedFacts
<1>2. path \in Listeners \cup {None}
  BY DEF Inv, TypeInv
<1>3. CASE Gone(c)
  <2>1. Release(d, "sigpipe")
    BY <1>1, <1>2, <1>3 DEF Answer, Dies, Forget, Close, Release, Cut, Dead
  <2>2. QED
    BY <2>1, ReleaseInv
<1>4. CASE ~Gone(c)
  <2>1. Release(d, next)
    <3>1. Cut(d, next) = {c}
      BY <1>1 DEF Cut, Dead
    <3>2. Fits(c, answer) /\ reply' = [reply EXCEPT ![c] = answer]
      BY <1>4 DEF Answer
    <3>3. QED
      BY <1>1, <1>2, <1>4, <3>1, <3>2 DEF Answer, Forget, Close, Release
  <2>2. QED
    BY <2>1, ReleaseInv
<1>5. QED
  BY <1>3, <1>4

(* So does a daemon that finds the client gone.                              *)
LEMMA HangUpInvariant ==
    ASSUME Inv, NEW d \in Daemons, dpc[d] \in Serving, HangUp(d), Gone(cur[d]),
           UNCHANGED <<activated, ran>>, UNCHANGED clientVars
    PROVE  Inv'
<1>1. cur[d] \in Clients /\ cur[d] # None /\ Alive(d)
  BY ServedFacts
<1>2. path \in Listeners \cup {None}
  BY DEF Inv, TypeInv
<1>3. Cut(d, "accept") = {cur[d]}
  BY <1>1 DEF Cut, Dead
<1>4. Release(d, "accept")
  BY <1>1, <1>2, <1>3 DEF HangUp, Forget, Close, Release, Dead
<1>5. QED
  BY <1>4, ReleaseInv

(* A signal, and the end of the loop.                                        *)
LEMMA EndsInv ==
    ASSUME Inv, NEW d \in Daemons, DaemonKilled(d) \/ Exit(d)
    PROVE  Inv'
<1>1. path \in Listeners \cup {None}
  BY DEF Inv, TypeInv
<1>2. CASE DaemonKilled(d)
  <2>1. Release(d, "killed")
    <3>1. Cut(d, "killed") = Dropped(d) \cup ({cur[d]} \ {None})
      BY DEF Cut, Dead
    <3>2. QED
      BY <1>1, <1>2, <3>1 DEF DaemonKilled, Dies, Forget, Close, Release, Dead
  <2>2. QED
    BY <2>1, ReleaseInv
<1>3. CASE Exit(d)
  <2>1. cur[d] = None /\ got[d] = Nothing /\ Alive(d)
    BY <1>3 DEF Exit, Inv, PlaceInv, CountInv, CountOK, Serving, Reading, Alive
  <2>2. cur' = [cur EXCEPT ![d] = None] /\ got' = [got EXCEPT ![d] = Nothing]
    BY <1>3, <2>1 DEF Exit, Inv, TypeInv
  <2>3. Cut(d, "exited") = Dropped(d)
    BY <2>1 DEF Cut, Dead
  <2>4. Release(d, "exited")
    BY <1>1, <1>3, <2>1, <2>2, <2>3, ZenonT(40) DEF Exit, Close, Release, Dead
  <2>5. QED
    BY <2>4, ReleaseInv
<1>4. QED
  BY <1>2, <1>3

(* Getting to the loop, and giving up there.                                 *)
LEMMA StartsInv ==
    ASSUME Inv, NEW d \in Daemons,
           \/ Start(d) \/ UnlinkPath(d) \/ BindPath(d) \/ ListenPath(d) \/ ListenPathFails(d)
           \/ GiveUp(d)
    PROVE  Inv'
<1> USE DEF Serving, Dead, States
<1>1. path \in Listeners \cup {None} /\ d \in Listeners /\ shared \in BOOLEAN
  BY DEF Inv, TypeInv, Listeners
<1>2. CASE Start(d)
  <2>1. shared' \in BOOLEAN
    BY <1>1, <1>2 DEF Start
  <2>2. \E next \in {"unlink", "accept", "nobind"} : dpc' = [dpc EXCEPT ![d] = next]
    BY <1>2 DEF Start
  <2>3. \E next : Idle(d, next)
    BY <1>1, <1>2, <2>1, <2>2 DEF Start, Idle
  <2>4. QED
    BY <2>3, IdleInv
<1>3. CASE UnlinkPath(d)
  <2>1. Idle(d, "bind")
    BY <1>1, <1>3 DEF UnlinkPath, Idle
  <2>2. QED
    BY <2>1, IdleInv
<1>4. CASE BindPath(d)
  <2>1. \E next : Idle(d, next)
    BY <1>1, <1>4 DEF BindPath, Idle
  <2>2. QED
    BY <2>1, IdleInv
<1>5. CASE GiveUp(d)
  <2>1. Idle(d, "exit")
    BY <1>1, <1>5 DEF GiveUp, Idle
  <2>2. QED
    BY <2>1, IdleInv
<1>6. CASE ListenPath(d)
  <2>1. Idle(d, "accept")
    BY <1>1, <1>6 DEF ListenPath, Idle
  <2>2. QED
    BY <2>1, IdleInv
<1>7. CASE ListenPathFails(d)
  <2>1. path' \in Listeners \cup {None}
    BY <1>1, <1>7 DEF ListenPathFails
  <2>2. dpc[d] \in {"unlink", "bind", "listen"}
    BY <1>7 DEF ListenPathFails
  <2>3. Idle(d, "failed")
    BY <1>1, <1>7, <2>1, <2>2 DEF ListenPathFails, Idle
  <2>4. QED
    BY <2>3, IdleInv
<1>8. QED
  BY <1>2, <1>3, <1>4, <1>5, <1>6, <1>7

(* The first in line is served.                                              *)
LEMMA AcceptInv ==
    ASSUME Inv, NEW d \in Daemons, Accept(d)
    PROVE  Inv'
<1> USE DEF clientVars, wireVars
<1> DEFINE l == Listener(d)
           q == backlog[l]
           c == Head(q)
<1>1. l \in Listeners /\ q \in Seq(Clients) /\ q # <<>> /\ dpc[d] = "accept"
  BY DEF Accept, Listener, Listeners, Systemd, Inv, TypeInv
<1> HIDE DEF l
<1>2. /\ Len(q) \in Nat /\ 1 \in 1..Len(q) /\ c = q[1] /\ c \in Clients
      /\ Tail(q) \in Seq(Clients) /\ Len(Tail(q)) = Len(q) - 1
      /\ \A i \in 1..(Len(q) - 1) : Tail(q)[i] = q[i + 1]
  BY <1>1
<1> DEFINE next == IF req[c].same_uid THEN "header" ELSE "deny"
<1>3. /\ dpc'[d] = next /\ \A e \in Daemons : e # d => dpc'[e] = dpc[e]
      /\ cur'[d] = c /\ \A e \in Daemons : e # d => cur'[e] = cur[e]
      /\ backlog'[l] = Tail(q) /\ \A m \in Listeners : m # l => backlog'[m] = backlog[m]
      /\ next \in Serving /\ next \notin Dead /\ next \notin Reading /\ next \in States
  BY <1>1, <1>2 DEF Inv, TypeInv, Accept, Serving, Dead, Reading, States, l
<1>4. c # None /\ Waiting(l, c)
  BY <1>1, <1>2, NoneAssumption DEF Waiting
<1> HIDE DEF q, c, next
<1>5. ~closed[c] /\ reply[c] = None /\ cpc[c] \in {"write", "read", "killed"} /\ On(c, 0)
  <2>1. closed[c] => ~activated /\ l \in Daemons /\ dpc[l] \in Dead
    BY <1>1, <1>2, <1>4 DEF Inv, PeerInv
  <2>2. ~activated => l = d
    BY DEF l, Listener
  <2>3. ~closed[c]
    BY <1>1, <2>1, <2>2 DEF Dead
  <2>4. QED
    BY <1>1, <1>2, <1>4, <2>3 DEF Inv, PeerInv, FrameInv
<1>6. \A m \in Listeners : \A i \in 1..Len(backlog'[m]) :
        \E j \in 1..Len(backlog[m]) :
          /\ backlog'[m][i] = backlog[m][j]
          /\ m = l => j = i + 1
          /\ m # l => j = i
  <2> SUFFICES ASSUME NEW m \in Listeners, NEW i \in 1..Len(backlog'[m])
               PROVE  \E j \in 1..Len(backlog[m]) :
                         backlog'[m][i] = backlog[m][j] /\ (m = l => j = i + 1) /\ (m # l => j = i)
    OBVIOUS
  <2>1. CASE m = l
    <3>1. i \in 1..(Len(q) - 1) /\ i + 1 \in 1..Len(q)
      BY <1>2, <1>3, <2>1
    <3>2. QED
      BY <1>2, <1>3, <2>1, <3>1 DEF q
  <2>2. CASE m # l
    BY <1>3, <2>2
  <2>3. QED
    BY <2>1, <2>2
<1>7. ASSUME NEW m \in Listeners, NEW x, Waiting(m, x)' PROVE Waiting(m, x) /\ x # c
  <2>1. PICK i \in 1..Len(backlog'[m]) : backlog'[m][i] = x
    BY <1>7 DEF Waiting
  <2>2. PICK j \in 1..Len(backlog[m]) :
          backlog'[m][i] = backlog[m][j] /\ (m = l => j = i + 1) /\ (m # l => j = i)
    BY <1>6
  <2>3. Waiting(m, x)
    BY <2>1, <2>2 DEF Waiting
  <2>4. ASSUME x = c PROVE FALSE
    <3>1. backlog[m][j] = backlog[l][1] /\ 1 \in 1..Len(backlog[l])
      BY <1>2, <2>1, <2>2, <2>4 DEF q
    <3>2. m = l /\ j = 1
      BY <1>1, <3>1 DEF Inv, PlaceInv
    <3>3. i \in Nat /\ i >= 1 /\ j = i + 1
      BY <2>2, <3>2, <1>3, <1>2
    <3>4. QED
      BY <3>2, <3>3
  <2>5. QED
    BY <2>3, <2>4
<1>8. TypeInv'
  <2>1. dpc' \in [Daemons -> States] /\ cur' \in [Daemons -> Clients \cup {None}]
    BY <1>2, <1>3 DEF Inv, TypeInv, Accept, q, l, c, next
  <2>2. backlog' \in [Listeners -> Seq(Clients)]
    <3>1. backlog' = [backlog EXCEPT ![l] = Tail(q)]
      BY DEF Accept, q, l
    <3>2. QED
      BY <1>1, <1>2, <3>1 DEF Inv, TypeInv
  <2>3. QED
    BY <2>1, <2>2 DEF Inv, TypeInv, Accept
<1>9. PlaceInv'
  <2>1. \A e \in Daemons : cur'[e] # None <=> dpc'[e] \in Serving
    BY <1>3, <1>4 DEF Inv, PlaceInv
  <2>2. ASSUME NEW m \in Listeners PROVE Len(backlog'[m]) <= Backlog
    <3>1. CASE m = l
      <4>1. Len(q) <= Backlog
        BY <1>1 DEF Inv, PlaceInv, q
      <4>2. Backlog \in Nat
        BY LimitAssumption
      <4>3. Len(backlog'[m]) = Len(q) - 1
        BY <1>2, <1>3, <3>1
      <4>4. \A x, y \in Nat : x <= y => x - 1 <= y
        OBVIOUS
      <4>5. Len(q) - 1 <= Backlog
        BY <1>2, <4>1, <4>2, <4>4
      <4>6. QED
        BY <4>3, <4>5
    <3>2. CASE m # l
      BY <1>3, <3>2 DEF Inv, PlaceInv
    <3>3. QED
      BY <3>1, <3>2
  <2>3. \A e \in Daemons : cur[e] # None => cur[e] # c
    BY <1>1, <1>4 DEF Inv, PlaceInv
  <2>4. \A e, f \in Daemons : cur'[e] # None /\ cur'[e] = cur'[f] => e = f
    BY <1>3, <1>4, <2>3 DEF Inv, PlaceInv
  <2>5. \A e \in Daemons, m \in Listeners : cur'[e] # None => ~Waiting(m, cur[e])'
    <3> SUFFICES ASSUME NEW e \in Daemons, NEW m \in Listeners, cur'[e] # None, Waiting(m, cur[e])'
                 PROVE  FALSE
      OBVIOUS
    <3>1. PICK x : x = cur'[e]
      OBVIOUS
    <3>2. Waiting(m, x)'
      BY <3>1 DEF Waiting
    <3>3. Waiting(m, x) /\ x # c
      BY <1>7, <3>2
    <3>4. e # d /\ x = cur[e]
      BY <1>3, <3>1, <3>3
    <3>5. QED
      BY <3>1, <3>3, <3>4 DEF Inv, PlaceInv
  <2>6. ASSUME NEW m \in Listeners, NEW k \in Listeners,
               NEW i \in 1..Len(backlog'[m]), NEW j \in 1..Len(backlog'[k]),
               backlog'[m][i] = backlog'[k][j]
        PROVE  m = k /\ i = j
    <3>1. PICK i1 \in 1..Len(backlog[m]) :
            backlog'[m][i] = backlog[m][i1] /\ (m = l => i1 = i + 1) /\ (m # l => i1 = i)
      BY <1>6
    <3>2. PICK j1 \in 1..Len(backlog[k]) :
            backlog'[k][j] = backlog[k][j1] /\ (k = l => j1 = j + 1) /\ (k # l => j1 = j)
      BY <1>6
    <3>3. m = k /\ i1 = j1
      <4>1. backlog[m][i1] = backlog[k][j1]
        BY <2>6, <3>1, <3>2
      <4>2. QED
        BY <4>1 DEF Inv, PlaceInv
    <3>4. i \in Int /\ j \in Int
      OBVIOUS
    <3>5. QED
      BY <3>1, <3>2, <3>3, <3>4
  <2>7. QED
    BY <2>1, <2>2, <2>4, <2>5, <2>6 DEF PlaceInv
<1>10. CallInv'
  <2> SUFFICES ASSUME NEW b \in Clients PROVE CallOK(b)'
    BY DEF CallInv
  <2>1. CallOK(b)
    BY DEF Inv, CallInv
  <2>2. ASSUME cpc[b] \in {"check", "connect"}
        PROVE  (\A e \in Daemons : cur'[e] # b) /\ \A m \in Listeners : ~Waiting(m, b)'
    <3>1. b # c
      BY <1>1, <1>4, <2>1, <2>2 DEF CallOK
    <3>2. QED
      BY <1>3, <1>7, <2>1, <2>2, <3>1 DEF CallOK
  <2>3. QED
    BY <2>1, <2>2 DEF CallOK, Accept
<1>11. PeerInv'
  <2>1. \A e \in Daemons : cur'[e] # None =>
          ~closed[cur'[e]] /\ reply[cur'[e]] = None /\ cpc[cur'[e]] \in {"write", "read", "killed"}
    BY <1>3, <1>5 DEF Inv, PeerInv
  <2>2. ASSUME NEW m \in Listeners, NEW b \in Clients, Waiting(m, b)'
        PROVE  /\ reply[b] = None
               /\ closed[b] => ~activated /\ m \in Daemons /\ dpc'[m] \in Dead
               /\ ~closed[b] => cpc[b] \in {"write", "read", "killed"}
    <3>1. Waiting(m, b)
      BY <1>7, <2>2
    <3>2. \A e \in Daemons : dpc[e] \in Dead => dpc'[e] \in Dead
      BY <1>1, <1>3 DEF Dead
    <3>3. QED
      BY <3>1, <3>2 DEF Inv, PeerInv
  <2>3. QED
    BY <2>1, <2>2 DEF PeerInv, Accept
<1>12. \A e \in Daemons : e # d => Taken(e)' = Taken(e) /\ CountOK(e)'
  <2> SUFFICES ASSUME NEW e \in Daemons, e # d PROVE Taken(e)' = Taken(e) /\ CountOK(e)'
    OBVIOUS
  <2>1. dpc'[e] = dpc[e] /\ cur'[e] = cur[e] /\ got'[e] = got[e] /\ req' = req
    BY <1>3 DEF Accept
  <2>2. QED
    BY <2>1, SameDaemon DEF Inv, CountInv
<1>13. FrameInv'
  <2>1. ASSUME NEW b, NEW a PROVE On(b, a)' <=> On(b, a)
    BY DEF On, Accept
  <2>2. \A m \in Listeners, b \in Clients : Waiting(m, b)' /\ ~closed'[b] => On(b, 0)'
    BY <1>7, <2>1 DEF Inv, FrameInv, Accept
  <2>3. ASSUME NEW e \in Daemons, cur'[e] # None PROVE On(cur[e], Taken(e))'
    <3>1. CASE e = d
      <4>1. Taken(d)' = 0
        BY <1>3 DEF Taken, next
      <4>2. QED
        BY <1>3, <1>5, <3>1, <4>1 DEF On, Accept
    <3>2. CASE e # d
      <4>1. On(cur[e], Taken(e)) /\ Taken(e)' = Taken(e) /\ cur'[e] = cur[e]
        BY <1>3, <1>12, <2>3, <3>2 DEF Inv, FrameInv
      <4>2. QED
        BY <4>1 DEF On, Accept
    <3>3. QED
      BY <3>1, <3>2
  <2>4. QED
    BY <2>2, <2>3 DEF FrameInv
<1>14. CountInv'
  <2>1. CountOK(d)'
    <3>1. got[d] = Nothing
      BY <1>1 DEF Inv, CountInv, CountOK, Reading
    <3>2. QED
      BY <1>3, <3>1 DEF CountOK, Accept, next, Serving
  <2>2. QED
    BY <1>12, <2>1 DEF CountInv
<1>15. AnswerInv'
  <2>1. Excused => Excused'
    BY <1>1, <1>3 DEF Excused, Accept, Dead
  <2>2. \A b \in Clients : AnswerOK(b)'
    BY <2>1 DEF Inv, AnswerInv, AnswerOK, RanOK, Accept
  <2>3. \A e \in Daemons : dpc'[e] = "running" => ran'[cur'[e]] # None
    BY <1>3 DEF Inv, AnswerInv, Accept, Reading
  <2>4. (\E e \in Daemons : dpc'[e] = "sigpipe") => \E b \in Clients : cpc'[b] = "killed"
    BY <1>3 DEF Inv, AnswerInv, Accept, Dead
  <2>5. QED
    BY <2>2, <2>3, <2>4 DEF AnswerInv
<1>16. QED
  BY <1>8, <1>9, <1>10, <1>11, <1>13, <1>14, <1>15 DEF Inv

(* The number of writes taken never exceeds the number made.                 *)
LEMMA TakenSent ==
    ASSUME Inv, NEW d \in Daemons, dpc[d] \in Serving
    PROVE  Taken(d) \in Nat /\ Taken(d) <= sent[cur[d]]
<1>1. got[d].args \in Seq(Nat)
  BY DEF Inv, TypeInv, GotType
<1>2. Len(got[d].args) \in Nat
  BY <1>1
<1>3. Taken(d) \in Nat
  BY <1>2 DEF Taken
<1>4. QED
  BY <1>3, ServedFacts DEF On, Spells

(* What a daemon can read is the beginning of the next write of the client.  *)
LEMMA NextWrite ==
    ASSUME Inv, NEW d \in Daemons, dpc[d] \in Serving, Readable(cur[d], 1)
    PROVE  LET c == cur[d]
               a == Taken(d)
               v == Writes(req[c])[a + 1]
               n == Len(v)
               rest == SubSeq(stream[c], n + 1, Len(stream[c]))
           IN  /\ a < sent[c] /\ n \in Nat /\ n <= Len(stream[c])
               /\ \A i \in 1..n : stream[c][i] = v[i]
               /\ rest \in Seq(Words)
               /\ Spells(rest, Writes(req[c]), EndsOf(req[c]), a + 1, sent[c])
<1> DEFINE c == cur[d]
           r == req[c]
           w == Writes(r)
           e == EndsOf(r)
           s == stream[c]
           a == Taken(d)
           b == sent[c]
<1>0. a \in Nat
  BY TakenSent
<1>1. r \in RequestType /\ s \in Seq(Words) /\ b \in Nat /\ b <= Len(w) /\ Spells(s, w, e, a, b)
  BY ServedFacts DEF On
<1>2. Len(w) \in Nat /\ Ends(Words, w, e)
  BY <1>1, WritesFacts, EndsFacts
<1>3. Len(s) >= 1
  BY DEF Readable
<1> HIDE DEF r, w, e, s, a, b
<1>4. a < b
  <2>1. a <= b /\ Len(s) = e[b] - e[a]
    BY <1>1 DEF Spells
  <2>2. a \in 0..Len(w) /\ b \in 0..Len(w)
    BY <1>0, <1>1, <1>2, <2>1
  <2>3. e[a] \in Nat /\ e[b] \in Nat
    BY <1>2, <2>2 DEF Ends
  <2>4. a # b
    <3> SUFFICES ASSUME a = b PROVE FALSE
      OBVIOUS
    <3>1. Len(s) = 0
      BY <2>1, <2>3
    <3>2. QED
      BY <1>3, <3>1
  <2>5. QED
    BY <1>0, <1>1, <2>1, <2>4
<1>5. w[a + 1] \in Seq(Words)
  <2>1. a + 1 \in 1..Len(w)
    BY <1>0, <1>1, <1>2, <1>4
  <2>2. QED
    BY <1>2, <2>1 DEF Ends
<1>6. Len(w[a + 1]) \in Nat
  BY <1>5
<1>7. /\ Len(w[a + 1]) <= Len(s)
      /\ \A i \in 1..Len(w[a + 1]) : s[i] = w[a + 1][i]
      /\ SubSeq(s, Len(w[a + 1]) + 1, Len(s)) \in Seq(Words)
      /\ Spells(SubSeq(s, Len(w[a + 1]) + 1, Len(s)), w, e, a + 1, b)
  BY <1>0, <1>1, <1>2, <1>4, SpellsTake
<1>8. QED
  BY <1>4, <1>6, <1>7 DEF r, w, e, s, a, b

(* Another user is turned away.                                              *)
LEMMA DenyInv == ASSUME Inv, NEW d \in Daemons, Deny(d) PROVE Inv'
<1>1. dpc[d] \in Serving /\ Answer(d, "EPERM", "accept")
  BY DEF Deny, Serving
<1>2. Fits(cur[d], "EPERM")
  BY <1>1, ServedFacts DEF Fits, Answers, Deny, CountOK
<1>3. QED
  BY <1>1, <1>2, AnswerInvariant DEF Deny

(* A checked request has a header the daemon takes.                          *)
LEMMA CheckedHeader ==
    ASSUME NEW r, ClientCheckOk(r), r.checked, r.command = "run"
    PROVE  HeaderOk(r)
BY DEF ClientCheckOk, HeaderOk

(* The header.                                                               *)
LEMMA ReadHeaderInv == ASSUME Inv, NEW d \in Daemons, ReadHeader(d) PROVE Inv'
<1> USE DEF clientVars
<1> DEFINE c == cur[d]
           r == req[c]
           w == Writes(r)
<1>1. dpc[d] = "header" /\ dpc[d] \in Serving /\ Taken(d) = 0
  BY DEF ReadHeader, Serving, Taken
<1>2. /\ c \in Clients /\ r \in RequestType /\ sent[c] \in Nat
      /\ cpc[c] = "write" => sent[c] < Len(w)
      /\ ClientCheckOk(r) /\ (r.checked => r.magic /\ r.command # "unknown")
      /\ r.same_uid
  BY <1>1, ServedFacts DEF Inv, TypeInv, CountOK
<1>3. CASE Ended(c, 1) /\ HangUp(d)
  BY <1>1, <1>3, HangUpInvariant DEF ReadHeader, Ended
<1>4. ASSUME Readable(c, 1)
      PROVE  /\ Head(stream[c]) = r /\ 0 < sent[c]
             /\ SubSeq(stream[c], 1 + 1, Len(stream[c])) \in Seq(Words)
             /\ Spells(SubSeq(stream[c], 1 + 1, Len(stream[c])), w, EndsOf(r), 1, sent[c])
  <2>1. w[0 + 1] = <<r>> /\ Len(<<r>>) = 1 /\ <<r>>[1] = r /\ 1 \in 1..1
    BY <1>2, WritesFacts
  <2>2. /\ 0 < sent[c] /\ \A i \in 1..1 : stream[c][i] = <<r>>[i]
        /\ SubSeq(stream[c], 1 + 1, Len(stream[c])) \in Seq(Words)
        /\ Spells(SubSeq(stream[c], 1 + 1, Len(stream[c])), w, EndsOf(r), 0 + 1, sent[c])
    <3> DEFINE z == Taken(d)
               v == w[z + 1]
               n == Len(v)
    <3>0. v = <<r>> /\ n = 1 /\ z = 0
      BY <1>1, <2>1
    <3>1. /\ z < sent[c] /\ n \in Nat /\ n <= Len(stream[c])
          /\ \A i \in 1..n : stream[c][i] = v[i]
          /\ SubSeq(stream[c], n + 1, Len(stream[c])) \in Seq(Words)
          /\ Spells(SubSeq(stream[c], n + 1, Len(stream[c])), w, EndsOf(r), z + 1, sent[c])
      <4>1. dpc[d] \in Serving
        BY <1>1
      <4>2. QED
        BY <1>4, <4>1, NextWrite
    <3> HIDE DEF z, v, n
    <3>2. QED
      BY <3>0, <3>1
  <2>3. stream[c][1] = r
    BY <2>1, <2>2
  <2>4. Head(stream[c]) = stream[c][1]
    <3>1. stream[c] \in Seq(Words)
      BY <1>1, ServedFacts
    <3>2. QED
      BY <3>1
  <2>5. QED
    BY <2>2, <2>3, <2>4
<1>5. ASSUME Readable(c, 1), NEW answer, NEW next \in {"accept", "exit"}, Answer(d, answer, next),
             Fits(c, answer)
      PROVE  Inv'
  BY <1>1, <1>5, AnswerInvariant DEF ReadHeader
<1>6. CASE Readable(c, 1) /\ ~r.magic /\ Answer(d, "EPROTO", "accept")
  BY <1>2, <1>5, <1>6 DEF Fits, Answers
<1>7. ASSUME Readable(c, 1), r.command \in {"stop", "status"} PROVE Fits(c, "ok")
  <2>1. Len(w) = 1 /\ 0 < sent[c]
    BY <1>2, <1>4, <1>7, WritesFacts
  <2>2. cpc[c] # "write"
    BY <1>2, <2>1
  <2>3. QED
    BY <1>7, <2>2 DEF Fits, Answers
<1>8. CASE Readable(c, 1) /\ r.command = "unknown" /\ Answer(d, "EINVAL", "accept")
  BY <1>2, <1>5, <1>8 DEF Fits, Answers
<1>9. CASE Readable(c, 1) /\ r.command = "run" /\ ~HeaderOk(r) /\ Answer(d, "EINVAL", "accept")
  <2>1. ~r.checked
    BY <1>2, <1>9, CheckedHeader
  <2>2. Fits(c, "EINVAL")
    BY <1>9, <2>1 DEF Fits, Answers
  <2>3. QED
    BY <1>5, <1>9, <2>2
<1>10. CASE Readable(c, 1) /\ Answer(d, "ENOMEM", "accept")
  BY <1>5, <1>10 DEF Fits, Answers
<1>11. ASSUME Readable(c, 1), r.magic, r.command = "run", HeaderOk(r),
              got' = [got EXCEPT ![d] = [argc |-> Len(r.args), policy_len |-> r.policy_len,
                                         args |-> <<>>, total |-> r.policy_len]],
              dpc' = [dpc EXCEPT ![d] = "policy"], Consume(c, 1),
              UNCHANGED <<path, shared, cur, backlog, closed, reply>>
       PROVE  Inv'
  <2> DEFINE g == [argc |-> Len(r.args), policy_len |-> r.policy_len,
                   args |-> <<>>, total |-> r.policy_len]
             s == SubSeq(stream[c], 1 + 1, Len(stream[c]))
  <2>1. r.policy_len \in Nat /\ r.args \in Seq(Nat) /\ Len(r.args) \in Nat /\ Len(<<>>) = 0
        /\ <<>> \in Seq(Nat)
    BY <1>2 DEF RequestType
  <2>2. g \in GotType
    BY <2>1 DEF GotType
  <2>3. dpc'[d] = "policy" /\ got'[d] = g /\ cur' = cur /\ req' = req /\ sent' = sent
    BY <1>11 DEF Inv, TypeInv, ReadHeader
  <2>4. stream' = [stream EXCEPT ![c] = s]
    BY <1>11 DEF Consume
  <2>5. stream'[c] = s
    BY <1>2, <2>4 DEF Inv, TypeInv
  <2> HIDE DEF s
  <2>6. On(c, Taken(d))'
    <3>1. Taken(d)' = 1
      BY <2>3 DEF Taken
    <3>2. Spells(s, w, EndsOf(r), 1, sent[c])
      BY <1>4, <1>11 DEF s
    <3>3. QED
      BY <2>3, <2>5, <3>1, <3>2 DEF On
  <2>7. ReadOK(d)'
    <3>0. Word \in Nat /\ \A m \in Nat : m * 0 = 0 /\ m + 0 + 0 = m
      BY LimitAssumption
    <3>1. Sum(<<>>) = 0 /\ Word * 0 = 0 /\ r.policy_len + 0 + 0 = r.policy_len
      BY <2>1, <3>0, SumFacts
    <3>2. r.policy_len <= MaxBytes
      BY <1>11, <2>1, LimitAssumption, SMTT(40) DEF HeaderOk
    <3>3. Amount(d)' = r.policy_len
      BY <2>3 DEF Amount
    <3>4. \A i \in 1..Len(<<>>) : FALSE
      OBVIOUS
    <3>5. 0 <= Len(r.args)
      BY <2>1
    <3>6. QED
      BY <1>11, <2>1, <2>3, <3>1, <3>2, <3>3, <3>4, <3>5 DEF ReadOK
  <2>8. Progress(d, "policy", g, s)
    <3>1. s \in Seq(Words)
      BY <1>4, <1>11 DEF s
    <3>2. QED
      BY <1>1, <1>11, <2>2, <2>4, <2>6, <2>7, <3>1 DEF Progress, Reading, Serving, ReadHeader
  <2>9. QED
    BY <2>8, ProgressInv
<1>12. QED
  BY <1>3, <1>4, <1>5, <1>6, <1>7, <1>8, <1>9, <1>10, <1>11 DEF ReadHeader

(* A read of the length of the next write takes just that write.             *)
LEMMA TakeWrite ==
    ASSUME Inv, NEW d \in Daemons, dpc[d] \in Serving, NEW a, a = Taken(d), NEW n \in Nat, n >= 1,
           Readable(cur[d], n), Len(Writes(req[cur[d]])[a + 1]) = n
    PROVE  /\ a < sent[cur[d]]
           /\ \A i \in 1..n : stream[cur[d]][i] = Writes(req[cur[d]])[a + 1][i]
           /\ SubSeq(stream[cur[d]], n + 1, Len(stream[cur[d]])) \in Seq(Words)
           /\ Spells(SubSeq(stream[cur[d]], n + 1, Len(stream[cur[d]])), Writes(req[cur[d]]),
                     EndsOf(req[cur[d]]), a + 1, sent[cur[d]])
<1> DEFINE c == cur[d]
           z == Taken(d)
           u == Writes(req[c])[z + 1]
           m == Len(u)
<1>1. Readable(c, 1)
  <2>1. Len(stream[c]) \in Nat
    BY ServedFacts
  <2>2. QED
    BY <2>1 DEF Readable
<1>2. /\ z < sent[c] /\ m \in Nat /\ m <= Len(stream[c])
      /\ \A i \in 1..m : stream[c][i] = u[i]
      /\ SubSeq(stream[c], m + 1, Len(stream[c])) \in Seq(Words)
      /\ Spells(SubSeq(stream[c], m + 1, Len(stream[c])),
                Writes(req[c]), EndsOf(req[c]), z + 1, sent[c])
  BY <1>1, NextWrite
<1>3. u = Writes(req[c])[a + 1] /\ m = n /\ z = a
  OBVIOUS
<1> HIDE DEF z, u, m
<1>4. QED
  BY <1>2, <1>3

(* The daemon takes the next write and goes on.                              *)
LEMMA TakeInv ==
    ASSUME Inv, NEW d \in Daemons, dpc[d] \in Serving \ {"deny"}, NEW a \in Nat, a = Taken(d),
           NEW n \in Nat, n >= 1, Readable(cur[d], n), Len(Writes(req[cur[d]])[a + 1]) = n,
           Consume(cur[d], n), NEW next \in Reading, next # "running", NEW g \in GotType,
           dpc' = [dpc EXCEPT ![d] = next], got' = [got EXCEPT ![d] = g],
           UNCHANGED <<activated, path, shared, cur, backlog, closed, reply, ran>>,
           UNCHANGED clientVars,
           ReadOK(d)', Taken(d)' = a + 1
    PROVE  Inv'
<1> USE DEF clientVars
<1> DEFINE c == cur[d]
           s == SubSeq(stream[c], n + 1, Len(stream[c]))
<1>0. dpc[d] \in Serving
  OBVIOUS
<1>1. s \in Seq(Words) /\ Spells(s, Writes(req[c]), EndsOf(req[c]), a + 1, sent[c])
  BY <1>0, TakeWrite
<1>2. stream' = [stream EXCEPT ![c] = s]
  BY DEF Consume
<1>3. c \in Clients
  BY <1>0, ServedFacts
<1> HIDE DEF s
<1>4. stream'[c] = s
  BY <1>2, <1>3 DEF Inv, TypeInv
<1>5. On(c, Taken(d))'
  BY <1>1, <1>4 DEF On
<1>6. Progress(d, next, g, s)
  BY <1>1, <1>2, <1>5 DEF Progress
<1>7. QED
  BY <1>6, ProgressInv

(* What the daemon knows while it reads on.                                  *)
LEMMA ReadingFacts ==
    ASSUME Inv, NEW d \in Daemons, dpc[d] \in Reading
    PROVE  /\ dpc[d] \in Serving \ {"deny"} /\ ReadOK(d) /\ req[cur[d]].same_uid
           /\ got[d] \in GotType /\ got[d].args \in Seq(Nat) /\ Len(got[d].args) \in Nat
           /\ got[d].total \in Nat /\ got[d].policy_len \in Nat /\ got[d].argc \in Nat
           /\ req[cur[d]].args \in Seq(Nat) /\ req[cur[d]].policy_len \in Nat
           /\ Len(req[cur[d]].args) \in Nat
<1>1. dpc[d] \in Serving \ {"deny"}
  BY DEF Reading, Serving
<1>2. CountOK(d)
  BY DEF Inv, CountInv
<1>3. got[d] \in GotType
  BY DEF Inv, TypeInv
<1>4. got[d].args \in Seq(Nat) /\ got[d].total \in Nat /\ got[d].policy_len \in Nat
      /\ got[d].argc \in Nat
  BY <1>3 DEF GotType
<1>5. dpc[d] \in Serving
  BY <1>1
<1>6. req[cur[d]] \in RequestType
  BY <1>5, ServedFacts
<1>7. req[cur[d]].args \in Seq(Nat) /\ req[cur[d]].policy_len \in Nat
  BY <1>6 DEF RequestType
<1>8. QED
  BY <1>1, <1>2, <1>3, <1>4, <1>7 DEF CountOK

(* The policy.                                                               *)
LEMMA ReadPolicyInv == ASSUME Inv, NEW d \in Daemons, ReadPolicy(d) PROVE Inv'
<1> USE DEF clientVars
<1> DEFINE c == cur[d]
           r == req[c]
           n == got[d].policy_len
<1>1. dpc[d] = "policy" /\ dpc[d] \in Serving \ {"deny"} /\ dpc[d] \in Reading /\ Taken(d) = 1
      /\ dpc[d] \in Serving
  BY DEF ReadPolicy, Serving, Reading, Taken
<1>2. CASE Ended(c, n) /\ HangUp(d)
  BY <1>1, <1>2, HangUpInvariant DEF ReadPolicy, Ended
<1>3. CASE Answer(d, "ENOMEM", "accept")
  <2>1. Fits(c, "ENOMEM")
    BY DEF Fits, Answers
  <2>2. QED
    BY <1>1, <1>3, <2>1, AnswerInvariant DEF ReadPolicy
<1>4. ASSUME Readable(c, n), Consume(c, n), dpc' = [dpc EXCEPT ![d] = "length"],
             UNCHANGED <<path, shared, cur, got, backlog, closed, reply>>
      PROVE  Inv'
  <2>1. ReadOK(d) /\ got[d] \in GotType
    BY <1>1, ReadingFacts
  <2>2. r.command = "run" /\ n = r.policy_len /\ n \in Nat /\ n >= 1 /\ got[d].args = <<>>
    <3>1. n \in 1..MaxPolicyLen /\ MaxPolicyLen \in Nat
      BY <2>1, LimitAssumption DEF ReadOK, HeaderOk
    <3>2. QED
      BY <1>1, <2>1, <3>1 DEF ReadOK
  <2>3. Len(Writes(r)[1 + 1]) = n
    <3>1. r \in RequestType
      BY <1>1, ServedFacts
    <3>2. Writes(r)[2] = Letters(n)
      BY <2>2, <3>1, WritesFacts
    <3>3. Len(Letters(n)) = n
      BY <2>2 DEF Letters
    <3>4. QED
      BY <3>2, <3>3
  <2>4. dpc'[d] = "length" /\ got' = [got EXCEPT ![d] = got[d]] /\ got' = got /\ cur' = cur
        /\ req' = req
    BY <1>4 DEF Inv, TypeInv, ReadPolicy
  <2>5. Taken(d)' = 1 + 1
    <3>1. Len(<<>>) = 0 /\ 2 + 2 * 0 = 1 + 1
      OBVIOUS
    <3>2. QED
      BY <2>2, <2>4, <3>1 DEF Taken
  <2>6. ReadOK(d)'
    BY <1>1, <2>1, <2>2, <2>4 DEF ReadOK, Amount
  <2>7. "length" \in Reading /\ 1 \in Nat
    BY DEF Reading
  <2>8. QED
    BY <1>1, <1>4, <2>1, <2>2, <2>3, <2>4, <2>5, <2>6, <2>7, TakeInv DEF ReadPolicy
<1>5. QED
  BY <1>2, <1>3, <1>4 DEF ReadPolicy

(* A number below the modulus, in particular what is counted within the      *)
(* limits, does not wrap.                                                    *)
LEMMA NoWrap == ASSUME NEW x \in Nat, NEW m \in Nat, x < m PROVE x % m = x
OBVIOUS

(* Within the limits the daemon counts without wrapping (total_bytes).       *)
LEMMA NoOverflow ==
    /\ \A t \in Nat : t <= MaxBytes => Counted(t) = t + Word
    /\ \A t, n \in Nat :
         ArgOk(n, t) <=> n # 0 /\ n <= MaxArgLen /\ t <= MaxBytes /\ t + n <= MaxBytes
<1>1. Word \in Nat /\ MaxBytes \in Nat /\ MaxArgLen \in Nat /\ Wrap \in Nat
      /\ MaxBytes + Word + MaxArgLen < Wrap
  BY LimitAssumption
<1>2. ASSUME NEW t \in Nat, t <= MaxBytes PROVE Counted(t) = t + Word
  <2>1. t + Word \in Nat /\ t + Word < Wrap
    BY <1>1, <1>2
  <2>2. QED
    BY <1>1, <2>1, NoWrap DEF Counted
<1>3. ASSUME NEW t \in Nat, NEW n \in Nat, n <= MaxArgLen, t <= MaxBytes
      PROVE  (t + n) % Wrap = t + n
  <2>1. t + n \in Nat /\ t + n < Wrap
    BY <1>1, <1>3
  <2>2. QED
    BY <1>1, <2>1, NoWrap
<1>4. QED
  BY <1>2, <1>3 DEF ArgOk

(* A part of a request that fits the limit fits as well.                     *)
LEMMA PartFits ==
    ASSUME NEW p \in Nat, NEW s \in Nat, NEW u \in Nat, NEW l \in Nat, NEW m \in Nat,
           s <= u, l <= m, u + Word * m + p <= MaxBytes
    PROVE  p + s + Word * l <= MaxBytes
<1>1. Word \in Nat /\ MaxBytes \in Nat
  BY LimitAssumption
<1>2. m - l \in Nat /\ m = l + (m - l)
  OBVIOUS
<1>3. Word * (l + (m - l)) = Word * l + Word * (m - l)
  BY <1>1, <1>2
<1>4. Word * l \in Nat /\ Word * (m - l) \in Nat
  BY <1>1, <1>2
<1> DEFINE x == Word * l
           y == Word * m
           z == Word * (m - l)
<1>5. x \in Nat /\ z \in Nat /\ y = x + z /\ u + y + p <= MaxBytes
  BY <1>2, <1>3, <1>4
<1> HIDE DEF x, y, z
<1>6. p + s + x <= MaxBytes
  BY <1>1, <1>5
<1>7. QED
  BY <1>6 DEF x

(* One more argument: with its length word it costs what the daemon adds.    *)
LEMMA OneMore ==
    ASSUME NEW s \in Seq(Nat), NEW p \in Nat, NEW n \in Nat
    PROVE  /\ p + Sum(s) + Word * Len(s) \in Nat
           /\ p + Sum(Append(s, n)) + Word * (Len(s) + 1) = p + Sum(s) + Word * Len(s) + Word + n
<1> DEFINE l == Len(s)
           x == Word * l
           y == Word * (l + 1)
           u == Sum(s)
           v == Sum(Append(s, n))
<1>1. Word \in Nat /\ l \in Nat
  BY LimitAssumption
<1>2. u \in Nat /\ v = u + n
  BY SumFacts
<1> HIDE DEF l
<1>3. x \in Nat /\ y = x + Word
  BY <1>1
<1> HIDE DEF x, y, u, v
<1>4. p + u + x \in Nat /\ p + v + y = p + u + x + Word + n
  BY <1>1, <1>2, <1>3
<1>5. QED
  BY <1>4 DEF x, y, u, v, l

(* g is the beginning of a, x what it has cost.  With the next length n the  *)
(* same holds of h, and the count passes the tests if all of a is within the *)
(* limits.                                                                   *)
Begun(g, a, p, x) ==
    /\ g \in Seq(Nat) /\ a \in Seq(Nat) /\ p \in Nat /\ Len(g) <= Len(a)
    /\ \A i \in 1..Len(g) : g[i] = a[i]
    /\ x = p + Sum(g) + Word * Len(g) /\ x <= MaxBytes
OneOn(g, a, p, x, n, h) ==
    /\ x \in Nat /\ Len(g) + 1 \in 1..Len(a) /\ n \in Nat /\ x + Word \in Nat
    /\ h \in Seq(Nat) /\ Len(h) = Len(g) + 1 /\ h[Len(g) + 1] = n
    /\ \A i \in 1..Len(g) : h[i] = g[i]
    /\ \A i \in 1..(Len(g) + 1) : h[i] = a[i]
    /\ x + Word + n = p + Sum(h) + Word * (Len(g) + 1)
    /\ Counted(x) = x + Word
    /\ (\A i \in DOMAIN a : a[i] # 0 /\ a[i] <= MaxArgLen)
       /\ Sum(a) + Word * Len(a) + p <= MaxBytes => ArgOk(n, x + Word)

(* From Begun to OneOn.                                                      *)
LEMMA NextLength ==
    ASSUME NEW g, NEW a, NEW p, NEW x, Begun(g, a, p, x), Len(g) < Len(a),
           NEW n, n = a[Len(g) + 1], NEW h, h = Append(g, n)
    PROVE  OneOn(g, a, p, x, n, h)
<1>0. /\ g \in Seq(Nat) /\ a \in Seq(Nat) /\ p \in Nat /\ x = p + Sum(g) + Word * Len(g)
         /\ x <= MaxBytes
      /\ \A i \in 1..Len(g) : g[i] = a[i]
  BY DEF Begun
<1>1. Word \in Nat /\ MaxBytes \in Nat
  BY LimitAssumption
<1>2. /\ Len(g) \in Nat /\ Len(a) \in Nat /\ Len(g) + 1 \in 1..Len(a) /\ Len(g) + 1 \in Nat
         /\ n \in Nat
      /\ Len(g) + 1 <= Len(a) /\ Len(g) + 1 \in DOMAIN a
  BY <1>0
<1>3. /\ h \in Seq(Nat) /\ Len(h) = Len(g) + 1 /\ h[Len(g) + 1] = n
      /\ \A i \in 1..Len(g) : h[i] = g[i]
  BY <1>0, <1>2
<1>4. \A i \in 1..(Len(g) + 1) : h[i] = a[i]
  <2>1. \A m \in Nat : \A i \in 1..(m + 1) : i = m + 1 \/ i \in 1..m
    OBVIOUS
  <2>2. \A i \in 1..(Len(g) + 1) : i = Len(g) + 1 \/ i \in 1..Len(g)
    BY <1>2, <2>1
  <2>3. QED
    BY <1>0, <1>3, <2>2
<1>5. x \in Nat /\ x + Word + n = p + Sum(h) + Word * (Len(g) + 1)
  BY <1>0, <1>2, OneMore
<1>6. x + Word \in Nat /\ Counted(x) = x + Word
  BY <1>0, <1>1, <1>5, NoOverflow, SMTT(40)
<1>7. ASSUME \A i \in DOMAIN a : a[i] # 0
      /\ a[i] <= MaxArgLen, Sum(a) + Word * Len(a) + p <= MaxBytes
      PROVE  ArgOk(n, x + Word)
  <2>1. n # 0 /\ n <= MaxArgLen
    BY <1>2, <1>7
  <2>2. Sum(h) <= Sum(a) /\ Sum(a) \in Nat /\ Sum(h) \in Nat
    BY <1>0, <1>2, <1>3, <1>4, SumFacts
  <2>3. p + Sum(h) + Word * (Len(g) + 1) <= MaxBytes
    BY <1>0, <1>2, <1>7, <2>2, PartFits
  <2>4. x + Word + n <= MaxBytes
    BY <1>5, <2>3
  <2>5. \A y \in Nat : y + n <= MaxBytes => y <= MaxBytes
    BY <1>1, <1>2
  <2>6. x + Word <= MaxBytes
    BY <1>6, <2>4, <2>5
  <2>7. QED
    BY <1>2, <1>6, <2>1, <2>4, <2>6, NoOverflow
<1>8. QED
  BY <1>2, <1>3, <1>4, <1>5, <1>6, <1>7 DEF OneOn

(* What is read of the arguments when the next length is due.                *)
LEMMA LengthFacts ==
    ASSUME Inv, NEW d \in Daemons, dpc[d] = "length"
    PROVE  /\ dpc[d] \in Reading /\ dpc[d] \in Serving \ {"deny"} /\ dpc[d] \in Serving
           /\ got[d].args \in Seq(Nat) /\ req[cur[d]].args \in Seq(Nat) /\ got[d].policy_len \in Nat
           /\ got[d].argc = Len(req[cur[d]].args) /\ Len(got[d].args) <= Len(req[cur[d]].args)
           /\ \A i \in 1..Len(got[d].args) : got[d].args[i] = req[cur[d]].args[i]
              /\ got[d].args[i] # 0
           /\ got[d].total = got[d].policy_len + Sum(got[d].args) + Word * Len(got[d].args)
           /\ got[d].total <= MaxBytes
           /\ Taken(d) = 2 + 2 * Len(got[d].args)
           /\ req[cur[d]].checked =>
                /\ \A i \in DOMAIN req[cur[d]].args :
                      req[cur[d]].args[i] # 0 /\ req[cur[d]].args[i] <= MaxArgLen
                /\ Sum(req[cur[d]].args) + Word * Len(req[cur[d]].args) + got[d].policy_len <= MaxBytes
<1>1. dpc[d] \in Reading /\ dpc[d] \in Serving /\ dpc[d] \in Serving \ {"deny"}
  BY DEF Reading, Serving
<1>2. ReadOK(d) /\ got[d].args \in Seq(Nat) /\ req[cur[d]].args \in Seq(Nat)
      /\ got[d].policy_len \in Nat
  BY <1>1, ReadingFacts
<1>3. ClientCheckOk(req[cur[d]])
  BY <1>1, ServedFacts
<1>4. Taken(d) = 2 + 2 * Len(got[d].args)
  BY DEF Taken
<1>5. Amount(d) = got[d].total
  BY DEF Amount
<1>6. req[cur[d]].command = "run" /\ got[d].policy_len = req[cur[d]].policy_len
  BY <1>2 DEF ReadOK
<1>7. req[cur[d]].checked =>
        /\ \A i \in DOMAIN req[cur[d]].args : req[cur[d]].args[i] # 0
           /\ req[cur[d]].args[i] <= MaxArgLen
        /\ Sum(req[cur[d]].args) + Word * Len(req[cur[d]].args) + got[d].policy_len <= MaxBytes
  BY <1>3, <1>6 DEF ClientCheckOk
<1>8. QED
  BY <1>1, <1>2, <1>4, <1>5, <1>7 DEF ReadOK

(* The length of an argument.                                                *)
LEMMA ReadLengthInv == ASSUME Inv, NEW d \in Daemons, ReadLength(d) PROVE Inv'
<1> USE DEF clientVars
<1> DEFINE c == cur[d]
           r == req[c]
           n == Head(stream[c])
<1>0. PICK g, a, x, p : g = got[d].args /\ a = r.args /\ x = got[d].total /\ p = got[d].policy_len
  OBVIOUS
<1> DEFINE t == Counted(x)
<1>1. dpc[d] = "length" /\ Len(g) < got[d].argc
  BY <1>0 DEF ReadLength
<1>2. /\ dpc[d] \in Reading /\ dpc[d] \in Serving \ {"deny"} /\ dpc[d] \in Serving
      /\ g \in Seq(Nat) /\ a \in Seq(Nat) /\ p \in Nat /\ got[d].argc = Len(a)
      /\ Len(g) <= Len(a) /\ \A i \in 1..Len(g) : g[i] = a[i] /\ g[i] # 0
      /\ x = p + Sum(g) + Word * Len(g) /\ x <= MaxBytes
      /\ Taken(d) = 2 + 2 * Len(g)
      /\ r.checked =>
           /\ \A i \in DOMAIN a : a[i] # 0 /\ a[i] <= MaxArgLen
           /\ Sum(a) + Word * Len(a) + p <= MaxBytes
  BY <1>0, <1>1, LengthFacts
<1>3. c \in Clients /\ r \in RequestType
  BY <1>2, ServedFacts
<1>4. ReadOK(d) /\ got[d] \in GotType
  BY <1>2, ReadingFacts
<1>b. PICK b, h : b = a[Len(g) + 1] /\ h = Append(g, b)
  OBVIOUS
<1>5. /\ x \in Nat /\ Len(g) + 1 \in 1..Len(a) /\ b \in Nat /\ x + Word \in Nat
      /\ h \in Seq(Nat) /\ Len(h) = Len(g) + 1 /\ h[Len(g) + 1] = b
      /\ \A i \in 1..Len(g) : h[i] = g[i]
      /\ \A i \in 1..(Len(g) + 1) : h[i] = a[i]
      /\ x + Word + b = p + Sum(h) + Word * (Len(g) + 1)
      /\ t = x + Word
      /\ (\A i \in DOMAIN a : a[i] # 0 /\ a[i] <= MaxArgLen)
         /\ Sum(a) + Word * Len(a) + p <= MaxBytes => ArgOk(b, x + Word)
  <2>1. Len(g) < Len(a)
    BY <1>1, <1>2
  <2>2. Begun(g, a, p, x)
    BY <1>2 DEF Begun
  <2>3. OneOn(g, a, p, x, b, h)
    BY <1>b, <2>1, <2>2, NextLength
  <2>4. QED
    BY <2>3 DEF OneOn
<1> DEFINE l == Len(g)
<1>6. Writes(r)[2 + 2 * l + 1] = <<b>> /\ Len(<<b>>) = 1 /\ <<b>>[1] = b /\ 2 + 2 * l \in Nat
      /\ l \in Nat
  <2>1. r.command = "run"
    BY <1>4 DEF ReadOK
  <2>2. \A k \in 1..Len(a) : Writes(r)[2 * k + 1] = <<a[k]>>
    BY <1>0, <1>3, <2>1, WritesFacts
  <2>3. Writes(r)[2 * (l + 1) + 1] = <<b>>
    BY <1>b, <1>5, <2>2
  <2>4. l \in Nat
    BY <1>2
  <2>5. \A m \in Nat : 2 * (m + 1) + 1 = 2 + 2 * m + 1 /\ 2 + 2 * m \in Nat
    OBVIOUS
  <2>6. QED
    BY <2>3, <2>4, <2>5
<1>7. ASSUME Readable(c, 1) PROVE n = b
  <2>0. PICK v, z : v = <<b>> /\ z = 2 + 2 * l
    OBVIOUS
  <2>1. z = Taken(d) /\ v = Writes(r)[z + 1] /\ Len(v) = 1 /\ v[1] = b
    BY <1>2, <1>6, <2>0
  <2>2. stream[c] \in Seq(Words)
    BY <1>2, ServedFacts
  <2>3. Head(stream[c]) = stream[c][1]
    BY <2>2
  <2>4. \A i \in 1..1 : stream[c][i] = Writes(r)[z + 1][i]
    <3>1. dpc[d] \in Serving /\ 1 \in Nat /\ 1 >= 1 /\ z = Taken(d) /\ Len(Writes(r)[z + 1]) = 1
      BY <1>2, <2>1
    <3>2. QED
      BY <1>7, <3>1, TakeWrite
  <2>5. QED
    BY <2>1, <2>3, <2>4
<1>8. CASE Ended(c, 1) /\ Answer(d, "EPIPE", "accept")
  BY <1>2, <1>8, AnswerInvariant DEF ReadLength, Ended
<1>9. CASE Readable(c, 1) /\ ~ArgOk(n, t) /\ Answer(d, "EINVAL", "accept")
  <2>1. ~r.checked
    BY <1>2, <1>5, <1>7, <1>9
  <2>2. Fits(c, "EINVAL")
    BY <2>1 DEF Fits, Answers
  <2>3. QED
    BY <1>2, <1>9, <2>2, AnswerInvariant DEF ReadLength
<1>10. CASE Answer(d, "ENOMEM", "accept")
  <2>1. Fits(c, "ENOMEM")
    BY DEF Fits, Answers
  <2>2. QED
    BY <1>2, <1>10, <2>1, AnswerInvariant DEF ReadLength
<1>11. ASSUME Readable(c, 1), Consume(c, 1), ArgOk(n, t),
              got' = [got EXCEPT ![d].args = Append(@, n), ![d].total = t],
              dpc' = [dpc EXCEPT ![d] = "arg"], UNCHANGED <<path, shared, cur, backlog, closed, reply>>
       PROVE  Inv'
  <2>0. PICK q : q = [got[d] EXCEPT !.args = h, !.total = x + Word]
    OBVIOUS
  <2> DEFINE z == 2 + 2 * l
  <2>1. n = b /\ t = x + Word
    BY <1>5, <1>7, <1>11
  <2>2. b # 0 /\ x + Word <= MaxBytes /\ x + Word + b <= MaxBytes
    <3>1. b \in Nat /\ x + Word \in Nat /\ ArgOk(b, x + Word)
      BY <1>5, <1>11, <2>1
    <3>2. QED
      BY <3>1, NoOverflow
  <2>3. q \in GotType /\ q.args = h /\ q.argc = got[d].argc /\ q.policy_len = p
        /\ q.total = x + Word
    <3>1. got[d] \in GotType /\ h \in Seq(Nat) /\ x + Word \in Nat /\ p = got[d].policy_len
      BY <1>0, <1>4, <1>5
    <3>2. q \in GotType /\ q.args = h /\ q.argc = got[d].argc /\ q.policy_len = got[d].policy_len
      BY <2>0, <3>1 DEF GotType
    <3>3. q.total = x + Word
      BY <2>0, <3>1 DEF GotType
    <3>4. QED
      BY <3>1, <3>2, <3>3
  <2>4. got' = [got EXCEPT ![d] = q]
    <3>1. got \in [Daemons -> GotType]
      BY DEF Inv, TypeInv
    <3>2. Append(g, n) = h
      BY <1>b, <2>1
    <3>3. got' = [got EXCEPT ![d] = [@ EXCEPT !.args = h, !.total = x + Word]]
      BY <1>0, <1>11, <2>1, <3>1, <3>2
    <3>4. QED
      BY <2>0, <3>3
  <2>5. dpc'[d] = "arg" /\ got'[d] = q /\ cur' = cur /\ req' = req
    BY <1>11, <2>4 DEF Inv, TypeInv, ReadLength
  <2>7. Taken(d)' = z + 1
    <3>1. Taken(d)' = 1 + 2 * (l + 1)
      BY <1>5, <2>5, <2>3 DEF Taken
    <3>2. QED
      BY <1>6, <3>1
  <2>8. ReadOK(d)'
    <3>1. Amount(d)' = x + Word + b
      BY <1>5, <2>5, <2>3 DEF Amount
    <3>2. \A i \in 1..(l + 1) : h[i] = a[i] /\ h[i] # 0
      <4>1. \A m \in Nat : \A i \in 1..(m + 1) : i = m + 1 \/ i \in 1..m
        OBVIOUS
      <4>2. \A i \in 1..(l + 1) : i = l + 1 \/ i \in 1..l
        BY <1>6, <4>1
      <4>3. QED
        BY <1>2, <1>5, <2>2, <4>2
    <3>3. l + 1 <= Len(a) /\ h # <<>>
      <4>1. Len(h) # 0
        BY <1>5, <1>6
      <4>2. Len(a) \in Nat
        BY <1>2
      <4>3. QED
        BY <1>5, <4>1, <4>2
    <3>4. /\ r.magic /\ r.command = "run" /\ HeaderOk(r)
          /\ got[d].argc = Len(a) /\ p = r.policy_len
      BY <1>0, <1>4 DEF ReadOK
    <3> HIDE DEF l
    <3>5. QED
      BY <1>0, <1>5, <2>2, <2>5, <2>3, <3>1, <3>2, <3>3, <3>4 DEF ReadOK, l
  <2>9. z = Taken(d) /\ Len(Writes(r)[z + 1]) = 1 /\ z \in Nat
    BY <1>2, <1>6
  <2>10. "arg" \in Reading /\ 1 \in Nat /\ 1 >= 1
    BY DEF Reading
  <2> HIDE DEF z
  <2>11. QED
    BY <1>2, <1>11, <2>3, <2>4, <2>7, <2>8, <2>9, <2>10, TakeInv DEF ReadLength
<1>12. QED
  BY <1>0, <1>8, <1>9, <1>10, <1>11 DEF ReadLength

(* The letters of an argument.                                               *)
LEMMA ReadArgInv == ASSUME Inv, NEW d \in Daemons, ReadArg(d) PROVE Inv'
<1> USE DEF clientVars
<1> DEFINE c == cur[d]
           r == req[c]
<1>0. PICK g, a, x, n : g = got[d].args /\ a = r.args /\ x = got[d].total /\ n = g[Len(g)]
  OBVIOUS
<1>1. dpc[d] = "arg" /\ dpc[d] \in Reading /\ dpc[d] \in Serving \ {"deny"} /\ dpc[d] \in Serving
  BY DEF ReadArg, Reading, Serving
<1>2. ReadOK(d) /\ got[d] \in GotType /\ g \in Seq(Nat) /\ a \in Seq(Nat) /\ x \in Nat
  BY <1>0, <1>1, ReadingFacts
<1>3. /\ r.command = "run" /\ g # <<>> /\ Len(g) <= Len(a)
      /\ \A i \in 1..Len(g) : g[i] = a[i] /\ g[i] # 0
      /\ x + n <= MaxBytes /\ Amount(d) = x + n
  BY <1>0, <1>1, <1>2 DEF ReadOK, Amount
<1>4. r \in RequestType
  BY <1>1, ServedFacts
<1> DEFINE l == Len(g)
<1>5. l \in Nat /\ l \in 1..l /\ l \in 1..Len(a) /\ n = a[l] /\ n \in Nat /\ n >= 1
  <2>1. l \in Nat /\ l \in 1..l /\ g[l] \in Nat
    BY <1>2, <1>3
  <2>2. Len(a) \in Nat
    BY <1>2
  <2>3. l \in 1..Len(a)
    BY <1>3, <2>1, <2>2
  <2>4. g[l] = a[l] /\ g[l] # 0
    BY <1>3, <2>1
  <2>5. QED
    BY <1>0, <2>1, <2>3, <2>4
<1> HIDE DEF l
<1>6. Len(Writes(r)[1 + 2 * l + 1]) = n /\ 1 + 2 * l \in Nat
  <2>1. Writes(r)[2 * l + 2] = Letters(n)
    BY <1>0, <1>3, <1>4, <1>5, WritesFacts
  <2>2. Len(Letters(n)) = n
    BY <1>5 DEF Letters
  <2>3. 1 + 2 * l + 1 = 2 * l + 2 /\ 1 + 2 * l \in Nat
    BY <1>5
  <2>4. QED
    BY <2>1, <2>2, <2>3
<1>7. CASE Ended(c, n) /\ Answer(d, "EPIPE", "accept")
  BY <1>1, <1>7, AnswerInvariant DEF ReadArg, Ended
<1>8. ASSUME Readable(c, n), Consume(c, n), got' = [got EXCEPT ![d].total = (@ + n) % Wrap],
             dpc' = [dpc EXCEPT ![d] = "length"],
             UNCHANGED <<path, shared, cur, backlog, closed, reply>>
      PROVE  Inv'
  <2>0. PICK q, z : q = [got[d] EXCEPT !.total = x + n] /\ z = 1 + 2 * l
    OBVIOUS
  <2>1. (x + n) % Wrap = x + n /\ x + n \in Nat
    <3>1. MaxBytes \in Nat /\ Word \in Nat /\ MaxArgLen \in Nat /\ Wrap \in Nat
          /\ MaxBytes + Word + MaxArgLen < Wrap
      BY LimitAssumption
    <3>2. x \in Nat /\ n \in Nat /\ x + n <= MaxBytes
      BY <1>2, <1>3, <1>5
    <3>3. x + n \in Nat /\ x + n < Wrap
      BY <3>1, <3>2
    <3>4. QED
      BY <3>1, <3>3, NoWrap
  <2>2. /\ q \in GotType /\ q.total = x + n
        /\ q.args = g /\ q.argc = got[d].argc /\ q.policy_len = got[d].policy_len
    <3>1. q \in GotType /\ q.args = got[d].args /\ q.argc = got[d].argc
          /\ q.policy_len = got[d].policy_len
      BY <1>2, <2>0, <2>1 DEF GotType
    <3>2. q.total = x + n
      BY <1>2, <2>0, <2>1 DEF GotType
    <3>3. QED
      BY <1>0, <3>1, <3>2
  <2>3. got' = [got EXCEPT ![d] = q]
    <3>1. got' = [got EXCEPT ![d] = [@ EXCEPT !.total = x + n]]
      BY <1>0, <1>8, <2>1
    <3>2. QED
      BY <2>0, <3>1
  <2>4. dpc'[d] = "length" /\ got'[d] = q /\ cur' = cur /\ req' = req
    BY <1>8, <2>3 DEF Inv, TypeInv, ReadArg
  <2>5. Taken(d)' = z + 1
    <3>1. Taken(d)' = 2 + 2 * l
      BY <2>2, <2>4 DEF Taken, l
    <3>2. QED
      BY <1>5, <2>0, <3>1
  <2>6. ReadOK(d)'
    <3>1. Amount(d)' = Amount(d)
      BY <1>3, <2>2, <2>4 DEF Amount
    <3>2. QED
      BY <1>0, <1>1, <1>2, <2>2, <2>4, <3>1 DEF ReadOK
  <2>7. z = Taken(d) /\ Len(Writes(r)[z + 1]) = n /\ z \in Nat
    <3>1. Taken(d) = 1 + 2 * l
      BY <1>0, <1>1 DEF Taken, l
    <3>2. QED
      BY <1>6, <2>0, <3>1
  <2>8. "length" \in Reading
    BY DEF Reading
  <2>9. QED
    BY <1>1, <1>5, <1>8, <2>2, <2>3, <2>5, <2>6, <2>7, <2>8, TakeInv DEF ReadArg
<1>9. QED
  BY <1>0, <1>7, <1>8 DEF ReadArg

(* A request that has been read to its end has been written to its end.      *)
LEMMA AllWritten ==
    ASSUME Inv, NEW d \in Daemons, dpc[d] \in {"length", "running"}, Len(got[d].args) = got[d].argc
    PROVE  cpc[cur[d]] # "write"
<1> DEFINE c == cur[d]
           r == req[c]
<1>1. dpc[d] \in Reading /\ dpc[d] \in Serving
  BY DEF Reading, Serving
<1>2. ReadOK(d) /\ Len(got[d].args) \in Nat
  BY <1>1, ReadingFacts
<1>3. r.command = "run" /\ Len(r.args) = Len(got[d].args)
  BY <1>2 DEF ReadOK
<1>4. r \in RequestType /\ sent[c] \in Nat /\ (cpc[c] = "write" => sent[c] < Len(Writes(r)))
  BY <1>1, ServedFacts
<1>5. Len(Writes(r)) = 2 + 2 * Len(got[d].args)
  BY <1>3, <1>4, WritesFacts
<1>6. Taken(d) = 2 + 2 * Len(got[d].args) /\ Taken(d) <= sent[c] /\ Taken(d) \in Nat
  BY <1>1, TakenSent DEF Taken
<1>7. \A t, s \in Nat : t <= s => ~(s < t)
  OBVIOUS
<1>8. QED
  BY <1>4, <1>5, <1>6, <1>7

(* The request is complete: it cannot be loaded, or it is run.               *)
LEMMA RunPolicyInv == ASSUME Inv, NEW d \in Daemons, RunPolicy(d) PROVE Inv'
<1> USE DEF clientVars, wireVars
<1> DEFINE c == cur[d]
           r == req[c]
<1>1. /\ dpc[d] = "length" /\ Len(got[d].args) = got[d].argc
      /\ dpc[d] \in Reading /\ dpc[d] \in Serving \ {"deny"} /\ dpc[d] \in Serving
  BY DEF RunPolicy, Reading, Serving
<1>2. cpc[c] # "write"
  BY <1>1, AllWritten
<1>3. CASE Answer(d, "load", "accept") /\ UNCHANGED ran
  <2>1. Fits(c, "load")
    BY <1>2 DEF Fits, Answers
  <2>2. QED
    BY <1>1, <1>3, <2>1, AnswerInvariant DEF RunPolicy
<1>4. ASSUME ran' = [ran EXCEPT ![c] = [policy_len |-> got[d].policy_len, args |-> got[d].args]],
             dpc' = [dpc EXCEPT ![d] = "running"], UNCHANGED <<path, shared, cur, got, backlog>>,
             UNCHANGED wireVars
      PROVE  Inv'
  <2>1. PICK what : what = [policy_len |-> got[d].policy_len, args |-> got[d].args]
    OBVIOUS
  <2>2. /\ ReadOK(d) /\ r.same_uid /\ got[d] \in GotType /\ got[d].args \in Seq(Nat)
        /\ got[d].policy_len \in Nat /\ r.args \in Seq(Nat)
    BY <1>1, ReadingFacts
  <2>3. what \in RanType /\ what.policy_len = got[d].policy_len /\ what.args = got[d].args
    BY <2>1, <2>2 DEF RanType
  <2>4. c \in Clients /\ stream[c] \in Seq(Words) /\ On(c, Taken(d))
    BY <1>1, ServedFacts
  <2>5. ran' = [ran EXCEPT ![c] = what] /\ ran'[c] = what
    BY <1>4, <2>1, <2>4 DEF Inv, TypeInv
  <2>6. dpc'[d] = "running" /\ got' = got /\ cur' = cur /\ req' = req /\ sent' = sent
        /\ stream' = stream
    BY <1>4 DEF Inv, TypeInv, RunPolicy
  <2>7. got[d].args = r.args
    <3>1. /\ Len(got[d].args) = Len(r.args)
             /\ \A i \in 1..Len(got[d].args) : got[d].args[i] = r.args[i]
      BY <1>1, <2>2 DEF ReadOK
    <3>2. QED
      BY <2>2, <3>1, SeqEqual
  <2>8. Sum(what.args) + Word * Len(what.args) + what.policy_len <= MaxBytes
    <3> DEFINE p == got[d].policy_len
               s == Sum(got[d].args)
               w == Word * Len(got[d].args)
    <3>1. p + s + w <= MaxBytes
      BY <1>1, <2>2 DEF ReadOK
    <3>2. p \in Nat /\ s \in Nat /\ w \in Nat
      <4>1. Word \in Nat /\ Len(got[d].args) \in Nat
        BY <2>2, LimitAssumption
      <4>2. \A m, n \in Nat : m * n \in Nat
        OBVIOUS
      <4>3. w \in Nat
        BY <4>1, <4>2
      <4>4. s \in Nat
        BY <2>2, SumFacts
      <4>5. QED
        BY <2>2, <4>3, <4>4
    <3> HIDE DEF p, s, w
    <3>3. s + w + p <= MaxBytes
      BY <3>1, <3>2
    <3>4. QED
      BY <2>3, <3>3 DEF p, s, w
  <2>9. RanOK(c)'
    BY <2>2, <2>3, <2>5, <2>6, <2>7, <2>8 DEF RanOK, ReadOK
  <2>10. what # None
    BY <2>3, NoneAssumption DEF RanType
  <2>11. ReadOK(d)' /\ Taken(d)' = Taken(d)
    BY <1>1, <2>2, <2>6 DEF ReadOK, Amount, Taken
  <2>12. On(c, Taken(d))'
    BY <2>4, <2>6, <2>11 DEF On
  <2>13. got' = [got EXCEPT ![d] = got[d]] /\ stream' = [stream EXCEPT ![c] = stream[c]]
    BY <2>4, <2>6 DEF Inv, TypeInv
  <2>14. Progress(d, "running", got[d], stream[c])
    BY <1>1, <1>4, <2>2, <2>3, <2>4, <2>5, <2>9, <2>10, <2>11, <2>12, <2>13
       DEF Progress, Reading, RunPolicy
  <2>15. QED
    BY <2>14, ProgressInv
<1>5. QED
  BY <1>3, <1>4 DEF RunPolicy

(* The workload has ended.                                                   *)
LEMMA RunEndsInv == ASSUME Inv, NEW d \in Daemons, RunEnds(d) PROVE Inv'
<1>1. dpc[d] = "running" /\ dpc[d] \in Reading /\ dpc[d] \in Serving
  BY DEF RunEnds, Reading, Serving
<1>2. ReadOK(d)
  BY <1>1, ReadingFacts
<1>3. Len(got[d].args) = got[d].argc
  BY <1>1, <1>2 DEF ReadOK
<1>4. cpc[cur[d]] # "write"
  BY <1>1, <1>3, AllWritten
<1>5. ran[cur[d]] # None
  BY <1>1 DEF Inv, AnswerInv
<1>6. Fits(cur[d], "ok")
  BY <1>4, <1>5 DEF Fits, Answers
<1>7. QED
  BY <1>1, <1>6, AnswerInvariant DEF RunEnds

---------------------------------------------------------------------------
(* The actions of a client.                                                  *)

Results == (Answers \ {"EPIPE"}) \cup {None, "local", "refused", "lost"}

(* A client that takes a step on its side only.                              *)
Moves(c, next, res) ==
    /\ next \in {"connect", "done", "killed", "sigpipe"}
       /\ cpc[c] \notin {"done", "killed", "sigpipe"}
    /\ cpc' = [cpc EXCEPT ![c] = next]
    /\ res \in Results /\ result' = [result EXCEPT ![c] = res] /\ (res = "ok" => reply[c] = "ok")
    /\ next = "connect" => cpc[c] = "check" /\ ClientCheckOk(req[c])
    /\ next = "done" => cpc[c] \in {"check", "connect"} \/ reply[c] # None \/ closed[c]
    /\ next = "killed" => cpc[c] \in {"write", "read"}
    /\ next = "sigpipe" => cpc[c] = "write" /\ closed[c]
    /\ UNCHANGED <<activated, ran, req, sent>> /\ UNCHANGED daemonVars /\ UNCHANGED wireVars

(* Such a step keeps the invariant.                                          *)
LEMMA MovesInv ==
    ASSUME Inv, NEW c \in Clients, NEW next, NEW res, Moves(c, next, res)
    PROVE  Inv'
<1> USE DEF daemonVars, wireVars
<1>1. /\ cpc'[c] = next /\ \A b \in Clients : b # c => cpc'[b] = cpc[b]
      /\ result'[c] = res /\ \A b \in Clients : b # c => result'[b] = result[b]
  BY DEF Inv, TypeInv, Moves
<1>2. /\ cpc' \in [Clients -> ClientStates]
      /\ result' \in [Clients -> Results]
  BY DEF Inv, TypeInv, Moves, ClientStates, Results
<1>3. TypeInv'
  BY <1>2 DEF Inv, TypeInv, Moves, Results
<1>4. PlaceInv'
  BY DEF Inv, PlaceInv, Moves, Waiting
<1>5. \A l, b : Waiting(l, b)' <=> Waiting(l, b)
  BY DEF Moves, Waiting
<1>6. CallInv'
  <2> SUFFICES ASSUME NEW b \in Clients PROVE CallOK(b)'
    BY DEF CallInv
  <2>1. CallOK(b)
    BY DEF Inv, CallInv
  <2>2. CASE b # c
    BY <1>1, <1>5, <2>1, <2>2 DEF CallOK, Moves
  <2>3. CASE b = c
    <3>1. next = "connect" => cpc[c] = "check"
      BY DEF Moves
    <3>2. next \in {"connect", "killed", "sigpipe"} => ClientCheckOk(req[c])
      BY <2>1, <2>3 DEF Moves, CallOK
    <3>3. next = "sigpipe" => closed[c]
      BY DEF Moves
    <3>4. next \in {"connect", "done", "killed", "sigpipe"}
      BY DEF Moves
    <3>5. QED
      BY <1>1, <1>5, <2>1, <2>3, <3>1, <3>2, <3>3, <3>4 DEF CallOK, Moves
  <2>4. QED
    BY <2>2, <2>3
<1>7. PeerInv'
  <2>1. ASSUME NEW d \in Daemons, cur[d] # None PROVE cpc'[cur[d]] \in {"write", "read", "killed"}
    <3>1. ~closed[cur[d]] /\ reply[cur[d]] = None /\ cpc[cur[d]] \in {"write", "read", "killed"}
      BY <2>1 DEF Inv, PeerInv
    <3>2. CASE cur[d] = c
      BY <1>1, <3>1, <3>2 DEF Moves
    <3>3. CASE cur[d] # c
      BY <1>1, <2>1, <3>1, <3>3 DEF Inv, TypeInv
    <3>4. QED
      BY <3>2, <3>3
  <2>2. ASSUME NEW l \in Listeners, NEW b \in Clients, Waiting(l, b), ~closed[b]
        PROVE  cpc'[b] \in {"write", "read", "killed"}
    <3>1. reply[b] = None /\ cpc[b] \in {"write", "read", "killed"}
      BY <2>2 DEF Inv, PeerInv
    <3>2. CASE b = c
      BY <1>1, <2>2, <3>1, <3>2 DEF Moves
    <3>3. CASE b # c
      BY <1>1, <3>1, <3>3
    <3>4. QED
      BY <3>2, <3>3
  <2>3. QED
    BY <1>5, <2>1, <2>2 DEF Inv, PeerInv, Moves
<1>8. FrameInv' /\ CountInv'
  <2>1. \A d \in Daemons : Taken(d)' = Taken(d) /\ CountOK(d)'
    BY SameDaemon DEF Inv, CountInv, Moves
  <2>2. \A b, a : On(b, a)' <=> On(b, a)
    BY DEF On, Moves
  <2>3. QED
    BY <1>5, <2>1, <2>2 DEF Inv, FrameInv, CountInv, Moves
<1>9. AnswerInv'
  <2>1. Excused' <=> Excused
    BY DEF Excused, Moves
  <2>2. ASSUME NEW b \in Clients PROVE AnswerOK(b)'
    <3>1. AnswerOK(b)
      BY DEF Inv, AnswerInv
    <3>2. RanOK(b)' <=> RanOK(b)
      BY DEF RanOK, Moves
    <3>3. result'[b] = "ok" => reply[b] = "ok"
      BY <1>1, <3>1 DEF AnswerOK, Moves
    <3>4. cpc'[b] \in {"write", "sigpipe"} => cpc[b] \in {"write", "sigpipe"}
      BY <1>1 DEF Moves
    <3>5. QED
      BY <2>1, <3>1, <3>2, <3>3, <3>4 DEF AnswerOK, Moves
  <2>3. \A b \in Clients : cpc[b] = "killed" => cpc'[b] = "killed"
    BY <1>1 DEF Moves
  <2>4. QED
    BY <2>2, <2>3 DEF Inv, AnswerInv, Moves
<1>10. QED
  BY <1>3, <1>4, <1>6, <1>7, <1>8, <1>9 DEF Inv

(* The test, the answer and the end of a client.                             *)
LEMMA ClientMoves ==
    ASSUME Inv, NEW c \in Clients, ClientCheck(c) \/ ClientRead(c) \/ ClientKilled(c)
    PROVE  Inv'
<1> USE DEF daemonVars, wireVars
<1>1. result[c] \in Results /\ result = [result EXCEPT ![c] = result[c]]
      /\ (result[c] = "ok" => reply[c] = "ok")
  BY DEF Inv, TypeInv, AnswerInv, AnswerOK, Results
<1>2. reply[c] # None => reply[c] \in Results
  BY DEF Inv, TypeInv, AnswerInv, AnswerOK, Results
<1>3. CASE ClientCheck(c)
  <2>1. \E next, res : Moves(c, next, res)
    <3>1. CASE ClientCheckOk(req[c])
      <4>1. Moves(c, "connect", result[c])
        BY <1>1, <1>3, <3>1 DEF ClientCheck, Moves
      <4>2. QED
        BY <4>1
    <3>2. CASE ~ClientCheckOk(req[c])
      <4>1. Moves(c, "done", "local")
        BY <1>3, <3>2 DEF ClientCheck, Moves, Results
      <4>2. QED
        BY <4>1
    <3>3. QED
      BY <3>1, <3>2
  <2>2. QED
    BY <2>1, MovesInv
<1>4. CASE ClientRead(c)
  <2> DEFINE res == IF reply[c] = None \/ (req[c].command = "status"
  /\ reply[c] # "ok") THEN "lost" ELSE reply[c]
  <2>1. res \in Results /\ (res = "ok" => reply[c] = "ok")
    BY <1>2 DEF Results
  <2>2. result' = [result EXCEPT ![c] = res]
    BY <1>4 DEF ClientRead
  <2> HIDE DEF res
  <2>3. Moves(c, "done", res)
    BY <1>4, <2>1, <2>2 DEF ClientRead, Moves
  <2>4. QED
    BY <2>3, MovesInv
<1>5. CASE ClientKilled(c)
  <2>1. Moves(c, "killed", result[c])
    BY <1>1, <1>5 DEF ClientKilled, Moves
  <2>2. QED
    BY <2>1, MovesInv
<1>6. QED
  BY <1>3, <1>4, <1>5

(* The client is last in line.                                               *)
LEMMA QueuedInv ==
    ASSUME Inv, NEW c \in Clients, cpc[c] = "connect", path \in Listeners, Len(backlog[path]) < Backlog,
           backlog' = [backlog EXCEPT ![path] = Append(@, c)],
           cpc' = [cpc EXCEPT ![c] = "write"],
           UNCHANGED <<activated, ran, req, sent, result, path, shared, dpc, cur, got>>,
           UNCHANGED wireVars
    PROVE  Inv'
<1> USE DEF wireVars
<1> DEFINE q == backlog[path]
<1>1. q \in Seq(Clients) /\ backlog \in [Listeners -> Seq(Clients)]
  BY DEF Inv, TypeInv
<1>2. /\ cpc'[c] = "write" /\ \A b \in Clients : b # c => cpc'[b] = cpc[b]
      /\ backlog'[path] = Append(q, c) /\ \A m \in Listeners : m # path => backlog'[m] = backlog[m]
  BY <1>1 DEF Inv, TypeInv
<1>3. /\ Len(q) \in Nat /\ Append(q, c) \in Seq(Clients) /\ Len(Append(q, c)) = Len(q) + 1
      /\ Append(q, c)[Len(q) + 1] = c /\ \A i \in 1..Len(q) : Append(q, c)[i] = q[i]
  BY <1>1
<1>4. CallOK(c) /\ AnswerOK(c)
  BY DEF Inv, CallInv, AnswerInv
<1>5. /\ ~closed[c] /\ reply[c] = None /\ sent[c] = 0 /\ stream[c] = <<>> /\ ClientCheckOk(req[c])
      /\ \A d \in Daemons : cur[d] # c
      /\ \A l \in Listeners : ~Waiting(l, c)
  BY <1>4 DEF CallOK
<1> HIDE DEF q
<1>6. ASSUME NEW m \in Listeners, NEW i \in 1..Len(backlog'[m])
      PROVE  \/ m = path /\ i = Len(q) + 1 /\ backlog'[m][i] = c
             \/ i \in 1..Len(backlog[m]) /\ backlog'[m][i] = backlog[m][i]
  <2>1. CASE m # path
    BY <1>2, <2>1
  <2>2. CASE m = path
    <3>1. i \in 1..(Len(q) + 1)
      BY <1>2, <1>3, <2>2
    <3>2. \A k \in Nat : \A j \in 1..(k + 1) : j = k + 1 \/ j \in 1..k
      OBVIOUS
    <3>3. i = Len(q) + 1 \/ i \in 1..Len(q)
      BY <1>3, <3>1, <3>2
    <3>4. QED
      BY <1>2, <1>3, <2>2, <3>3 DEF q
  <2>3. QED
    BY <2>1, <2>2
<1>7. \A m \in Listeners : \A b : Waiting(m, b)' => Waiting(m, b) \/ b = c
  BY <1>6 DEF Waiting
<1>8. TypeInv'
  <2>1. cpc' \in [Clients -> ClientStates]
    BY DEF Inv, TypeInv, ClientStates
  <2>2. backlog' \in [Listeners -> Seq(Clients)]
    BY <1>1, <1>3 DEF q
  <2>3. QED
    BY <2>1, <2>2 DEF Inv, TypeInv
<1>9. PlaceInv'
  <2>1. ASSUME NEW m \in Listeners PROVE Len(backlog'[m]) <= Backlog
    <3>1. CASE m = path
      <4>1. Backlog \in Nat /\ Len(q) < Backlog
        BY LimitAssumption DEF q
      <4>2. \A x, y \in Nat : x < y => x + 1 <= y
        OBVIOUS
      <4>3. QED
        BY <1>2, <1>3, <3>1, <4>1, <4>2
    <3>2. CASE m # path
      BY <1>2, <3>2 DEF Inv, PlaceInv
    <3>3. QED
      BY <3>1, <3>2
  <2>2. ASSUME NEW m \in Listeners, NEW k \in Listeners,
               NEW i \in 1..Len(backlog'[m]), NEW j \in 1..Len(backlog'[k]),
               backlog'[m][i] = backlog'[k][j]
        PROVE  m = k /\ i = j
    <3>1. \A l \in Listeners : \A h \in 1..Len(backlog[l]) : backlog[l][h] # c
      BY <1>5 DEF Waiting
    <3>2. CASE backlog'[m][i] = c
      <4>1. m = path /\ i = Len(q) + 1
        BY <1>6, <3>1, <3>2
      <4>2. k = path /\ j = Len(q) + 1
        BY <1>6, <2>2, <3>1, <3>2
      <4>3. QED
        BY <4>1, <4>2
    <3>3. CASE backlog'[m][i] # c
      <4>1. i \in 1..Len(backlog[m]) /\ backlog'[m][i] = backlog[m][i]
        BY <1>6, <3>3
      <4>2. j \in 1..Len(backlog[k]) /\ backlog'[k][j] = backlog[k][j]
        BY <1>6, <2>2, <3>3
      <4>3. backlog[m][i] = backlog[k][j]
        BY <2>2, <4>1, <4>2
      <4>4. QED
        BY <4>1, <4>2, <4>3 DEF Inv, PlaceInv
    <3>4. QED
      BY <3>2, <3>3
  <2>3. \A d \in Daemons, m \in Listeners : cur'[d] # None => ~Waiting(m, cur[d])'
    <3> SUFFICES ASSUME NEW d \in Daemons, NEW m \in Listeners, cur[d] # None, Waiting(m, cur[d])'
                 PROVE  FALSE
      OBVIOUS
    <3>1. PICK b : b = cur[d]
      OBVIOUS
    <3>2. Waiting(m, b)'
      BY <3>1 DEF Waiting
    <3>3. Waiting(m, b)
      BY <1>5, <1>7, <3>1, <3>2
    <3>4. QED
      BY <3>1, <3>3 DEF Inv, PlaceInv
  <2>4. QED
    BY <2>1, <2>2, <2>3 DEF Inv, PlaceInv
<1>10. CallInv'
  <2> SUFFICES ASSUME NEW b \in Clients PROVE CallOK(b)'
    BY DEF CallInv
  <2>1. CASE b = c
    <3>1. req[c] \in RequestType
      BY DEF Inv, TypeInv
    <3>2. Len(Writes(req[c])) \in Nat /\ 0 < Len(Writes(req[c]))
      <4>1. Len(req[c].args) \in Nat
        BY <3>1 DEF RequestType
      <4>2. QED
        BY <3>1, <4>1, WritesFacts
    <3>3. 0 <= Len(Writes(req[c]))
      BY <3>2
    <3>4. QED
      BY <1>2, <1>5, <2>1, <3>2, <3>3 DEF CallOK
  <2>2. CASE b # c
    <3>1. CallOK(b)
      BY DEF Inv, CallInv
    <3>2. \A l \in Listeners : Waiting(l, b)' => Waiting(l, b)
      BY <1>7, <2>2
    <3>3. QED
      BY <1>2, <2>2, <3>1, <3>2 DEF CallOK
  <2>3. QED
    BY <2>1, <2>2
<1>11. PeerInv'
  <2>1. \A d \in Daemons : cur[d] # None => cpc'[cur[d]] = cpc[cur[d]]
    BY <1>2, <1>5 DEF Inv, TypeInv
  <2>2. ASSUME NEW l \in Listeners, NEW b \in Clients, Waiting(l, b)'
        PROVE  /\ reply[b] = None
               /\ closed[b] => ~activated /\ l \in Daemons /\ dpc[l] \in Dead
               /\ ~closed[b] => cpc'[b] \in {"write", "read", "killed"}
    <3>1. CASE b = c
      BY <1>2, <1>5, <3>1
    <3>2. CASE b # c
      BY <1>2, <1>7, <2>2, <3>2 DEF Inv, PeerInv
    <3>3. QED
      BY <3>1, <3>2
  <2>3. QED
    BY <2>1, <2>2 DEF Inv, PeerInv
<1>12. \A d \in Daemons : Taken(d)' = Taken(d) /\ CountOK(d)'
  BY SameDaemon DEF Inv, CountInv
<1>13. FrameInv'
  <2>1. ASSUME NEW b, NEW a PROVE On(b, a)' <=> On(b, a)
    BY DEF On
  <2>2. On(c, 0)
    <3>1. req[c] \in RequestType
      BY DEF Inv, TypeInv
    <3>2. Len(Writes(req[c])) \in Nat /\ Ends(Words, Writes(req[c]), EndsOf(req[c]))
      BY <3>1, WritesFacts, EndsFacts
    <3>3. 0 \in 0..Len(Writes(req[c]))
      BY <3>2
    <3>4. Spells(<<>>, Writes(req[c]), EndsOf(req[c]), 0, 0)
      BY <3>2, <3>3, SpellsNone
    <3>5. QED
      BY <1>5, <3>4 DEF On
  <2>3. \A l \in Listeners, b \in Clients : Waiting(l, b)' /\ ~closed[b] => On(b, 0)
    BY <1>7, <2>2 DEF Inv, FrameInv
  <2>4. QED
    BY <1>12, <2>1, <2>3 DEF Inv, FrameInv
<1>14. AnswerInv'
  <2>1. Excused' <=> Excused
    BY DEF Excused
  <2>2. ASSUME NEW b \in Clients PROVE AnswerOK(b)'
    <3>1. AnswerOK(b)
      BY DEF Inv, AnswerInv
    <3>2. RanOK(b)' <=> RanOK(b)
      BY DEF RanOK
    <3>3. CASE b = c
      BY <1>5, <2>1, <3>1, <3>2, <3>3 DEF AnswerOK
    <3>4. CASE b # c
      BY <1>2, <2>1, <3>1, <3>2, <3>4 DEF AnswerOK
    <3>5. QED
      BY <3>3, <3>4
  <2>3. \A b \in Clients : cpc[b] = "killed" => cpc'[b] = "killed"
    BY <1>2
  <2>4. QED
    BY <2>2, <2>3 DEF Inv, AnswerInv
<1>15. QED
  BY <1>8, <1>9, <1>10, <1>11, <1>12, <1>13, <1>14 DEF Inv, CountInv

(* Connecting, or not.                                                       *)
LEMMA ClientConnectInv == ASSUME Inv, NEW c \in Clients, ClientConnect(c) PROVE Inv'
<1>1. CASE path = Systemd \/ path \in {d \in Daemons : Listening(d)}
  <2>1. path \in Listeners
    BY <1>1 DEF Listeners
  <2>2. QED
    BY <1>1, <2>1, QueuedInv DEF ClientConnect
<1>2. CASE ~(path = Systemd \/ path \in {d \in Daemons : Listening(d)})
  <2>1. Moves(c, "done", "refused")
    BY <1>2 DEF ClientConnect, Moves, Results, daemonVars
  <2>2. QED
    BY <2>1, MovesInv
<1>3. QED
  BY <1>1, <1>2

(* The next write of the client is on the connection.                        *)
LEMMA WrittenInv ==
    ASSUME Inv, NEW c \in Clients, cpc[c] = "write", ~closed[c],
           stream' = [stream EXCEPT ![c] = @ \o Writes(req[c])[sent[c] + 1]],
           sent' = [sent EXCEPT ![c] = @ + 1],
           cpc' = [cpc EXCEPT ![c] = IF sent'[c] = Len(Writes(req[c])) THEN "read" ELSE "write"],
           UNCHANGED <<activated, ran, req, result, closed, reply>>, UNCHANGED daemonVars
    PROVE  Inv'
<1> USE DEF daemonVars
<1> DEFINE w == Writes(req[c])
           b == sent[c]
           s == stream[c] \o w[b + 1]
           next == IF b + 1 = Len(w) THEN "read" ELSE "write"
<1>1. req[c] \in RequestType /\ b \in Nat /\ stream[c] \in Seq(Words) /\ CallOK(c) /\ AnswerOK(c)
  BY DEF Inv, TypeInv, CallInv, AnswerInv
<1>2. Len(w) \in Nat /\ Ends(Words, w, EndsOf(req[c])) /\ b < Len(w)
  BY <1>1, WritesFacts, EndsFacts DEF CallOK
<1>3. s \in Seq(Words)
  <2>1. b + 1 \in 1..Len(w)
    BY <1>1, <1>2
  <2>2. w[b + 1] \in Seq(Words)
    BY <1>2, <2>1 DEF Ends
  <2>3. QED
    BY <1>1, <2>2
<1> HIDE DEF w, s
<1>4. /\ stream'[c] = s /\ \A a \in Clients : a # c => stream'[a] = stream[a]
      /\ stream' \in [Clients -> Seq(Words)]
  <2>1. stream' = [stream EXCEPT ![c] = s]
    BY DEF s, w
  <2>2. QED
    BY <1>3, <2>1, ZenonT(40) DEF Inv, TypeInv
<1>5. /\ sent'[c] = b + 1 /\ \A a \in Clients : a # c => sent'[a] = sent[a]
      /\ sent' \in [Clients -> Nat]
  BY <1>1 DEF Inv, TypeInv
<1>6. /\ cpc'[c] = next /\ \A a \in Clients : a # c => cpc'[a] = cpc[a]
      /\ cpc' \in [Clients -> ClientStates] /\ next \in {"read", "write"}
  BY <1>5 DEF Inv, TypeInv, ClientStates, w
<1>7. TypeInv'
  BY <1>4, <1>5, <1>6 DEF Inv, TypeInv
<1>8. PlaceInv'
  BY DEF Inv, PlaceInv, Waiting
<1>9. \A l, a : Waiting(l, a)' <=> Waiting(l, a)
  BY DEF Waiting
<1>10. CallInv'
  <2> SUFFICES ASSUME NEW a \in Clients PROVE CallOK(a)'
    BY DEF CallInv
  <2>1. CASE a = c
    <3>1. b + 1 <= Len(w) /\ (next = "write" => b + 1 < Len(w)) /\ (next = "read" => b + 1 = Len(w))
      BY <1>1, <1>2
    <3>2. ClientCheckOk(req[c])
      BY <1>1 DEF CallOK
    <3> HIDE DEF next
    <3>3. QED
      BY <1>5, <1>6, <2>1, <3>1, <3>2 DEF CallOK, w
  <2>2. CASE a # c
    <3>1. CallOK(a)
      BY DEF Inv, CallInv
    <3>2. QED
      BY <1>4, <1>5, <1>6, <1>9, <2>2, <3>1 DEF CallOK
  <2>3. QED
    BY <2>1, <2>2
<1> HIDE DEF next
<1>11. PeerInv'
  <2>1. \A a \in Clients : cpc[a] \in {"write", "read", "killed"}
        => cpc'[a] \in {"write", "read", "killed"}
    BY <1>6
  <2>2. \A d \in Daemons : cur[d] # None => cur[d] \in Clients
    BY DEF Inv, TypeInv
  <2>3. QED
    BY <1>9, <2>1, <2>2 DEF Inv, PeerInv
<1>12. \A d \in Daemons : Taken(d)' = Taken(d) /\ CountOK(d)'
  BY SameDaemon DEF Inv, CountInv
<1>13. FrameInv'
  <2>1. ASSUME NEW a \in Nat, On(c, a) PROVE On(c, a)'
    <3>1. Spells(stream[c], w, EndsOf(req[c]), a, b)
      BY <2>1 DEF On, w
    <3>2. Spells(s, w, EndsOf(req[c]), a, b + 1)
      BY <1>1, <1>2, <3>1, SpellsMore DEF s
    <3>3. QED
      BY <1>4, <1>5, <3>2 DEF On, w
  <2>2. ASSUME NEW e \in Clients, NEW a \in Nat, On(e, a) PROVE On(e, a)'
    <3>1. CASE e = c
      BY <2>1, <2>2, <3>1
    <3>2. CASE e # c
      BY <1>4, <1>5, <2>2, <3>2 DEF On
    <3>3. QED
      BY <3>1, <3>2
  <2>3. ASSUME NEW d \in Daemons, cur[d] # None
        PROVE  cur[d] \in Clients /\ Taken(d) \in Nat /\ On(cur[d], Taken(d))
    <3>1. dpc[d] \in Serving
      BY <2>3 DEF Inv, PlaceInv
    <3>2. QED
      BY <3>1, ServedFacts, TakenSent
  <2>4. ASSUME NEW d \in Daemons, cur'[d] # None PROVE On(cur[d], Taken(d))'
    <3>1. PICK e, a : e = cur[d] /\ a = Taken(d)
      OBVIOUS
    <3>2. On(e, a)'
      BY <2>2, <2>3, <2>4, <3>1
    <3>3. cur'[d] = e /\ Taken(d)' = a
      BY <1>12, <3>1
    <3>4. QED
      BY <3>2, <3>3 DEF On
  <2>5. \A l \in Listeners, e \in Clients : Waiting(l, e)' /\ ~closed'[e] => On(e, 0)'
    BY <1>9, <2>2 DEF Inv, FrameInv
  <2>6. QED
    BY <2>4, <2>5 DEF FrameInv
<1>14. AnswerInv'
  <2>1. Excused' <=> Excused
    BY DEF Excused
  <2>2. ASSUME NEW a \in Clients PROVE AnswerOK(a)'
    <3>1. AnswerOK(a)
      BY DEF Inv, AnswerInv
    <3>2. RanOK(a)' <=> RanOK(a)
      BY DEF RanOK
    <3>3. CASE a = c
      BY <2>1, <3>1, <3>2, <3>3 DEF AnswerOK
    <3>4. CASE a # c
      BY <1>6, <2>1, <3>1, <3>2, <3>4 DEF AnswerOK
    <3>5. QED
      BY <3>3, <3>4
  <2>3. \A a \in Clients : cpc[a] = "killed" => cpc'[a] = "killed"
    BY <1>6
  <2>4. QED
    BY <2>2, <2>3 DEF Inv, AnswerInv
<1>15. QED
  BY <1>7, <1>8, <1>10, <1>11, <1>12, <1>13, <1>14 DEF Inv, CountInv

(* Writing, or the end of the client.                                        *)
LEMMA ClientWriteInv == ASSUME Inv, NEW c \in Clients, ClientWrite(c) PROVE Inv'
<1>1. CASE closed[c]
  <2>1. result[c] \in Results /\ result = [result EXCEPT ![c] = result[c]]
        /\ (result[c] = "ok" => reply[c] = "ok")
    BY DEF Inv, TypeInv, AnswerInv, AnswerOK, Results
  <2>2. Moves(c, "sigpipe", result[c])
    BY <1>1, <2>1 DEF ClientWrite, Moves, daemonVars, wireVars
  <2>3. QED
    BY <2>2, MovesInv
<1>2. CASE ~closed[c]
  BY <1>2, WrittenInv DEF ClientWrite
<1>3. QED
  BY <1>1, <1>2

---------------------------------------------------------------------------
(* The invariant of the specification.                                       *)

(* Before anything has happened: nobody is started, nothing is written.      *)
LEMMA InitInv == Init => Inv
<1> SUFFICES ASSUME Init PROVE Inv
  OBVIOUS
<1>1. TypeInv
  <2>1. req \in [Clients -> RequestType] /\ \A c \in Clients : req[c].checked => req[c].magic
        /\ req[c].command # "unknown"
    BY AskingAssumption DEF Init
  <2>2. got \in [Daemons -> GotType]
    <3>1. Nothing \in GotType
      BY DEF Nothing, GotType
    <3>2. QED
      BY <3>1 DEF Init
  <2>3. stream \in [Clients -> Seq(Words)] /\ backlog \in [Listeners -> Seq(Clients)]
    <3>1. <<>> \in Seq(Words) /\ <<>> \in Seq(Clients)
      OBVIOUS
    <3>2. QED
      BY <3>1 DEF Init
  <2>4. path \in Listeners \cup {None}
    BY DEF Init, Listeners
  <2>5. QED
    BY <2>1, <2>2, <2>3, <2>4 DEF Init, TypeInv, States, ClientStates
<1>2. \A l \in Listeners : Len(backlog[l]) = 0
  BY DEF Init
<1>3. \A l \in Listeners : \A c : ~Waiting(l, c)
  BY <1>2 DEF Waiting
<1>4. \A d \in Daemons : cur[d] = None /\ dpc[d] = "off" /\ got[d] = Nothing
  BY DEF Init
<1>5. PlaceInv
  <2>1. 0 <= Backlog
    BY LimitAssumption
  <2>2. QED
    BY <1>2, <1>3, <1>4, <2>1 DEF PlaceInv, Serving
<1>6. CallInv
  <2>1. ASSUME NEW c \in Clients PROVE CallOK(c)
    <3>1. 0 <= Len(Writes(req[c]))
      BY <1>1, WritesFacts DEF TypeInv
    <3>2. \A d \in Daemons : cur[d] # c
      BY <1>4, NoneAssumption
    <3>3. QED
      BY <1>3, <3>1, <3>2 DEF Init, CallOK
  <2>2. QED
    BY <2>1 DEF CallInv
<1>7. PeerInv /\ FrameInv
  BY <1>3, <1>4 DEF PeerInv, FrameInv
<1>8. CountInv
  BY <1>4 DEF CountInv, CountOK, Serving, Reading
<1>9. AnswerInv
  BY <1>4, NoneAssumption DEF Init, AnswerInv, AnswerOK, Answers
<1>10. QED
  BY <1>1, <1>5, <1>6, <1>7, <1>8, <1>9 DEF Inv

(* Every step, and stuttering, keeps the invariant.                          *)
LEMMA NextInv == Inv /\ [Next]_vars => Inv'
<1> SUFFICES ASSUME Inv, [Next]_vars PROVE Inv'
  OBVIOUS
<1>1. ASSUME NEW d \in Daemons,
             Serve(d) \/ Start(d) \/ ListenPathFails(d) \/ GiveUp(d) \/ DaemonKilled(d)
      PROVE  Inv'
  <2>1. CASE \/ Start(d) \/ UnlinkPath(d) \/ BindPath(d) \/ ListenPath(d) \/ ListenPathFails(d)
             \/ GiveUp(d)
    BY <2>1, StartsInv
  <2>2. CASE Exit(d) \/ DaemonKilled(d)
    BY <2>2, EndsInv
  <2>3. CASE Accept(d)
    BY <2>3, AcceptInv
  <2>4. CASE Deny(d)
    BY <2>4, DenyInv
  <2>5. CASE ReadHeader(d)
    BY <2>5, ReadHeaderInv
  <2>6. CASE ReadPolicy(d)
    BY <2>6, ReadPolicyInv
  <2>7. CASE ReadLength(d)
    BY <2>7, ReadLengthInv
  <2>8. CASE ReadArg(d)
    BY <2>8, ReadArgInv
  <2>9. CASE RunPolicy(d)
    BY <2>9, RunPolicyInv
  <2>10. CASE RunEnds(d)
    BY <2>10, RunEndsInv
  <2>11. QED
    BY <1>1, <2>1, <2>2, <2>3, <2>4, <2>5, <2>6, <2>7, <2>8, <2>9, <2>10 DEF Serve
<1>2. ASSUME NEW c \in Clients, Call(c) \/ ClientKilled(c) PROVE Inv'
  BY <1>2, ClientMoves, ClientConnectInv, ClientWriteInv DEF Call
<1>3. CASE UNCHANGED vars
  <2> USE <1>3 DEF vars
  <2>1. TypeInv' /\ PlaceInv' /\ PeerInv' /\ CallInv'
    BY DEF Inv, TypeInv, PlaceInv, PeerInv, CallInv, CallOK, Waiting
  <2>2. \A d \in Daemons : Taken(d)' = Taken(d) /\ CountOK(d)'
    BY SameDaemon DEF Inv, CountInv
  <2>3. FrameInv'
    <3>1. \A c, a : On(c, a)' <=> On(c, a)
      BY DEF On
    <3>2. QED
      BY <2>2, <3>1 DEF Inv, FrameInv, Waiting
  <2>4. AnswerInv'
    BY DEF Inv, AnswerInv, AnswerOK, RanOK, Excused
  <2>5. QED
    BY <2>1, <2>2, <2>3, <2>4 DEF Inv, CountInv
<1>4. QED
  BY <1>1, <1>2, <1>3 DEF Next

(* The invariant holds in every state.                                       *)
LEMMA SpecInv == Spec => []Inv
<1>1. QED
  BY InitInv, NextInv, PTL DEF Spec

(* The types of daemons, clients and connections; in particular the count of *)
(* a request never exceeds LANDLOCKD_DAEMON_MAX_REQUEST_BYTES while it is    *)
(* read, and a client writes no more than its request.                       *)
THEOREM TypeCorrect == Spec => []TypeOK
<1>1. Inv => TypeOK
  <2> SUFFICES ASSUME Inv PROVE TypeOK
    OBVIOUS
  <2>1. ASSUME NEW d \in Daemons PROVE got[d].total \in 0..MaxBytes /\ Len(got[d].args) <= MaxArgs
    <3>0. MaxBytes \in Nat /\ MaxArgs \in Nat
      BY LimitAssumption
    <3>1. CASE dpc[d] \notin Reading
      <4>1. got[d] = Nothing
        BY <3>1 DEF Inv, CountInv, CountOK
      <4>2. got[d].total = 0 /\ Len(got[d].args) = 0
        BY <4>1 DEF Nothing
      <4>3. QED
        BY <3>0, <4>2
    <3>2. CASE dpc[d] \in Reading
      <4>1. /\ ReadOK(d) /\ got[d].args \in Seq(Nat) /\ Len(got[d].args) \in Nat
               /\ got[d].total \in Nat
            /\ Len(req[cur[d]].args) \in Nat
        BY <3>2, ReadingFacts
      <4>2. Len(got[d].args) <= Len(req[cur[d]].args) /\ Len(req[cur[d]].args) <= MaxArgs
        BY <3>0, <4>1 DEF ReadOK, HeaderOk
      <4>3. Len(got[d].args) <= MaxArgs
        BY <3>0, <4>1, <4>2
      <4>4. Amount(d) <= MaxBytes /\ (dpc[d] = "arg" => got[d].args # <<>>)
        BY <4>1 DEF ReadOK
      <4>5. got[d].total <= MaxBytes
        <5>1. CASE dpc[d] # "arg"
          BY <4>4, <5>1 DEF Amount
        <5>2. CASE dpc[d] = "arg"
          <6>1. got[d].args[Len(got[d].args)] \in Nat
            BY <4>1, <4>4, <5>2
          <6>2. got[d].total + got[d].args[Len(got[d].args)] <= MaxBytes
            BY <4>4, <5>2 DEF Amount
          <6>3. \A x, y, z \in Nat : x + y <= z => x <= z
            OBVIOUS
          <6>4. QED
            BY <3>0, <4>1, <6>1, <6>2, <6>3
        <5>3. QED
          BY <5>1, <5>2
      <4>6. QED
        BY <3>0, <4>1, <4>3, <4>5
    <3>3. QED
      BY <3>1, <3>2
  <2>2. ASSUME NEW d \in Daemons
        PROVE  dpc[d] \in States /\ cur[d] \in Clients \cup {None}
        /\ (cur[d] # None <=> dpc[d] \in Serving)
    BY DEF Inv, TypeInv, PlaceInv
  <2>3. ASSUME NEW c \in Clients PROVE sent[c] \in 0..Len(Writes(req[c]))
    <3>1. req[c] \in RequestType /\ sent[c] \in Nat /\ sent[c] <= Len(Writes(req[c]))
      BY DEF Inv, TypeInv, CallInv, CallOK
    <3>2. Len(Writes(req[c])) \in Nat
      BY <3>1, WritesFacts
    <3>3. QED
      BY <3>1, <3>2
  <2>4. \A l \in Listeners : Len(backlog[l]) <= Backlog
    BY DEF Inv, PlaceInv
  <2>5. QED
    BY <2>1, <2>2, <2>3, <2>4 DEF Inv, TypeInv, TypeOK, States, Serving, ClientStates
<1>2. QED
  BY <1>1, SpecInv, PTL

(* What runs for a client is what that client asked for, every argument of   *)
(* it, within the limits and for the same user; and a client that is told    *)
(* success had its workload run: the two sides agree where each write ends.  *)
THEOREM AlwaysDelivered == Spec => []Delivered
<1>1. Inv => Delivered
  <2> SUFFICES ASSUME Inv, NEW c \in Clients
               PROVE  /\ ran[c] # None => RanOK(c)
                      /\ result[c] = "ok" /\ req[c].command = "run" => ran[c] # None
    BY DEF Delivered, RanOK
  <2>1. QED
    BY DEF Inv, AnswerInv, AnswerOK
<1>2. QED
  BY <1>1, SpecInv, PTL

(* The two sides count alike: a request that passes the client's own limits  *)
(* is never refused for its size by the daemon, whatever the limits are.     *)
THEOREM LimitsAlwaysAgree == Spec => []LimitsAgree
<1>1. Inv => LimitsAgree
  BY DEF Inv, AnswerInv, AnswerOK, LimitsAgree
<1>2. QED
  BY <1>1, SpecInv, PTL

(* SIGPIPE ends a daemon only after a client was killed, and a client whose  *)
(* request is in order only after a daemon ended or was out of memory.       *)
THEOREM LeaversOnly == Spec => []OnlyLeaversHurt
<1>1. Inv => OnlyLeaversHurt
  <2> SUFFICES ASSUME Inv PROVE OnlyLeaversHurt
    OBVIOUS
  <2>1. (\E d \in Daemons : dpc[d] = "sigpipe") => \E c \in Clients : cpc[c] = "killed"
    BY DEF Inv, AnswerInv
  <2>2. ASSUME NEW c \in Clients, cpc[c] = "sigpipe", req[c].checked, req[c].same_uid PROVE Excused
    BY <2>2 DEF Inv, CallInv, CallOK, AnswerInv, AnswerOK
  <2>3. QED
    BY <2>1, <2>2 DEF OnlyLeaversHurt, Excused, Dead
<1>2. QED
  BY <1>1, SpecInv, PTL
=============================================================================
