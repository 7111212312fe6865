----------------------------- MODULE PolicyStore -----------------------------
(* What the daemon promises a client that asks it to run a policy file: the  *)
(* policy it runs is what the file held at some moment of the request.       *)
(* There is no cache here; PolicyCache is shown to implement this module.    *)
CONSTANTS
    Files,        \* policy file names
    Contents,     \* what a policy file may hold
    Valid,        \* the contents the loader accepts
    None          \* no file, no policy

VARIABLES
    content,      \* what each file holds now
    phase,        \* where the daemon is with its one request
    file,         \* the file of the request
    policy        \* the policy being run

vars == <<content, phase, file, policy>>

Init ==
    /\ content \in [Files -> Contents \cup {None}]
    /\ phase = "idle"
    /\ file \in Files
    /\ policy = None

Begin(f) ==
    /\ phase = "idle" /\ phase' = "load"
    /\ file' = f
    /\ UNCHANGED <<content, policy>>

(* The one moment at which the request looks at the file. *)
Look(f) ==
    /\ content[f] \in Valid
    /\ policy' = content[f]
    /\ file' = f
    /\ phase' = "run"
    /\ UNCHANGED content

Read == phase = "load" /\ Look(file)
BeginAndRead(f) == phase = "idle" /\ Look(f)

Fail(f) ==
    /\ phase = "idle" \/ (phase = "load" /\ f = file)
    /\ phase' = "failed"
    /\ file' = f
    /\ UNCHANGED <<content, policy>>

Answer ==
    /\ phase \in {"run", "failed"} /\ phase' = "idle"
    /\ policy' = None
    /\ UNCHANGED <<content, file>>

Stop ==
    /\ phase = "idle" /\ phase' = "stopped"
    /\ UNCHANGED <<content, file, policy>>

(* Users edit, replace and remove policy files at any time. *)
Edit(f, c) ==
    /\ content' = [content EXCEPT ![f] = c]
    /\ UNCHANGED <<phase, file, policy>>

Next ==
    \/ \E f \in Files :
        Begin(f) \/ BeginAndRead(f) \/ Fail(f) \/ \E c \in Contents \cup {None} : Edit(f, c)
    \/ Read \/ Answer \/ Stop

Spec == Init /\ [][Next]_vars
=============================================================================
