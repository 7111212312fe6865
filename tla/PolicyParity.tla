---------------------------- MODULE PolicyParity ----------------------------
(* The in-process loader beside the Rust helper, the schema and the wire     *)
(* format: what a document that is accepted turns into, whoever accepts it.  *)
EXTENDS PolicyFile, PolicyHelperRs, PolicySchema

(* Types of the caller's state, and a position within the document           *)
(* (landlock_policy_loader_in_process.c).                                    *)
TypeOK ==
    /\ DOMAIN out_ir = Sections /\ DOMAIN copy = Sections
    /\ pc \in {"idle", "load", "reset", "copy"}
    /\ section \in 1..(Len(Order) + 1)
    /\ item \in Nat
    /\ pc = "load" => item <= (IF section <= Len(Order) THEN Len(Items(Order[section])) ELSE 0)
    /\ result \in {"none", "loaded", "copied", "EINVAL", "open", "refused", "ENOMEM", "internal"}

(* The IR a caller sees between two calls is nothing or one whole document,  *)
(* never a prefix and never a document on top of another, whichever entry    *)
(* was refused, whichever allocation failed and however often the same IR    *)
(* was passed again (load_root's failure path, line 1251; the emptiness      *)
(* test, line 1202).                                                         *)
WholeDocument ==
    pc \in {"idle", "copy"} =>
        \/ out_ir = EmptyIr
        \/ \A s \in Sections :
              /\ DOMAIN out_ir[s] = DOMAIN Items(s)
              /\ \A i \in DOMAIN Items(s) : out_ir[s][i] = Entry(s, Items(s)[i])

(* A copy is complete or nothing (landlockd_policy_ir_copy): a run never     *)
(* starts with a policy from which the rules of a later section are missing. *)
CopyComplete == pc \in {"idle", "load"} => copy \in {EmptyIr, out_ir}

(* A document the Rust helper accepts and that gives every struct as a table *)
(* is accepted by the in-process loader, and both make the same IR of it:    *)
(* going from the Rust helper to the C helper neither refuses such a policy  *)
(* nor changes what it means.  The other way may refuse it (empty broker     *)
(* lists, sections of another type); and of an array for a struct, which     *)
(* serde takes, the C helper makes something else or nothing.                *)
HelpersAgree ==
    Keyed(root) /\ HelperAccepts(root) =>
        /\ result \notin {"refused", "internal"}
        /\ pc = "load" /\ section > Len(Order) => out_ir = HelperIr(root, EPERM)

(* The checks of landlock_policy_loader_in_process.c are enough for those    *)
(* that read its result: no landlockd_policy_ir_add_ function refuses what   *)
(* was checked, so "internal error" is an allocation that failed; and what   *)
(* the wire reader insists on (src/src/landlock_policy_loader.c,             *)
(* load_ir_from_wire) holds of every IR handed out, otherwise a policy that  *)
(* loads in process would be refused when it comes from the helper.          *)
WireReady ==
    /\ result # "internal"
    /\ pc = "idle" =>
        /\ \A s \in {"net", "seccomp", "root", "cwd"} : Len(out_ir[s]) <= 1
        /\ out_ir["net_rule"] # <<>> => out_ir["net"] # <<>>
        /\ out_ir["deny"] # <<>> <=> out_ir["seccomp"] # <<>>
        /\ \A i \in DOMAIN out_ir["seccomp"] : out_ir["seccomp"][i] \in Errnos
        /\ \A i \in DOMAIN out_ir["net_rule"] : out_ir["net_rule"][i].port \in Ports
        /\ \A i \in DOMAIN out_ir["addfd"] : out_ir["addfd"][i].action \in AddfdActions
        /\ \A i \in DOMAIN out_ir["fs_layer"] :
              LET layer == out_ir["fs_layer"][i] IN
              layer.handled # {} /\ \A j \in DOMAIN layer.rules :
                  layer.rules[j].access # {} /\ layer.rules[j].path # ""

(* policy/landlockd.schema.json, line 5: "The loader ... enforces the same   *)
(* constraints against the parsed TOML tree."  What it has loaded conforms.  *)
SchemaEnforced == result = "loaded" /\ pc = "idle" => Conforms(root)
=============================================================================
