----------------------------- MODULE PathBroker -----------------------------
(* The broker's path requests (src/src/landlockd_exec.c): openat, mkdirat,   *)
(* unlinkat, renameat2, symlinkat and linkat, decided on canonical paths     *)
(* against the policy's read, write, scratch, export and addfd lists.        *)
(*                                                                           *)
(* The filesystem is a set of numbered nodes; a directory maps names to      *)
(* nodes, a symbolic link holds a path, from the root or from the directory  *)
(* the link is in.  The workload plants links, moves directories and names   *)
(* paths through them.  The broker serves one request at a time and is the   *)
(* only one to change these directories, so a handler is one action; a       *)
(* request that is denied or fails changes nothing and is not an action,     *)
(* but for a file created and not handed over.                               *)
EXTENDS Naturals, Sequences, FiniteSets

CONSTANTS
    Nodes,         \* node numbers 1..n
    Names,         \* names of directory entries
    Up,            \* ".."
    Requested,     \* the paths of directories that requests name
    LinkTargets,   \* what symbolic links hold: [absolute, path]
    InitKind,      \* the filesystem as the run finds it
    InitEntry,
    Protected,     \* its nodes that are in no scratch or export root
    ReadPaths,     \* broker.open.read, canonical; likewise the next three
    WritePaths,
    ScratchPaths,
    ExportPaths,
    AddFd,         \* broker.addfd: [action, target, mode]
    MaxFollow,     \* links realpath follows before it gives up (ELOOP)
    MaxHanded      \* bound on descriptors handed out

None == 0
Root == 1
Modes == {"read", "write"}

ASSUME PathsAssumption ==
    /\ Nodes \subseteq Nat \ {None} /\ Root \in Nodes
    /\ Up \notin Names
    /\ Requested \subseteq Seq(Names \cup {Up})
    /\ LinkTargets \subseteq [absolute : BOOLEAN, path : Seq(Names \cup {Up})]
    /\ ReadPaths \cup WritePaths \cup ScratchPaths \cup ExportPaths \subseteq Seq(Names)
    /\ InitKind \in [Nodes -> {"free", "dir", "file", "link"}]
    /\ InitEntry \in [Nodes -> [Names -> Nodes \cup {None}]]
    /\ MaxFollow \in Nat /\ MaxHanded \in Nat

(* The directory that entry n of directory d is, or None.                    *)
DirIn(k, e, d, n) ==
    IF d # None /\ e[d][n] # None /\ k[e[d][n]] = "dir" THEN e[d][n] ELSE None

(* The directory at a canonical path, no link on the way, or None.           *)
AtIn(k, e, path) ==
    LET node[i \in 0..Len(path)] ==
            IF i = 0 THEN Root ELSE DirIn(k, e, node[i - 1], path[i])
    IN node[Len(path)]

Parents(p) == SubSeq(p, 1, Len(p) - 1)

(* A protected node is reached through protected directories alone.          *)
ASSUME ProtectedAssumption ==
    /\ IsFiniteSet(Nodes)
    /\ Root \in Protected /\ Protected \subseteq Nodes
    /\ \A d \in Protected : InitKind[d] # "free"
    /\ \A d \in Protected \ {Root} : \E p \in Nodes, n \in Names : InitEntry[p][n] = d
    /\ \A d \in Nodes \ Protected, n \in Names : InitEntry[d][n] \notin Protected
    /\ \A r \in ScratchPaths \cup ExportPaths : AtIn(InitKind, InitEntry, r) \notin Protected

(* An export root is a directory of its own in a protected one: no scratch   *)
(* root is the same directory, holds it or holds another name of it.         *)
ASSUME ExportAssumption ==
    \A p \in ExportPaths :
        LET x == AtIn(InitKind, InitEntry, p) IN
        /\ p # <<>> /\ x # None
        /\ AtIn(InitKind, InitEntry, Parents(p)) \in Protected
        /\ \A d \in Nodes \ Protected, n \in Names : InitEntry[d][n] # x
        /\ \A r \in ScratchPaths : AtIn(InitKind, InitEntry, r) # x

VARIABLES
    kind,          \* what each node is
    entry,         \* the entries of each directory
    target,        \* where each symbolic link points
    handed         \* the descriptors handed to the workload

vars == <<kind, entry, target, handed>>

TypeOK ==
    /\ kind \in [Nodes -> {"free", "dir", "file", "link"}]
    /\ entry \in [Nodes -> [Names -> Nodes \cup {None}]]
    /\ target \in [Nodes -> LinkTargets \cup {<<>>}]
    /\ handed \subseteq [node : Nodes, mode : Modes]

Init ==
    /\ kind = InitKind
    /\ entry = InitEntry
    /\ target = [x \in Nodes |-> <<>>]
    /\ handed = {}

---------------------------------------------------------------------------
(* Paths.                                                                    *)

Parent(d) ==
    IF d = Root THEN Root ELSE CHOOSE p \in Nodes : \E n \in Names : entry[p][n] = d

(* Where the walk of a link's target starts, for a link in directory d.      *)
Start(d, t) == IF t.absolute THEN Root ELSE d

(* The directory that realpath reaches from a directory, or None.            *)
Reach[d \in Nodes \cup {None}, path \in Seq(Names \cup {Up}), follow \in Nat] ==
    IF path = <<>> \/ d = None THEN d
    ELSE IF Head(path) = Up THEN Reach[Parent(d), Tail(path), follow]
    ELSE LET x == entry[d][Head(path)] IN
         IF x = None THEN None
         ELSE IF kind[x] = "dir" THEN Reach[x, Tail(path), follow]
         ELSE IF kind[x] = "link" /\ follow > 0
              THEN Reach[Start(d, target[x]), target[x].path \o Tail(path), follow - 1]
         ELSE None

Canonical(path) == Reach[Root, path, MaxFollow]

(* Where a file is: its directory and its name there, or nowhere.            *)
Nowhere == [dir |-> None, name |-> None]
Place(d) ==
    IF d \in {None, Root} THEN Nowhere
    ELSE [dir |-> Parent(d), name |-> CHOOSE n \in Names : entry[Parent(d)][n] = d]

(* realpath of the last component too: where the named file is.              *)
Final[d \in Nodes \cup {None}, n \in Names, follow \in Nat] ==
    LET x == IF d = None THEN None ELSE entry[d][n] IN
    IF x = None THEN Nowhere
    ELSE IF kind[x] # "link" THEN [dir |-> d, name |-> n]
    ELSE IF follow = 0 THEN Nowhere
    ELSE LET from == Start(d, target[x])
             path == target[x].path
         IN IF path = <<>> \/ path[Len(path)] = Up
            THEN Place(Reach[from, path, follow - 1])
            ELSE Final[Reach[from, Parents(path), follow - 1], path[Len(path)], follow - 1]

At(path) == AtIn(kind, entry, path)

(* A directory and all directories above it.                                 *)
Above(d) ==
    LET up[k \in 0..Cardinality(Nodes)] ==
            IF k = 0 THEN {d}
            ELSE LET below == up[k - 1] IN
                 IF Root \in below THEN below ELSE below \cup {Parent(x) : x \in below}
    IN up[Cardinality(Nodes)]

(* landlockd_broker_path_under_list: d is one of the roots or below one.     *)
Under(roots, d) == \E r \in roots : At(r) \in Above(d)

(* Entry n of directory d is the canonical path p.                           *)
IsPath(p, d, n) == p # <<>> /\ At(Parents(p)) = d /\ p[Len(p)] = n

(* landlockd_broker_path_in_list *)
InList(paths, d, n) == \E p \in paths : IsPath(p, d, n)

(* landlockd_broker_is_allowed *)
IsAllowed(d, n, mode) ==
    \/ InList(WritePaths, d, n)
    \/ mode = "read" /\ InList(ReadPaths, d, n)

(* landlockd_broker_addfd_allowed: a rule without a mode covers both.        *)
AddFdAllowed(action, d, n, mode) ==
    \E r \in AddFd :
        /\ r.action = action
        /\ r.mode \in {mode, "any"}
        /\ Under({r.target}, d) \/ IsPath(r.target, d, n)

(* Mutant: the path is compared as the workload wrote it.                    *)
ScratchParentAsWritten(path) ==
    IF \E r \in ScratchPaths : Len(r) <= Len(path) /\ SubSeq(path, 1, Len(r)) = r
    THEN Canonical(path) ELSE None

(* landlockd_resolve_tracee_parent, then the check of the parent: the        *)
(* directory a request may change, or None.                                  *)
ScratchParent(path) ==
    LET d == Canonical(path) IN IF d \in Nodes /\ Under(ScratchPaths, d) THEN d ELSE None

(* Rename and link may also put things into an export root.                  *)
NewParent(path) ==
    LET d == Canonical(path)
    IN IF d \in Nodes /\ Under(ScratchPaths \cup ExportPaths, d) THEN d ELSE None

(* Mutant: what is moved may come from an export root too.                   *)
OldParentExport(path) == NewParent(path)

(* What they put there comes from a scratch root.                            *)
OldParent(path) == ScratchParent(path)

---------------------------------------------------------------------------
(* Requests.                                                                 *)

Free(x) == kind[x] = "free" /\ \A y \in Nodes : y < x => kind[y] # "free"

(* A new node of some kind appears as entry n of d. *)
Create(d, n, x, k, t) ==
    /\ Free(x)
    /\ kind' = [kind EXCEPT ![x] = k]
    /\ entry' = [entry EXCEPT ![d][n] = x]
    /\ target' = [target EXCEPT ![x] = t]

(* landlockd_broker_handle_mkdir_request *)
Mkdir(path, n) ==
    LET d == ScratchParent(path) IN
    /\ d # None /\ entry[d][n] = None
    /\ \E x \in Nodes : Create(d, n, x, "dir", <<>>)
    /\ UNCHANGED handed

(* landlockd_broker_handle_symlink_request: the target is not looked at. *)
Symlink(path, n, t) ==
    LET d == ScratchParent(path) IN
    /\ d # None /\ entry[d][n] = None
    /\ \E x \in Nodes : Create(d, n, x, "link", t)
    /\ UNCHANGED handed

Empty(x) == \A n \in Names : entry[x][n] = None

(* landlockd_broker_handle_unlink_request, with AT_REMOVEDIR or without. *)
Unlink(path, n) ==
    LET d == ScratchParent(path) IN
    /\ d # None /\ entry[d][n] # None
    /\ kind[entry[d][n]] = "dir" => Empty(entry[d][n])
    /\ entry' = [entry EXCEPT ![d][n] = None]
    /\ UNCHANGED <<kind, target, handed>>

(* What renameat2 lets a node replace: nothing, a non-directory by a         *)
(* non-directory, an empty directory by a directory.                         *)
MayReplace(x, y) ==
    y # None => /\ y # x
                /\ kind[x] = "dir" <=> kind[y] = "dir"
                /\ kind[y] = "dir" => Empty(y)

(* landlockd_broker_handle_rename_request.  A directory does not go below    *)
(* itself.                                                                   *)
Rename(path, n, newPath, m) ==
    LET d == OldParent(path)
        e == NewParent(newPath)
        x == entry[d][n]
    IN /\ d # None /\ x # None /\ e # None
       /\ MayReplace(x, entry[e][m])
       /\ x \notin Above(e)
       /\ entry' = [entry EXCEPT ![d][n] = None, ![e][m] = x]
       /\ UNCHANGED <<kind, target, handed>>

(* landlockd_broker_handle_link_request: a link to a symbolic link is to the *)
(* link itself.                                                              *)
Link(path, n, newPath, m) ==
    LET d == OldParent(path)
        e == NewParent(newPath)
        x == entry[d][n]
    IN /\ d # None /\ x # None /\ e # None
       /\ kind[x] # "dir" /\ entry[e][m] = None
       /\ entry' = [entry EXCEPT ![e][m] = x]
       /\ UNCHANGED <<kind, target, handed>>

(* Mutant: what openat returned is not looked at.                            *)
HandUnchecked(x, mode) == handed' = handed \cup {[node |-> None, mode |-> mode]}

(* landlockd_broker_reply_addfd *)
Hand(x, mode) ==
    /\ Cardinality(handed) < MaxHanded
    /\ handed' = handed \cup {[node |-> x, mode |-> mode]}

(* O_NOFOLLOW: a symbolic link cannot be opened; a directory only to read.   *)
Openable(x, mode) ==
    x # None /\ (kind[x] = "file" \/ (kind[x] = "dir" /\ mode = "read"))

(* Mutant: O_NOFOLLOW is missing.                                            *)
ScratchOpenedFollowing(d, n, mode, create) ==
    LET f == Final[d, n, MaxFollow] IN
    /\ f # Nowhere /\ Openable(entry[f.dir][f.name], mode)
    /\ Hand(entry[f.dir][f.name], mode) /\ UNCHANGED <<kind, entry, target>>

(* openat of the last component in its parent, with O_CREAT or without.  A   *)
(* file that was created stays when it cannot be handed over.                *)
ScratchOpened(d, n, mode, create) ==
    \/ /\ Openable(entry[d][n], mode)
       /\ Hand(entry[d][n], mode)
       /\ UNCHANGED <<kind, entry, target>>
    \/ /\ entry[d][n] = None /\ create
       /\ \E x \in Nodes :
             Create(d, n, x, "file", <<>>) /\ (Hand(x, mode) \/ UNCHANGED handed)

(* landlockd_broker_handle_scratch_open *)
ScratchOpen(path, n, mode, create) ==
    LET d == ScratchParent(path) IN
    /\ d # None
    /\ AddFdAllowed("scratch_open", d, n, mode)
    /\ ScratchOpened(d, n, mode, create)

(* landlockd_broker_handle_open_request.  Creating is for scratch roots      *)
(* only; otherwise the exceptions come first, and the path must exist.       *)
Open(path, n, mode, create) ==
    LET f == Final[Canonical(path), n, MaxFollow] IN
    \/ /\ create
       /\ ScratchPaths # {} /\ ScratchOpen(path, n, mode, create)
    \/ /\ ~create /\ f.dir # None
       /\ ~IsAllowed(f.dir, f.name, mode)
       /\ ScratchPaths # {} /\ ScratchOpen(path, n, mode, create)
    \/ /\ ~create /\ f.dir # None
       /\ IsAllowed(f.dir, f.name, mode)
       /\ AddFdAllowed("open", f.dir, f.name, mode)
       /\ Openable(entry[f.dir][f.name], mode)
       /\ Hand(entry[f.dir][f.name], mode)
       /\ UNCHANGED <<kind, entry, target>>

(* What rename and link both ask of the old path is asked once here, before  *)
(* the new ones are tried.                                                   *)
Next ==
    \E path \in Requested, n \in Names :
        \/ Mkdir(path, n)
        \/ \E t \in LinkTargets : Symlink(path, n, t)
        \/ Unlink(path, n)
        \/ /\ OldParent(path) # None /\ entry[OldParent(path)][n] # None
           /\ \E newPath \in Requested, m \in Names :
                 Rename(path, n, newPath, m) \/ Link(path, n, newPath, m)
        \/ \E mode \in Modes, create \in BOOLEAN : Open(path, n, mode, create)

Spec == Init /\ [][Next]_vars

---------------------------------------------------------------------------
(* Properties.                                                               *)

(* Whatever links the workload plants and whichever paths it takes through   *)
(* them, no directory outside the scratch and export roots ever changes:     *)
(* landlockd_resolve_tracee_parent follows the links before the parent is    *)
(* compared, and the last component is never followed.                       *)
Untouched == \A d \in Protected : entry[d] = InitEntry[d] /\ kind[d] = InitKind[d]

(* A descriptor of a file outside the roots was declared for that access,    *)
(* whether the path names it, leads to it through links, or once led to      *)
(* something else.                                                           *)
OpenDeclared ==
    \A h \in handed : h.node \in Protected =>
        \E p \in WritePaths \cup (IF h.mode = "read" THEN ReadPaths ELSE {}) :
            \E d \in Protected, n \in Names : IsPath(p, d, n) /\ entry[d][n] = h.node

(* What has been published stays published: no request empties an entry of   *)
(* an export root (it may be replaced by a later rename).                    *)
PublishedStays ==
    [][\A p \in ExportPaths, n \in Names :
         entry[At(p)][n] # None => entry'[At(p)][n] # None]_vars
=============================================================================
