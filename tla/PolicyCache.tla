----------------------------- MODULE PolicyCache -----------------------------
(* The daemon's policy cache: landlockd_daemon_cache_get_policy in           *)
(* src/src/landlockd_daemon.c and what it calls.  The daemon serves one      *)
(* request at a time, but a policy file may be edited between the stat that  *)
(* stamps an entry and the load that fills it.                               *)
EXTENDS Naturals, Sequences

CONSTANTS
    Files,        \* policy file names clients ask for
    Contents,     \* what a policy file may hold
    Valid,        \* the contents landlockd_policy_load_file accepts
    None,         \* no file, no name, no policy
    MaxEntries,   \* LANDLOCKD_DAEMON_MAX_CACHE_ENTRIES
    MaxEdits,     \* bound on the edits explored
    MaxRequests   \* bound on the policies served

ASSUME CacheAssumption ==
    /\ Valid \subseteq Contents
    /\ None \notin Contents /\ None \notin Files
    /\ MaxEntries \in Nat \ {0}
    /\ MaxEdits \in Nat /\ MaxRequests \in Nat

VARIABLES
    disk,          \* for each file, what it holds and its stamp
    edits,         \* edits so far: the last stamp given out
    cache,         \* the entries, cache_head first
    cache_entries, \* the counters of struct landlockd_daemon_state
    cache_hits,
    cache_misses,
    pc,            \* where the daemon is with its one request
    file,          \* policy_file of the request
    st,            \* the stamp stat returned
    slot,          \* the entry being reloaded in place, 0 for a new entry
    ir             \* out_ir: the policy being run

cacheVars == <<cache, cache_entries, cache_hits, cache_misses>>
vars == <<disk, edits, cacheVars, pc, file, st, slot, ir>>

(* struct landlockd_daemon_cache_entry.  The stamp stands for dev, ino, size *)
(* and mtime.                                                                *)
Entry == [policy_file : Files \cup {None}, stamp : Nat, ir : Contents \cup {None}]

(* landlockd_daemon_cache_entry_reset: the entry stays in the list, without  *)
(* a name.                                                                   *)
ResetEntry == [policy_file |-> None, stamp |-> 0, ir |-> None]

TypeOK ==
    /\ disk \in [Files -> [stamp : Nat, content : Contents \cup {None}]]
    /\ edits \in 0..MaxEdits
    /\ cache \in Seq(Entry)
    /\ cache_entries \in Nat /\ cache_hits \in Nat /\ cache_misses \in Nat
    /\ pc \in {"idle", "load", "run", "failed", "stopped"}
    /\ file \in Files
    /\ st \in Nat
    /\ slot \in Nat
    /\ ir \in Contents \cup {None}

Init ==
    /\ disk \in [Files -> [stamp : {0}, content : Contents \cup {None}]]
    /\ edits = 0
    /\ cache = <<>> /\ cache_entries = 0 /\ cache_hits = 0 /\ cache_misses = 0
    /\ pc = "idle"
    /\ file \in Files
    /\ st = 0 /\ slot = 0 /\ ir = None

---------------------------------------------------------------------------
(* Mutant: only the size is compared, which an edit may well keep.           *)
StatMatchesSize(e, s) == TRUE

(* landlockd_daemon_cache_stat_matches *)
StatMatches(e, s) == e.stamp = s

(* Mutant: an entry with another stamp is skipped instead of reloaded.       *)
NamedFresh(f) ==
    {i \in DOMAIN cache : cache[i].policy_file = f /\ cache[i].stamp = disk[f].stamp}

(* The entries that carry the name.  The search stops at the first one.      *)
Named(f) == {i \in DOMAIN cache : cache[i].policy_file = f}
First(f, i) == i \in Named(f) /\ \A j \in Named(f) : i <= j

(* Mutant: the limit is off by one.                                          *)
FullOffByOne == cache_entries > MaxEntries
Full == cache_entries >= MaxEntries

(* Mutant: the early return for a cache with room is missing.                *)
EvictTailAlways ==
    /\ cache' = IF cache = <<>> THEN <<>> ELSE SubSeq(cache, 1, Len(cache) - 1)
    /\ cache_entries' = cache_entries - 1

(* landlockd_daemon_cache_evict_tail *)
EvictTail ==
    IF Full /\ cache # <<>>
    THEN /\ cache' = SubSeq(cache, 1, Len(cache) - 1)
         /\ cache_entries' = cache_entries - 1
    ELSE UNCHANGED <<cache, cache_entries>>

(* stat fails: no such file. *)
StatFails(f) ==
    /\ pc = "idle" /\ disk[f].content = None
    /\ pc' = "failed" /\ file' = f
    /\ UNCHANGED <<disk, edits, cacheVars, st, slot, ir>>

Hit(f) ==
    /\ pc = "idle" /\ disk[f].content # None
    /\ \E i \in DOMAIN cache :
        /\ First(f, i)
        /\ StatMatches(cache[i], disk[f].stamp)
        /\ ir' = cache[i].ir
    /\ cache_hits' = cache_hits + 1
    /\ pc' = "run" /\ file' = f
    /\ UNCHANGED <<disk, edits, cache, cache_entries, cache_misses, st, slot>>

(* The file has changed: its entry is reset, to be reloaded in place. *)
Stale(f) ==
    /\ pc = "idle" /\ disk[f].content # None
    /\ \E i \in DOMAIN cache :
        /\ First(f, i)
        /\ ~StatMatches(cache[i], disk[f].stamp)
        /\ cache' = [cache EXCEPT ![i] = ResetEntry]
        /\ slot' = i
    /\ pc' = "load" /\ file' = f /\ st' = disk[f].stamp
    /\ UNCHANGED <<disk, edits, cache_entries, cache_hits, cache_misses, ir>>

(* No entry carries the name: room is made before anything is loaded. The    *)
(* allocation of the new entry may fail.                                     *)
Miss(f) ==
    /\ pc = "idle" /\ disk[f].content # None
    /\ Named(f) = {}
    /\ EvictTail
    /\ pc' \in {"load", "failed"}
    /\ file' = f /\ st' = disk[f].stamp /\ slot' = 0
    /\ UNCHANGED <<disk, edits, cache_hits, cache_misses, ir>>

(* landlockd_daemon_cache_load_entry: the file as it is now, under the stamp *)
(* taken before.                                                             *)
Load ==
    /\ pc = "load" /\ disk[file].content \in Valid
    /\ LET e == [policy_file |-> file, stamp |-> st, ir |-> disk[file].content]
       IN  IF slot = 0
           THEN cache' = <<e>> \o cache /\ cache_entries' = cache_entries + 1
           ELSE cache' = [cache EXCEPT ![slot] = e] /\ UNCHANGED cache_entries
    /\ cache_misses' = cache_misses + 1
    /\ ir' = disk[file].content
    /\ pc' = "run"
    /\ UNCHANGED <<disk, edits, cache_hits, file, st, slot>>

(* The file is gone or rejected, or memory is short: a new entry is freed, a *)
(* reset one stays in the list without a name.                               *)
LoadFails ==
    /\ pc = "load" /\ pc' = "failed"
    /\ UNCHANGED <<disk, edits, cacheVars, file, st, slot, ir>>

(* The workload has ended, or the request has failed: the client is told. *)
Answer ==
    /\ pc \in {"run", "failed"} /\ pc' = "idle"
    /\ ir' = None
    /\ UNCHANGED <<disk, edits, cacheVars, file, st, slot>>

(* A stop request, or accept fails: landlockd_daemon_cache_cleanup. *)
Stop ==
    /\ pc = "idle" /\ pc' = "stopped"
    /\ cache' = <<>> /\ cache_entries' = 0
    /\ UNCHANGED <<disk, edits, cache_hits, cache_misses, file, st, slot, ir>>

(* A user edits, replaces or removes a policy file; the stamp of the new     *)
(* version is one the file never had.                                        *)
Edit(f, c) ==
    /\ edits < MaxEdits
    /\ edits' = edits + 1
    /\ disk' = [disk EXCEPT ![f] = [stamp |-> edits + 1, content |-> c]]
    /\ UNCHANGED <<cacheVars, pc, file, st, slot, ir>>

Request(f) ==
    /\ cache_hits + cache_misses < MaxRequests
    /\ StatFails(f) \/ Hit(f) \/ Stale(f) \/ Miss(f)

Next ==
    \/ \E f \in Files : Request(f) \/ \E c \in Contents \cup {None} : Edit(f, c)
    \/ Load \/ LoadFails \/ Answer \/ Stop

Spec == Init /\ [][Next]_vars

---------------------------------------------------------------------------
(* Properties.                                                               *)

(* cache_entries counts the list, whatever mix of hits, reloads, failed      *)
(* reloads and evictions came before, and the list keeps to its limit.       *)
Accounting == cache_entries = Len(cache) /\ cache_entries <= MaxEntries

(* No two entries carry the same name: an older version can never hide       *)
(* behind or in front of a newer one.                                        *)
UniqueNames ==
    \A i, j \in DOMAIN cache :
        cache[i].policy_file = cache[j].policy_file /\ cache[i].policy_file # None => i = j

(* The cache cannot be told from reading the file at every request: an edit  *)
(* between stat and load, a failed reload, an eviction or a hit long after   *)
(* never makes the daemon run a policy the file did not hold at some moment  *)
(* of the request (landlockd_daemon_cache_get_policy).                       *)
Store == INSTANCE PolicyStore WITH
    content <- [f \in Files |-> disk[f].content], phase <- pc, policy <- ir
Transparent == Store!Spec
=============================================================================
