------------------------- MODULE PolicyCacheProofs -------------------------
(* Proofs about PolicyCache: for any files, contents and cache size, the     *)
(* cache is invisible.                                                       *)
EXTENDS PolicyCache, SequenceTheorems, TLAPS

(* Stamps are never from the future, so a new version never matches one.     *)
PastStamps ==
    /\ \A f \in Files : disk[f].stamp <= edits
    /\ \A i \in DOMAIN cache : cache[i].stamp <= edits
    /\ st <= edits

(* An entry with a file's current stamp holds what the file holds.           *)
Coherent ==
    \A i \in DOMAIN cache : cache[i].policy_file # None =>
        /\ cache[i].ir \in Valid
        /\ cache[i].stamp = disk[cache[i].policy_file].stamp =>
                cache[i].ir = disk[cache[i].policy_file].content

(* Between stat and load no entry carries the name, and there is room.       *)
Pending ==
    pc = "load" =>
        /\ \A i \in DOMAIN cache : cache[i].policy_file # file
        /\ slot = 0 => cache_entries < MaxEntries
        /\ slot # 0 => slot \in DOMAIN cache /\ cache[slot].policy_file = None

IInv == TypeOK /\ Accounting /\ UniqueNames /\ PastStamps /\ Coherent /\ Pending

---------------------------------------------------------------------------
(* Inserting at the head of a list shifts the others by one.                 *)
LEMMA HeadInsert ==
  ASSUME NEW S, NEW s \in Seq(S), NEW e \in S
  PROVE  /\ <<e>> \o s \in Seq(S)
         /\ DOMAIN (<<e>> \o s) = 1..(Len(s) + 1)
         /\ Len(<<e>> \o s) = Len(s) + 1
         /\ (<<e>> \o s)[1] = e
         /\ \A i \in 2..(Len(s) + 1) : (<<e>> \o s)[i] = s[i - 1] /\ i - 1 \in DOMAIN s
  OBVIOUS

(* Dropping the tail of a list leaves the others where they are.             *)
LEMMA DropTail ==
  ASSUME NEW S, NEW s \in Seq(S), s # <<>>
  PROVE  /\ SubSeq(s, 1, Len(s) - 1) \in Seq(S)
         /\ Len(SubSeq(s, 1, Len(s) - 1)) = Len(s) - 1
         /\ DOMAIN SubSeq(s, 1, Len(s) - 1) = 1..(Len(s) - 1)
         /\ \A i \in 1..(Len(s) - 1) :
                SubSeq(s, 1, Len(s) - 1)[i] = s[i] /\ i \in DOMAIN s
  <1> DEFINE n == Len(s) - 1
  <1>1. n \in Nat /\ DOMAIN s = 1..Len(s) /\ \A i \in 1..n : i \in 1..Len(s) /\ s[i] \in S
    BY EmptySeq, LenProperties
  <1>2. /\ SubSeq(s, 1, n) \in Seq(S)
        /\ Len(SubSeq(s, 1, n)) = (IF 1 <= n THEN n - 1 + 1 ELSE 0)
        /\ \A i \in 1..(n - 1 + 1) : SubSeq(s, 1, n)[i] = s[1 + i - 1]
    <2> HIDE DEF n
    <2> QED
      BY <1>1, SubSeqProperties
  <1>3. Len(SubSeq(s, 1, n)) = n /\ \A i \in 1..n : SubSeq(s, 1, n)[i] = s[i]
    BY <1>1, <1>2
  <1>4. DOMAIN SubSeq(s, 1, n) = 1..n
    BY <1>2, <1>3, LenProperties
  <1> QED
    BY <1>1, <1>2, <1>3, <1>4

(* Replacing an entry in place changes only that entry.                      *)
LEMMA Replace ==
  ASSUME NEW S, NEW s \in Seq(S), NEW k \in DOMAIN s, NEW e \in S
  PROVE  /\ [s EXCEPT ![k] = e] \in Seq(S)
         /\ Len([s EXCEPT ![k] = e]) = Len(s)
         /\ DOMAIN [s EXCEPT ![k] = e] = DOMAIN s
         /\ [s EXCEPT ![k] = e][k] = e
         /\ \A i \in DOMAIN s \ {k} : [s EXCEPT ![k] = e][i] = s[i]
  OBVIOUS

---------------------------------------------------------------------------
(* The initial state satisfies the inductive invariant.                      *)
LEMMA InitInv == Init => IInv
  BY CacheAssumption
  DEF Init, IInv, TypeOK, Accounting, UniqueNames, PastStamps, Coherent, Pending, Entry

(* The fields of an entry have their types.                                  *)
LEMMA EntryTypes ==
  ASSUME TypeOK, NEW i \in DOMAIN cache
  PROVE  /\ cache[i].policy_file \in Files \cup {None}
         /\ cache[i].stamp \in Nat
         /\ cache[i].ir \in Contents \cup {None}
  <1>1. cache[i] \in Entry
    BY DEF TypeOK
  <1> QED
    BY <1>1 DEF Entry

(* An edit keeps the inductive invariant: the new stamp is in no entry.      *)
LEMMA EditInv ==
  ASSUME IInv, NEW f \in Files, NEW c \in Contents \cup {None}, Edit(f, c)
  PROVE  IInv'
  <1> USE CacheAssumption DEF Edit, IInv, cacheVars
  <1>1. TypeOK'
    BY DEF TypeOK
  <1>2. (Accounting /\ UniqueNames /\ Pending)'
    BY DEF Accounting, UniqueNames, Pending
  <1>3. /\ edits \in Nat /\ edits' = edits + 1
        /\ \A g \in Files : disk[g].stamp \in Nat
        /\ \A g \in Files \ {f} : disk'[g] = disk[g]
        /\ disk'[f].stamp = edits + 1
    BY DEF TypeOK
  <1>4. PastStamps'
    <2>1. \A g \in Files : disk'[g].stamp <= edits'
      BY <1>3 DEF PastStamps
    <2>2. \A i \in DOMAIN cache : cache[i].stamp <= edits'
      BY <1>3, EntryTypes DEF PastStamps
    <2>3. st' <= edits'
      BY <1>3 DEF PastStamps, TypeOK
    <2> QED
      BY <2>1, <2>2, <2>3 DEF PastStamps
  <1>5. Coherent'
    <2> SUFFICES ASSUME NEW i \in DOMAIN cache, cache[i].policy_file # None
                 PROVE  /\ cache[i].ir \in Valid
                        /\ cache[i].stamp = disk'[cache[i].policy_file].stamp =>
                                cache[i].ir = disk'[cache[i].policy_file].content
      BY DEF Coherent
    <2>1. cache[i].policy_file \in Files /\ cache[i].stamp \in Nat /\ cache[i].stamp <= edits
      BY EntryTypes DEF PastStamps
    <2> QED
      BY <1>3, <2>1 DEF Coherent
  <1> QED
    BY <1>1, <1>2, <1>4, <1>5

(* A request that finds the file gone, or its entry current, keeps it.       *)
LEMMA ServeInv ==
  ASSUME IInv, NEW f \in Files, StatFails(f) \/ Hit(f)
  PROVE  IInv'
  <1> USE DEF IInv, StatFails, Hit, cacheVars
  <1>1. TypeOK'
    <2>1. CASE StatFails(f)
      BY <2>1 DEF TypeOK
    <2>2. CASE Hit(f)
      <3>1. ir' \in Contents \cup {None}
        BY <2>2, EntryTypes
      <3> QED
        BY <2>2, <3>1 DEF TypeOK
    <2> QED
      BY <2>1, <2>2
  <1>2. (Accounting /\ UniqueNames /\ PastStamps /\ Coherent /\ Pending)'
    BY DEF Accounting, UniqueNames, PastStamps, Coherent, Pending
  <1> QED
    BY <1>1, <1>2

(* Resetting a stale entry keeps it, and leaves no entry with the name.      *)
LEMMA StaleInv ==
  ASSUME IInv, NEW f \in Files, Stale(f)
  PROVE  IInv'
  <1>1. PICK k \in DOMAIN cache : First(f, k) /\ slot' = k /\ cache' = [cache EXCEPT ![k] = ResetEntry]
    BY DEF Stale
  <1>2. ResetEntry \in Entry /\ cache \in Seq(Entry)
    BY DEF ResetEntry, Entry, IInv, TypeOK
  <1>3. /\ cache' \in Seq(Entry) /\ Len(cache') = Len(cache) /\ DOMAIN cache' = DOMAIN cache
        /\ cache'[k] = ResetEntry
        /\ \A i \in DOMAIN cache \ {k} : cache'[i] = cache[i]
    BY <1>1, <1>2, Replace
  <1>4. k \in Nat /\ k # 0
    BY <1>1, <1>2
  <1> USE CacheAssumption DEF Stale, IInv
  <1>5. TypeOK'
    BY <1>1, <1>3, <1>4 DEF TypeOK
  <1>6. (Accounting /\ UniqueNames)'
    BY <1>3 DEF Accounting, UniqueNames, ResetEntry
  <1>7. PastStamps'
    BY <1>3 DEF PastStamps, ResetEntry, TypeOK
  <1>8. Coherent'
    BY <1>3 DEF Coherent, ResetEntry
  <1>9. Pending'
    BY <1>1, <1>3, <1>4 DEF Pending, ResetEntry, UniqueNames, First, Named
  <1> QED
    BY <1>5, <1>6, <1>7, <1>8, <1>9

(* A miss keeps it: what remains after an eviction was there before.         *)
LEMMA MissInv ==
  ASSUME IInv, NEW f \in Files, Miss(f)
  PROVE  IInv'
  <1>1. /\ cache' \in Seq(Entry)
        /\ DOMAIN cache' \subseteq DOMAIN cache
        /\ \A i \in DOMAIN cache' : cache'[i] = cache[i]
        /\ cache_entries' = Len(cache') /\ cache_entries' < MaxEntries
        /\ cache_entries' \in Nat
    <2>1. CASE Full /\ cache # <<>>
      <3>1. cache' = SubSeq(cache, 1, Len(cache) - 1) /\ cache_entries' = cache_entries - 1
        BY <2>1 DEF Miss, EvictTail
      <3>2. cache \in Seq(Entry) /\ Len(cache) \in Nat \ {0}
        BY <2>1, EmptySeq DEF IInv, TypeOK
      <3> QED
        BY <2>1, <3>1, <3>2, DropTail, CacheAssumption DEF IInv, Accounting
    <2>2. CASE ~(Full /\ cache # <<>>)
      <3>1. cache' = cache /\ cache_entries' = cache_entries
        BY <2>2 DEF Miss, EvictTail
      <3>2. cache_entries < MaxEntries
        BY <2>2, CacheAssumption DEF Full, IInv, TypeOK, Accounting
      <3> QED
        BY <3>1, <3>2 DEF IInv, TypeOK, Accounting
    <2> QED
      BY <2>1, <2>2
  <1> USE CacheAssumption DEF Miss, IInv
  <1>2. TypeOK'
    BY <1>1 DEF TypeOK
  <1>3. (Accounting /\ UniqueNames)'
    BY <1>1 DEF Accounting, UniqueNames
  <1>4. (PastStamps /\ Coherent)'
    BY <1>1 DEF PastStamps, Coherent
  <1>5. Pending'
    BY <1>1 DEF Pending, Named
  <1> QED
    BY <1>2, <1>3, <1>4, <1>5

(* A load keeps it: the entry is coherent whether or not the file changed    *)
(* since stat.                                                               *)
LEMMA LoadInv ==
  ASSUME IInv, Load
  PROVE  IInv'
  <1> DEFINE e == [policy_file |-> file, stamp |-> st, ir |-> disk[file].content]
  <1>1. e \in Entry /\ cache \in Seq(Entry) /\ e.ir \in Valid
    BY CacheAssumption DEF Load, Entry, IInv, TypeOK
  <1>2. /\ cache' \in Seq(Entry) /\ cache_entries' = Len(cache')
        /\ cache_entries' <= MaxEntries /\ cache_entries' \in Nat
        /\ \E k \in DOMAIN cache', d \in {0, 1} :
              /\ cache'[k] = e
              /\ \A i \in DOMAIN cache' \ {k} :
                    i \in Nat /\ i - d \in DOMAIN cache /\ cache'[i] = cache[i - d]
    <2>1. CASE slot = 0
      <3>1. cache' = <<e>> \o cache /\ cache_entries' = cache_entries + 1
        BY <2>1 DEF Load
      <3>2. /\ cache' \in Seq(Entry) /\ Len(cache') = Len(cache) + 1
            /\ DOMAIN cache' = 1..(Len(cache) + 1)
            /\ cache'[1] = e
            /\ \A i \in 2..(Len(cache) + 1) : cache'[i] = cache[i - 1] /\ i - 1 \in DOMAIN cache
        BY <1>1, <3>1, HeadInsert
      <3> HIDE DEF e
      <3>3. Len(cache) \in Nat
        BY <1>1
      <3>4. \A i \in DOMAIN cache' \ {1} : i \in 2..(Len(cache) + 1)
        BY <3>2, <3>3
      <3>5. \A i \in DOMAIN cache' \ {1} :
                i \in Nat /\ i - 1 \in DOMAIN cache /\ cache'[i] = cache[i - 1]
        BY <3>2, <3>4
      <3>6. 1 \in DOMAIN cache'
        BY <3>2, <3>3
      <3>7. cache_entries < MaxEntries
        BY <2>1 DEF IInv, Pending, Load
      <3>8. cache_entries' = Len(cache') /\ cache_entries' <= MaxEntries /\ cache_entries' \in Nat
        BY <3>1, <3>2, <3>3, <3>7, CacheAssumption DEF IInv, Accounting
      <3> QED
        BY <3>2, <3>5, <3>6, <3>8
    <2>2. CASE slot # 0
      <3>1. cache' = [cache EXCEPT ![slot] = e] /\ cache_entries' = cache_entries
        BY <2>2 DEF Load
      <3>2. slot \in DOMAIN cache
        BY <2>2 DEF IInv, Pending, Load
      <3>3. /\ cache' \in Seq(Entry) /\ Len(cache') = Len(cache) /\ DOMAIN cache' = DOMAIN cache
            /\ cache'[slot] = e
            /\ \A i \in DOMAIN cache \ {slot} : cache'[i] = cache[i]
        BY <1>1, <3>1, <3>2, Replace
      <3> HIDE DEF e
      <3>4. \A i \in DOMAIN cache' \ {slot} :
                i \in Nat /\ i - 0 \in DOMAIN cache /\ cache'[i] = cache[i - 0]
        BY <1>1, <3>3
      <3> QED
        BY <3>1, <3>2, <3>3, <3>4 DEF IInv, TypeOK, Accounting
    <2> QED
      BY <2>1, <2>2 DEF IInv, TypeOK
  <1>3. PICK k \in DOMAIN cache', d \in {0, 1} :
              /\ cache'[k] = e
              /\ \A i \in DOMAIN cache' \ {k} :
                    i \in Nat /\ i - d \in DOMAIN cache /\ cache'[i] = cache[i - d]
    BY <1>2
  <1>4. e.policy_file = file /\ e.stamp = st /\ e.ir = disk[file].content
    OBVIOUS
  <1> HIDE DEF e
  <1>5. TypeOK'
    BY <1>2, <1>1, <1>4, CacheAssumption, SMTT(40) DEF IInv, Load, TypeOK
  <1>6. Accounting'
    BY <1>2, CacheAssumption DEF Accounting, Load
  <1>7. UniqueNames'
    BY <1>3, <1>4, SMTT(40) DEF IInv, UniqueNames, Pending, Load
  <1>8. PastStamps'
    BY <1>3, <1>4 DEF IInv, PastStamps, Load
  <1>9. Coherent'
    <2> SUFFICES ASSUME NEW i \in DOMAIN cache', cache'[i].policy_file # None
                 PROVE  /\ cache'[i].ir \in Valid
                        /\ cache'[i].stamp = disk[cache'[i].policy_file].stamp =>
                                cache'[i].ir = disk[cache'[i].policy_file].content
      BY DEF Coherent, Load
    <2>1. CASE i = k
      BY <1>1, <1>3, <1>4, <2>1
    <2>2. CASE i # k
      BY <1>3, <2>2 DEF IInv, Coherent
    <2> QED
      BY <2>1, <2>2
  <1>10. Pending'
    BY DEF Pending, Load
  <1> QED
    BY <1>5, <1>6, <1>7, <1>8, <1>9, <1>10 DEF IInv

(* Failed loads, answers and a stop keep it.                                 *)
LEMMA OtherInv ==
  ASSUME IInv, LoadFails \/ Answer \/ Stop
  PROVE  IInv'
  <1> USE CacheAssumption DEF IInv, LoadFails, Answer, Stop, cacheVars
  <1>1. TypeOK'
    <2>1. \/ cache' = <<>> /\ cache_entries' = 0
          \/ cache' = cache /\ cache_entries' = cache_entries
      OBVIOUS
    <2>2. <<>> \in Seq(Entry) /\ cache \in Seq(Entry) /\ cache_entries \in Nat
      BY EmptySeq DEF TypeOK
    <2>3. cache' \in Seq(Entry)
      BY <2>1, <2>2, Zenon
    <2>4. cache_entries' \in Nat
      BY <2>1, <2>2
    <2>5. ir' \in Contents \cup {None}
      BY DEF TypeOK
    <2> QED
      BY <2>3, <2>4, <2>5 DEF TypeOK
  <1>2. (Accounting /\ UniqueNames)'
    BY DEF Accounting, UniqueNames
  <1>3. (PastStamps /\ Coherent /\ Pending)'
    BY DEF PastStamps, Coherent, Pending
  <1> QED
    BY <1>1, <1>2, <1>3

(* Every step of the daemon and of its users keeps the inductive invariant.  *)
LEMMA NextInv == IInv /\ [Next]_vars => IInv'
  <1> SUFFICES ASSUME IInv, [Next]_vars PROVE IInv'
    OBVIOUS
  <1>1. CASE UNCHANGED vars
    BY <1>1 DEF vars, cacheVars, IInv, TypeOK, Accounting, UniqueNames, PastStamps, Coherent, Pending
  <1>2. CASE \E f \in Files : Request(f)
    BY <1>2, ServeInv, StaleInv, MissInv DEF Request
  <1>3. CASE \E f \in Files, c \in Contents \cup {None} : Edit(f, c)
    BY <1>3, EditInv
  <1> QED
    BY <1>1, <1>2, <1>3, LoadInv, OtherInv DEF Next

(* IInv is an invariant of the daemon's cache.                               *)
THEOREM Inductive == Spec => []IInv
  BY InitInv, NextInv, PTL DEF Spec

(* Every variable keeps its type.                                            *)
THEOREM TypeCorrect == Spec => []TypeOK
  <1>1. IInv => TypeOK
    BY DEF IInv
  <1> QED
    BY <1>1, Inductive, PTL

(* cache_entries is the length of the list and stays within its limit.       *)
THEOREM AlwaysAccounted == Spec => []Accounting
  <1>1. IInv => Accounting
    BY DEF IInv
  <1> QED
    BY <1>1, Inductive, PTL

(* No two entries ever carry the same policy file name.                      *)
THEOREM AlwaysUnique == Spec => []UniqueNames
  <1>1. IInv => UniqueNames
    BY DEF IInv
  <1> QED
    BY <1>1, Inductive, PTL

---------------------------------------------------------------------------
(* The initial states of the cache are initial states of the store.          *)
LEMMA InitRefines == Init => Store!Init
  BY DEF Init, Store!Init

(* Every step of the cache is a step of the store or invisible to it.        *)
LEMMA NextRefines == IInv /\ [Next]_vars => [Store!Next]_(Store!vars)
  <1> SUFFICES ASSUME IInv, [Next]_vars PROVE [Store!Next]_(Store!vars)
    OBVIOUS
  <1> USE DEF cacheVars
  <1>1. ASSUME NEW f \in Files, StatFails(f)
        PROVE  Store!Fail(f)
    BY <1>1 DEF StatFails, Store!Fail
  <1>2. ASSUME NEW f \in Files, Hit(f)
        PROVE  Store!BeginAndRead(f)
    <2>1. PICK i \in DOMAIN cache :
            cache[i].policy_file = f /\ cache[i].stamp = disk[f].stamp /\ ir' = cache[i].ir
      BY <1>2 DEF Hit, First, Named, StatMatches
    <2>2. ir' = disk[f].content /\ disk[f].content \in Valid
      BY <2>1, CacheAssumption DEF IInv, Coherent
    <2> QED
      BY <1>2, <2>2 DEF Hit, Store!BeginAndRead, Store!Look
  <1>3. ASSUME NEW f \in Files, Stale(f)
        PROVE  Store!Begin(f)
    BY <1>3 DEF Stale, Store!Begin
  <1>4. ASSUME NEW f \in Files, Miss(f)
        PROVE  Store!Begin(f) \/ Store!Fail(f)
    BY <1>4 DEF Miss, Store!Begin, Store!Fail
  <1>5. ASSUME NEW f \in Files, NEW c \in Contents \cup {None}, Edit(f, c)
        PROVE  Store!Edit(f, c)
    <2>1. disk' = [disk EXCEPT ![f] = [stamp |-> edits + 1, content |-> c]]
      BY <1>5 DEF Edit
    <2>2. [g \in Files |-> disk[g].content]' =
            [[g \in Files |-> disk[g].content] EXCEPT ![f] = c]
      BY <2>1 DEF IInv, TypeOK
    <2> QED
      BY <1>5, <2>2 DEF Edit, Store!Edit
  <1>6. ASSUME Load
        PROVE  Store!Read
    BY <1>6 DEF Load, Store!Read, Store!Look, IInv, TypeOK
  <1>7. ASSUME LoadFails
        PROVE  Store!Fail(file) /\ file \in Files
    BY <1>7 DEF LoadFails, Store!Fail, IInv, TypeOK
  <1>8. ASSUME Answer
        PROVE  Store!Answer
    BY <1>8 DEF Answer, Store!Answer
  <1>9. ASSUME Stop
        PROVE  Store!Stop
    BY <1>9 DEF Stop, Store!Stop
  <1>10. CASE UNCHANGED vars
    BY <1>10 DEF vars, Store!vars
  <1> QED
    BY <1>1, <1>2, <1>3, <1>4, <1>5, <1>6, <1>7, <1>8, <1>9, <1>10
    DEF Next, Request, Store!Next

(* The cache implements the store: for any number of files, entries and      *)
(* edits, a policy the daemon runs is one its file held at some moment of    *)
(* the request, provided an edit always changes dev, ino, size or mtime.     *)
THEOREM CacheIsTransparent == Spec => Transparent
  <1>1. Spec => Store!Init /\ [][Store!Next]_(Store!vars)
    BY InitRefines, NextRefines, Inductive, PTL DEF Spec
  <1> QED
    BY <1>1 DEF Transparent, Store!Spec
=============================================================================
