-------------------------- MODULE PolicyLoadProofs --------------------------
(* Loading through the helper, for every set of policies, wire version and   *)
(* size of the pipe: a failed call changes nothing, nothing is left behind,  *)
(* and what is loaded is what the file holds.                                *)
EXTENDS PolicyLoad, TLAPS, WellFoundedInduction, NaturalsInduction, FiniteSetTheorems

(* Where the caller is once the helper has been waited for.                  *)
Reading == {"checking", "header", "section", "finish"}
Counters == {"called", "forking", "waiting", "draining", "returned"} \cup Reading

(* Only a call with an empty out_ir gets past its first test.                *)
IrInv ==
    /\ pc = "called" => out_ir = given
    /\ given # EmptyIr => pc \in {"called", "returned"}
    /\ AllOrNothing

(* Which ends are open, and what has become of the helper, at each counter.  *)
ProcessInv ==
    /\ pc \in Counters
    /\ pc \in {"called", "forking"} => helper = "none"
    /\ pc \in {"waiting", "draining"} => ends = ReadEnds
    /\ pc \in {"draining"} \cup Reading => helper \in Dead
    /\ pc \in Reading => ends = {}
    /\ NothingLeft

IInv == IrInv /\ ProcessInv

---------------------------------------------------------------------------
LEMMA InitInv == Init => IInv
BY DEF Init, IInv, IrInv, ProcessInv, AllOrNothing, NothingLeft, Returned, Counters, Reading, Dead

(* A way out with an error empties out_ir, which was empty when the call got *)
(* this far, and keeps no end open.                                          *)
LEMMA FailedOut ==
    ASSUME IInv, pc \in Counters \ {"called", "returned"},
           Return("error"), out_ir' = EmptyIr, UNCHANGED <<given, helper>>,
           helper # "none" => ends' = {} /\ helper \in Dead
    PROVE  IInv'
<1>1. IrInv'
  BY DEF IInv, IrInv, AllOrNothing, Returned, Return
<1>2. ProcessInv'
  BY DEF ProcessInv, NothingLeft, Returned, Return, Counters, Reading
<1>3. QED
  BY <1>1, <1>2 DEF IInv

(* A step of the caller that leads on: only the process part is to be shown. *)
LEMMA LeadsOn ==
    ASSUME IInv, pc \in Counters \ {"returned"}, given = EmptyIr,
           pc' \in Counters \ {"called", "returned"}, UNCHANGED given
    PROVE  IrInv'
BY DEF IInv, IrInv, AllOrNothing, Returned, Counters, Reading

---------------------------------------------------------------------------
LEMMA RefuseStep == ASSUME IInv, Refuse PROVE IInv'
<1>1. IrInv'
  BY DEF IInv, IrInv, Refuse, Return, AllOrNothing, Returned
<1>2. ProcessInv'
  BY DEF IInv, ProcessInv, Refuse, Return, NothingLeft, Returned, helperVars, Counters, Reading, Dead
<1>3. QED
  BY <1>1, <1>2 DEF IInv

LEMMA PipesStep == ASSUME IInv, Pipes PROVE IInv'
<1>0. /\ pc = "called" /\ given = EmptyIr /\ helper = "none"
      /\ UNCHANGED <<given, helper>>
  BY DEF IInv, ProcessInv, Pipes, helperVars
<1>1. CASE pc' = "forking"
  <2>1. IrInv'
    BY <1>0, <1>1, LeadsOn DEF Counters, Reading
  <2>2. ProcessInv'
    BY <1>0, <1>1 DEF ProcessInv, NothingLeft, Returned, Counters, Reading, Dead
  <2>3. QED
    BY <2>1, <2>2 DEF IInv
<1>2. CASE pc' # "forking"
  <2>0. pc' = "returned" /\ result' = "error" /\ out_ir' = EmptyIr
    BY <1>2 DEF Pipes, Fail, Return
  <2>1. IrInv'
    BY <1>0, <2>0 DEF IrInv, AllOrNothing, Returned
  <2>2. ProcessInv'
    BY <1>0, <2>0 DEF ProcessInv, NothingLeft, Returned, Counters, Reading, Dead
  <2>3. QED
    BY <2>1, <2>2 DEF IInv
<1>3. QED
  BY <1>1, <1>2

LEMMA ForkStep == ASSUME IInv, Fork PROVE IInv'
<1>0. pc = "forking" /\ given = EmptyIr /\ helper = "none" /\ UNCHANGED given
  BY DEF IInv, IrInv, ProcessInv, Fork
<1>1. CASE pc' = "waiting"
  <2>0. ends' = ReadEnds
    BY <1>1 DEF Fork, Fail, Return, ForkedEnds
  <2>1. IrInv'
    BY <1>0, <1>1, LeadsOn DEF Counters, Reading
  <2>2. ProcessInv'
    BY <1>1, <2>0 DEF ProcessInv, NothingLeft, Returned, Counters, Reading
  <2>3. QED
    BY <2>1, <2>2 DEF IInv
<1>2. CASE pc' # "waiting"
  <2>0. Return("error") /\ out_ir' = EmptyIr /\ UNCHANGED helper
    BY <1>2 DEF Fork, Fail, helperVars
  <2>1. QED
    BY <1>0, <2>0, FailedOut DEF Counters, Reading
<1>3. QED
  BY <1>1, <1>2

LEMMA WaitStep == ASSUME IInv, WaitHelper PROVE IInv'
<1>0. /\ pc = "waiting" /\ given = EmptyIr /\ helper \in Dead /\ ends = ReadEnds
      /\ UNCHANGED <<given, helper>>
  BY DEF IInv, IrInv, ProcessInv, WaitHelper, helperVars
<1>1. CASE pc' = "draining"
  <2>0. ends' = ends
    BY <1>1 DEF WaitHelper, Fail, Return
  <2>1. IrInv'
    BY <1>0, <1>1, LeadsOn DEF Counters, Reading
  <2>2. ProcessInv'
    BY <1>0, <1>1, <2>0 DEF ProcessInv, NothingLeft, Returned, Counters, Reading
  <2>3. QED
    BY <2>1, <2>2 DEF IInv
<1>2. CASE pc' # "draining"
  <2>0. Return("error") /\ out_ir' = EmptyIr /\ ends' = {}
    BY <1>2 DEF WaitHelper, Fail
  <2>1. QED
    BY <1>0, <2>0, FailedOut DEF Counters, Reading
<1>3. QED
  BY <1>1, <1>2

LEMMA DrainStep == ASSUME IInv, Drain PROVE IInv'
<1>0. /\ pc = "draining" /\ given = EmptyIr /\ helper \in Dead
      /\ UNCHANGED <<given, helper>>
  BY DEF IInv, IrInv, ProcessInv, Drain
<1>1. CASE pc' = "checking"
  <2>0. ends' = {}
    BY <1>1 DEF Drain, Fail, Return
  <2>1. IrInv'
    BY <1>0, <1>1, LeadsOn DEF Counters, Reading
  <2>2. ProcessInv'
    BY <1>0, <1>1, <2>0 DEF ProcessInv, NothingLeft, Returned, Counters, Reading
  <2>3. QED
    BY <2>1, <2>2 DEF IInv
<1>2. CASE pc' # "checking"
  <2>0. Return("error") /\ out_ir' = EmptyIr /\ ends' = {}
    BY <1>2 DEF Drain, Fail, DrainFailedEnds
  <2>1. QED
    BY <1>0, <2>0, FailedOut DEF Counters, Reading
<1>3. QED
  BY <1>1, <1>2

(* Reading the wire: on to the next counter, or out with nothing.            *)
LEMMA ReadingOn ==
    ASSUME IInv, pc \in Reading, pc' \in Reading, UNCHANGED <<given, helper, ends>>
    PROVE  IInv'
<1>1. given = EmptyIr /\ pc # "returned"
  BY DEF IInv, IrInv, Reading
<1>2. IrInv'
  BY <1>1, LeadsOn DEF Counters, Reading
<1>3. ProcessInv'
  BY DEF IInv, ProcessInv, NothingLeft, Returned, Counters, Reading
<1>4. QED
  BY <1>2, <1>3 DEF IInv

LEMMA ReadingFails ==
    ASSUME IInv, pc \in Reading, Return("error"), out_ir' = EmptyIr,
           UNCHANGED <<given, helper>>, ends' = {} \/ UNCHANGED ends
    PROVE  IInv'
<1>1. ends' = {} /\ helper \in Dead
  BY DEF IInv, ProcessInv
<1>2. QED
  BY <1>1, FailedOut DEF Counters, Reading

LEMMA CheckStep == ASSUME IInv, CheckHelper PROVE IInv'
<1>1. pc \in Reading /\ UNCHANGED <<given, helper>>
  BY DEF CheckHelper, Reading, helperVars
<1>2. \/ pc' \in Reading /\ UNCHANGED ends
      \/ Return("error") /\ out_ir' = EmptyIr /\ ends' = {}
  BY DEF CheckHelper, Reading, Fail
<1>3. QED
  BY <1>1, <1>2, ReadingOn, ReadingFails

LEMMA HeaderStep == ASSUME IInv, ReadHeader PROVE IInv'
<1>1. pc \in Reading /\ UNCHANGED <<given, helper, ends>>
  BY DEF ReadHeader, Reading, helperVars
<1>2. pc' \in Reading \/ (Return("error") /\ out_ir' = EmptyIr)
  BY DEF ReadHeader, Reading
<1>3. QED
  BY <1>1, <1>2, ReadingOn, ReadingFails

LEMMA SectionStep == ASSUME IInv, ReadSection PROVE IInv'
<1>1. pc \in Reading /\ UNCHANGED <<given, helper>>
  BY DEF ReadSection, Reading, helperVars
<1>2. \/ pc' \in Reading /\ UNCHANGED ends
      \/ Return("error") /\ out_ir' = EmptyIr /\ (ends' = {} \/ UNCHANGED ends)
  BY DEF ReadSection, Reading, Fail
<1>3. QED
  BY <1>1, <1>2, ReadingOn, ReadingFails

LEMMA FinishStep == ASSUME IInv, Finish PROVE IInv'
<1>1. pc \in Reading /\ UNCHANGED <<given, helper, ends>>
  BY DEF Finish, Reading, helperVars
<1>2. CASE Return("error") /\ out_ir' = EmptyIr
  BY <1>1, <1>2, ReadingFails
<1>3. CASE Return("ok")
  <2>1. IrInv'
    BY <1>1, <1>3 DEF IInv, IrInv, AllOrNothing, Returned, Return
  <2>2. ProcessInv'
    BY <1>1, <1>3 DEF IInv, ProcessInv, NothingLeft, Returned, Return, Counters, Reading
  <2>3. QED
    BY <2>1, <2>2 DEF IInv
<1>4. QED
  BY <1>2, <1>3 DEF Finish

(* The helper runs only while the caller waits for it.                       *)
LEMMA HelperStep == ASSUME IInv, Helper \/ HelperMisbehaves \/ HelperKilled PROVE IInv'
<1>1. helper # "none" /\ helper \notin Dead /\ UNCHANGED <<given, out_ir, pc, result, ends>>
  BY DEF Helper, HelperExecs, HelperLoads, HelperWrites, HelperExits, HelperMisbehaves,
         HelperKilled, callerVars, Dead
<1>2. pc = "waiting"
  BY <1>1 DEF IInv, ProcessInv, NothingLeft, Returned, Counters, Reading
<1>3. IrInv'
  BY <1>1 DEF IInv, IrInv, AllOrNothing, Returned
<1>4. ProcessInv'
  BY <1>1, <1>2 DEF IInv, ProcessInv, NothingLeft, Returned, Counters, Reading
<1>5. QED
  BY <1>3, <1>4 DEF IInv

LEMMA NextInv == IInv /\ [Next]_vars => IInv'
<1> SUFFICES ASSUME IInv, [Next]_vars PROVE IInv'
  OBVIOUS
<1>1. CASE Caller
  BY <1>1, RefuseStep, PipesStep, ForkStep, WaitStep, DrainStep, CheckStep, HeaderStep,
     SectionStep, FinishStep DEF Caller
<1>2. CASE Helper \/ HelperMisbehaves \/ HelperKilled
  BY <1>2, HelperStep
<1>3. CASE UNCHANGED vars
  BY <1>3 DEF vars, IInv, IrInv, ProcessInv, AllOrNothing, NothingLeft, Returned
<1>4. QED
  BY <1>1, <1>2, <1>3 DEF Next

---------------------------------------------------------------------------
(* Sequences, and sequences put one behind the other.                        *)

(* Induction over the naturals, on sets: of the numbers outside T there      *)
(* would be a least one.                                                     *)
LEMMA SetInduction ==
    ASSUME NEW T, 0 \in T, \A k \in Nat : k \in T => k + 1 \in T
    PROVE  Nat \subseteq T
<1> DEFINE R == OpToRel(<, Nat)
<1> SUFFICES ASSUME Nat \ T # {} PROVE FALSE
  OBVIOUS
<1>1. \A y, x \in Nat : y < x => <<y, x>> \in R
  BY DEF OpToRel
<1>2. IsWellFoundedOn(R, Nat)
  BY NatLessThanWellFounded
<1> HIDE DEF R
<1>3. PICK x \in Nat \ T : \A y \in Nat \ T : ~ (<<y, x>> \in R)
  BY <1>2, WFMin
<1>4. x # 0 /\ x - 1 \in Nat
  OBVIOUS
<1>5. x - 1 \in T
  <2>1. x - 1 < x /\ <<x - 1, x>> \in R
    BY <1>1, <1>4
  <2>2. QED
    BY <1>3, <1>4, <2>1
<1>6. x - 1 + 1 \in T
  BY <1>4, <1>5
<1>7. QED
  BY <1>6

(* The words of the wire.                                                    *)
Words == Nat \cup Texts

(* The first k elements of a sequence.                                       *)
Take(q, k) == [i \in 1..k |-> q[i]]

(* The first elements, one more at a time.                                   *)
LEMMA TakeFacts ==
    ASSUME NEW S, NEW q \in Seq(S)
    PROVE  /\ Take(q, 0) = <<>> /\ Take(q, Len(q)) = q
           /\ \A k \in 0..Len(q) : Take(q, k) \in Seq(S) /\ Len(Take(q, k)) = k
           /\ \A k \in 1..Len(q) : Take(q, k) = Append(Take(q, k - 1), q[k])
<1>1. Take(q, 0) = <<>> /\ Take(q, Len(q)) = q
  BY DEF Take
<1>2. \A k \in 0..Len(q) : Take(q, k) \in Seq(S) /\ Len(Take(q, k)) = k
  BY DEF Take
<1>3. ASSUME NEW k \in 1..Len(q) PROVE Take(q, k) = Append(Take(q, k - 1), q[k])
  <2>1. Take(q, k - 1) \in Seq(S) /\ Len(Take(q, k - 1)) = k - 1 /\ q[k] \in S
    BY <1>2
  <2>2. Append(Take(q, k - 1), q[k]) \in Seq(S) /\ Len(Append(Take(q, k - 1), q[k])) = k
    BY <2>1
  <2>3. ASSUME NEW i \in 1..k PROVE Append(Take(q, k - 1), q[k])[i] = q[i]
    <3>1. CASE i = k
      BY <2>1, <3>1
    <3>2. CASE i # k
      <4>1. i \in 1..(k - 1)
        BY <3>2
      <4>2. Append(Take(q, k - 1), q[k])[i] = Take(q, k - 1)[i]
        BY <2>1, <4>1
      <4>3. QED
        BY <4>1, <4>2 DEF Take
    <3>3. QED
      BY <3>1, <3>2
  <2>4. Append(Take(q, k - 1), q[k]) = [i \in 1..k |-> q[i]]
    BY <2>2, <2>3
  <2>5. QED
    BY <2>4 DEF Take
<1>4. QED
  BY <1>1, <1>2, <1>3

(* What the sequences of a sequence are, put one behind the other.           *)
Joins(qs, f) ==
    /\ f \in [0..Len(qs) -> Seq(Words)]
    /\ f[0] = <<>>
    /\ \A i \in 1..Len(qs) : f[i] = f[i - 1] \o qs[i]

(* They can be put one behind the other.                                     *)
LEMMA JoinsExist == ASSUME NEW qs \in Seq(Seq(Words)) PROVE \E f : Joins(qs, f)
<1> DEFINE Upto(n, f) == /\ f \in [0..n -> Seq(Words)] /\ f[0] = <<>>
                         /\ \A i \in 1..n : f[i] = f[i - 1] \o qs[i]
           T == {n \in Nat : n <= Len(qs) => \E f : Upto(n, f)}
<1>0. Len(qs) \in Nat /\ \A n \in Nat : n \in T <=> (n <= Len(qs) => \E f : Upto(n, f))
  <2> HIDE DEF Upto
  <2> QED OBVIOUS
<1>1. 0 \in T
  <2>1. Upto(0, [i \in 0..0 |-> <<>>])
    OBVIOUS
  <2> HIDE DEF Upto
  <2>2. QED
    BY <1>0, <2>1
<1>2. ASSUME NEW n \in Nat, n \in T, n + 1 <= Len(qs) PROVE \E f : Upto(n + 1, f)
  <2>1. PICK f : Upto(n, f)
    <3>1. n <= Len(qs)
      BY <1>0, <1>2
    <3> HIDE DEF Upto, T
    <3>2. QED
      BY <1>0, <1>2, <3>1
  <2> DEFINE u == [i \in 0..(n + 1) |-> IF i = n + 1 THEN f[n] \o qs[n + 1] ELSE f[i]]
  <2>2. qs[n + 1] \in Seq(Words) /\ f[n] \in Seq(Words)
    BY <1>2, <2>1
  <2>3. f[n] \o qs[n + 1] \in Seq(Words)
    BY <2>2
  <2>4. u \in [0..(n + 1) -> Seq(Words)] /\ u[0] = <<>>
    BY <2>1, <2>3
  <2>5. \A i \in 1..(n + 1) : u[i] = u[i - 1] \o qs[i]
    <3>1. u[n + 1] = u[n] \o qs[n + 1]
      <4>1. n \in 0..(n + 1) /\ n + 1 \in 0..(n + 1) /\ n # n + 1
        OBVIOUS
      <4>2. u[n + 1] = f[n] \o qs[n + 1] /\ u[n] = f[n]
        BY <4>1
      <4>3. QED
        BY <4>2
    <3>2. ASSUME NEW i \in 1..n PROVE u[i] = u[i - 1] \o qs[i]
      <4>1. u[i] = f[i] /\ u[i - 1] = f[i - 1]
        OBVIOUS
      <4>2. QED
        BY <2>1, <4>1
    <3> HIDE DEF u
    <3>3. ASSUME NEW i \in 1..(n + 1), i \notin 1..n PROVE u[i] = u[i - 1] \o qs[i]
      <4>1. i = n + 1 /\ i - 1 = n
        BY <3>3
      <4>2. QED
        BY <3>1, <4>1
    <3>4. QED
      BY <3>2, <3>3
  <2>6. QED
    BY <2>4, <2>5
<1> HIDE DEF Upto, T
<1>3. \A n \in Nat : n \in T => n + 1 \in T
  BY <1>0, <1>2
<1>4. Nat \subseteq T
  BY <1>1, <1>3, SetInduction
<1>5. PICK f : Upto(Len(qs), f)
  BY <1>0, <1>4
<1>6. QED
  BY <1>5 DEF Joins, Upto

(* FlattenSeq is the last of them.                                           *)
LEMMA FlattenJoins ==
    ASSUME NEW qs \in Seq(Seq(Words)), NEW f, Joins(qs, f)
    PROVE  FlattenSeq(qs) = f[Len(qs)]
<1>1. CASE Len(qs) = 0
  <2>1. FlattenSeq(qs) = qs
    BY <1>1 DEF FlattenSeq
  <2>2. QED
    BY <1>1, <2>1 DEF Joins
<1>2. CASE Len(qs) # 0
  <2> DEFINE n == Len(qs)
             D(v) == v = [i \in 1..n |-> IF i = 1 THEN qs[i] ELSE v[i - 1] \o qs[i]]
             g == [i \in 1..n |-> f[i]]
  <2>0. n \in Nat /\ n >= 1
    BY <1>2
  <2>1. \A i \in 1..n : f[i] = IF i = 1 THEN qs[i] ELSE f[i - 1] \o qs[i]
    <3>1. ASSUME NEW i \in 1..n, i = 1 PROVE f[i] = qs[i]
      <4>1. f[1] = f[0] \o qs[1] /\ f[0] = <<>> /\ qs[1] \in Seq(Words)
        <5>1. 1 \in 1..Len(qs) /\ 1 - 1 = 0
          BY <2>0
        <5>2. f[1] = f[1 - 1] \o qs[1] /\ f[0] = <<>>
          BY <5>1 DEF Joins
        <5>3. qs[1] \in Seq(Words)
          BY <5>1
        <5>4. QED
          BY <5>1, <5>2, <5>3
      <4>2. QED
        BY <3>1, <4>1
    <3>2. QED
      BY <3>1 DEF Joins
  <2>2. D(g)
    <3>1. \A i \in 1..n : i # 1 => g[i - 1] = f[i - 1]
      OBVIOUS
    <3>2. QED
      BY <2>1, <3>1
  <2>3. ASSUME NEW v, D(v) PROVE v = g
    <3> DEFINE T == {k \in Nat : k + 1 <= n => v[k + 1] = f[k + 1]}
    <3>0. \A i \in 1..n : v[i] = IF i = 1 THEN qs[i] ELSE v[i - 1] \o qs[i]
      BY <2>3
    <3>a. ASSUME NEW i \in 1..n, NEW j \in 1..n, i = j + 1, v[j] = f[j] PROVE v[i] = f[i]
      <4>1. i # 1 /\ i - 1 = j
        BY <3>a
      <4>2. v[i] = v[j] \o qs[i]
        BY <3>0, <4>1
      <4>3. f[i] = f[j] \o qs[i]
        BY <2>1, <4>1
      <4>4. QED
        BY <3>a, <4>2, <4>3
    <3>1. 0 \in T
      BY <2>0, <2>1, <3>0
    <3>2. ASSUME NEW k \in Nat, k \in T PROVE k + 1 \in T
      <4>1. CASE ~(k + 2 <= n)
        BY <4>1
      <4>2. CASE k + 2 <= n
        <5>1. /\ k + 2 \in 1..n /\ k + 2 # 1 /\ k + 2 - 1 = k + 1 /\ k + 1 + 1 = k + 2
              /\ k + 1 <= n
          BY <4>2
        <5>2. v[k + 1] = f[k + 1]
          BY <3>2, <5>1
        <5>3. v[k + 2] = f[k + 2]
          BY <3>a, <5>1, <5>2
        <5>4. v[k + 1 + 1] = f[k + 1 + 1]
          BY <5>1, <5>3
        <5>5. QED
          BY <5>4
      <4>3. QED
        BY <4>1, <4>2
    <3>3. Nat \subseteq T
      <4> HIDE DEF T
      <4> QED BY <3>1, <3>2, SetInduction
    <3>4. ASSUME NEW i \in 1..n PROVE v[i] = f[i]
      <4>1. i - 1 \in Nat /\ i - 1 + 1 = i /\ i <= n
        BY <2>0
      <4>2. i - 1 \in T
        BY <3>3, <4>1
      <4>3. QED
        BY <4>1, <4>2
    <3>5. v = [i \in 1..n |-> v[i]]
      BY <2>3
    <3>6. QED
      BY <3>4, <3>5
  <2>4. (CHOOSE v : D(v)) = g
    BY <2>2, <2>3
  <2>5. FlattenSeq(qs) = g[n]
    BY <1>2, <2>4 DEF FlattenSeq
  <2>6. QED
    BY <2>0, <2>5
<1>3. QED
  BY <1>1, <1>2

(* FlattenSeq by its equations.                                              *)
LEMMA FlattenFacts ==
    /\ FlattenSeq(<<>>) = <<>>
    /\ \A qs \in Seq(Seq(Words)) : FlattenSeq(qs) \in Seq(Words)
    /\ \A qs \in Seq(Seq(Words)), q \in Seq(Words) :
          FlattenSeq(Append(qs, q)) = FlattenSeq(qs) \o q
<1>1. FlattenSeq(<<>>) = <<>>
  BY DEF FlattenSeq
<1>2. ASSUME NEW qs \in Seq(Seq(Words)) PROVE FlattenSeq(qs) \in Seq(Words)
  <2>1. PICK f : Joins(qs, f)
    BY JoinsExist
  <2>2. Len(qs) \in 0..Len(qs)
    OBVIOUS
  <2>3. QED
    BY <2>1, <2>2, FlattenJoins DEF Joins
<1>3. ASSUME NEW qs \in Seq(Seq(Words)), NEW q \in Seq(Words)
      PROVE  FlattenSeq(Append(qs, q)) = FlattenSeq(qs) \o q
  <2> DEFINE n == Len(qs)
             u == Append(qs, q)
  <2>1. n \in Nat /\ u \in Seq(Seq(Words)) /\ Len(u) = n + 1 /\ u[n + 1] = q
        /\ \A i \in 1..n : u[i] = qs[i]
    OBVIOUS
  <2>2. PICK f : Joins(u, f)
    BY <2>1, JoinsExist
  <2> DEFINE g == [i \in 0..n |-> f[i]]
  <2>3. Joins(qs, g)
    <3> HIDE DEF u
    <3>1. \A i \in 1..n : g[i] = f[i] /\ g[i - 1] = f[i - 1] /\ i \in 1..(n + 1)
      BY <2>1
    <3>2. \A i \in 1..n : g[i] = g[i - 1] \o qs[i]
      BY <2>1, <2>2, <3>1 DEF Joins
    <3>3. g \in [0..n -> Seq(Words)] /\ g[0] = <<>>
      BY <2>1, <2>2 DEF Joins
    <3>4. QED
      BY <3>2, <3>3 DEF Joins
  <2>4. FlattenSeq(qs) = g[n] /\ FlattenSeq(u) = f[n + 1]
    BY <2>1, <2>2, <2>3, FlattenJoins
  <2>5. n + 1 \in 1..Len(u) /\ n + 1 - 1 = n /\ n \in 0..n
    BY <2>1
  <2>6. f[n + 1] = f[n] \o q
    <3> HIDE DEF u
    <3>1. ASSUME NEW i \in 1..Len(u), i = n + 1 PROVE f[i] = f[n] \o q
      <4>1. n = i - 1 /\ u[i] = q
        BY <2>1, <3>1
      <4>2. f[i] = f[i - 1] \o u[i]
        BY <2>2 DEF Joins
      <4>3. QED
        BY <4>1, <4>2
    <3>2. QED
      BY <2>5, <3>1
  <2>7. QED
    BY <2>4, <2>5, <2>6
<1>4. QED
  BY <1>1, <1>2, <1>3

---------------------------------------------------------------------------
(* Reading words where they were written.                                    *)

(* What the constants are.                                                   *)
LEMMA Assumed ==
    /\ NoText \notin Texts /\ KnownActions \subseteq Texts /\ Versions \subseteq Nat
    /\ \A n \in Nat : n \notin Texts
    /\ Half \in Nat /\ Half > 0 /\ Ports \in Nat /\ Ports > 0
    /\ MaxErrno \in Nat /\ MaxSyscall \in Nat
BY PoliciesAssumption

(* As far as it goes, the buffer has the words w from the offset on.         *)
Agree(at, w) == \A i \in 1..Len(w) : at + i <= Len(buf) => buf[at + i] = w[i]

(* A read at an offset where the words w are expected, which say e: it       *)
(* succeeds if they are all there, and yields e.                             *)
Fits(r, e, at, w) ==
    /\ r.ok <=> at + Len(w) <= Len(buf)
    /\ r.ok => r.value = e /\ r.off = at + Len(w)

(* Words in two parts.                                                       *)
LEMMA Split ==
    ASSUME NEW at \in Nat, NEW u \in Seq(Words), NEW v \in Seq(Words), Agree(at, u \o v)
    PROVE  /\ Agree(at, u) /\ Agree(at + Len(u), v)
           /\ Len(u \o v) = Len(u) + Len(v) /\ u \o v \in Seq(Words)
<1>1. Len(u \o v) = Len(u) + Len(v) /\ u \o v \in Seq(Words)
  OBVIOUS
<1>2. ASSUME NEW i \in 1..Len(u), at + i <= Len(buf) PROVE buf[at + i] = u[i]
  <2>1. i \in 1..Len(u \o v) /\ (u \o v)[i] = u[i]
    OBVIOUS
  <2>2. QED
    BY <1>2, <2>1 DEF Agree
<1>3. ASSUME NEW i \in 1..Len(v), at + Len(u) + i <= Len(buf)
      PROVE  buf[at + Len(u) + i] = v[i]
  <2>1. /\ Len(u) + i \in 1..Len(u \o v) /\ (u \o v)[Len(u) + i] = v[i]
        /\ at + (Len(u) + i) = at + Len(u) + i
    BY <1>1
  <2>2. QED
    BY <1>3, <2>1 DEF Agree
<1>4. QED
  BY <1>1, <1>2, <1>3 DEF Agree

(* One word.                                                                 *)
LEMMA OneWord ==
    ASSUME NEW at \in Nat, NEW x, Agree(at, <<x>>), at < Len(buf)
    PROVE  buf[at + 1] = x
BY DEF Agree

(* A word, by what the buffer has there.                                     *)
LEMMA WordIs ==
    ASSUME NEW at \in Nat, NEW x, at + 1 <= Len(buf) => buf[at + 1] = x
    PROVE  Agree(at, <<x>>)
<1>1. \A i \in 1..Len(<<x>>) : i = 1
  OBVIOUS
<1>2. <<x>>[1] = x
  OBVIOUS
<1>3. QED
  BY <1>1, <1>2 DEF Agree

(* Two words are one, and one more.                                          *)
LEMMA TwoWords ==
    ASSUME NEW at \in Nat, NEW x, NEW y, Agree(at, <<x, y>>)
    PROVE  Agree(at, <<x>>) /\ Agree(at + 1, <<y>>)
<1>1. ASSUME at + 1 <= Len(buf) PROVE buf[at + 1] = x
  BY <1>1 DEF Agree
<1>2. ASSUME at + 1 + 1 <= Len(buf) PROVE buf[at + 1 + 1] = y
  <2>1. at + 1 + 1 = at + 2 /\ 2 \in 1..Len(<<x, y>>)
    OBVIOUS
  <2>2. QED
    BY <1>2, <2>1 DEF Agree
<1>3. at + 1 \in Nat
  OBVIOUS
<1>4. QED
  BY <1>1, <1>2, <1>3, WordIs

(* Three words.                                                              *)
LEMMA ThreeWords ==
    ASSUME NEW at \in Nat, NEW x, NEW y, NEW z, Agree(at, <<x, y, z>>)
    PROVE  Agree(at, <<x>>) /\ Agree(at + 1, <<y>>) /\ Agree(at + 2, <<z>>)
<1>1. ASSUME at + 1 <= Len(buf) PROVE buf[at + 1] = x
  BY <1>1 DEF Agree
<1>2. ASSUME at + 1 + 1 <= Len(buf) PROVE buf[at + 1 + 1] = y
  <2>1. at + 1 + 1 = at + 2 /\ 2 \in 1..Len(<<x, y, z>>)
    OBVIOUS
  <2>2. QED
    BY <1>2, <2>1 DEF Agree
<1>3. ASSUME at + 2 + 1 <= Len(buf) PROVE buf[at + 2 + 1] = z
  <2>1. at + 2 + 1 = at + 3 /\ 3 \in 1..Len(<<x, y, z>>)
    OBVIOUS
  <2>2. QED
    BY <1>3, <2>1 DEF Agree
<1>4. at + 1 \in Nat /\ at + 2 \in Nat
  OBVIOUS
<1>5. QED
  BY <1>1, <1>2, <1>3, <1>4, WordIs

(* read_u32_buf: a number.                                                   *)
LEMMA NumFits ==
    ASSUME buf \in Seq(Words), NEW at \in Nat, NEW n \in Nat, Agree(at, <<n>>)
    PROVE  Fits(Num(at), n, at, <<n>>)
<1>0. Len(<<n>>) = 1 /\ Len(buf) \in Nat
  OBVIOUS
<1>1. CASE at < Len(buf)
  <2>1. buf[at + 1] = n /\ n \notin Texts
    BY <1>1, OneWord, Assumed
  <2>2. Num(at) = Got(n, at + 1, TRUE)
    BY <1>1, <2>1 DEF Num
  <2>3. QED
    BY <1>0, <1>1, <2>2 DEF Fits, Got
<1>2. CASE ~(at < Len(buf))
  <2>1. Num(at) = Got(0, at, FALSE)
    BY <1>2 DEF Num
  <2>2. QED
    BY <1>0, <1>2, <2>1 DEF Fits, Got
<1>3. QED
  BY <1>1, <1>2

(* What a text is on the wire.                                               *)
LEMMA TextWords ==
    /\ \A t \in Texts : Text(t) = <<1, t>> /\ Len(Text(t)) = 2 /\ Text(t) \in Seq(Words)
    /\ Text(NoText) = <<0>> /\ Len(Text(NoText)) = 1 /\ Text(NoText) \in Seq(Words)
<1>1. ASSUME NEW t \in Texts
      PROVE  Text(t) = <<1, t>> /\ Len(Text(t)) = 2 /\ Text(t) \in Seq(Words)
  <2>1. Text(t) = <<1, t>>
    BY Assumed DEF Text
  <2>3. 1 \in Words /\ t \in Words
    BY DEF Words
  <2>4. QED
    BY <2>1, <2>3
<1>2. 0 \in Words /\ Text(NoText) = <<0>>
  BY DEF Words, Text
<1>3. QED
  BY <1>1, <1>2

(* runtime.root and runtime.cwd: a text whose length is in the header.       *)
LEMMA RuntimeFits ==
    ASSUME buf \in Seq(Words), NEW at \in Nat, NEW t \in Texts, Agree(at, <<t>>)
    PROVE  Fits(RuntimeAt(at), t, at, <<t>>)
<1>0. Len(<<t>>) = 1 /\ Len(buf) \in Nat
  OBVIOUS
<1>1. CASE at < Len(buf)
  <2>1. buf[at + 1] = t
    BY <1>1, OneWord
  <2>2. RuntimeAt(at) = Got(t, at + 1, TRUE)
    BY <1>1, <2>1 DEF RuntimeAt
  <2>3. QED
    BY <1>0, <1>1, <2>2 DEF Fits, Got
<1>2. CASE ~(at < Len(buf))
  <2>1. RuntimeAt(at) = Got(NoText, at, FALSE)
    BY <1>2 DEF RuntimeAt
  <2>2. QED
    BY <1>0, <1>2, <2>1 DEF Fits, Got
<1>3. QED
  BY <1>1, <1>2

(* A text behind its length.                                                 *)
LEMMA TextFits ==
    ASSUME buf \in Seq(Words), NEW at \in Nat, NEW t \in Texts \cup {NoText}, Agree(at, Text(t))
    PROVE  Fits(TextAt(at), t, at, Text(t))
<1>0. Len(buf) \in Nat
  OBVIOUS
<1>1. CASE t = NoText
  <2>1. Fits(Num(at), 0, at, <<0>>)
    BY <1>1, NumFits, TextWords
  <2>2. TextAt(at) = Got(NoText, Num(at).off, Num(at).ok)
    BY <2>1 DEF TextAt, Fits
  <2>3. QED
    BY <1>1, <2>1, <2>2, TextWords DEF Fits, Got
<1>2. CASE t \in Texts
  <2>1. /\ Text(t) = <<1, t>> /\ Len(Text(t)) = 2
        /\ Len(<<1>>) = 1
    BY <1>2, TextWords
  <2>2. Agree(at, <<1>>) /\ Agree(at + 1, <<t>>)
    BY <2>1, TwoWords
  <2>3. Fits(Num(at), 1, at, <<1>>)
    BY <2>2, NumFits
  <2>4. CASE ~Num(at).ok
    <3>1. TextAt(at) = Got(NoText, Num(at).off, Num(at).ok)
      BY <2>4 DEF TextAt
    <3>2. QED
      BY <1>0, <2>1, <2>3, <2>4, <3>1 DEF Fits, Got
  <2>5. CASE Num(at).ok
    <3>1. Num(at).value = 1 /\ Num(at).off = at + 1 /\ at + 1 <= Len(buf)
      BY <2>1, <2>3, <2>5 DEF Fits
    <3>2. CASE at + 1 < Len(buf)
      <4>1. buf[at + 1 + 1] = t
        BY <2>2, <3>2, OneWord
      <4>2. TextAt(at) = Got(t, at + 1 + 1, TRUE)
        BY <1>2, <2>5, <3>1, <3>2, <4>1 DEF TextAt
      <4>3. QED
        BY <1>0, <2>1, <3>2, <4>2 DEF Fits, Got
    <3>3. CASE ~(at + 1 < Len(buf))
      <4>1. TextAt(at) = Got(NoText, at + 1, FALSE)
        BY <2>5, <3>1, <3>3 DEF TextAt
      <4>2. QED
        BY <1>0, <2>1, <3>3, <4>1 DEF Fits, Got
    <3>4. QED
      BY <3>2, <3>3
  <2>6. QED
    BY <2>4, <2>5
<1>3. QED
  BY <1>1, <1>2

(* A text that may not be empty.                                             *)
LEMMA PathFits ==
    ASSUME buf \in Seq(Words), NEW at \in Nat, NEW t \in Texts, Agree(at, Text(t))
    PROVE  Fits(PathAt(at), t, at, Text(t))
<1>1. Fits(TextAt(at), t, at, Text(t)) /\ t # NoText
  BY TextFits, Assumed
<1>2. PathAt(at) = Got(TextAt(at).value, TextAt(at).off, TextAt(at).ok /\ TextAt(at).value # NoText)
  BY DEF PathAt
<1>3. CASE TextAt(at).ok
  <2>1. PathAt(at) = Got(t, TextAt(at).off, TRUE)
    BY <1>1, <1>2, <1>3 DEF Fits
  <2>2. QED
    BY <1>1, <1>3, <2>1 DEF Fits, Got
<1>4. CASE ~TextAt(at).ok
  <2>1. PathAt(at) = Got(TextAt(at).value, TextAt(at).off, FALSE)
    BY <1>2, <1>4
  <2>2. QED
    BY <1>1, <1>4, <2>1 DEF Fits, Got
<1>5. QED
  BY <1>3, <1>4

(* One read more.                                                            *)
After(read, last) ==
    Got(Append(last.value, read[last.off].value), read[last.off].off,
        last.ok /\ read[last.off].ok)

(* The repeated read by its equations.                                       *)
LEMMA ReadsFacts ==
    ASSUME NEW read, NEW n \in Nat, NEW at
    PROVE  /\ Reads(read, n, at)[0] = Got(<<>>, at, TRUE)
           /\ \A k \in 1..n : Reads(read, n, at)[k] = After(read, Reads(read, n, at)[k - 1])
<1> DEFINE D(m, g) ==
             g = [k \in 0..m |-> IF k = 0 THEN Got(<<>>, at, TRUE) ELSE After(read, g[k - 1])]
           T == {m \in Nat : \E g : D(m, g)}
<1>1. 0 \in T
  <2>1. D(0, [k \in 0..0 |-> Got(<<>>, at, TRUE)])
    OBVIOUS
  <2>2. QED
    BY <2>1
<1>2. ASSUME NEW m \in Nat, m \in T PROVE m + 1 \in T
  <2>1. PICK g : D(m, g)
    BY <1>2
  <2> DEFINE h == [k \in 0..(m + 1) |-> IF k = m + 1 THEN After(read, g[m]) ELSE g[k]]
             r == [k \in 0..(m + 1) |-> IF k = 0 THEN Got(<<>>, at, TRUE) ELSE After(read, h[k - 1])]
  <2>2. ASSUME NEW k \in 0..(m + 1) PROVE h[k] = r[k]
    <3>1. CASE k = m + 1
      <4>1. k # 0 /\ k - 1 = m /\ m \in 0..(m + 1) /\ m # m + 1
        BY <3>1
      <4>2. h[m] = g[m]
        BY <4>1
      <4>3. h[k] = After(read, g[m])
        BY <3>1
      <4>4. r[k] = After(read, h[m])
        BY <4>1
      <4>5. QED
        BY <4>2, <4>3, <4>4
    <3>2. CASE k # m + 1 /\ k # 0
      <4>1. k \in 0..m /\ k - 1 \in 0..(m + 1) /\ k - 1 # m + 1
        BY <3>2
      <4>2. h[k] = g[k] /\ h[k - 1] = g[k - 1]
        BY <3>2, <4>1
      <4>3. g[k] = After(read, g[k - 1])
        BY <2>1, <3>2, <4>1
      <4>4. r[k] = After(read, h[k - 1])
        BY <3>2
      <4>5. QED
        BY <4>2, <4>3, <4>4
    <3>3. CASE k = 0
      <4>1. 0 \in 0..m /\ 0 # m + 1
        OBVIOUS
      <4>2. g[0] = Got(<<>>, at, TRUE)
        BY <2>1, <4>1
      <4>3. QED
        BY <3>3, <4>1, <4>2
    <3>4. QED
      BY <3>1, <3>2, <3>3
  <2>3. D(m + 1, h)
    BY <2>2
  <2>4. m + 1 \in Nat
    OBVIOUS
  <2> HIDE DEF D, h
  <2>5. QED
    BY <2>3, <2>4
<1>3. Nat \subseteq T
  <2> HIDE DEF T
  <2> QED BY <1>1, <1>2, SetInduction
<1>4. PICK f : D(n, f)
  BY <1>3
<1>5. Reads(read, n, at) = CHOOSE g : D(n, g)
  BY DEF Reads, After
<1>6. D(n, Reads(read, n, at))
  <2> HIDE DEF D
  <2> QED BY <1>4, <1>5
<1>7. 0 \in 0..n /\ \A k \in 1..n : k \in 0..n /\ k # 0
  OBVIOUS
<1>8. QED
  BY <1>6, <1>7

(* One entry more, where one more was written.                               *)
LEMMA AfterFits ==
    ASSUME buf \in Seq(Words), NEW at \in Nat, NEW u \in Seq(Words), NEW v \in Seq(Words),
           NEW read, NEW last, NEW d, NEW e, Fits(last, d, at, u),
           at + Len(u) <= Len(buf) => Fits(read[at + Len(u)], e, at + Len(u), v)
    PROVE  Fits(After(read, last), Append(d, e), at, u \o v)
<1> DEFINE p == at + Len(u)
           q == read[p]
<1>0. /\ Len(buf) \in Nat /\ Len(u) \in Nat /\ Len(v) \in Nat /\ p \in Nat
      /\ Len(u \o v) = Len(u) + Len(v)
  OBVIOUS
<1>1. CASE last.ok
  <2>1. last.off = p /\ last.value = d /\ p <= Len(buf)
    BY <1>1 DEF Fits
  <2>2. Fits(q, e, p, v)
    BY <2>1
  <2>3. read[last.off] = q
    BY <2>1
  <2> HIDE DEF q
  <2>4. CASE q.ok
    <3>1. q.value = e /\ q.off = p + Len(v) /\ p + Len(v) <= Len(buf)
      BY <2>2, <2>4 DEF Fits
    <3>2. After(read, last) = Got(Append(d, e), p + Len(v), TRUE)
      BY <1>1, <2>1, <2>3, <2>4, <3>1 DEF After
    <3>3. QED
      BY <1>0, <3>1, <3>2 DEF Fits, Got
  <2>5. CASE ~q.ok
    <3>1. ~(p + Len(v) <= Len(buf))
      BY <2>2, <2>5 DEF Fits
    <3>2. After(read, last) = Got(Append(d, q.value), q.off, FALSE)
      BY <2>1, <2>3, <2>5 DEF After
    <3>3. QED
      BY <1>0, <3>1, <3>2 DEF Fits, Got
  <2>6. QED
    BY <2>4, <2>5
<1>2. CASE ~last.ok
  <2>1. ~(p <= Len(buf))
    BY <1>2 DEF Fits
  <2>2. After(read, last) = Got(Append(last.value, read[last.off].value), read[last.off].off, FALSE)
    BY <1>2 DEF After
  <2>3. QED
    BY <1>0, <2>1, <2>2 DEF Fits, Got
<1>3. QED
  BY <1>1, <1>2

(* Reading as many entries as were written.                                  *)
LEMMA RepeatFits ==
    ASSUME buf \in Seq(Words), NEW at \in Nat, at <= Len(buf), NEW read,
           NEW S, NEW es \in Seq(S), NEW qs \in Seq(Seq(Words)), Len(qs) = Len(es),
           Agree(at, FlattenSeq(qs)),
           \A i \in 1..Len(es), p \in Nat :
              p <= Len(buf) /\ Agree(p, qs[i]) => Fits(read[p], es[i], p, qs[i])
    PROVE  Fits(Repeat(read, Len(es), at), es, at, FlattenSeq(qs))
<1> DEFINE n == Len(es)
           g == Reads(read, n, at)
           w == [k \in 0..n |-> FlattenSeq(Take(qs, k))]
           T == {k \in Nat : k <= n => (Agree(at, w[k]) => Fits(g[k], Take(es, k), at, w[k]))}
<1>0. n \in Nat /\ Len(buf) \in Nat /\ Len(qs) = n
  OBVIOUS
<1>1. /\ g[0] = Got(<<>>, at, TRUE)
      /\ \A k \in 1..n : g[k] = After(read, g[k - 1])
  BY <1>0, ReadsFacts, ZenonT(40)
<1>2. \A k \in 0..n : w[k] \in Seq(Words) /\ Len(w[k]) \in Nat
  <2>1. \A k \in 0..n : Take(qs, k) \in Seq(Seq(Words))
    BY <1>0, TakeFacts
  <2>2. QED
    BY <2>1, FlattenFacts
<1>3. ASSUME NEW k \in 1..n
      PROVE  /\ k - 1 \in 0..n /\ w[k] = w[k - 1] \o qs[k] /\ qs[k] \in Seq(Words)
             /\ Take(es, k) = Append(Take(es, k - 1), es[k])
  <2>1. k \in 0..n /\ k - 1 \in 0..n
    BY <1>0
  <2>2. Take(qs, k) = Append(Take(qs, k - 1), qs[k]) /\ Take(es, k) = Append(Take(es, k - 1), es[k])
    BY <1>0, TakeFacts
  <2>3. Take(qs, k - 1) \in Seq(Seq(Words)) /\ qs[k] \in Seq(Words)
    <3>1. qs[k] \in Seq(Words)
      BY <1>0
    <3>2. k - 1 \in 0..Len(qs)
      BY <1>0, <2>1
    <3>3. Take(qs, k - 1) \in Seq(Seq(Words))
      BY <3>2, TakeFacts
    <3>4. QED
      BY <3>1, <3>3
  <2>4. w[k] = FlattenSeq(Take(qs, k)) /\ w[k - 1] = FlattenSeq(Take(qs, k - 1))
    BY <2>1
  <2> HIDE DEF w
  <2>5. QED
    BY <2>1, <2>2, <2>3, <2>4, FlattenFacts
<1>4. w[0] = <<>> /\ w[n] = FlattenSeq(qs) /\ Take(es, 0) = <<>> /\ Take(es, n) = es
  BY <1>0, TakeFacts, FlattenFacts
<1> HIDE DEF g, w
<1>5. 0 \in T
  <2>1. Fits(g[0], Take(es, 0), at, w[0])
    <3>1. Len(<<>>) = 0 /\ at + 0 = at
      OBVIOUS
    <3>2. QED
      BY <1>1, <1>4, <3>1 DEF Fits, Got
  <2>2. QED
    BY <2>1
<1>6. ASSUME NEW k \in 1..n, k - 1 \in T, Agree(at, w[k]) PROVE Fits(g[k], Take(es, k), at, w[k])
  <2> DEFINE u == w[k - 1]
             p == at + Len(u)
  <2>1. /\ w[k] = u \o qs[k] /\ u \in Seq(Words) /\ qs[k] \in Seq(Words)
        /\ p \in Nat /\ k - 1 <= n
    <3>1. k - 1 \in 0..n /\ w[k] = u \o qs[k] /\ qs[k] \in Seq(Words)
      BY <1>3
    <3>2. u \in Seq(Words) /\ Len(u) \in Nat
      BY <1>2, <3>1
    <3>3. QED
      BY <1>0, <3>1, <3>2
  <2>2. Agree(at, u) /\ Agree(p, qs[k])
    <3>1. Agree(at, u \o qs[k])
      BY <1>6, <2>1
    <3> HIDE DEF u
    <3>2. QED
      BY <2>1, <3>1, Split
  <2>3. Fits(g[k - 1], Take(es, k - 1), at, u)
    BY <1>6, <2>1, <2>2
  <2>4. p <= Len(buf) => Fits(read[p], es[k], p, qs[k])
    BY <2>1, <2>2
  <2>5. g[k] = After(read, g[k - 1]) /\ Take(es, k) = Append(Take(es, k - 1), es[k])
    BY <1>1, <1>3
  <2>6. Fits(After(read, g[k - 1]), Append(Take(es, k - 1), es[k]), at, u \o qs[k])
    BY <2>1, <2>3, <2>4, AfterFits
  <2>7. QED
    BY <2>1, <2>5, <2>6
<1>7. ASSUME NEW k \in Nat, k \in T PROVE k + 1 \in T
  <2>1. CASE k + 1 <= n
    <3>1. k + 1 \in 1..n /\ k + 1 - 1 = k
      BY <1>0, <2>1
    <3>2. k + 1 - 1 \in T
      BY <1>7, <3>1
    <3>3. Agree(at, w[k + 1]) => Fits(g[k + 1], Take(es, k + 1), at, w[k + 1])
      BY <1>6, <3>1, <3>2
    <3>4. QED
      BY <3>3
  <2>2. CASE ~(k + 1 <= n)
    BY <2>2
  <2>3. QED
    BY <2>1, <2>2
<1>8. Nat \subseteq T
  <2> HIDE DEF T
  <2> QED BY <1>5, <1>7, SetInduction
<1>9. Fits(g[n], es, at, FlattenSeq(qs))
  BY <1>0, <1>4, <1>8, SMTT(40)
<1>10. QED
  BY <1>9 DEF Repeat, g

---------------------------------------------------------------------------
(* The entries of the sections.                                              *)

(* Two reads, the second where the first ended.                              *)
Pair(r, q) == [value |-> <<r.value, q.value>>, off |-> q.off, ok |-> r.ok /\ q.ok]
LEMMA PairFits ==
    ASSUME buf \in Seq(Words), NEW at \in Nat, NEW u \in Seq(Words), NEW v \in Seq(Words),
           NEW r, NEW q, NEW d, NEW e, Fits(r, d, at, u), r.ok => Fits(q, e, at + Len(u), v)
    PROVE  Fits(Pair(r, q), <<d, e>>, at, u \o v)
<1>0. /\ Len(buf) \in Nat /\ Len(u) \in Nat /\ Len(v) \in Nat
      /\ Len(u \o v) = Len(u) + Len(v)
  OBVIOUS
<1>1. CASE r.ok /\ q.ok
  <2>1. Fits(r, d, at, u) /\ Fits(q, e, at + Len(u), v)
    BY <1>1
  <2>2. /\ r.value = d /\ q.value = e /\ q.off = at + Len(u) + Len(v)
        /\ at + Len(u) + Len(v) <= Len(buf)
    BY <1>1, <2>1 DEF Fits
  <2>3. Pair(r, q) = [value |-> <<d, e>>, off |-> at + Len(u) + Len(v), ok |-> TRUE]
    BY <1>1, <2>2 DEF Pair
  <2>4. QED
    BY <1>0, <2>2, <2>3 DEF Fits
<1>2. CASE ~(r.ok /\ q.ok)
  <2>1. ~(at + Len(u) + Len(v) <= Len(buf))
    BY <1>0, <1>2 DEF Fits
  <2>2. Pair(r, q) = [value |-> <<r.value, q.value>>, off |-> q.off, ok |-> FALSE]
    BY <1>2 DEF Pair
  <2>3. QED
    BY <1>0, <2>1, <2>2 DEF Fits
<1>3. QED
  BY <1>1, <1>2

(* A read that succeeds, and one that does not.                              *)
LEMMA GotFits ==
    ASSUME NEW r, NEW e, NEW at, NEW w,
           \/ at + Len(w) <= Len(buf) /\ r = Got(e, at + Len(w), TRUE)
           \/ ~(at + Len(w) <= Len(buf)) /\ \E x, p : r = Got(x, p, FALSE)
    PROVE  Fits(r, e, at, w)
BY DEF Fits, Got

(* Numbers are words.                                                        *)
LEMMA NumWords ==
    /\ \A x \in Nat : <<x>> \in Seq(Words) /\ Len(<<x>>) = 1
    /\ \A x, y \in Nat : <<x, y>> \in Seq(Words) /\ Len(<<x, y>>) = 2
    /\ \A x, y, z \in Nat : <<x, y, z>> \in Seq(Words) /\ Len(<<x, y, z>>) = 3
<1>1. \A x \in Nat : x \in Words
  BY DEF Words
<1>2. QED
  BY <1>1

(* A rule of a layer.                                                        *)
FsRuleWords(r) == <<r.access>> \o Text(r.path)
LEMMA FsRuleFits ==
    ASSUME buf \in Seq(Words), NEW at \in Nat, NEW r \in [access : Nat \ {0}, path : Texts]
    PROVE  /\ FsRuleWords(r) \in Seq(Words)
           /\ Agree(at, FsRuleWords(r)) => Fits(FsRuleAt(at), r, at, FsRuleWords(r))
<1> DEFINE u == <<r.access>>
           v == Text(r.path)
           access == Num(at)
           path == TextAt(access.off)
<1>1. /\ u \in Seq(Words) /\ v \in Seq(Words) /\ Len(u) = 1
      /\ r.access \in Nat /\ r.access # 0 /\ r.path \in Texts
      /\ r = [access |-> r.access, path |-> r.path]
  BY NumWords, TextWords
<1>2. FsRuleWords(r) = u \o v /\ u \o v \in Seq(Words)
  BY <1>1 DEF FsRuleWords
<1> SUFFICES ASSUME Agree(at, u \o v) PROVE Fits(FsRuleAt(at), r, at, u \o v)
  BY <1>2
<1>3. Agree(at, u) /\ Agree(at + 1, v) /\ at + 1 \in Nat
  <2>1. u \in Seq(Words) /\ v \in Seq(Words) /\ Len(u) = 1
    BY <1>1
  <2> HIDE DEF u, v
  <2>2. Agree(at, u) /\ Agree(at + Len(u), v)
    BY <2>1, Split
  <2>3. QED
    BY <2>1, <2>2
<1>4. Fits(access, r.access, at, u)
  BY <1>1, <1>3, NumFits
<1>5. access.ok => Fits(path, r.path, at + 1, v)
  <2> SUFFICES ASSUME access.ok PROVE Fits(path, r.path, at + 1, v)
    OBVIOUS
  <2>1. access.off = at + 1
    BY <1>1, <1>4 DEF Fits
  <2>2. QED
    BY <1>1, <1>3, <2>1, TextFits DEF v
<1>6. FsRuleAt(at) = Got([access |-> access.value, path |-> path.value], path.off,
                         access.ok /\ path.ok /\ access.value # 0)
  BY DEF FsRuleAt
<1> HIDE DEF u, v, access, path
<1> DEFINE w == u \o v
           both == Pair(access, path)
<1>7. Fits(both, <<r.access, r.path>>, at, w)
  <2>1. u \in Seq(Words) /\ v \in Seq(Words) /\ at + 1 = at + Len(u)
    BY <1>1
  <2>2. QED
    BY <1>4, <1>5, <2>1, PairFits
<1>8. CASE access.ok /\ path.ok
  <2>1. both.ok /\ both.value = <<access.value, path.value>> /\ both.off = path.off
    BY <1>8 DEF Pair
  <2>2. /\ access.value = r.access /\ path.value = r.path /\ path.off = at + Len(w)
        /\ at + Len(w) <= Len(buf)
    <3> HIDE DEF both
    <3> QED BY <1>7, <2>1 DEF Fits
  <2>3. FsRuleAt(at) = Got(r, at + Len(w), TRUE)
    BY <1>1, <1>6, <1>8, <2>2
  <2>4. QED
    BY <2>2, <2>3, GotFits
<1>9. CASE ~(access.ok /\ path.ok)
  <2>1. both = [value |-> <<access.value, path.value>>, off |-> path.off, ok |-> FALSE]
    BY <1>9 DEF Pair
  <2>2. ~(at + Len(w) <= Len(buf))
    BY <1>7, <2>1 DEF Fits
  <2>3. FsRuleAt(at) = Got([access |-> access.value, path |-> path.value], path.off, FALSE)
    BY <1>6, <1>9
  <2>4. QED
    BY <2>2, <2>3, GotFits
<1>10. QED
  BY <1>8, <1>9

(* What two reads yield.                                                     *)
LEMMA PairFacts ==
    ASSUME NEW r, NEW q
    PROVE  /\ Pair(r, q).ok <=> r.ok /\ q.ok
           /\ Pair(r, q).value = <<r.value, q.value>> /\ Pair(r, q).off = q.off
<1>1. CASE r.ok /\ q.ok
  <2>1. Pair(r, q) = [value |-> <<r.value, q.value>>, off |-> q.off, ok |-> TRUE]
    BY <1>1 DEF Pair
  <2>2. QED
    BY <1>1, <2>1
<1>2. CASE ~(r.ok /\ q.ok)
  <2>1. Pair(r, q) = [value |-> <<r.value, q.value>>, off |-> q.off, ok |-> FALSE]
    BY <1>2 DEF Pair
  <2>2. QED
    BY <1>2, <2>1
<1>3. QED
  BY <1>1, <1>2

(* An entry made of what was read.                                           *)
LEMMA MadeFits ==
    ASSUME NEW r, NEW e, NEW b, NEW d, NEW at, NEW w, Fits(b, d, at, w),
           b.ok /\ b.value = d => r = Got(e, b.off, TRUE),
           ~b.ok => \E x, p : r = Got(x, p, FALSE)
    PROVE  Fits(r, e, at, w)
<1>1. CASE b.ok
  BY <1>1 DEF Fits, Got
<1>2. CASE ~b.ok
  BY <1>2 DEF Fits, Got
<1>3. QED
  BY <1>1, <1>2

(* Two numbers, one behind the other.                                        *)
LEMMA TwoNums ==
    ASSUME buf \in Seq(Words), NEW at \in Nat, NEW x \in Nat, NEW y \in Nat, Agree(at, <<x, y>>)
    PROVE  Fits(Pair(Num(at), Num(Num(at).off)), <<x, y>>, at, <<x, y>>)
<1> DEFINE r == Num(at)
           q == Num(r.off)
<1>0. Len(<<x, y>>) = 2 /\ Len(<<x>>) = 1 /\ Len(<<y>>) = 1 /\ Len(buf) \in Nat /\ at + 1 \in Nat
  OBVIOUS
<1>1. Fits(r, x, at, <<x>>) /\ Agree(at + 1, <<y>>)
  BY TwoWords, NumFits
<1>2. CASE r.ok
  <2>1. r.off = at + 1 /\ r.value = x /\ at + 1 <= Len(buf)
    BY <1>0, <1>1, <1>2 DEF Fits
  <2>2. Fits(q, y, at + 1, <<y>>)
    BY <1>0, <1>1, <2>1, NumFits
  <2> HIDE DEF r, q
  <2>3. CASE q.ok
    <3>1. q.off = at + 2 /\ q.value = y /\ at + 2 <= Len(buf)
      BY <1>0, <2>2, <2>3 DEF Fits
    <3>2. Pair(r, q) = [value |-> <<x, y>>, off |-> at + 2, ok |-> TRUE]
      BY <1>2, <2>1, <2>3, <3>1 DEF Pair
    <3>3. QED
      BY <1>0, <3>1, <3>2 DEF Fits, r, q
  <2>4. CASE ~q.ok
    <3>1. ~(at + 2 <= Len(buf))
      BY <1>0, <2>2, <2>4 DEF Fits
    <3>2. ~Pair(r, q).ok
      BY <2>4, PairFacts
    <3>3. QED
      BY <1>0, <3>1, <3>2 DEF Fits, r, q
  <2>5. QED
    BY <2>3, <2>4
<1>3. CASE ~r.ok
  <2>1. ~(at + 2 <= Len(buf))
    BY <1>0, <1>1, <1>3 DEF Fits
  <2>2. ~Pair(r, q).ok
    <3> HIDE DEF r, q
    <3> QED BY <1>3, PairFacts
  <2>3. QED
    BY <1>0, <2>1, <2>2 DEF Fits
<1>4. QED
  BY <1>2, <1>3

(* Three numbers.                                                            *)
LEMMA ThreeNums ==
    ASSUME buf \in Seq(Words), NEW at \in Nat, NEW x \in Nat, NEW y \in Nat, NEW z \in Nat,
           Agree(at, <<x, y, z>>)
    PROVE  LET two == Pair(Num(at), Num(Num(at).off)) IN
           Fits(Pair(two, Num(two.off)), <<<<x, y>>, z>>, at, <<x, y, z>>)
<1> DEFINE r == Pair(Num(at), Num(Num(at).off))
           q == Num(r.off)
<1>0. /\ Len(<<x, y, z>>) = 3 /\ Len(<<x, y>>) = 2 /\ Len(<<z>>) = 1 /\ Len(buf) \in Nat
      /\ at + 2 \in Nat
  OBVIOUS
<1>1. Agree(at, <<x, y>>)
  <2>1. \A i \in 1..Len(<<x, y>>) : i \in 1..Len(<<x, y, z>>) /\ <<x, y>>[i] = <<x, y, z>>[i]
    OBVIOUS
  <2>2. QED
    BY <2>1 DEF Agree
<1>2. Fits(r, <<x, y>>, at, <<x, y>>) /\ Agree(at + 2, <<z>>)
  BY <1>1, TwoNums, ThreeWords
<1> HIDE DEF r
<1>3. CASE r.ok
  <2>1. r.off = at + 2 /\ r.value = <<x, y>> /\ at + 2 <= Len(buf)
    BY <1>0, <1>2, <1>3 DEF Fits
  <2>2. Fits(q, z, at + 2, <<z>>)
    BY <1>0, <1>2, <2>1, NumFits
  <2> HIDE DEF q
  <2>3. CASE q.ok
    <3>1. q.off = at + 3 /\ q.value = z /\ at + 3 <= Len(buf)
      BY <1>0, <2>2, <2>3 DEF Fits
    <3>2. Pair(r, q) = [value |-> <<<<x, y>>, z>>, off |-> at + 3, ok |-> TRUE]
      BY <1>3, <2>1, <2>3, <3>1 DEF Pair
    <3>3. Fits(Pair(r, q), <<<<x, y>>, z>>, at, <<x, y, z>>)
      BY <1>0, <3>1, <3>2 DEF Fits
    <3>4. QED
      BY <3>3 DEF r, q
  <2>4. CASE ~q.ok
    <3>1. ~(at + 3 <= Len(buf))
      BY <1>0, <2>2, <2>4 DEF Fits
    <3>2. ~Pair(r, q).ok
      BY <2>4, PairFacts
    <3>3. Fits(Pair(r, q), <<<<x, y>>, z>>, at, <<x, y, z>>)
      BY <1>0, <3>1, <3>2 DEF Fits
    <3>4. QED
      BY <3>3 DEF r, q
  <2>5. QED
    BY <2>3, <2>4
<1>4. CASE ~r.ok
  <2>1. ~(at + 3 <= Len(buf))
    BY <1>0, <1>2, <1>4 DEF Fits
  <2>2. ~Pair(r, q).ok
    <3> HIDE DEF q
    <3> QED BY <1>4, PairFacts
  <2>3. Fits(Pair(r, q), <<<<x, y>>, z>>, at, <<x, y, z>>)
    BY <1>0, <2>1, <2>2 DEF Fits
  <2>4. QED
    BY <2>3 DEF r
<1>5. QED
  BY <1>3, <1>4

(* The cast to uint16_t leaves a port as it is.                              *)
LEMMA PortKept ==
    ASSUME NEW n \in 0..(Ports - 1)
    PROVE  n \in Nat /\ n % Ports = n
<1>1. Ports \in Nat /\ Ports > 0
  BY Assumed
<1>2. QED
  BY <1>1

(* A rule of the network.                                                    *)
LEMMA NetRuleFits ==
    ASSUME buf \in Seq(Words), NEW at \in Nat,
           NEW e \in [port : 0..(Ports - 1), access : Nat \ {0}]
    PROVE  /\ <<e.port, e.access>> \in Seq(Words)
           /\ Agree(at, <<e.port, e.access>>) =>
                 Fits(NetRuleAt(at), e, at, <<e.port, e.access>>)
<1> DEFINE port == Num(at)
           access == Num(port.off)
           both == Pair(port, access)
<1>1. /\ e.port \in Nat /\ e.port % Ports = e.port /\ e.access \in Nat /\ e.access # 0
      /\ e = [port |-> e.port, access |-> e.access]
  <2>1. /\ e.port \in 0..(Ports - 1) /\ e.access \in Nat /\ e.access # 0
        /\ e = [port |-> e.port, access |-> e.access]
    OBVIOUS
  <2>2. QED
    BY <2>1, PortKept
<1>2. <<e.port, e.access>> \in Seq(Words)
  BY <1>1, NumWords
<1> SUFFICES ASSUME Agree(at, <<e.port, e.access>>)
             PROVE  Fits(NetRuleAt(at), e, at, <<e.port, e.access>>)
  BY <1>2
<1>3. Fits(both, <<e.port, e.access>>, at, <<e.port, e.access>>)
  BY <1>1, TwoNums
<1>4. NetRuleAt(at) = Got([port |-> port.value % Ports, access |-> access.value], access.off,
                          port.ok /\ access.ok /\ access.value # 0)
  BY DEF NetRuleAt
<1> HIDE DEF port, access
<1>5. /\ both.ok <=> port.ok /\ access.ok
      /\ both.value = <<port.value, access.value>> /\ both.off = access.off
  BY PairFacts
<1> HIDE DEF both
<1>6. ASSUME both.ok, both.value = <<e.port, e.access>> PROVE NetRuleAt(at) = Got(e, both.off, TRUE)
  <2>1. port.value = e.port /\ access.value = e.access /\ port.ok /\ access.ok
    BY <1>5, <1>6
  <2>2. QED
    BY <1>1, <1>4, <1>5, <2>1
<1>7. ASSUME ~both.ok PROVE \E x, p : NetRuleAt(at) = Got(x, p, FALSE)
  <2>1. NetRuleAt(at) = Got([port |-> port.value % Ports, access |-> access.value], access.off, FALSE)
    BY <1>4, <1>5, <1>7
  <2>2. QED
    BY <2>1
<1> DEFINE w == <<e.port, e.access>>
<1>8. Fits(both, w, at, w) /\ (both.ok /\ both.value = w => NetRuleAt(at) = Got(e, both.off, TRUE))
  BY <1>3, <1>6
<1> HIDE DEF w
<1>9. Fits(NetRuleAt(at), e, at, w)
  BY <1>7, <1>8, MadeFits
<1>10. QED
  BY <1>9 DEF w

(* A denied system call.                                                     *)
LEMMA DenyFits ==
    ASSUME buf \in Seq(Words), NEW at \in Nat, NEW e \in 0..MaxSyscall, Agree(at, <<e>>)
    PROVE  Fits(DenyAt(at), e, at, <<e>>)
<1> DEFINE nr == Num(at)
<1>1. e \in Nat /\ e <= MaxSyscall
  BY Assumed
<1>2. Fits(nr, e, at, <<e>>)
  BY <1>1, NumFits
<1>3. DenyAt(at) = Got(nr.value, nr.off, nr.ok /\ nr.value <= MaxSyscall)
  BY DEF DenyAt
<1> HIDE DEF nr
<1>4. ASSUME nr.ok, nr.value = e PROVE DenyAt(at) = Got(e, nr.off, TRUE)
  BY <1>1, <1>3, <1>4
<1>5. ASSUME ~nr.ok PROVE \E x, p : DenyAt(at) = Got(x, p, FALSE)
  <2>1. DenyAt(at) = Got(nr.value, nr.off, FALSE)
    BY <1>3, <1>5
  <2>2. QED
    BY <2>1
<1> DEFINE w == <<e>>
<1>6. Fits(nr, e, at, w)
  BY <1>2
<1> HIDE DEF w
<1>7. Fits(DenyAt(at), e, at, w)
  BY <1>4, <1>5, <1>6, MadeFits
<1>8. QED
  BY <1>7 DEF w

(* Two texts, as a bind and an addfd rule begin.                             *)
LEMMA TwoPaths ==
    ASSUME buf \in Seq(Words), NEW at \in Nat, NEW s \in Texts, NEW t \in Texts
    PROVE  /\ Text(s) \o Text(t) \in Seq(Words)
           /\ Agree(at, Text(s) \o Text(t)) =>
                Fits(Pair(PathAt(at), PathAt(PathAt(at).off)), <<s, t>>, at, Text(s) \o Text(t))
<1> DEFINE u == Text(s)
           v == Text(t)
           r == PathAt(at)
           q == PathAt(r.off)
<1>1. u \in Seq(Words) /\ v \in Seq(Words) /\ Len(u) \in Nat /\ at + Len(u) \in Nat
  BY TextWords
<1>2. u \o v \in Seq(Words)
  <2> HIDE DEF u, v
  <2> QED BY <1>1
<1> SUFFICES ASSUME Agree(at, u \o v) PROVE Fits(Pair(r, q), <<s, t>>, at, u \o v)
  BY <1>2
<1>3. Agree(at, u) /\ Agree(at + Len(u), v)
  <2> HIDE DEF u, v
  <2> QED BY <1>1, Split
<1>4. Fits(r, s, at, u)
  BY <1>3, PathFits
<1>5. ASSUME r.ok PROVE Fits(q, t, at + Len(u), v)
  <2>1. r.off = at + Len(u)
    BY <1>4, <1>5 DEF Fits
  <2>2. QED
    BY <1>1, <1>3, <2>1, PathFits
<1> HIDE DEF u, v, r, q
<1>6. QED
  BY <1>1, <1>4, <1>5, PairFits

(* A bind mount.                                                             *)
LEMMA BindFits ==
    ASSUME buf \in Seq(Words), NEW at \in Nat,
           NEW e \in [source : Texts, target : Texts, read_only : {0, 1}]
    PROVE  LET w == Text(e.source) \o Text(e.target) \o <<e.read_only>> IN
           /\ w \in Seq(Words)
           /\ Agree(at, w) => Fits(BindAt(at), e, at, w)
<1> DEFINE u == Text(e.source) \o Text(e.target)
           v == <<e.read_only>>
           source == PathAt(at)
           tgt == PathAt(source.off)
           ro == Num(tgt.off)
           two == Pair(source, tgt)
           all == Pair(two, ro)
<1>1. /\ e.source \in Texts /\ e.target \in Texts /\ e.read_only \in {0, 1}
      /\ e = [source |-> e.source, target |-> e.target, read_only |-> e.read_only]
  OBVIOUS
<1>2. u \in Seq(Words)
  BY <1>1, TwoPaths
<1>3. e.read_only \in Nat /\ e.read_only <= 1 /\ v \in Seq(Words)
  BY <1>1, NumWords
<1>4. u \o v \in Seq(Words) /\ at + Len(u) \in Nat
  <2> HIDE DEF u, v
  <2> QED BY <1>2, <1>3
<1> SUFFICES ASSUME Agree(at, u \o v) PROVE Fits(BindAt(at), e, at, u \o v)
  BY <1>4
<1>5. Agree(at, u) /\ Agree(at + Len(u), v)
  <2> HIDE DEF u, v
  <2> QED BY <1>2, <1>3, Split
<1>6. Fits(two, <<e.source, e.target>>, at, u)
  BY <1>1, <1>5, TwoPaths
<1>7. two.off = tgt.off
  BY PairFacts
<1>8. ASSUME two.ok PROVE Fits(ro, e.read_only, at + Len(u), v)
  <2>1. tgt.off = at + Len(u)
    BY <1>6, <1>7, <1>8 DEF Fits
  <2>2. QED
    BY <1>3, <1>4, <1>5, <2>1, NumFits
<1>9. BindAt(at) = Got([source |-> source.value, target |-> tgt.value, read_only |-> ro.value],
                       ro.off, source.ok /\ tgt.ok /\ ro.ok /\ ro.value <= 1)
  BY DEF BindAt
<1> HIDE DEF u, v, source, tgt, ro
<1>10. /\ two.ok <=> source.ok /\ tgt.ok
       /\ two.value = <<source.value, tgt.value>>
  BY PairFacts
<1> HIDE DEF two
<1>11. Fits(all, <<<<e.source, e.target>>, e.read_only>>, at, u \o v)
  BY <1>2, <1>3, <1>6, <1>8, PairFits
<1>12. (all.ok <=> two.ok /\ ro.ok) /\ all.value = <<two.value, ro.value>> /\ all.off = ro.off
  BY PairFacts
<1> HIDE DEF all
<1>13. ASSUME all.ok, all.value = <<<<e.source, e.target>>, e.read_only>>
       PROVE  BindAt(at) = Got(e, all.off, TRUE)
  <2>1. /\ source.value = e.source /\ tgt.value = e.target /\ ro.value = e.read_only
        /\ source.ok /\ tgt.ok /\ ro.ok
    BY <1>10, <1>12, <1>13
  <2>2. BindAt(at) = Got(e, ro.off, source.ok /\ tgt.ok /\ ro.ok /\ ro.value <= 1)
    BY <1>1, <1>9, <2>1
  <2>3. QED
    BY <1>3, <1>12, <2>1, <2>2
<1>14. ASSUME ~all.ok PROVE \E x, p : BindAt(at) = Got(x, p, FALSE)
  <2>1. BindAt(at) = Got([source |-> source.value, target |-> tgt.value, read_only |-> ro.value],
                         ro.off, FALSE)
    BY <1>9, <1>10, <1>12, <1>14
  <2>2. QED
    BY <2>1
<1>15. QED
  BY <1>11, <1>13, <1>14, MadeFits

(* An addfd rule.                                                            *)
LEMMA AddFdFits ==
    ASSUME buf \in Seq(Words), NEW at \in Nat,
           NEW e \in [action : KnownActions, target : Texts, mode : Texts \cup {NoText}]
    PROVE  LET w == Text(e.action) \o Text(e.target) \o Text(e.mode) IN
           /\ w \in Seq(Words)
           /\ Agree(at, w) => Fits(AddFdAt(at), e, at, w)
<1> DEFINE u == Text(e.action) \o Text(e.target)
           v == Text(e.mode)
           action == PathAt(at)
           tgt == PathAt(action.off)
           mode == TextAt(tgt.off)
           two == Pair(action, tgt)
           all == Pair(two, mode)
<1>1. /\ e.action \in Texts /\ e.action \in KnownActions
      /\ e.target \in Texts /\ e.mode \in Texts \cup {NoText}
      /\ e = [action |-> e.action, target |-> e.target, mode |-> e.mode]
  BY Assumed
<1>2. u \in Seq(Words)
  BY <1>1, TwoPaths
<1>3. v \in Seq(Words)
  BY <1>1, TextWords
<1>4. u \o v \in Seq(Words) /\ at + Len(u) \in Nat
  <2> HIDE DEF u, v
  <2> QED BY <1>2, <1>3
<1> SUFFICES ASSUME Agree(at, u \o v) PROVE Fits(AddFdAt(at), e, at, u \o v)
  BY <1>4
<1>5. Agree(at, u) /\ Agree(at + Len(u), v)
  <2> HIDE DEF u, v
  <2> QED BY <1>2, <1>3, Split
<1>6. Fits(two, <<e.action, e.target>>, at, u)
  BY <1>1, <1>5, TwoPaths
<1>7. two.off = tgt.off
  BY PairFacts
<1>8. ASSUME two.ok PROVE Fits(mode, e.mode, at + Len(u), v)
  <2>1. tgt.off = at + Len(u)
    BY <1>6, <1>7, <1>8 DEF Fits
  <2>2. QED
    BY <1>1, <1>4, <1>5, <2>1, TextFits
<1>9. AddFdAt(at) = Got([action |-> action.value, target |-> tgt.value, mode |-> mode.value],
                        mode.off, action.ok /\ tgt.ok /\ mode.ok /\ action.value \in KnownActions)
  BY DEF AddFdAt
<1> HIDE DEF u, v, action, tgt, mode
<1>10. /\ two.ok <=> action.ok /\ tgt.ok
       /\ two.value = <<action.value, tgt.value>>
  BY PairFacts
<1> HIDE DEF two
<1>11. Fits(all, <<<<e.action, e.target>>, e.mode>>, at, u \o v)
  BY <1>2, <1>3, <1>6, <1>8, PairFits
<1>12. /\ all.ok <=> two.ok /\ mode.ok
       /\ all.value = <<two.value, mode.value>> /\ all.off = mode.off
  BY PairFacts
<1> HIDE DEF all
<1>13. ASSUME all.ok, all.value = <<<<e.action, e.target>>, e.mode>>
       PROVE  AddFdAt(at) = Got(e, all.off, TRUE)
  <2>1. /\ action.value = e.action /\ tgt.value = e.target /\ mode.value = e.mode
        /\ action.ok /\ tgt.ok /\ mode.ok
    BY <1>10, <1>12, <1>13
  <2>2. AddFdAt(at) =
          Got(e, mode.off, action.ok /\ tgt.ok /\ mode.ok /\ action.value \in KnownActions)
    BY <1>1, <1>9, <2>1
  <2>3. QED
    BY <1>1, <1>12, <2>1, <2>2
<1>14. ASSUME ~all.ok PROVE \E x, p : AddFdAt(at) = Got(x, p, FALSE)
  <2>1. AddFdAt(at) = Got([action |-> action.value, target |-> tgt.value, mode |-> mode.value],
                          mode.off, FALSE)
    BY <1>9, <1>10, <1>12, <1>14
  <2>2. QED
    BY <2>1
<1>15. QED
  BY <1>11, <1>13, <1>14, MadeFits

(* What a sequence is.                                                       *)
LEMMA SeqFacts ==
    ASSUME NEW S, NEW es \in Seq(S)
    PROVE  /\ DOMAIN es = 1..Len(es) /\ Len(es) \in Nat
           /\ \A i \in 1..Len(es) : es[i] \in S
OBVIOUS

(* The words of a list of rules, or of a list of paths.                      *)
LEMMA RulesFit ==
    ASSUME buf \in Seq(Words), NEW at \in Nat, at <= Len(buf),
           NEW es \in Seq([access : Nat \ {0}, path : Texts])
    PROVE  LET w == FlattenSeq([i \in DOMAIN es |-> FsRuleWords(es[i])]) IN
           /\ w \in Seq(Words)
           /\ Agree(at, w) => Fits(Repeat([p \in Offsets |-> FsRuleAt(p)], Len(es), at), es, at, w)
<1> DEFINE qs == [i \in DOMAIN es |-> FsRuleWords(es[i])]
           read == [p \in Offsets |-> FsRuleAt(p)]
           S == [access : Nat \ {0}, path : Texts]
<1>0. /\ DOMAIN es = 1..Len(es) /\ Len(es) \in Nat /\ Len(buf) \in Nat
      /\ \A i \in 1..Len(es) : es[i] \in S
  <2>1. es \in Seq(S)
    OBVIOUS
  <2> HIDE DEF S
  <2>2. QED
    BY <2>1, SeqFacts
<1>1. \A i \in 1..Len(es) : FsRuleWords(es[i]) \in Seq(Words)
  BY <1>0, FsRuleFits
<1>2. qs \in Seq(Seq(Words)) /\ Len(qs) = Len(es) /\ \A i \in 1..Len(es) : qs[i] = FsRuleWords(es[i])
  BY <1>0, <1>1
<1>3. FlattenSeq(qs) \in Seq(Words)
  <2> HIDE DEF qs
  <2> QED BY <1>2, FlattenFacts
<1>4. ASSUME NEW i \in 1..Len(es), NEW p \in Nat, p <= Len(buf), Agree(p, qs[i])
      PROVE  Fits(read[p], es[i], p, qs[i])
  <2>1. read[p] = FsRuleAt(p)
    BY <1>0, <1>4 DEF Offsets
  <2>2. Fits(FsRuleAt(p), es[i], p, FsRuleWords(es[i]))
    BY <1>0, <1>2, <1>4, FsRuleFits
  <2>3. QED
    BY <1>2, <2>1, <2>2
<1> HIDE DEF qs, read
<1>5. Agree(at, FlattenSeq(qs)) => Fits(Repeat(read, Len(es), at), es, at, FlattenSeq(qs))
  BY <1>2, <1>4, RepeatFits
<1>6. QED
  BY <1>3, <1>5 DEF qs, read

(* The same of a list of paths.                                              *)
LEMMA PathsFit ==
    ASSUME buf \in Seq(Words), NEW at \in Nat, at <= Len(buf), NEW es \in Seq(Texts)
    PROVE  LET w == FlattenSeq([i \in DOMAIN es |-> Text(es[i])]) IN
           /\ w \in Seq(Words)
           /\ Agree(at, w) => Fits(Repeat([p \in Offsets |-> PathAt(p)], Len(es), at), es, at, w)
<1> DEFINE qs == [i \in DOMAIN es |-> Text(es[i])]
           read == [p \in Offsets |-> PathAt(p)]
<1>0. /\ DOMAIN es = 1..Len(es) /\ Len(es) \in Nat /\ Len(buf) \in Nat
      /\ \A i \in 1..Len(es) : es[i] \in Texts
  OBVIOUS
<1>1. \A i \in 1..Len(es) : Text(es[i]) \in Seq(Words)
  BY <1>0, TextWords
<1>2. qs \in Seq(Seq(Words)) /\ Len(qs) = Len(es) /\ \A i \in 1..Len(es) : qs[i] = Text(es[i])
  BY <1>0, <1>1
<1>3. FlattenSeq(qs) \in Seq(Words)
  <2> HIDE DEF qs
  <2> QED BY <1>2, FlattenFacts
<1>4. ASSUME NEW i \in 1..Len(es), NEW p \in Nat, p <= Len(buf), Agree(p, qs[i])
      PROVE  Fits(read[p], es[i], p, qs[i])
  <2>1. read[p] = PathAt(p)
    BY <1>0, <1>4 DEF Offsets
  <2>2. Fits(PathAt(p), es[i], p, Text(es[i]))
    BY <1>0, <1>2, <1>4, PathFits
  <2>3. QED
    BY <1>2, <2>1, <2>2
<1> HIDE DEF qs, read
<1>5. Agree(at, FlattenSeq(qs)) => Fits(Repeat(read, Len(es), at), es, at, FlattenSeq(qs))
  BY <1>2, <1>4, RepeatFits
<1>6. QED
  BY <1>3, <1>5 DEF qs, read

(* A layer, with its rules.                                                  *)
LEMMA FsLayerFits ==
    ASSUME buf \in Seq(Words), NEW at \in Nat,
           NEW e \in [handled : Nat \ {0}, rules : Seq([access : Nat \ {0}, path : Texts])]
    PROVE  LET w == <<e.handled, Len(e.rules)>>
                    \o FlattenSeq([i \in DOMAIN e.rules |-> FsRuleWords(e.rules[i])])
           IN /\ w \in Seq(Words)
              /\ Agree(at, w) => Fits(FsLayerAt(at), e, at, w)
<1> DEFINE u == <<e.handled, Len(e.rules)>>
           v == FlattenSeq([i \in DOMAIN e.rules |-> FsRuleWords(e.rules[i])])
           handled == Num(at)
           count == Num(handled.off)
           rules == Repeat([p \in Offsets |-> FsRuleAt(p)], count.value, count.off)
           two == Pair(handled, count)
           all == Pair(two, rules)
<1>1. /\ e.handled \in Nat /\ e.handled # 0 /\ Len(e.rules) \in Nat
      /\ e.rules \in Seq([access : Nat \ {0}, path : Texts])
      /\ e = [handled |-> e.handled, rules |-> e.rules]
  OBVIOUS
<1>2. u \in Seq(Words) /\ Len(u) = 2
  BY <1>1, NumWords
<1>3. v \in Seq(Words)
  <2>1. 0 <= Len(buf) /\ 0 \in Nat
    OBVIOUS
  <2>2. QED
    BY <1>1, <2>1, RulesFit
<1>4. u \o v \in Seq(Words) /\ at + Len(u) \in Nat
  <2> HIDE DEF u, v
  <2> QED BY <1>2, <1>3
<1> SUFFICES ASSUME Agree(at, u \o v) PROVE Fits(FsLayerAt(at), e, at, u \o v)
  BY <1>4
<1>5. Agree(at, u) /\ Agree(at + Len(u), v)
  <2> HIDE DEF u, v
  <2> QED BY <1>2, <1>3, Split
<1>6. Fits(two, <<e.handled, Len(e.rules)>>, at, u)
  BY <1>1, <1>5, TwoNums
<1>7. two.off = count.off /\ two.value = <<handled.value, count.value>>
  BY PairFacts
<1>8. ASSUME two.ok PROVE Fits(rules, e.rules, at + Len(u), v)
  <2>1. count.off = at + Len(u) /\ two.value = <<e.handled, Len(e.rules)>> /\ at + Len(u) <= Len(buf)
    BY <1>6, <1>7, <1>8 DEF Fits
  <2>2. count.value = Len(e.rules)
    BY <1>7, <2>1
  <2>3. QED
    BY <1>1, <1>4, <1>5, <2>1, <2>2, RulesFit
<1>9. FsLayerAt(at) = Got([handled |-> handled.value, rules |-> rules.value], rules.off,
                          handled.ok /\ count.ok /\ rules.ok /\ handled.value # 0)
  BY DEF FsLayerAt
<1> HIDE DEF u, v, handled, count, rules
<1>10. two.ok <=> handled.ok /\ count.ok
  BY PairFacts
<1> HIDE DEF two
<1> DEFINE d == <<e.handled, Len(e.rules)>>
<1>11. Fits(all, <<d, e.rules>>, at, u \o v)
  <2> HIDE DEF d
  <2> QED BY <1>2, <1>3, <1>6, <1>8, PairFits DEF d
<1>12. /\ all.ok <=> two.ok /\ rules.ok
       /\ all.value = <<two.value, rules.value>> /\ all.off = rules.off
  BY PairFacts
<1> HIDE DEF all
<1>13. ASSUME all.ok, all.value = <<d, e.rules>>
       PROVE  FsLayerAt(at) = Got(e, all.off, TRUE)
  <2>1. /\ handled.value = e.handled /\ rules.value = e.rules
        /\ handled.ok /\ count.ok /\ rules.ok
    BY <1>7, <1>10, <1>12, <1>13
  <2>2. FsLayerAt(at) =
          Got(e, rules.off, handled.ok /\ count.ok /\ rules.ok /\ handled.value # 0)
    BY <1>1, <1>9, <2>1
  <2>3. QED
    BY <1>1, <1>12, <2>1, <2>2
<1>14. ASSUME ~all.ok PROVE \E x, p : FsLayerAt(at) = Got(x, p, FALSE)
  <2>1. FsLayerAt(at) = Got([handled |-> handled.value, rules |-> rules.value], rules.off, FALSE)
    BY <1>9, <1>10, <1>12, <1>14
  <2>2. QED
    BY <2>1
<1>15. QED
  BY <1>11, <1>13, <1>14, MadeFits

(* The halves of the attributes, put together.                               *)
LEMMA AttrsWhole ==
    ASSUME NEW n \in Nat
    PROVE  /\ n % Half \in Nat /\ n \div Half \in Nat
           /\ Attrs(n % Half, n \div Half) = n
<1>1. Half \in Nat /\ Half > 0
  BY Assumed
<1>2. n % Half \in Nat /\ n \div Half \in Nat /\ n = Half * (n \div Half) + (n % Half)
  BY <1>1
<1>3. QED
  BY <1>1, <1>2 DEF Attrs

(* An object the mount broker may make, with where it may be attached.       *)
LEMMA ObjectFits ==
    ASSUME buf \in Seq(Words), NEW at \in Nat,
           NEW e \in [name : Texts, fs_type : Texts, attach : Seq(Texts) \ {<<>>}, attrs : Nat]
    PROVE  LET w == Text(e.name) \o Text(e.fs_type)
                    \o <<Len(e.attach), e.attrs % Half, e.attrs \div Half>>
                    \o FlattenSeq([i \in DOMAIN e.attach |-> Text(e.attach[i])])
           IN /\ w \in Seq(Words)
              /\ Agree(at, w) => Fits(ObjectAt(at), e, at, w)
<1> DEFINE n == Len(e.attach)
           l == e.attrs % Half
           h == e.attrs \div Half
           t == Text(e.name) \o Text(e.fs_type)
           m == <<n, l, h>>
           v == FlattenSeq([i \in DOMAIN e.attach |-> Text(e.attach[i])])
           u == t \o m
           name == PathAt(at)
           type == PathAt(name.off)
           count == Num(type.off)
           lo == Num(count.off)
           hi == Num(lo.off)
           attach == Repeat([p \in Offsets |-> PathAt(p)], count.value, hi.off)
           two == Pair(name, type)
           nums == Pair(Pair(count, lo), hi)
           most == Pair(two, nums)
           all == Pair(most, attach)
<1>1. /\ e.name \in Texts /\ e.fs_type \in Texts /\ e.attrs \in Nat
      /\ e.attach \in Seq(Texts) /\ e.attach # <<>>
      /\ e = [name |-> e.name, fs_type |-> e.fs_type, attach |-> e.attach, attrs |-> e.attrs]
  OBVIOUS
<1>2. n \in Nat /\ n # 0 /\ l \in Nat /\ h \in Nat /\ Attrs(l, h) = e.attrs
  <2>1. n \in Nat /\ n # 0
    BY <1>1
  <2>2. QED
    BY <1>1, <2>1, AttrsWhole
<1> HIDE DEF n, l, h
<1>3. t \in Seq(Words)
  BY <1>1, TwoPaths
<1>4. m \in Seq(Words)
  BY <1>2, NumWords
<1>5. v \in Seq(Words)
  <2>1. 0 <= Len(buf) /\ 0 \in Nat
    OBVIOUS
  <2>2. QED
    BY <1>1, <2>1, PathsFit
<1>6. u \in Seq(Words) /\ u \o v \in Seq(Words) /\ at + Len(t) \in Nat /\ at + Len(u) \in Nat
  <2> HIDE DEF t, m, v
  <2> QED BY <1>3, <1>4, <1>5
<1> SUFFICES ASSUME Agree(at, u \o v) PROVE Fits(ObjectAt(at), e, at, u \o v)
  BY <1>6 DEF n, l, h
<1>7. Agree(at, t) /\ Agree(at + Len(t), m) /\ Agree(at + Len(u), v)
  <2> HIDE DEF t, m, v
  <2>1. Agree(at, u) /\ Agree(at + Len(u), v)
    <3> HIDE DEF u
    <3> QED BY <1>5, <1>6, Split
  <2>2. QED
    BY <1>3, <1>4, <2>1, Split
<1>8. Fits(two, <<e.name, e.fs_type>>, at, t)
  BY <1>1, <1>7, TwoPaths
<1>9. two.off = type.off
  BY PairFacts
<1>10. ASSUME two.ok PROVE Fits(nums, <<<<n, l>>, h>>, at + Len(t), m)
  <2>1. type.off = at + Len(t)
    BY <1>8, <1>9, <1>10 DEF Fits
  <2>2. Pair(count, lo).off = lo.off
    BY PairFacts
  <2> HIDE DEF t
  <2> DEFINE p == at + Len(t)
  <2>3. LET pair == Pair(Num(p), Num(Num(p).off)) IN
        Fits(Pair(pair, Num(pair.off)), <<<<n, l>>, h>>, p, m)
    BY <1>2, <1>6, <1>7, ThreeNums
  <2>4. QED
    BY <2>1, <2>2, <2>3
<1>11. ObjectAt(at) =
         Got([name |-> name.value, fs_type |-> type.value, attach |-> attach.value,
              attrs |-> Attrs(lo.value, hi.value)], attach.off,
             /\ name.ok /\ type.ok /\ count.ok /\ lo.ok /\ hi.ok /\ attach.ok
             /\ count.value # 0)
  BY DEF ObjectAt
<1>12. most.off = hi.off /\ most.value = <<two.value, <<<<count.value, lo.value>>, hi.value>>>>
       /\ (most.ok <=> two.ok /\ count.ok /\ lo.ok /\ hi.ok)
  <2> HIDE DEF name, type, two, count, lo, hi
  <2>1. /\ Pair(count, lo).ok <=> count.ok /\ lo.ok
        /\ Pair(count, lo).value = <<count.value, lo.value>>
    BY PairFacts
  <2> DEFINE some == Pair(count, lo)
  <2> HIDE DEF some
  <2>2. nums.off = hi.off /\ nums.value = <<some.value, hi.value>> /\ (nums.ok <=> some.ok /\ hi.ok)
    BY PairFacts DEF some
  <2> HIDE DEF nums
  <2>3. most.off = nums.off /\ most.value = <<two.value, nums.value>> /\ (most.ok <=> two.ok /\ nums.ok)
    BY PairFacts
  <2>4. QED
    BY <2>1, <2>2, <2>3 DEF some
<1>13. Fits(most, <<<<e.name, e.fs_type>>, <<<<n, l>>, h>>>>, at, u)
  <2> DEFINE d == <<e.name, e.fs_type>>
             c == <<<<n, l>>, h>>
  <2>1. Fits(two, d, at, t) /\ (two.ok => Fits(nums, c, at + Len(t), m))
    BY <1>8, <1>10
  <2> HIDE DEF d, c, two, nums, t, m
  <2>2. Fits(most, <<d, c>>, at, u)
    BY <1>3, <1>4, <2>1, PairFits
  <2>3. QED
    BY <2>2 DEF d, c
<1> DEFINE x == <<<<e.name, e.fs_type>>, <<<<n, l>>, h>>>>
<1>14. ASSUME most.ok PROVE Fits(attach, e.attach, at + Len(u), v)
  <2> HIDE DEF two, most, u, v, name, type, lo, hi, count
  <2>1. hi.off = at + Len(u) /\ most.value = x /\ at + Len(u) <= Len(buf)
    BY <1>12, <1>13, <1>14 DEF Fits
  <2>2. count.value = Len(e.attach)
    BY <1>12, <2>1 DEF n
  <2>3. QED
    BY <1>1, <1>6, <1>7, <2>1, <2>2, PathsFit DEF v
<1> HIDE DEF u, v, name, type, count, lo, hi, attach
<1>15. (two.ok <=> name.ok /\ type.ok) /\ two.value = <<name.value, type.value>>
  BY PairFacts
<1> HIDE DEF two, most
<1>16. Fits(all, <<x, e.attach>>, at, u \o v)
  <2>1. Fits(most, x, at, u)
    BY <1>13
  <2> HIDE DEF x
  <2> QED BY <1>5, <1>6, <1>14, <2>1, PairFits
<1>17. /\ all.ok <=> most.ok /\ attach.ok
       /\ all.value = <<most.value, attach.value>> /\ all.off = attach.off
  BY PairFacts
<1> HIDE DEF all
<1>18. ASSUME all.ok, all.value = <<x, e.attach>>
       PROVE  ObjectAt(at) = Got(e, all.off, TRUE)
  <2>1. most.value = x /\ attach.value = e.attach
    BY <1>17, <1>18
  <2>2. two.value = <<e.name, e.fs_type>> /\ count.value = n /\ lo.value = l /\ hi.value = h
    BY <1>12, <2>1
  <2>3. name.value = e.name /\ type.value = e.fs_type
    BY <1>15, <2>2
  <2>4. name.ok /\ type.ok /\ count.ok /\ lo.ok /\ hi.ok /\ attach.ok
    BY <1>12, <1>15, <1>17, <1>18
  <2>5. ObjectAt(at) = Got([name |-> e.name, fs_type |-> e.fs_type, attach |-> e.attach,
                            attrs |-> e.attrs], all.off, TRUE)
    BY <1>2, <1>11, <1>17, <2>1, <2>2, <2>3, <2>4
  <2>6. QED
    BY <1>1, <2>5
<1>19. ASSUME ~all.ok PROVE \E y, p : ObjectAt(at) = Got(y, p, FALSE)
  <2>1. ~(/\ name.ok /\ type.ok /\ count.ok /\ lo.ok /\ hi.ok /\ attach.ok
          /\ count.value # 0)
    BY <1>12, <1>15, <1>17, <1>19
  <2>2. ObjectAt(at) =
         Got([name |-> name.value, fs_type |-> type.value, attach |-> attach.value,
              attrs |-> Attrs(lo.value, hi.value)], attach.off, FALSE)
    BY <1>11, <2>1
  <2>3. QED
    BY <2>2
<1>20. QED
  <2> HIDE DEF x
  <2> QED BY <1>16, <1>18, <1>19, MadeFits

(* There are eighteen of them.                                               *)
LEMMA Indices ==
    \A i \in 1..18 :
        \/ i = 1 \/ i = 2 \/ i = 3 \/ i = 4 \/ i = 5 \/ i = 6
        \/ i = 7 \/ i = 8 \/ i = 9 \/ i = 10 \/ i = 11 \/ i = 12
        \/ i = 13 \/ i = 14 \/ i = 15 \/ i = 16 \/ i = 17 \/ i = 18
OBVIOUS

(* The sections.                                                             *)
LEMMA OrderFacts ==
    /\ Len(Order) = 18 /\ DOMAIN Order = 1..18
    /\ \A i \in 1..18 : Order[i] \in Sections
    /\ \A s \in Sections : \E i \in 1..18 : Order[i] = s
    /\ Sections = PathLists \cup BindLists \cup Wide
                  \cup {"fs_layer", "net_rule", "broker_object", "addfd", "root", "cwd", "deny"}
<1>1. Len(Order) = 18 /\ DOMAIN Order = 1..18
  BY DEF Order
<1>2. Sections = {Order[i] : i \in 1..18}
  BY <1>1 DEF Sections, Range
<1> DEFINE Names ==
             {"fs_layer", "net", "net_rule", "open_read", "open_write", "scratch", "export",
              "broker_tmpfs", "broker_bind", "broker_object", "addfd", "mount_tmpfs",
              "mount_bind", "mount_proc", "root", "cwd", "seccomp", "deny"}
<1>3. Sections = Names
  <2>1. ASSUME NEW i \in 1..18 PROVE Order[i] \in Names
    BY Indices DEF Order
  <2>2. /\ Order[1] = "fs_layer" /\ Order[2] = "net" /\ Order[3] = "net_rule" /\ Order[4] = "open_read"
        /\ Order[5] = "open_write" /\ Order[6] = "scratch" /\ Order[7] = "export"
        /\ Order[8] = "broker_tmpfs" /\ Order[9] = "broker_bind" /\ Order[10] = "broker_object"
        /\ Order[11] = "addfd" /\ Order[12] = "mount_tmpfs" /\ Order[13] = "mount_bind"
        /\ Order[14] = "mount_proc" /\ Order[15] = "root" /\ Order[16] = "cwd"
        /\ Order[17] = "seccomp" /\ Order[18] = "deny"
    BY DEF Order
  <2>3. QED
    BY <1>2, <2>1, <2>2
<1>4. QED
  BY <1>1, <1>2, <1>3 DEF PathLists, BindLists, Wide

(* An entry, as it is read where it was written.                             *)
LEMMA EntryFits ==
    ASSUME buf \in Seq(Words), NEW at \in Nat, NEW s \in Sections, s \notin Wide,
           NEW e \in EntryOf(s)
    PROVE  /\ Encode(s, e) \in Seq(Words)
           /\ Agree(at, Encode(s, e)) => Fits(EntryAt(s, at), e, at, Encode(s, e))
<1>1. CASE s = "fs_layer"
  <2>1. e \in [handled : Nat \ {0}, rules : Seq([access : Nat \ {0}, path : Texts])]
    BY <1>1 DEF EntryOf, PathLists, BindLists, Wide
  <2>2. /\ Encode(s, e) = <<e.handled, Len(e.rules)>>
                    \o FlattenSeq([i \in DOMAIN e.rules |-> FsRuleWords(e.rules[i])])
        /\ EntryAt(s, at) = FsLayerAt(at)
    BY <1>1 DEF Encode, EntryAt, FsRuleWords, PathLists, BindLists, Wide
  <2>3. QED
    BY <2>1, <2>2, FsLayerFits
<1>2. CASE s = "net_rule"
  <2>1. e \in [port : 0..(Ports - 1), access : Nat \ {0}]
    BY <1>2 DEF EntryOf, PathLists, BindLists, Wide
  <2>2. Encode(s, e) = <<e.port, e.access>> /\ EntryAt(s, at) = NetRuleAt(at)
    BY <1>2 DEF Encode, EntryAt, PathLists, BindLists, Wide
  <2>3. QED
    BY <2>1, <2>2, NetRuleFits
<1>3. CASE s \in PathLists
  <2>1. e \in Texts /\ Encode(s, e) = Text(e) /\ EntryAt(s, at) = PathAt(at)
    BY <1>3 DEF EntryOf, Encode, EntryAt, PathLists, BindLists, Wide
  <2>2. QED
    BY <2>1, TextWords, PathFits
<1>4. CASE s \in BindLists
  <2>1. e \in [source : Texts, target : Texts, read_only : {0, 1}]
    BY <1>4 DEF EntryOf, PathLists, BindLists, Wide
  <2>2. /\ Encode(s, e) = Text(e.source) \o Text(e.target) \o <<e.read_only>>
        /\ EntryAt(s, at) = BindAt(at)
    BY <1>4 DEF Encode, EntryAt, PathLists, BindLists, Wide
  <2>3. QED
    BY <2>1, <2>2, BindFits
<1>5. CASE s = "broker_object"
  <2>1. e \in [name : Texts, fs_type : Texts, attach : Seq(Texts) \ {<<>>}, attrs : Nat]
    <3>1. e \in [name : Texts, fs_type : Texts, attach : Seq(Texts) \ {<<>>},
                attrs : 0..(Half * Half - 1)]
      BY <1>5 DEF EntryOf, PathLists, BindLists, Wide
    <3>2. 0..(Half * Half - 1) \subseteq Nat
      OBVIOUS
    <3>3. QED
      BY <3>1, <3>2
  <2>2. /\ Encode(s, e) = Text(e.name) \o Text(e.fs_type)
                    \o <<Len(e.attach), e.attrs % Half, e.attrs \div Half>>
                    \o FlattenSeq([i \in DOMAIN e.attach |-> Text(e.attach[i])])
        /\ EntryAt(s, at) = ObjectAt(at)
    BY <1>5 DEF Encode, EntryAt, PathLists, BindLists, Wide
  <2>3. QED
    BY <2>1, <2>2, ObjectFits
<1>6. CASE s = "addfd"
  <2>1. e \in [action : KnownActions, target : Texts, mode : Texts \cup {NoText}]
    BY <1>6 DEF EntryOf, PathLists, BindLists, Wide
  <2>2. /\ Encode(s, e) = Text(e.action) \o Text(e.target) \o Text(e.mode)
        /\ EntryAt(s, at) = AddFdAt(at)
    BY <1>6 DEF Encode, EntryAt, PathLists, BindLists, Wide
  <2>3. QED
    BY <2>1, <2>2, AddFdFits
<1>7. CASE s \in {"root", "cwd"}
  <2>1. e \in Texts /\ Encode(s, e) = <<e>> /\ EntryAt(s, at) = RuntimeAt(at)
    BY <1>7 DEF EntryOf, Encode, EntryAt, PathLists, BindLists, Wide
  <2>2. e \in Words
    BY <2>1 DEF Words
  <2>3. <<e>> \in Seq(Words)
    BY <2>2
  <2>4. QED
    BY <2>1, <2>3, RuntimeFits
<1>8. CASE s = "deny"
  <2>1. e \in 0..MaxSyscall /\ Encode(s, e) = <<e>> /\ EntryAt(s, at) = DenyAt(at)
    BY <1>8 DEF EntryOf, Encode, EntryAt, PathLists, BindLists, Wide
  <2>2. e \in Nat
    BY <2>1
  <2>3. QED
    BY <2>1, <2>2, NumWords, DenyFits
<1>9. QED
  BY <1>1, <1>2, <1>3, <1>4, <1>5, <1>6, <1>7, <1>8, OrderFacts

---------------------------------------------------------------------------
(* The sections, the header and the whole wire.                              *)

(* The entries of a section with a body.                                     *)
LEMMA EntriesFit ==
    ASSUME buf \in Seq(Words), NEW at \in Nat, at <= Len(buf),
           NEW s \in Sections, s \notin Wide, NEW es \in Seq(EntryOf(s))
    PROVE  LET w == FlattenSeq([i \in DOMAIN es |-> Encode(s, es[i])]) IN
           /\ w \in Seq(Words)
           /\ Agree(at, w) =>
                Fits(Repeat([p \in Offsets |-> EntryAt(s, p)], Len(es), at), es, at, w)
<1> DEFINE qs == [i \in DOMAIN es |-> Encode(s, es[i])]
           read == [p \in Offsets |-> EntryAt(s, p)]
<1>0. /\ DOMAIN es = 1..Len(es) /\ Len(es) \in Nat /\ Len(buf) \in Nat
      /\ \A i \in 1..Len(es) : es[i] \in EntryOf(s)
  BY SeqFacts
<1>1. \A i \in 1..Len(es) : Encode(s, es[i]) \in Seq(Words)
  BY <1>0, EntryFits
<1>2. qs \in Seq(Seq(Words)) /\ Len(qs) = Len(es) /\ \A i \in 1..Len(es) : qs[i] = Encode(s, es[i])
  BY <1>0, <1>1
<1>3. FlattenSeq(qs) \in Seq(Words)
  <2> HIDE DEF qs
  <2> QED BY <1>2, FlattenFacts
<1>4. ASSUME NEW i \in 1..Len(es), NEW p \in Nat, p <= Len(buf), Agree(p, qs[i])
      PROVE  Fits(read[p], es[i], p, qs[i])
  <2>1. read[p] = EntryAt(s, p)
    BY <1>0, <1>4 DEF Offsets
  <2>2. Fits(EntryAt(s, p), es[i], p, Encode(s, es[i]))
    BY <1>0, <1>2, <1>4, EntryFits
  <2>3. QED
    BY <1>2, <2>1, <2>2
<1> HIDE DEF qs, read
<1>5. Agree(at, FlattenSeq(qs)) => Fits(Repeat(read, Len(es), at), es, at, FlattenSeq(qs))
  BY <1>2, <1>4, RepeatFits
<1>6. QED
  BY <1>3, <1>5 DEF qs, read

(* What the header says of a section of the policy.                          *)
Says(s, h) ==
    IF s \in Wide
    THEN /\ h.count = Len(policy[s])
         /\ policy[s] # <<>> => h.value = policy[s][1]
    ELSE h.count = Len(policy[s])

HeadSays == \A i \in 1..18 : Says(Order[i], head[i])

(* What is read of the header says this of every section.                    *)
LEMMA HeadOfSays == ASSUME HeadSays, NEW s \in Sections PROVE Says(s, HeadOf(s))
<1>1. PICK i \in DOMAIN Order : Order[i] = s
  BY OrderFacts
<1> DEFINE c == CHOOSE j \in DOMAIN Order : Order[j] = s
<1>2. c \in DOMAIN Order /\ Order[c] = s
  BY <1>1
<1>3. HeadOf(s) = head[c]
  BY DEF HeadOf
<1> HIDE DEF c
<1>4. QED
  BY <1>2, <1>3, OrderFacts DEF HeadSays

(* A sequence of at most one element.                                        *)
LEMMA SingleFacts ==
    ASSUME NEW S, NEW q \in Seq(S), Len(q) <= 1
    PROVE  q = <<>> \/ (q = <<q[1]>> /\ q[1] \in S)
<1>1. CASE Len(q) = 0
  BY <1>1
<1>2. CASE Len(q) = 1
  <2>1. q[1] \in S
    BY <1>2
  <2>2. q = <<q[1]>>
    BY <1>2
  <2>3. QED
    BY <2>1, <2>2
<1>3. Len(q) = 0 \/ Len(q) = 1
  <2>1. Len(q) \in Nat
    OBVIOUS
  <2>2. \A n \in Nat : n <= 1 => n = 0 \/ n = 1
    OBVIOUS
  <2>3. QED
    BY <2>1, <2>2
<1>4. QED
  BY <1>1, <1>2, <1>3

(* What the policies of the file are.                                        *)
LEMMA PolicyFacts ==
    ASSUME policy \in Policies
    PROVE  /\ policy = [s \in Sections |-> policy[s]]
           /\ \A s \in Sections : policy[s] \in Seq(EntryOf(s)) /\ Len(policy[s]) \in Nat
           /\ \A s \in {"net", "seccomp", "root", "cwd"} : Len(policy[s]) <= 1
           /\ policy["net_rule"] # <<>> => policy["net"] # <<>>
           /\ policy["deny"] # <<>> => policy["seccomp"] # <<>>
           /\ \A s \in Wide : /\ policy[s] = <<>> \/ policy[s] = <<policy[s][1]>>
                              /\ policy[s] # <<>> => /\ policy[s][1] \in Nat \ {0}
                                                    /\ ValueOk(s, policy[s][1])
<1>1. /\ policy = [s \in Sections |-> policy[s]]
      /\ \A s \in Sections : policy[s] \in Seq(EntryOf(s))
      /\ \A s \in {"net", "seccomp", "root", "cwd"} : Len(policy[s]) <= 1
      /\ policy["net_rule"] # <<>> => policy["net"] # <<>>
      /\ policy["deny"] # <<>> => policy["seccomp"] # <<>>
  BY PoliciesAssumption
<1>2. \A s \in Sections : Len(policy[s]) \in Nat
  BY <1>1, SeqFacts
<1>3. ASSUME NEW s \in Wide
      PROVE  /\ policy[s] = <<>> \/ policy[s] = <<policy[s][1]>>
             /\ policy[s] # <<>> => policy[s][1] \in Nat \ {0} /\ ValueOk(s, policy[s][1])
  <2>1. s \in {"net", "seccomp"} /\ s \in Sections
    BY OrderFacts DEF Wide
  <2>2. \A x \in EntryOf(s) : x \in Nat \ {0} /\ ValueOk(s, x)
    <3>1. CASE s = "net"
      <4>1. EntryOf(s) = Nat \ {0}
        BY <3>1 DEF EntryOf, Wide, PathLists, BindLists
      <4>2. QED
        BY <3>1, <4>1 DEF ValueOk
    <3>2. CASE s = "seccomp"
      <4>1. EntryOf(s) = 1..MaxErrno
        BY <3>2 DEF EntryOf, Wide, PathLists, BindLists
      <4>2. QED
        BY <4>1, Assumed DEF ValueOk
    <3>3. QED
      BY <2>1, <3>1, <3>2
  <2> DEFINE q == policy[s]
             E == EntryOf(s)
  <2>3. q \in Seq(E) /\ Len(q) <= 1
    BY <1>1, <2>1
  <2> HIDE DEF q, E
  <2>4. q = <<>> \/ (q = <<q[1]>> /\ q[1] \in E)
    BY <2>3, SingleFacts
  <2>5. QED
    BY <2>2, <2>4 DEF q, E
<1>4. QED
  BY <1>1, <1>2, <1>3

(* A section, as it is read where it was written.                            *)
LEMMA SectionFits ==
    ASSUME policy \in Policies, HeadSays, buf \in Seq(Words), off \in Nat, off <= Len(buf),
           NEW s \in Sections
    PROVE  /\ BodyWords(policy, s) \in Seq(Words)
           /\ Agree(off, BodyWords(policy, s)) =>
                Fits(SectionAt(s), policy[s], off, BodyWords(policy, s))
<1> DEFINE w == BodyWords(policy, s)
<1>0. Len(<<>>) = 0 /\ off + 0 = off /\ <<>> \in Seq(Words) /\ FlattenSeq(<<>>) = <<>>
  BY FlattenFacts
<1>1. CASE s \in Wide
  <2>1. w = <<>>
    BY <1>1 DEF BodyWords
  <2>2. Says(s, HeadOf(s))
    BY HeadOfSays
  <2>3. CASE policy[s] = <<>>
    <3>1. HeadOf(s).count = 0
      BY <1>1, <2>2, <2>3, <1>0 DEF Says
    <3>2. SectionAt(s) = Got(<<>>, off, TRUE)
      BY <1>1, <3>1 DEF SectionAt, Wide
    <3>3. QED
      BY <1>0, <2>1, <2>3, <3>2, GotFits
  <2>4. CASE policy[s] # <<>>
    <3> DEFINE x == policy[s][1]
    <3>1. policy[s] = <<x>> /\ ValueOk(s, x)
      BY <1>1, <2>4, PolicyFacts
    <3>2. HeadOf(s).count = Len(policy[s]) /\ HeadOf(s).value = x
      BY <1>1, <2>2, <2>4 DEF Says
    <3> HIDE DEF x
    <3>3. HeadOf(s).count # 0
      BY <3>1, <3>2
    <3>4. SectionAt(s) = Got(<<x>>, off, TRUE)
      BY <1>1, <3>1, <3>2, <3>3 DEF SectionAt, Wide
    <3>5. QED
      BY <1>0, <2>1, <3>1, <3>4, GotFits
  <2>5. QED
    BY <2>3, <2>4
<1>2. CASE s \notin Wide
  <2> DEFINE es == policy[s]
  <2>1. /\ HeadOf(s).count = Len(es) /\ Len(es) \in Nat
        /\ HeadOf("net").count = Len(policy["net"])
        /\ HeadOf("seccomp").count = Len(policy["seccomp"])
    BY <1>2, HeadOfSays, OrderFacts, PolicyFacts DEF Says, Wide
  <2>2. w = FlattenSeq([i \in DOMAIN es |-> Encode(s, es[i])])
    BY <1>2 DEF BodyWords
  <2>3. ASSUME es = <<>> PROVE w = <<>>
    <3>1. [i \in DOMAIN es |-> Encode(s, es[i])] = <<>>
      BY <2>3
    <3>2. QED
      BY <1>0, <2>2, <3>1
  <2>4. /\ w \in Seq(Words)
        /\ Agree(off, w) =>
             Fits(Repeat([p \in Offsets |-> EntryAt(s, p)], Len(es), off), es, off, w)
    BY <1>2, <2>2, PolicyFacts, EntriesFit, ZenonT(40)
  <2>5. CASE s = "net_rule" /\ HeadOf("net").count = 0
    <3>1. policy["net"] \in Seq(EntryOf("net")) /\ Len(policy["net"]) = 0
      BY <2>1, <2>5, PolicyFacts, OrderFacts DEF Wide
    <3>2. policy["net"] = <<>>
      BY <3>1
    <3>3. es = <<>>
      BY <2>5, <3>2, PolicyFacts
    <3>4. SectionAt(s) = Got(<<>>, off, TRUE)
      BY <1>2, <2>5 DEF SectionAt
    <3>5. QED
      BY <1>0, <2>3, <3>3, <3>4, GotFits
  <2>6. CASE s = "deny" /\ HeadOf("seccomp").count = 0
    <3>1. policy["seccomp"] \in Seq(EntryOf("seccomp")) /\ Len(policy["seccomp"]) = 0
      BY <2>1, <2>6, PolicyFacts, OrderFacts DEF Wide
    <3>2. policy["seccomp"] = <<>>
      BY <3>1
    <3>3. es = <<>>
      BY <2>6, <3>2, PolicyFacts
    <3>4. SectionAt(s) = Got(<<>>, off, TRUE)
      BY <1>2, <2>6 DEF SectionAt
    <3>5. QED
      BY <1>0, <2>3, <3>3, <3>4, GotFits
  <2>7. CASE ~(s = "net_rule" /\ HeadOf("net").count = 0) /\ ~(s = "deny" /\ HeadOf("seccomp").count = 0)
    <3>1. SectionAt(s) = Repeat([p \in Offsets |-> EntryAt(s, p)],
                   IF s \in {"root", "cwd"} /\ HeadOf(s).count > 0 THEN 1 ELSE HeadOf(s).count, off)
      BY <1>2, <2>7 DEF SectionAt
    <3>2. (IF s \in {"root", "cwd"} /\ HeadOf(s).count > 0 THEN 1 ELSE HeadOf(s).count) = Len(es)
      <4>1. s \in {"root", "cwd"} => Len(es) <= 1
        BY PolicyFacts
      <4>2. QED
        BY <2>1, <4>1
    <3>3. QED
      BY <2>4, <3>1, <3>2
  <2>8. QED
    BY <2>5, <2>6, <2>7
<1>3. QED
  BY <1>1, <1>2

(* Where one of several parts is.                                            *)
LEMMA PartAgrees ==
    ASSUME NEW at \in Nat, NEW qs \in Seq(Seq(Words)), Agree(at, FlattenSeq(qs)),
           NEW k \in 1..Len(qs)
    PROVE  Agree(at + Len(FlattenSeq(Take(qs, k - 1))), qs[k])
<1> DEFINE n == Len(qs)
           w == [i \in 0..n |-> FlattenSeq(Take(qs, i))]
           T == {i \in Nat : i <= n => Agree(at, w[n - i])}
<1>0. n \in Nat
  OBVIOUS
<1>1. ASSUME NEW i \in 1..n
      PROVE  /\ i \in 0..n /\ i - 1 \in 0..n /\ w[i] = w[i - 1] \o qs[i]
             /\ qs[i] \in Seq(Words) /\ w[i - 1] \in Seq(Words)
  <2>1. i \in 0..n /\ i - 1 \in 0..n /\ qs[i] \in Seq(Words)
    BY <1>0
  <2>2. Take(qs, i) = Append(Take(qs, i - 1), qs[i]) /\ Take(qs, i - 1) \in Seq(Seq(Words))
    BY <2>1, TakeFacts
  <2>3. w[i] = FlattenSeq(Take(qs, i)) /\ w[i - 1] = FlattenSeq(Take(qs, i - 1))
    BY <2>1
  <2> HIDE DEF w
  <2>4. QED
    BY <2>1, <2>2, <2>3, FlattenFacts
<1>2. w[n] = FlattenSeq(qs)
  BY <1>0, TakeFacts
<1>3. w[k - 1] = FlattenSeq(Take(qs, k - 1))
  BY <1>0
<1> HIDE DEF w
<1>4. 0 \in T
  <2>1. n - 0 = n
    BY <1>0
  <2>2. Agree(at, w[n - 0])
    BY <1>2, <2>1
  <2>3. QED
    BY <2>2
<1>5. ASSUME NEW i \in 1..n, Agree(at, w[i])
      PROVE  Agree(at, w[i - 1]) /\ Agree(at + Len(w[i - 1]), qs[i])
  <2>1. w[i - 1] \in Seq(Words) /\ qs[i] \in Seq(Words) /\ Agree(at, w[i - 1] \o qs[i])
    BY <1>1, <1>5
  <2>2. QED
    BY <2>1, Split
<1>6. ASSUME NEW i \in Nat, i \in T PROVE i + 1 \in T
  <2>1. CASE i + 1 <= n
    <3>1. i <= n /\ n - i \in 1..n /\ n - i - 1 = n - (i + 1)
      BY <1>0, <2>1
    <3>2. Agree(at, w[n - i])
      BY <1>6, <3>1
    <3>3. Agree(at, w[n - (i + 1)])
      BY <1>5, <3>1, <3>2
    <3>4. QED
      BY <3>3
  <2>2. CASE ~(i + 1 <= n)
    BY <2>2
  <2>3. QED
    BY <2>1, <2>2
<1>7. Nat \subseteq T
  <2> HIDE DEF T
  <2> QED BY <1>4, <1>6, SetInduction
<1>8. Agree(at, w[k])
  <2>1. n - k \in Nat /\ n - k <= n /\ n - (n - k) = k
    BY <1>0
  <2>2. n - k \in T
    BY <1>7, <2>1
  <2>3. QED
    BY <2>1, <2>2
<1>9. QED
  BY <1>3, <1>5, <1>8

(* The two sections with a flag and a value.                                 *)
LEMMA WideFacts == \A i \in 1..18 : Order[i] \in Wide <=> i = 2 \/ i = 17
BY Indices DEF Order, Wide

(* Words before those of section i in the header, the version included.      *)
At(i) == IF i <= 2 THEN i ELSE IF i <= 17 THEN i + 1 ELSE i + 2

(* The offsets the reader computes are those.                                *)
LEMMA HeadOffsets == \A i \in 1..19 : HeadOffset(i) = At(i)
<1> SUFFICES ASSUME NEW i \in 1..19 PROVE HeadOffset(i) = At(i)
  OBVIOUS
<1> DEFINE W == {j \in 1..(i - 1) : Order[j] \in Wide}
<1>1. W = {j \in 1..(i - 1) : j = 2 \/ j = 17}
  BY WideFacts
<1>2. HeadOffset(i) = i + Cardinality(W)
  BY DEF HeadOffset
<1> HIDE DEF W
<1>3. CASE i <= 2
  <2>1. W = {}
    BY <1>1, <1>3
  <2>2. QED
    BY <1>2, <1>3, <2>1, FS_EmptySet DEF At
<1>4. CASE i > 2 /\ i <= 17
  <2>1. W = {2}
    BY <1>1, <1>4
  <2>2. Cardinality(W) = 1
    BY <2>1, FS_Singleton
  <2>3. QED
    BY <1>2, <1>4, <2>2 DEF At
<1>5. CASE i > 17
  <2>1. W = {2} \cup {17}
    BY <1>1, <1>5
  <2>2. IsFiniteSet({2}) /\ Cardinality({2}) = 1 /\ 17 \notin {2}
    BY FS_Singleton
  <2>3. Cardinality({2} \cup {17}) = 2
    BY <2>2, FS_AddElement, SMTT(40)
  <2>4. QED
    BY <1>2, <1>5, <2>1, <2>3 DEF At
<1>6. QED
  BY <1>3, <1>4, <1>5

(* What goes into the header.                                                *)
HeadParts == [i \in DOMAIN Order |-> HeadWords(policy, Order[i])]

(* The words of one section in the header, and how many there are.           *)
LEMMA HeadPart ==
    ASSUME policy \in Policies, NEW i \in 1..18
    PROVE  /\ HeadWords(policy, Order[i]) \in Seq(Words)
           /\ Len(HeadWords(policy, Order[i])) = At(i + 1) - At(i)
<1> DEFINE s == Order[i]
           q == policy[s]
<1>1. s \in Sections
  BY OrderFacts
<1>2. CASE i = 2 \/ i = 17
  <2>1. s \in Wide
    BY <1>2, WideFacts
  <2>2. At(i + 1) - At(i) = 2
    BY <1>2 DEF At
  <2>3. q = <<>> \/ q[1] \in Nat
    BY <2>1, PolicyFacts
  <2>4. HeadWords(policy, s) = IF q = <<>> THEN <<0, 0>> ELSE <<1, q[1]>>
    BY <2>1 DEF HeadWords
  <2>5. QED
    BY <2>2, <2>3, <2>4, NumWords
<1>3. CASE ~(i = 2 \/ i = 17)
  <2>1. s \notin Wide
    BY <1>3, WideFacts
  <2>2. At(i + 1) - At(i) = 1
    BY <1>3 DEF At
  <2>3. Len(q) \in Nat
    BY <1>1, PolicyFacts
  <2>4. HeadWords(policy, s) = <<Len(q)>>
    BY <2>1 DEF HeadWords
  <2>5. QED
    BY <2>2, <2>3, <2>4, NumWords
<1>4. QED
  BY <1>2, <1>3

(* Where they end.                                                           *)
LEMMA HeadPartsFacts ==
    ASSUME policy \in Policies
    PROVE  /\ HeadParts \in Seq(Seq(Words)) /\ Len(HeadParts) = 18
           /\ \A i \in 1..18 : HeadParts[i] = HeadWords(policy, Order[i])
           /\ \A k \in 0..18 : Len(FlattenSeq(Take(HeadParts, k))) = At(k + 1) - 1
<1> DEFINE qs == HeadParts
           w == [k \in 0..18 |-> FlattenSeq(Take(qs, k))]
           T == {k \in Nat : k <= 18 => Len(w[k]) = At(k + 1) - 1}
<1>1. /\ qs \in Seq(Seq(Words)) /\ Len(qs) = 18
      /\ \A i \in 1..18 : qs[i] = HeadWords(policy, Order[i])
  BY HeadPart, OrderFacts DEF HeadParts
<1> HIDE DEF qs
<1>2. ASSUME NEW i \in 1..18
      PROVE  Len(w[i]) = Len(w[i - 1]) + (At(i + 1) - At(i)) /\ Len(w[i - 1]) \in Nat
  <2>0. qs[i] \in Seq(Words)
    BY <1>1, HeadPart
  <2>1. /\ i \in 0..18 /\ i - 1 \in 0..18 /\ qs[i] \in Seq(Words)
        /\ i \in 1..Len(qs) /\ i - 1 \in 0..Len(qs)
    BY <1>1, <2>0
  <2>2. Take(qs, i) = Append(Take(qs, i - 1), qs[i]) /\ Take(qs, i - 1) \in Seq(Seq(Words))
    BY <1>1, <2>1, TakeFacts
  <2>3. w[i] = FlattenSeq(Take(qs, i)) /\ w[i - 1] = FlattenSeq(Take(qs, i - 1))
    BY <2>1
  <2> HIDE DEF w
  <2>4. w[i] = w[i - 1] \o qs[i] /\ w[i - 1] \in Seq(Words)
    BY <2>1, <2>2, <2>3, FlattenFacts
  <2>5. Len(w[i]) = Len(w[i - 1]) + Len(qs[i]) /\ Len(w[i - 1]) \in Nat
    BY <2>1, <2>4
  <2>6. QED
    BY <1>1, <2>5, HeadPart
<1>3. Len(w[0]) = 0
  BY <1>1, TakeFacts, FlattenFacts
<1> HIDE DEF w
<1>4. 0 \in T
  BY <1>3 DEF At
<1>5. ASSUME NEW k \in Nat, k \in T PROVE k + 1 \in T
  <2>1. CASE k + 1 <= 18
    <3> DEFINE i == k + 1
    <3>1. i \in 1..18 /\ i - 1 = k /\ k <= 18
      BY <2>1
    <3>2. Len(w[k]) = At(k + 1) - 1
      BY <1>5, <3>1
    <3>3. Len(w[i]) = Len(w[k]) + (At(i + 1) - At(i)) /\ Len(w[k]) \in Nat
      BY <1>2, <3>1
    <3>4. At(i) \in Nat /\ At(i + 1) \in Nat
      BY <3>1 DEF At
    <3>5. Len(w[i]) = At(i + 1) - 1
      BY <3>2, <3>3, <3>4
    <3>6. QED
      BY <3>5
  <2>2. CASE ~(k + 1 <= 18)
    BY <2>2
  <2>3. QED
    BY <2>1, <2>2
<1>6. Nat \subseteq T
  <2> HIDE DEF T
  <2> QED BY <1>4, <1>5, SetInduction
<1>7. ASSUME NEW k \in 0..18 PROVE Len(FlattenSeq(Take(qs, k))) = At(k + 1) - 1
  <2>1. k \in T
    BY <1>6
  <2>2. QED
    BY <2>1, SMTT(40) DEF w
<1>8. QED
  BY <1>1, <1>7 DEF qs

(* Two sequences, one behind the other.                                      *)
LEMMA JoinFacts ==
    ASSUME NEW S, NEW u \in Seq(S), NEW v \in Seq(S)
    PROVE  u \o v \in Seq(S) /\ Len(u \o v) = Len(u) + Len(v)
OBVIOUS

(* The header is as long as the reader expects.                              *)
LEMMA HeaderFacts ==
    ASSUME policy \in Policies, version \in Versions
    PROVE  /\ Header(policy) = <<version>> \o FlattenSeq(HeadParts)
           /\ Header(policy) \in Seq(Words) /\ Len(Header(policy)) = 21
           /\ FlattenSeq(HeadParts) \in Seq(Words)
           /\ HeaderWidth = 21
<1> DEFINE v == FlattenSeq(HeadParts)
<1>1. Header(policy) = <<version>> \o v
  BY DEF Header, HeadParts
<1>2. v \in Seq(Words) /\ Len(v) = 20
  <2>1. HeadParts \in Seq(Seq(Words)) /\ Len(HeadParts) = 18
    BY HeadPartsFacts
  <2>2. Take(HeadParts, 18) = HeadParts
    BY <2>1, TakeFacts
  <2>3. Len(FlattenSeq(Take(HeadParts, 18))) = At(18 + 1) - 1
    BY HeadPartsFacts
  <2>4. At(18 + 1) - 1 = 20
    BY DEF At
  <2>5. QED
    BY <2>1, <2>2, <2>3, <2>4, FlattenFacts
<1> HIDE DEF v
<1>3. <<version>> \in Seq(Words) /\ Len(<<version>>) = 1
  BY Assumed, NumWords
<1>4. HeaderWidth = At(19)
  BY HeadOffsets, OrderFacts DEF HeaderWidth
<1>5. At(19) = 21
  BY DEF At
<1>6. <<version>> \o v \in Seq(Words) /\ Len(<<version>> \o v) = 21
  <2> DEFINE u == <<version>>
  <2>1. u \in Seq(Words) /\ Len(u) = 1
    BY <1>3
  <2> HIDE DEF u
  <2>2. u \o v \in Seq(Words) /\ Len(u \o v) = Len(u) + Len(v)
    BY <1>2, <2>1, JoinFacts
  <2>3. QED
    BY <1>2, <2>1, <2>2 DEF u
<1>7. QED
  BY <1>1, <1>2, <1>4, <1>5, <1>6 DEF v

(* The header, as it is read where it was written.                           *)
LEMMA HeaderFits ==
    ASSUME policy \in Policies, version \in Versions, buf \in Seq(Words),
           Agree(0, Header(policy)), Len(buf) >= 21
    PROVE  /\ Num(0).value = version
           /\ \A i \in 1..18 : Says(Order[i], HeaderRead[i])
<1> DEFINE v == FlattenSeq(HeadParts)
<1>0. Len(buf) \in Nat /\ version \in Nat /\ Len(<<version>>) = 1 /\ <<version>> \in Seq(Words)
  BY Assumed, NumWords
<1>1. Agree(0, <<version>>) /\ Agree(1, v)
  <2>1. v \in Seq(Words) /\ Agree(0, <<version>> \o v)
    BY HeaderFacts
  <2> DEFINE u == <<version>>
  <2>2. u \in Seq(Words) /\ Len(u) = 1
    BY <1>0
  <2> HIDE DEF v, u
  <2>3. Agree(0, u) /\ Agree(0 + Len(u), v)
    BY <2>1, <2>2, Split DEF u
  <2>4. QED
    BY <2>2, <2>3 DEF u
<1>2. Num(0).value = version
  <2>1. Fits(Num(0), version, 0, <<version>>)
    BY <1>0, <1>1, NumFits
  <2>2. QED
    BY <1>0, <2>1 DEF Fits
<1>3. ASSUME NEW i \in 1..18 PROVE Says(Order[i], HeaderRead[i])
  <2> DEFINE at == At(i)
             s == Order[i]
             q == policy[s]
  <2>1. /\ at \in Nat /\ at + (At(i + 1) - At(i)) <= 21 /\ at = 1 + (At(i - 1 + 1) - 1)
        /\ at + 1 \in Nat /\ at + 1 <= 21
    BY DEF At
  <2>2. HeadOffset(i) = at
    BY HeadOffsets
  <2> DEFINE n == Len(FlattenSeq(Take(HeadParts, i - 1)))
  <2>3. Agree(1 + n, HeadWords(policy, s))
    <3>1. /\ HeadParts \in Seq(Seq(Words)) /\ i \in 1..Len(HeadParts) /\ 1 \in Nat
          /\ HeadParts[i] = HeadWords(policy, s)
      BY HeadPartsFacts
    <3>2. Agree(1 + n, HeadParts[i])
      BY <1>1, <3>1, PartAgrees
    <3>3. QED
      BY <3>1, <3>2
  <2>4. 1 + n = at
    <3>1. i - 1 \in 0..18
      OBVIOUS
    <3>2. n = At(i - 1 + 1) - 1
      BY <3>1, HeadPartsFacts
    <3>3. QED
      BY <2>1, <3>2
  <2>5. Agree(at, HeadWords(policy, s))
    BY <2>3, <2>4
  <2> HIDE DEF at, n
  <2>6. i \in DOMAIN Order /\ s \in Sections
    BY OrderFacts
  <2>7. HeaderRead[i] = [count |-> Num(at).value,
                         value |-> IF s \in Wide THEN Num(at + 1).value ELSE 0]
    BY <2>2, <2>6 DEF HeaderRead
  <2>8. CASE s \in Wide
    <3>1. at + 2 <= Len(buf)
      <4>1. i = 2 \/ i = 17
        BY <2>8, WideFacts
      <4>2. at + 2 <= 21
        BY <4>1 DEF At, at
      <4>3. QED
        BY <1>0, <2>1, <4>2
    <3>2. ASSUME NEW x \in Nat, NEW y \in Nat, HeadWords(policy, s) = <<x, y>>
          PROVE  Num(at).value = x /\ Num(at + 1).value = y
      <4>1. Agree(at, <<x>>) /\ Agree(at + 1, <<y>>)
        BY <2>1, <2>5, <3>2, TwoWords
      <4>2. Fits(Num(at), x, at, <<x>>) /\ Fits(Num(at + 1), y, at + 1, <<y>>)
        BY <2>1, <4>1, NumFits
      <4>3. Len(<<x>>) = 1 /\ Len(<<y>>) = 1
        OBVIOUS
      <4>4. at + 1 <= Len(buf) /\ at + 1 + 1 <= Len(buf)
        BY <1>0, <2>1, <3>1
      <4>5. QED
        BY <4>2, <4>3, <4>4 DEF Fits
    <3>3. CASE q = <<>>
      <4>1. HeadWords(policy, s) = <<0, 0>>
        BY <2>8, <3>3 DEF HeadWords
      <4>2. Num(at).value = 0
        BY <3>2, <4>1
      <4>3. HeaderRead[i].count = 0
        BY <2>7, <4>2
      <4>4. QED
        BY <2>8, <3>3, <4>3 DEF Says
    <3>4. CASE q # <<>>
      <4> DEFINE x == q[1]
      <4>1. HeadWords(policy, s) = <<1, x>> /\ x \in Nat /\ q = <<x>>
        BY <2>8, <3>4, PolicyFacts DEF HeadWords
      <4> HIDE DEF x, q
      <4>2. Num(at).value = 1 /\ Num(at + 1).value = x
        BY <3>2, <4>1
      <4>3. HeaderRead[i].count = 1 /\ HeaderRead[i].value = x
        BY <2>7, <2>8, <4>2
      <4>4. Len(q) = 1
        BY <4>1
      <4>5. QED
        BY <2>8, <4>3, <4>4 DEF Says, q, x
    <3>5. QED
      BY <3>3, <3>4
  <2>9. CASE s \notin Wide
    <3>1. HeadWords(policy, s) = <<Len(q)>> /\ Len(q) \in Nat
      BY <2>6, <2>9, PolicyFacts DEF HeadWords
    <3> DEFINE x == Len(q)
    <3> HIDE DEF x
    <3>2. Fits(Num(at), x, at, <<x>>)
      BY <2>1, <2>5, <3>1, NumFits DEF x
    <3>3. at + 1 <= Len(buf) /\ Len(<<x>>) = 1
      BY <1>0, <2>1
    <3>4. Num(at).value = x
      BY <3>2, <3>3 DEF Fits
    <3>5. HeaderRead[i].count = x
      BY <2>7, <3>4
    <3>6. QED
      BY <2>9, <3>5 DEF Says, x
  <2>10. QED
    BY <2>8, <2>9
<1>4. QED
  BY <1>2, <1>3

(* What goes into the body, and the wire after k parts.                      *)
BodyParts == [i \in DOMAIN Order |-> BodyWords(policy, Order[i])]
Sofar(k) == IF k = 0 THEN <<>> ELSE Header(policy) \o FlattenSeq(Take(BodyParts, k - 1))

(* Three of them.                                                            *)
LEMMA JoinAssoc ==
    ASSUME NEW S, NEW u \in Seq(S), NEW v \in Seq(S), NEW w \in Seq(S)
    PROVE  (u \o v) \o w = u \o (v \o w)
OBVIOUS

(* An empty one.                                                             *)
LEMMA JoinEmpty == ASSUME NEW S, NEW u \in Seq(S) PROVE u \o <<>> = u /\ <<>> \o u = u
OBVIOUS

(* The wire grows by one part at a time, from nothing to all of it.          *)
LEMMA SofarFacts ==
    ASSUME policy \in Policies, version \in Versions, buf \in Seq(Words)
    PROVE  /\ BodyParts \in Seq(Seq(Words)) /\ Len(BodyParts) = 18
           /\ \A k \in 0..19 : Sofar(k) \in Seq(Words) /\ Len(Sofar(k)) \in Nat
           /\ \A k \in 0..18 : /\ Part(policy, k) \in Seq(Words)
                               /\ Sofar(k + 1) = Sofar(k) \o Part(policy, k)
                               /\ Len(Sofar(k + 1)) = Len(Sofar(k)) + Len(Part(policy, k))
           /\ \A k \in 1..18 : /\ Part(policy, k) = BodyParts[k]
                               /\ Len(Sofar(k)) = 21 + Len(FlattenSeq(Take(BodyParts, k - 1)))
           /\ Sofar(19) = Wire(policy) /\ Wire(policy) = Header(policy) \o FlattenSeq(BodyParts)
           /\ Sofar(0) = <<>> /\ Sofar(1) = Header(policy) /\ Len(Sofar(1)) = 21
<1> DEFINE H == Header(policy)
           w(k) == FlattenSeq(Take(BodyParts, k))
<1>1. H \in Seq(Words) /\ Len(H) = 21
  BY HeaderFacts
<1>2. \A i \in 1..18 : BodyWords(policy, Order[i]) \in Seq(Words)
  <2>1. ASSUME NEW s \in Sections PROVE BodyWords(policy, s) \in Seq(Words)
    <3>1. CASE s \in Wide
      BY <3>1 DEF BodyWords
    <3>2. CASE s \notin Wide
      <4>1. policy[s] \in Seq(EntryOf(s)) /\ 0 \in Nat /\ 0 <= Len(buf)
        BY PolicyFacts
      <4>2. FlattenSeq([i \in DOMAIN policy[s] |-> Encode(s, policy[s][i])]) \in Seq(Words)
        BY <3>2, <4>1, EntriesFit
      <4>3. QED
        BY <3>2, <4>2 DEF BodyWords
    <3>3. QED
      BY <3>1, <3>2
  <2>2. QED
    BY <2>1, OrderFacts
<1>3. /\ BodyParts \in Seq(Seq(Words)) /\ Len(BodyParts) = 18
      /\ \A i \in 1..18 : BodyParts[i] = BodyWords(policy, Order[i])
  BY <1>2, OrderFacts DEF BodyParts
<1>4. \A k \in 0..18 : w(k) \in Seq(Words)
  <2> SUFFICES ASSUME NEW k \in 0..18 PROVE w(k) \in Seq(Words)
    OBVIOUS
  <2>1. Take(BodyParts, k) \in Seq(Seq(Words))
    BY <1>3, TakeFacts
  <2>2. QED
    BY <2>1, FlattenFacts
<1>5. w(0) = <<>> /\ w(18) = FlattenSeq(BodyParts)
  <2>1. Take(BodyParts, 0) = <<>> /\ Take(BodyParts, 18) = BodyParts
    BY <1>3, TakeFacts
  <2>2. QED
    BY <2>1, FlattenFacts
<1>6. ASSUME NEW k \in 1..18 PROVE w(k) = w(k - 1) \o BodyParts[k] /\ BodyParts[k] \in Seq(Words)
  <2>1. k \in 1..Len(BodyParts) /\ k - 1 \in 0..Len(BodyParts)
    BY <1>3
  <2>2. Take(BodyParts, k) = Append(Take(BodyParts, k - 1), BodyParts[k])
    BY <1>3, <2>1, TakeFacts
  <2>3. Take(BodyParts, k - 1) \in Seq(Seq(Words))
    BY <1>3, <2>1, TakeFacts
  <2>4. BodyParts[k] \in Seq(Words)
    BY <1>2, <1>3
  <2>5. FlattenSeq(Append(Take(BodyParts, k - 1), BodyParts[k])) = w(k - 1) \o BodyParts[k]
    BY <2>3, <2>4, FlattenFacts
  <2>6. QED
    BY <2>2, <2>4, <2>5
<1>7. Sofar(0) = <<>>
  BY DEF Sofar
<1>8. ASSUME NEW k \in 1..19
      PROVE  k - 1 \in 0..18 /\ Sofar(k) = H \o w(k - 1) /\ w(k - 1) \in Seq(Words)
  <2>1. k # 0 /\ k - 1 \in 0..18
    OBVIOUS
  <2>2. Sofar(k) = H \o w(k - 1)
    BY <2>1 DEF Sofar
  <2>3. QED
    BY <1>4, <2>1, <2>2
<1>9. ASSUME NEW k \in 1..19 PROVE Sofar(k) \in Seq(Words)
  <2> HIDE DEF w, H
  <2> QED BY <1>1, <1>8, JoinFacts
<1>10. ASSUME NEW k \in 1..19 PROVE Len(Sofar(k)) = 21 + Len(w(k - 1))
  <2> HIDE DEF w, H
  <2>1. Len(H \o w(k - 1)) = Len(H) + Len(w(k - 1))
    BY <1>1, <1>8, JoinFacts
  <2>2. QED
    BY <1>1, <1>8, <2>1
<1> HIDE DEF w, H
<1>11. ASSUME NEW k \in 0..19 PROVE Sofar(k) \in Seq(Words) /\ Len(Sofar(k)) \in Nat
  <2>1. CASE k = 0
    <3>1. <<>> \in Seq(Words) /\ Len(<<>>) = 0
      OBVIOUS
    <3>2. Sofar(k) = <<>>
      BY <1>7, <2>1
    <3>3. QED
      BY <3>1, <3>2
  <2>2. CASE k # 0
    <3>1. k \in 1..19
      BY <2>2
    <3>2. Sofar(k) \in Seq(Words)
      BY <1>9, <3>1
    <3>3. QED
      BY <3>2, SeqFacts
  <2>3. QED
    BY <2>1, <2>2
<1>12. Sofar(1) = H
  <2>1. 1 - 1 = 0 /\ 1 \in 1..19
    OBVIOUS
  <2>2. Sofar(1) = H \o w(1 - 1)
    BY <1>8, <2>1
  <2>3. H \o <<>> = H
    BY <1>1, JoinEmpty
  <2>4. QED
    BY <1>5, <2>1, <2>2, <2>3
<1>13. Sofar(19) = H \o FlattenSeq(BodyParts)
  <2>1. 19 - 1 = 18 /\ 19 \in 1..19
    OBVIOUS
  <2>2. Sofar(19) = H \o w(19 - 1)
    BY <1>8, <2>1
  <2>3. QED
    BY <1>5, <2>1, <2>2
<1>14. ASSUME NEW k \in 1..18 PROVE Part(policy, k) = BodyParts[k]
  <2>1. k # 0
    OBVIOUS
  <2>2. QED
    BY <1>3, <2>1 DEF Part
<1>15. ASSUME NEW k \in 0..18
       PROVE  Part(policy, k) \in Seq(Words) /\ Sofar(k + 1) = Sofar(k) \o Part(policy, k)
  <2>1. CASE k = 0
    <3>1. Part(policy, k) = H
      BY <2>1 DEF Part, H
    <3>2. <<>> \o H = H
      BY <1>1, JoinEmpty
    <3>3. k + 1 = 1
      BY <2>1
    <3>4. QED
      BY <1>1, <1>7, <1>12, <2>1, <3>1, <3>2, <3>3
  <2>2. CASE k # 0
    <3>1. k \in 1..18 /\ k + 1 \in 1..19 /\ k \in 1..19 /\ k + 1 - 1 = k
      BY <2>2
    <3> DEFINE b == BodyParts[k]
               u == w(k - 1)
    <3>2. Part(policy, k) = b /\ b \in Seq(Words)
      BY <1>6, <1>14, <3>1
    <3>3. Sofar(k + 1) = H \o w(k)
      <4>1. ASSUME NEW i \in 1..19, i = k + 1 PROVE Sofar(i) = H \o w(k)
        <5>1. i - 1 = k
          BY <4>1
        <5>2. QED
          BY <1>8, <5>1
      <4>2. QED
        BY <3>1, <4>1
    <3>4. Sofar(k) = H \o u /\ u \in Seq(Words)
      BY <1>8, <3>1
    <3>5. w(k) = u \o b
      BY <1>6, <3>1
    <3> HIDE DEF b, u
    <3>6. H \o (u \o b) = (H \o u) \o b
      <4>1. H \in Seq(Words) /\ u \in Seq(Words) /\ b \in Seq(Words)
        BY <1>1, <3>2, <3>4
      <4>2. QED
        BY <4>1, JoinAssoc, SMTT(40)
    <3>7. QED
      BY <3>2, <3>3, <3>4, <3>5, <3>6
  <2>3. QED
    BY <2>1, <2>2
<1>16. ASSUME NEW k \in 0..18 PROVE Len(Sofar(k + 1)) = Len(Sofar(k)) + Len(Part(policy, k))
  <2>1. k \in 0..19
    OBVIOUS
  <2>2. Sofar(k) \in Seq(Words)
    BY <1>11, <2>1
  <2>3. QED
    BY <1>15, <2>2, JoinFacts
<1>17. ASSUME NEW k \in 1..18
       PROVE  Len(Sofar(k)) = 21 + Len(FlattenSeq(Take(BodyParts, k - 1)))
  <2>1. k \in 1..19
    OBVIOUS
  <2>2. QED
    BY <1>10, <2>1 DEF w
<1>18. Wire(policy) = H \o FlattenSeq(BodyParts)
  BY DEF Wire, H, BodyParts
<1>19. Sofar(19) = Wire(policy) /\ Wire(policy) = Header(policy) \o FlattenSeq(BodyParts)
  BY <1>13, <1>18 DEF H
<1>20. Sofar(0) = <<>> /\ Sofar(1) = Header(policy) /\ Len(Sofar(1)) = 21
  BY <1>1, <1>7, <1>12 DEF H
<1>21. QED
  BY <1>3, <1>11, <1>14, <1>15, <1>16, <1>17, <1>19, <1>20

(* As far as it goes, b has the words w.                                     *)
Starts(b, w) == \A i \in 1..Len(w) : i <= Len(b) => b[i] = w[i]

(* Then the buffer agrees with them from its start.                          *)
LEMMA StartsAgrees == ASSUME NEW w, Starts(buf, w) PROVE Agree(0, w)
BY DEF Starts, Agree

(* What starts with all of b does so with more behind it.                    *)
LEMMA StartsJoin ==
    ASSUME NEW b \in Seq(Words), NEW u \in Seq(Words), NEW v \in Seq(Words),
           Starts(b, u), Len(b) <= Len(u)
    PROVE  Starts(b, u \o v) /\ Len(b) <= Len(u \o v)
<1>1. Len(u \o v) = Len(u) + Len(v) /\ Len(u) \in Nat /\ Len(v) \in Nat /\ Len(b) \in Nat
  BY JoinFacts, SeqFacts
<1>2. ASSUME NEW i \in 1..Len(u \o v), i <= Len(b) PROVE b[i] = (u \o v)[i]
  <2>1. i \in 1..Len(u)
    BY <1>1, <1>2
  <2>2. (u \o v)[i] = u[i]
    BY <2>1
  <2>3. QED
    BY <1>2, <2>1, <2>2 DEF Starts
<1>3. QED
  BY <1>1, <1>2 DEF Starts

(* The same with a beginning of what is behind b.                            *)
LEMMA StartsPart ==
    ASSUME NEW b \in Seq(Words), NEW p \in Seq(Words), NEW u \in Seq(Words),
           Len(u) <= Len(p), \A i \in 1..Len(u) : u[i] = p[i]
    PROVE  Starts(b \o u, b \o p) /\ Len(b \o u) <= Len(b \o p)
<1>1. /\ Len(b \o u) = Len(b) + Len(u) /\ Len(b \o p) = Len(b) + Len(p)
      /\ Len(b) \in Nat /\ Len(u) \in Nat /\ Len(p) \in Nat
  BY JoinFacts, SeqFacts
<1>2. ASSUME NEW i \in 1..Len(b \o p), i <= Len(b \o u) PROVE (b \o u)[i] = (b \o p)[i]
  <2>1. CASE i <= Len(b)
    BY <1>1, <1>2, <2>1
  <2>2. CASE i > Len(b)
    <3>1. i - Len(b) \in 1..Len(u) /\ i - Len(b) \in 1..Len(p)
      BY <1>1, <1>2, <2>2
    <3>2. (b \o u)[i] = u[i - Len(b)] /\ (b \o p)[i] = p[i - Len(b)]
      BY <1>1, <1>2, <2>2
    <3>3. QED
      BY <3>1, <3>2
  <2>3. i <= Len(b) \/ i > Len(b)
    BY <1>1
  <2>4. QED
    BY <2>1, <2>2, <2>3
<1>3. QED
  BY <1>1, <1>2 DEF Starts

(* What starts some parts of the wire starts the wire.                       *)
LEMMA StartsSofar ==
    ASSUME policy \in Policies, version \in Versions, buf \in Seq(Words), NEW j \in 0..19,
           NEW b \in Seq(Words), Starts(b, Sofar(j)), Len(b) <= Len(Sofar(j))
    PROVE  Starts(b, Wire(policy)) /\ Len(b) <= Len(Wire(policy))
<1> DEFINE T == {d \in Nat : j + d <= 19 => Starts(b, Sofar(j + d)) /\ Len(b) <= Len(Sofar(j + d))}
<1>1. b \in Seq(Words)
  OBVIOUS
<1>2. 0 \in T
  <2>1. j + 0 = j
    OBVIOUS
  <2>2. QED
    BY <2>1
<1>3. ASSUME NEW d \in Nat, d \in T PROVE d + 1 \in T
  <2>1. CASE j + (d + 1) <= 19
    <3> DEFINE k == j + d
    <3>1. k \in 0..18 /\ k \in 0..19 /\ j + d <= 19 /\ j + (d + 1) = k + 1
      BY <2>1
    <3>2. Starts(b, Sofar(k)) /\ Len(b) <= Len(Sofar(k))
      BY <1>3, <3>1
    <3>3. Sofar(k) \in Seq(Words) /\ Part(policy, k) \in Seq(Words)
          /\ Sofar(k + 1) = Sofar(k) \o Part(policy, k)
      BY <3>1, SofarFacts
    <3> HIDE DEF k
    <3>4. Starts(b, Sofar(k + 1)) /\ Len(b) <= Len(Sofar(k + 1))
      BY <1>1, <3>2, <3>3, StartsJoin
    <3>5. Starts(b, Sofar(j + (d + 1))) /\ Len(b) <= Len(Sofar(j + (d + 1)))
      BY <3>1, <3>4
    <3>6. QED
      BY <3>5
  <2>2. CASE ~(j + (d + 1) <= 19)
    BY <2>2
  <2>3. QED
    BY <2>1, <2>2
<1>4. Nat \subseteq T
  <2> HIDE DEF T
  <2> QED BY <1>2, <1>3, SetInduction
<1>5. 19 - j \in Nat /\ j + (19 - j) = 19 /\ 19 <= 19
  OBVIOUS
<1>6. 19 - j \in T
  BY <1>4, <1>5
<1>7. Starts(b, Sofar(19)) /\ Len(b) <= Len(Sofar(19))
  BY <1>5, <1>6
<1>8. QED
  BY <1>7, SofarFacts

(* Whatever parts of the wire were written, reading it finds a beginning of  *)
(* the wire; the lengths of the parts add up.                                *)
LEMMA SofarStarts ==
    ASSUME policy \in Policies, version \in Versions, buf \in Seq(Words), NEW j \in 0..19
    PROVE  Starts(Sofar(j), Wire(policy)) /\ Len(Sofar(j)) <= Len(Wire(policy))
<1>1. Sofar(j) \in Seq(Words) /\ Len(Sofar(j)) \in Nat
  BY SofarFacts
<1>2. Starts(Sofar(j), Sofar(j)) /\ Len(Sofar(j)) <= Len(Sofar(j))
  BY <1>1 DEF Starts
<1>3. QED
  BY <1>1, <1>2, StartsSofar

(* Too much was written.                                                     *)
LEMMA LongStarts ==
    ASSUME NEW w \in Seq(Words), NEW x
    PROVE  Starts(Append(w, x), w)
BY DEF Starts

(* A section is read where it was written.                                   *)
LEMMA SectionReads ==
    ASSUME policy \in Policies, version \in Versions, buf \in Seq(Words),
           Starts(buf, Wire(policy)), HeadSays, NEW k \in 1..18,
           off = Len(Sofar(k)), off <= Len(buf)
    PROVE  LET got == SectionAt(Order[k]) IN
           /\ got.ok <=> Len(Sofar(k + 1)) <= Len(buf)
           /\ got.ok => got.value = policy[Order[k]] /\ got.off = Len(Sofar(k + 1))
<1> DEFINE b == BodyParts[k]
           s == Order[k]
<1>1. k \in 0..18 /\ k \in 0..19
  OBVIOUS
<1>2. /\ off \in Nat /\ Part(policy, k) = b
      /\ Len(Sofar(k)) = 21 + Len(FlattenSeq(Take(BodyParts, k - 1)))
  BY <1>1, SofarFacts
<1>3. Len(Sofar(k + 1)) = off + Len(b)
  BY <1>1, <1>2, SofarFacts
<1>4. Agree(21, FlattenSeq(BodyParts))
  <2> DEFINE H == Header(policy)
             B == FlattenSeq(BodyParts)
  <2>1. B \in Seq(Words) /\ H \in Seq(Words) /\ Len(H) = 21
    BY SofarFacts, FlattenFacts, HeaderFacts
  <2>2. Agree(0, H \o B)
    BY StartsAgrees, SofarFacts
  <2> HIDE DEF H, B
  <2>3. Agree(0 + Len(H), B)
    BY <2>1, <2>2, Split
  <2>4. 0 + Len(H) = 21
    BY <2>1
  <2>5. QED
    BY <2>3, <2>4 DEF B
<1>5. Agree(off, b)
  <2>1. BodyParts \in Seq(Seq(Words)) /\ k \in 1..Len(BodyParts) /\ 21 \in Nat
    BY SofarFacts
  <2>2. Agree(21 + Len(FlattenSeq(Take(BodyParts, k - 1))), BodyParts[k])
    BY <1>4, <2>1, PartAgrees
  <2>3. QED
    BY <1>2, <2>2
<1>6. s \in Sections /\ b = BodyWords(policy, s)
  BY OrderFacts DEF BodyParts
<1> HIDE DEF b, s
<1>7. Fits(SectionAt(s), policy[s], off, b)
  BY <1>2, <1>5, <1>6, SectionFits
<1>8. QED
  BY <1>3, <1>7 DEF Fits, s

(* Nothing is left over exactly when the whole wire was written.             *)
LEMMA WholeWire ==
    ASSUME NEW b \in Seq(Words), NEW w \in Seq(Words), Starts(b, w)
    PROVE  b = w <=> Len(b) = Len(w)
<1>1. ASSUME Len(b) = Len(w) PROVE b = w
  <2>1. \A i \in 1..Len(w) : b[i] = w[i]
    BY <1>1, SeqFacts DEF Starts
  <2>2. QED
    BY <1>1, <2>1
<1>2. QED
  BY <1>1

---------------------------------------------------------------------------
(* What the variables hold.                                                  *)
DataInv ==
    /\ policy \in Policies /\ version \in Versions
    /\ given = [s \in Sections |-> given[s]] /\ out_ir = [s \in Sections |-> out_ir[s]]
    /\ result \in {"none", "ok", "error"} /\ failed \in BOOLEAN
    /\ ends \subseteq ReadEnds \cup WriteEnds
    /\ helper \in {"none", "child", "loading", "writing"} \cup Dead
    /\ written \in 0..19 /\ pipe \in Seq(Words) /\ Len(pipe) <= PipeCap
    /\ buf \in Seq(Words) /\ off \in Nat /\ off <= Len(buf) /\ section \in 1..18

(* The helper has written some parts of the wire; when it is gone, it may    *)
(* have stopped within a part, or written a word too many.                   *)
PipeInv ==
    pc \in {"called", "forking", "waiting", "draining"} =>
        /\ off = 0
        /\ pipe = Sofar(written) \/ (helper \in Dead /\ Starts(pipe, Wire(policy)))

(* The caller has read the header and the sections before this one.          *)
ReadInv ==
    /\ pc # "returned" => result = "none" /\ failed = FALSE
    /\ pc \notin {"section", "finish", "returned"} => section = 1
    /\ pc \in Reading => Starts(buf, Wire(policy))
    /\ pc \in {"section", "finish"} => HeadSays /\ version = WireVersion
    /\ pc = "section" => /\ off = Len(Sofar(section))
                         /\ \A i \in 1..(section - 1) : out_ir[Order[i]] = policy[Order[i]]
    /\ pc = "finish" => off = Len(Wire(policy)) /\ out_ir = policy

LoadInv == DataInv /\ PipeInv /\ ReadInv /\ FaithfulLoad

(* The wire of a policy does not change.                                     *)
LEMMA SameWire ==
    ASSUME UNCHANGED <<policy, version>>
    PROVE  /\ Wire(policy)' = Wire(policy) /\ \A k : Sofar(k)' = Sofar(k)
           /\ Starts(pipe, Wire(policy))' <=> Starts(pipe', Wire(policy))
<1>1. Wire(policy)' = Wire(policy)
  BY DEF Wire, Header
<1>2. \A k : Sofar(k)' = Sofar(k)
  BY DEF Sofar, Header, BodyParts
<1>3. Starts(pipe, Wire(policy))' <=> Starts(pipe', Wire(policy))
  BY <1>1 DEF Starts
<1>4. QED
  BY <1>1, <1>2, <1>3

(* An empty IR has every section.                                            *)
LEMMA EmptyFacts == EmptyIr = [s \in Sections |-> EmptyIr[s]] /\ DOMAIN EmptyIr = Sections
BY DEF EmptyIr

LEMMA InitLoad == Init => LoadInv
<1> SUFFICES ASSUME Init PROVE LoadInv
  OBVIOUS
<1>1. policy \in Policies /\ version \in Versions /\ buf = <<>> /\ buf \in Seq(Words)
  BY DEF Init
<1>2. policy = [s \in Sections |-> policy[s]]
  BY <1>1, PolicyFacts
<1>3. given = [s \in Sections |-> given[s]] /\ out_ir = [s \in Sections |-> out_ir[s]]
  <2>1. CASE given = policy
    BY <1>2, <2>1 DEF Init
  <2>2. CASE given = EmptyIr
    BY <2>2, EmptyFacts DEF Init
  <2>3. QED
    BY <2>1, <2>2 DEF Init
<1>4. DataInv
  <2>1. Len(<<>>) = 0 /\ 0 <= PipeCap /\ <<>> \in Seq(Words)
    BY PoliciesAssumption
  <2>2. /\ written \in 0..19 /\ pipe \in Seq(Words) /\ Len(pipe) <= PipeCap
        /\ off \in Nat /\ off <= Len(buf) /\ section \in 1..18
    BY <2>1 DEF Init
  <2>3. /\ result \in {"none", "ok", "error"} /\ failed \in BOOLEAN
        /\ ends \subseteq ReadEnds \cup WriteEnds
        /\ helper \in {"none", "child", "loading", "writing"} \cup Dead
    BY DEF Init
  <2>4. QED
    BY <1>1, <1>3, <2>2, <2>3 DEF DataInv
<1>5. PipeInv
  BY <1>1, SofarFacts DEF Init, PipeInv
<1>6. ReadInv /\ FaithfulLoad
  BY DEF Init, ReadInv, Reading, FaithfulLoad, Returned
<1>7. QED
  BY <1>4, <1>5, <1>6 DEF LoadInv

---------------------------------------------------------------------------
(* Out with an error.                                                        *)
LEMMA ErrorOut ==
    ASSUME LoadInv, pc # "returned", Return("error"), out_ir' \in {out_ir, EmptyIr},
           UNCHANGED <<policy, version, given, helper, written, pipe, buf, off, section>>,
           ends' \subseteq ReadEnds \cup WriteEnds,
           \/ failed' = TRUE
           \/ UNCHANGED failed /\ (version # WireVersion \/ buf # Wire(policy))
    PROVE  LoadInv'
<1>1. pc' = "returned" /\ result' = "error"
  BY DEF Return
<1>2. (out_ir = [s \in Sections |-> out_ir[s]])'
  <2>1. CASE out_ir' = out_ir
    BY <2>1 DEF LoadInv, DataInv
  <2>2. CASE out_ir' = EmptyIr
    BY <2>2, EmptyFacts
  <2>3. QED
    BY <2>1, <2>2
<1>3. DataInv'
  BY <1>1, <1>2 DEF LoadInv, DataInv
<1>4. PipeInv' /\ ReadInv'
  BY <1>1 DEF PipeInv, ReadInv, Reading
<1>5. FaithfulLoad'
  BY <1>1, SameWire DEF FaithfulLoad, Returned
<1>6. QED
  BY <1>3, <1>4, <1>5 DEF LoadInv

(* On to where the wire has not been read yet.                               *)
LEMMA Onward ==
    ASSUME LoadInv, pc \in {"called", "forking", "waiting"}, helper \notin Dead \/ UNCHANGED helper,
           pc' \in {"forking", "waiting", "draining"},
           helper' \in {"none", "child", "loading", "writing"} \cup Dead,
           UNCHANGED <<policy, version, given, out_ir, result, failed, written, pipe, buf, off, section>>,
           ends' \subseteq ReadEnds \cup WriteEnds
    PROVE  LoadInv'
<1>1. DataInv'
  BY DEF LoadInv, DataInv
<1>2. PipeInv'
  BY SameWire DEF LoadInv, PipeInv
<1>3. ReadInv' /\ FaithfulLoad'
  BY DEF LoadInv, ReadInv, Reading, FaithfulLoad, Returned
<1>4. QED
  BY <1>1, <1>2, <1>3 DEF LoadInv

LEMMA RefuseLoad == ASSUME IInv, LoadInv, Refuse PROVE LoadInv'
<1>1. /\ pc # "returned" /\ Return("error") /\ out_ir' = out_ir /\ failed' = TRUE
      /\ UNCHANGED <<policy, version, given, helper, written, pipe, buf, off, section, ends>>
  BY DEF Refuse, helperVars, readVars
<1>2. ends' \subseteq ReadEnds \cup WriteEnds
  BY <1>1 DEF LoadInv, DataInv
<1>3. QED
  BY <1>1, <1>2, ErrorOut

LEMMA PipesLoad == ASSUME IInv, LoadInv, Pipes PROVE LoadInv'
<1>1. pc = "called" /\ UNCHANGED <<policy, version, given, helper, written, pipe, buf, off, section>>
  BY DEF Pipes, helperVars, readVars
<1>2. CASE pc' = "forking"
  <2>1. /\ UNCHANGED <<out_ir, result, failed>> /\ ends' = ReadEnds \cup WriteEnds
    BY <1>2 DEF Pipes, Fail, Return
  <2>2. helper \in {"none", "child", "loading", "writing"} \cup Dead
    BY DEF LoadInv, DataInv
  <2>3. QED
    BY <1>1, <1>2, <2>1, <2>2, Onward
<1>3. CASE pc' # "forking"
  <2>1. PICK open \in {{}, {"out_r", "out_w"}, {"out_r", "out_w", "err_r", "err_w"}} : Fail(open)
    BY <1>3 DEF Pipes
  <2>2. open \subseteq ReadEnds \cup WriteEnds
    BY DEF ReadEnds, WriteEnds
  <2>3. QED
    BY <1>1, <2>1, <2>2, ErrorOut DEF Fail
<1>4. QED
  BY <1>2, <1>3

LEMMA ForkLoad == ASSUME IInv, LoadInv, Fork PROVE LoadInv'
<1>1. /\ pc = "forking" /\ UNCHANGED <<policy, version, given, buf, off, section>>
      /\ helper = "none"
  BY DEF Fork, readVars, IInv, ProcessInv
<1>2. CASE pc' = "waiting"
  <2>1. /\ UNCHANGED <<out_ir, result, failed, written, pipe>> /\ ends' = ReadEnds /\ helper' = "child"
    BY <1>2 DEF Fork, Fail, Return, ForkedEnds
  <2>2. "none" \notin Dead
    BY DEF Dead
  <2>3. QED
    BY <1>1, <1>2, <2>1, <2>2, Onward
<1>3. CASE pc' # "waiting"
  <2>1. Fail({}) /\ UNCHANGED <<helper, written, pipe>>
    BY <1>3 DEF Fork, helperVars
  <2>2. QED
    BY <1>1, <2>1, ErrorOut DEF Fail
<1>4. QED
  BY <1>2, <1>3

LEMMA WaitLoad == ASSUME IInv, LoadInv, WaitHelper PROVE LoadInv'
<1>1. pc = "waiting" /\ UNCHANGED <<policy, version, given, helper, written, pipe, buf, off, section>>
  BY DEF WaitHelper, helperVars, readVars
<1>2. CASE pc' = "draining"
  <2>1. UNCHANGED <<out_ir, result, failed, ends>>
    BY <1>2 DEF WaitHelper, Fail, Return
  <2>2. helper \in {"none", "child", "loading", "writing"} \cup Dead /\ ends \subseteq ReadEnds \cup WriteEnds
    BY DEF LoadInv, DataInv
  <2>3. QED
    BY <1>1, <1>2, <2>1, <2>2, Onward
<1>3. CASE pc' # "draining"
  <2>1. Fail({})
    BY <1>3 DEF WaitHelper
  <2>2. QED
    BY <1>1, <2>1, ErrorOut DEF Fail
<1>4. QED
  BY <1>2, <1>3

LEMMA DrainLoad == ASSUME IInv, LoadInv, Drain PROVE LoadInv'
<1>1. pc = "draining" /\ UNCHANGED <<policy, version, given, helper, written, off, head, section>>
  BY DEF Drain
<1>2. CASE pc' = "checking"
  <2>1. UNCHANGED <<out_ir, result, failed>> /\ buf' = pipe /\ pipe' = <<>> /\ ends' = {}
    BY <1>2 DEF Drain, Fail, Return
  <2>2. off = 0 /\ Len(pipe) \in Nat /\ Len(<<>>) = 0 /\ <<>> \in Seq(Words) /\ 0 <= PipeCap
    BY <1>1, PoliciesAssumption DEF LoadInv, DataInv, PipeInv
  <2>3. DataInv'
    BY <1>1, <2>1, <2>2 DEF LoadInv, DataInv
  <2>4. Starts(pipe, Wire(policy))
    <3>1. policy \in Policies /\ version \in Versions /\ buf \in Seq(Words) /\ written \in 0..19
      BY DEF LoadInv, DataInv
    <3>2. CASE pipe = Sofar(written)
      BY <3>1, <3>2, SofarStarts
    <3>3. QED
      BY <1>1, <3>2 DEF LoadInv, PipeInv
  <2>5. Starts(buf, Wire(policy))'
    BY <1>1, <2>1, <2>4, SameWire DEF Starts
  <2>6. ReadInv'
    BY <1>1, <1>2, <2>1, <2>5 DEF LoadInv, ReadInv, Reading
  <2>7. PipeInv' /\ FaithfulLoad'
    BY <1>2 DEF PipeInv, FaithfulLoad, Returned
  <2>8. QED
    BY <2>3, <2>6, <2>7 DEF LoadInv
<1>3. CASE pc' # "checking"
  <2>1. Fail({}) /\ UNCHANGED <<buf, pipe>>
    BY <1>3 DEF Drain, DrainFailedEnds
  <2>2. QED
    BY <1>1, <2>1, ErrorOut DEF Fail
<1>4. QED
  BY <1>2, <1>3

LEMMA CheckLoad == ASSUME IInv, LoadInv, CheckHelper PROVE LoadInv'
<1>1. pc = "checking" /\ UNCHANGED <<policy, version, given, helper, written, pipe, buf, off, head, section>>
  BY DEF CheckHelper, helperVars, readVars
<1>2. CASE helper = "exited"
  <2>1. pc' = "header" /\ UNCHANGED <<result, ends, out_ir, failed>>
    BY <1>2 DEF CheckHelper
  <2>2. DataInv'
    BY <1>1, <2>1 DEF LoadInv, DataInv
  <2>3. Starts(buf, Wire(policy))'
    BY <1>1, SameWire DEF LoadInv, ReadInv, Reading, Starts
  <2>4. PipeInv' /\ ReadInv' /\ FaithfulLoad'
    BY <1>1, <2>1, <2>3 DEF LoadInv, PipeInv, ReadInv, Reading, FaithfulLoad, Returned
  <2>5. QED
    BY <2>2, <2>4 DEF LoadInv
<1>3. CASE helper # "exited"
  <2>1. Fail({})
    BY <1>3 DEF CheckHelper
  <2>2. QED
    BY <1>1, <2>1, ErrorOut DEF Fail
<1>4. QED
  BY <1>2, <1>3

LEMMA HeaderLoad == ASSUME IInv, LoadInv, ReadHeader PROVE LoadInv'
<1>1. pc = "header" /\ UNCHANGED <<policy, version, given, helper, written, pipe, buf, section, ends, failed>>
  BY DEF ReadHeader, helperVars
<1>2. /\ policy \in Policies /\ version \in Versions /\ buf \in Seq(Words)
      /\ Starts(buf, Wire(policy)) /\ section = 1 /\ ends \subseteq ReadEnds \cup WriteEnds
      /\ HeaderWidth = 21 /\ Len(buf) \in Nat
  BY <1>1, HeaderFacts, SeqFacts DEF LoadInv, DataInv, ReadInv, Reading
<1>3. Len(Sofar(1)) = 21 /\ Len(Sofar(1)) <= Len(Wire(policy)) /\ Len(Wire(policy)) \in Nat
      /\ Sofar(1) = Header(policy)
  BY <1>2, SofarFacts, SofarStarts
<1>4. Agree(0, Header(policy))
  <2> DEFINE H == Header(policy)
             B == FlattenSeq(BodyParts)
  <2>1. B \in Seq(Words) /\ H \in Seq(Words)
    BY <1>2, SofarFacts, FlattenFacts, HeaderFacts
  <2>2. Agree(0, H \o B)
    BY <1>2, StartsAgrees, SofarFacts
  <2> HIDE DEF H, B
  <2>3. Agree(0, H)
    BY <2>1, <2>2, Split
  <2>4. QED
    BY <2>3 DEF H
<1>5. CASE Len(buf) >= HeaderWidth /\ Num(0).value = WireVersion
  <2>1. /\ head' = HeaderRead /\ off' = 21 /\ pc' = "section" /\ UNCHANGED <<result, out_ir>>
    BY <1>2, <1>5 DEF ReadHeader
  <2>2. Num(0).value = version /\ \A i \in 1..18 : Says(Order[i], HeaderRead[i])
    BY <1>2, <1>4, <1>5, HeaderFits
  <2>3. HeadSays'
    BY <1>1, <2>1, <2>2 DEF HeadSays, Says
  <2>4. DataInv'
    BY <1>1, <1>2, <1>5, <2>1 DEF LoadInv, DataInv
  <2>5. Starts(buf, Wire(policy))'
    BY <1>1, <1>2, SameWire DEF Starts
  <2>6. off' = Len(Sofar(section))'
    BY <1>1, <1>2, <1>3, <2>1, SameWire
  <2>7. \A i \in 1..(section' - 1) : out_ir'[Order[i]] = policy'[Order[i]]
    BY <1>1, <1>2
  <2>8. ReadInv'
    BY <1>1, <1>5, <2>1, <2>2, <2>3, <2>5, <2>6, <2>7 DEF LoadInv, ReadInv, Reading
  <2>9. PipeInv' /\ FaithfulLoad'
    BY <2>1 DEF PipeInv, FaithfulLoad, Returned
  <2>10. QED
    BY <2>4, <2>8, <2>9 DEF LoadInv
<1>6. CASE ~(Len(buf) >= HeaderWidth /\ Num(0).value = WireVersion)
  <2>1. Return("error") /\ out_ir' = EmptyIr /\ UNCHANGED <<failed, off>>
    BY <1>6 DEF ReadHeader
  <2>2. version # WireVersion \/ buf # Wire(policy)
    <3>1. CASE Len(buf) < 21
      <4>1. 21 <= Len(Wire(policy)) /\ Len(buf) \in Nat /\ Len(Wire(policy)) \in Nat
        BY <1>2, <1>3
      <4>2. Len(buf) # Len(Wire(policy))
        BY <3>1, <4>1
      <4>3. QED
        BY <4>2
    <3>2. CASE ~(Len(buf) < 21)
      <4>1. Num(0).value = version
        BY <1>2, <1>4, <3>2, HeaderFits
      <4>2. QED
        BY <1>2, <1>6, <3>2, <4>1
    <3>3. QED
      BY <3>1, <3>2
  <2>3. QED
    BY <1>1, <1>2, <2>1, <2>2, ErrorOut
<1>7. QED
  BY <1>5, <1>6

(* No section comes twice.                                                   *)
LEMMA OrderDistinct == \A i, j \in 1..18 : Order[i] = Order[j] => i = j
BY Indices DEF Order

LEMMA SectionLoad == ASSUME IInv, LoadInv, ReadSection PROVE LoadInv'
<1> DEFINE s == Order[section]
           got == SectionAt(s)
<1>1. pc = "section" /\ UNCHANGED <<policy, version, given, helper, written, pipe, buf, head>>
  BY DEF ReadSection, helperVars
<1>2. /\ policy \in Policies /\ version \in Versions /\ buf \in Seq(Words)
      /\ Starts(buf, Wire(policy)) /\ section \in 1..18 /\ off = Len(Sofar(section))
      /\ HeadSays /\ version = WireVersion /\ off <= Len(buf) /\ Len(buf) \in Nat
      /\ ends \subseteq ReadEnds \cup WriteEnds
      /\ out_ir = [x \in Sections |-> out_ir[x]]
      /\ \A i \in 1..(section - 1) : out_ir[Order[i]] = policy[Order[i]]
  BY <1>1, SeqFacts DEF LoadInv, DataInv, ReadInv, Reading
<1> DEFINE k == section
<1>3. /\ got.ok <=> Len(Sofar(k + 1)) <= Len(buf)
      /\ got.ok => got.value = policy[s] /\ got.off = Len(Sofar(k + 1))
  BY <1>2, SectionReads
<1>4. /\ k + 1 \in 0..19 /\ s \in Sections
      /\ Len(Sofar(k + 1)) \in Nat /\ Len(Sofar(k + 1)) <= Len(Wire(policy)) /\ Len(Wire(policy)) \in Nat
      /\ Sofar(19) = Wire(policy)
  <2>1. k + 1 \in 0..19 /\ s \in Sections
    BY <1>2, OrderFacts
  <2>2. Sofar(19) = Wire(policy) /\ Len(Sofar(19)) \in Nat
    BY <1>2, SofarFacts
  <2>3. ASSUME NEW j \in 0..19 PROVE Len(Sofar(j)) \in Nat /\ Len(Sofar(j)) <= Len(Wire(policy))
    <3>1. policy \in Policies /\ version \in Versions /\ buf \in Seq(Words)
      BY <1>2
    <3>2. Len(Sofar(j)) \in Nat
      BY <3>1, SofarFacts
    <3>3. Len(Sofar(j)) <= Len(Wire(policy))
      BY <3>1, SofarStarts
    <3>4. QED
      BY <3>2, <3>3
  <2>4. QED
    BY <2>1, <2>2, <2>3
<1>5. CASE /\ got.ok
           /\ out_ir' = [out_ir EXCEPT ![s] = got.value] /\ off' = got.off
           /\ IF section = Len(Order) THEN pc' = "finish" /\ UNCHANGED section
              ELSE section' = section + 1 /\ UNCHANGED pc
           /\ UNCHANGED <<result, ends, failed>>
  <2>1. /\ out_ir' = [out_ir EXCEPT ![s] = policy[s]] /\ off' = Len(Sofar(k + 1))
        /\ off' <= Len(buf) /\ off' \in Nat
    BY <1>3, <1>4, <1>5
  <2>2. IF k = 18 THEN pc' = "finish" /\ section' = k
        ELSE section' = k + 1 /\ pc' = "section"
    BY <1>1, <1>5, OrderFacts
  <2>3. UNCHANGED <<result, ends, failed>>
    BY <1>5
  <2> HIDE DEF got
  <2>4. section' \in 1..18
    BY <1>2, <2>2, SMTT(40)
  <2>5. (out_ir = [x \in Sections |-> out_ir[x]])'
    BY <1>2, <2>1
  <2>6. DataInv'
    BY <1>1, <2>1, <2>3, <2>4, <2>5 DEF LoadInv, DataInv
  <2>7. Starts(buf, Wire(policy))' /\ HeadSays'
    BY <1>1, <1>2, SameWire DEF Starts, HeadSays, Says
  <2>8. \A i \in 1..k : out_ir'[Order[i]] = policy[Order[i]]
    <3> SUFFICES ASSUME NEW i \in 1..k PROVE out_ir'[Order[i]] = policy[Order[i]]
      OBVIOUS
    <3>0. section \in 1..18
      BY <1>2
    <3>a. i \in 1..18
      BY <3>0
    <3>1. i \in 1..18 /\ Order[i] \in Sections
      BY <3>a, OrderFacts
    <3>2. CASE i = k
      BY <1>2, <1>4, <2>1, <3>2
    <3>3. CASE i # k
      <4>1. i \in 1..(k - 1)
        BY <1>2, <3>3, SMTT(40)
      <4>2. Order[i] # s
        BY <1>2, <3>1, <3>3, OrderDistinct
      <4>3. QED
        BY <1>2, <2>1, <3>1, <4>1, <4>2
    <3>4. QED
      BY <3>2, <3>3
  <2>9. CASE k = 18
    <3>1. pc' = "finish" /\ k + 1 = 19
      BY <2>2, <2>9
    <3>2. (off = Len(Wire(policy)))'
      BY <1>1, <1>4, <2>1, <3>1, SameWire
    <3>3. (out_ir = policy)'
      <4>1. \A x \in Sections : out_ir'[x] = policy[x]
        BY <2>8, <2>9, OrderFacts
      <4>2. policy = [x \in Sections |-> policy[x]]
        BY <1>2, PolicyFacts
      <4>3. QED
        BY <1>1, <2>5, <4>1, <4>2
    <3>4. ReadInv'
      BY <1>1, <1>2, <2>3, <2>7, <3>1, <3>2, <3>3 DEF LoadInv, ReadInv, Reading
    <3>5. PipeInv' /\ FaithfulLoad'
      BY <3>1 DEF PipeInv, FaithfulLoad, Returned
    <3>6. QED
      BY <2>6, <3>4, <3>5 DEF LoadInv
  <2>10. CASE k # 18
    <3>1. pc' = "section" /\ section' = k + 1 /\ section' - 1 = k
      BY <1>2, <2>2, <2>10, SMTT(40)
    <3>2. (off = Len(Sofar(section)))'
      BY <1>1, <2>1, <3>1, SameWire
    <3>3. \A i \in 1..(section' - 1) : out_ir'[Order[i]] = policy'[Order[i]]
      BY <1>1, <2>8, <3>1
    <3>4. ReadInv'
      BY <1>1, <1>2, <2>3, <2>7, <3>1, <3>2, <3>3 DEF LoadInv, ReadInv, Reading
    <3>5. PipeInv' /\ FaithfulLoad'
      BY <3>1 DEF PipeInv, FaithfulLoad, Returned
    <3>6. QED
      BY <2>6, <3>4, <3>5 DEF LoadInv
  <2>11. QED
    BY <2>9, <2>10
<1>6. CASE got.ok /\ Fail({}) /\ UNCHANGED <<off, section>>
  BY <1>1, <1>6, ErrorOut DEF Fail
<1>7. CASE ~got.ok /\ Return("error") /\ out_ir' = EmptyIr /\ UNCHANGED <<off, section, ends, failed>>
  <2>1. buf # Wire(policy)
    BY <1>2, <1>3, <1>4, <1>7
  <2>2. QED
    BY <1>1, <1>2, <1>7, <2>1, ErrorOut
<1>8. QED
  BY <1>5, <1>6, <1>7 DEF ReadSection

LEMMA FinishLoad == ASSUME IInv, LoadInv, Finish PROVE LoadInv'
<1>1. pc = "finish" /\ UNCHANGED <<policy, version, given, ends, failed, helper, written, pipe, buf, off, section>>
  BY DEF Finish, helperVars, readVars
<1>2. /\ policy \in Policies /\ version \in Versions /\ buf \in Seq(Words)
      /\ Starts(buf, Wire(policy)) /\ off = Len(Wire(policy)) /\ version = WireVersion
      /\ out_ir = policy /\ failed = FALSE /\ ends \subseteq ReadEnds \cup WriteEnds
  BY <1>1 DEF LoadInv, DataInv, ReadInv, Reading
<1>3. buf = Wire(policy) <=> Len(buf) = off
  <2>1. Wire(policy) \in Seq(Words)
    BY <1>2, SofarFacts
  <2>2. QED
    BY <1>2, <2>1, WholeWire
<1>4. CASE off = Len(buf)
  <2>1. pc' = "returned" /\ result' = "ok" /\ out_ir' = out_ir
    BY <1>4 DEF Finish, Return
  <2>2. DataInv'
    BY <1>1, <2>1 DEF LoadInv, DataInv
  <2>3. PipeInv' /\ ReadInv'
    BY <2>1 DEF PipeInv, ReadInv, Reading
  <2>4. FaithfulLoad'
    BY <1>1, <1>2, <1>3, <1>4, <2>1, SameWire DEF FaithfulLoad, Returned
  <2>5. QED
    BY <2>2, <2>3, <2>4 DEF LoadInv
<1>5. CASE off # Len(buf)
  <2>1. Return("error") /\ out_ir' = EmptyIr
    BY <1>5 DEF Finish
  <2>2. QED
    BY <1>1, <1>2, <1>3, <1>5, <2>1, ErrorOut
<1>6. QED
  BY <1>4, <1>5

(* The helper writes while the caller waits.                                 *)
LEMMA WritesLoad ==
    ASSUME LoadInv, pc = "waiting", UNCHANGED callerVars,
           helper' \in {"none", "child", "loading", "writing"} \cup Dead,
           written' \in 0..19, pipe' \in Seq(Words), Len(pipe') <= PipeCap,
           \/ pipe' = Sofar(written')
           \/ helper' \in Dead /\ Starts(pipe', Wire(policy))
    PROVE  LoadInv'
<1>1. UNCHANGED <<policy, version, given, out_ir, pc, result, ends, buf, off, head, section, failed>>
  BY DEF callerVars, readVars
<1>2. DataInv'
  BY <1>1 DEF LoadInv, DataInv
<1>3. Starts(pipe, Wire(policy))' <=> Starts(pipe', Wire(policy))
  BY <1>1, SameWire
<1>4. PipeInv'
  <2>1. Sofar(written)' = Sofar(written')
    BY <1>1 DEF Sofar, Header, BodyParts
  <2>2. QED
    BY <1>1, <1>3, <2>1 DEF LoadInv, PipeInv
<1>5. ReadInv' /\ FaithfulLoad'
  BY <1>1 DEF LoadInv, ReadInv, Reading, FaithfulLoad, Returned
<1>6. QED
  BY <1>2, <1>4, <1>5 DEF LoadInv

LEMMA HelperLoad == ASSUME IInv, LoadInv, Helper \/ HelperMisbehaves \/ HelperKilled PROVE LoadInv'
<1>1. helper # "none" /\ helper \notin Dead /\ UNCHANGED callerVars
  BY DEF Helper, HelperExecs, HelperLoads, HelperWrites, HelperExits, HelperMisbehaves,
         HelperKilled, Dead
<1>2. pc = "waiting"
  BY <1>1 DEF IInv, ProcessInv, NothingLeft, Returned, Counters, Reading
<1>3. /\ policy \in Policies /\ version \in Versions /\ buf \in Seq(Words)
      /\ written \in 0..19 /\ pipe \in Seq(Words) /\ Len(pipe) <= PipeCap
      /\ Len(pipe) \in Nat /\ PipeCap \in Nat /\ pipe = Sofar(written)
  BY <1>1, <1>2, SeqFacts, PoliciesAssumption DEF LoadInv, DataInv, PipeInv
<1>4. CASE HelperWrites
  <2> DEFINE p == Part(policy, written)
  <2>1. /\ written <= 18 /\ Len(pipe) + Len(p) <= PipeCap /\ pipe' = pipe \o p
        /\ written' = written + 1 /\ helper' = helper
    BY <1>4, OrderFacts DEF HelperWrites
  <2>2. written \in 0..18 /\ written' \in 0..19
    BY <1>3, <2>1
  <2>3. p \in Seq(Words) /\ Sofar(written + 1) = Sofar(written) \o p
    BY <1>3, <2>2, SofarFacts
  <2> HIDE DEF p
  <2>4. pipe' \in Seq(Words) /\ Len(pipe') = Len(pipe) + Len(p)
    BY <1>3, <2>1, <2>3, JoinFacts
  <2>5. pipe' = Sofar(written')
    BY <1>3, <2>1, <2>3
  <2>6. Len(pipe') <= PipeCap
    BY <2>1, <2>4
  <2>7. helper' \in {"none", "child", "loading", "writing"} \cup Dead
    BY <2>1 DEF LoadInv, DataInv
  <2>8. QED
    BY <1>1, <1>2, <2>2, <2>4, <2>5, <2>6, <2>7, WritesLoad
<1>5. CASE /\ UNCHANGED <<written, pipe>>
           /\ helper' \in {"loading", "writing"} \cup Dead
  BY <1>1, <1>2, <1>3, <1>5, WritesLoad
<1>6. ASSUME NEW x \in Texts \cup {0}, written = 19, Len(pipe) < PipeCap,
             pipe' = Append(pipe, x), written' = written, helper' = "exited"
      PROVE  LoadInv'
  <2>1. pipe = Wire(policy) /\ x \in Words
    <3>1. pipe = Sofar(19)
      BY <1>3, <1>6
    <3>2. Sofar(19) = Wire(policy)
      BY <1>3, SofarFacts
    <3>3. x \in Words
      BY <1>6 DEF Words
    <3>4. QED
      BY <3>1, <3>2, <3>3
  <2>2. pipe' \in Seq(Words) /\ Len(pipe') = Len(pipe) + 1
    BY <1>3, <1>6, <2>1
  <2>3. Len(pipe') <= PipeCap
    BY <1>3, <1>6, <2>2
  <2>4. helper' \in Dead /\ Starts(pipe', Wire(policy))
    BY <1>3, <1>6, <2>1, LongStarts DEF Dead
  <2>5. written' \in 0..19
    BY <1>3, <1>6
  <2>6. QED
    BY <1>1, <1>2, <2>2, <2>3, <2>4, <2>5, WritesLoad
<1>7. ASSUME written <= 18, NEW n \in 0..Len(Part(policy, written)), Len(pipe) + n <= PipeCap,
             pipe' = pipe \o SubSeq(Part(policy, written), 1, n),
             written' = written, helper' = "exited"
      PROVE  LoadInv'
  <2> DEFINE p == Part(policy, written)
             u == SubSeq(p, 1, n)
             v == SubSeq(p, n + 1, Len(p))
  <2>1. written \in 0..18 /\ written + 1 \in 0..19
    BY <1>3, <1>7
  <2>2. p \in Seq(Words) /\ Sofar(written + 1) = pipe \o p
    BY <1>3, <2>1, SofarFacts
  <2>3. n \in 0..Len(p) /\ pipe' = pipe \o u
    BY <1>7
  <2> HIDE DEF p
  <2>4. /\ u \in Seq(Words) /\ Len(u) = n /\ Len(u) <= Len(p)
        /\ \A i \in 1..Len(u) : u[i] = p[i]
    <3>1. Len(p) \in Nat /\ n \in Nat /\ n <= Len(p)
      BY <2>2, <2>3, SeqFacts
    <3>2. QED
      BY <2>2, <3>1
  <2> HIDE DEF u
  <2>5. pipe' \in Seq(Words) /\ Len(pipe') = Len(pipe) + n
    BY <1>3, <2>3, <2>4, JoinFacts
  <2>6. Starts(pipe', Sofar(written + 1)) /\ Len(pipe') <= Len(Sofar(written + 1))
    <3>1. Starts(pipe \o u, pipe \o p) /\ Len(pipe \o u) <= Len(pipe \o p)
      BY <1>3, <2>2, <2>4, StartsPart
    <3>2. QED
      BY <2>2, <2>3, <3>1
  <2>7. Starts(pipe', Wire(policy))
    BY <1>3, <2>1, <2>5, <2>6, StartsSofar
  <2>8. Len(pipe') <= PipeCap /\ written' \in 0..19 /\ helper' \in Dead
    BY <1>3, <1>7, <2>5 DEF Dead
  <2>9. QED
    BY <1>1, <1>2, <2>5, <2>7, <2>8, WritesLoad
<1>8. QED
  <2>1. CASE HelperExecs \/ HelperLoads \/ HelperExits \/ HelperKilled
    BY <1>5, <2>1 DEF HelperExecs, HelperLoads, HelperExits, HelperKilled, Dead
  <2>2. CASE HelperMisbehaves
    <3>1. helper' = "exited" /\ written' = written
      BY <2>2 DEF HelperMisbehaves
    <3>2. CASE /\ written <= Len(Order)
               /\ \E n \in 0..Len(Part(policy, written)) :
                    /\ Len(pipe) + n <= PipeCap
                    /\ pipe' = pipe \o SubSeq(Part(policy, written), 1, n)
      <4>1. written <= 18
        BY <3>2, OrderFacts
      <4>2. QED
        BY <1>7, <3>1, <3>2, <4>1
    <3>3. CASE /\ written = Len(Order) + 1 /\ Len(pipe) < PipeCap
               /\ \E word \in Texts \cup {0} : pipe' = Append(pipe, word)
      <4>1. written = 19
        BY <3>3, OrderFacts
      <4>2. QED
        BY <1>6, <3>1, <3>3, <4>1
    <3>4. QED
      BY <2>2, <3>2, <3>3, Zenon DEF HelperMisbehaves
  <2>3. QED
    BY <1>4, <2>1, <2>2 DEF Helper

LEMMA NextLoad == IInv /\ LoadInv /\ [Next]_vars => LoadInv'
<1> SUFFICES ASSUME IInv, LoadInv, [Next]_vars PROVE LoadInv'
  OBVIOUS
<1>1. CASE Caller
  BY <1>1, RefuseLoad, PipesLoad, ForkLoad, WaitLoad, DrainLoad, CheckLoad, HeaderLoad,
     SectionLoad, FinishLoad DEF Caller
<1>2. CASE Helper \/ HelperMisbehaves \/ HelperKilled
  BY <1>2, HelperLoad
<1>3. CASE UNCHANGED vars
  <2>1. UNCHANGED <<policy, version, given, out_ir, pc, result, ends, helper, written, pipe,
                    buf, off, head, section, failed>>
    BY <1>3 DEF vars
  <2>2. DataInv'
    BY <2>1 DEF LoadInv, DataInv
  <2>3. PipeInv'
    BY <2>1, SameWire DEF LoadInv, PipeInv
  <2>4. Starts(buf, Wire(policy))' <=> Starts(buf, Wire(policy))
    BY <2>1, SameWire DEF Starts
  <2>5. HeadSays' <=> HeadSays
    BY <2>1 DEF HeadSays, Says
  <2>6. ReadInv'
    BY <2>1, <2>4, <2>5, SameWire DEF LoadInv, ReadInv
  <2>7. FaithfulLoad'
    BY <2>1, SameWire DEF LoadInv, FaithfulLoad, Returned
  <2>8. QED
    BY <2>2, <2>3, <2>6, <2>7 DEF LoadInv
<1>4. QED
  BY <1>1, <1>2, <1>3 DEF Next

LEMMA LoadTypes == IInv /\ LoadInv => TypeOK
<1> SUFFICES ASSUME IInv, LoadInv PROVE TypeOK
  OBVIOUS
<1>1. DOMAIN given = Sections /\ DOMAIN out_ir = Sections
  BY DEF LoadInv, DataInv
<1>2. DOMAIN policy = Sections
  BY PolicyFacts DEF LoadInv, DataInv
<1>3. pc \in {"called", "forking", "waiting", "draining", "checking", "header", "section",
               "finish", "returned"}
  BY DEF IInv, ProcessInv, Counters, Reading
<1>4. /\ version \in Versions /\ result \in {"none", "ok", "error"} /\ failed \in BOOLEAN
      /\ ends \subseteq ReadEnds \cup WriteEnds
      /\ helper \in {"none", "child", "loading", "writing"} \cup Dead
      /\ written \in 0..(Len(Order) + 1) /\ Len(pipe) <= PipeCap
      /\ off <= Len(buf) /\ section \in 1..Len(Order)
  BY OrderFacts DEF LoadInv, DataInv
<1>5. QED
  BY <1>1, <1>2, <1>3, <1>4 DEF TypeOK

---------------------------------------------------------------------------
(* A failed load leaves the caller's IR as it was, wherever the helper       *)
(* stopped and wherever reading it failed (landlockd_policy_load_file).      *)
THEOREM FailureChangesNothing == Spec => []AllOrNothing
<1>1. IInv => AllOrNothing
  BY DEF IInv, IrInv
<1>2. QED
  BY <1>1, InitInv, NextInv, PTL DEF Spec

(* Once there was a helper, the call returns with every pipe end closed and  *)
(* the helper reaped (landlockd_policy_load_file).                           *)
THEOREM NeverLeaks == Spec => []NothingLeft
<1>1. IInv => NothingLeft
  BY DEF IInv, ProcessInv
<1>2. QED
  BY <1>1, InitInv, NextInv, PTL DEF Spec

(* At any time the variables hold what the code can hold: in particular the  *)
(* offset into the buffer never passes its end, and the pipe never holds     *)
(* more than it can.                                                         *)
THEOREM TypeCorrect == Spec => []TypeOK
<1>1. Init => IInv /\ LoadInv
  BY InitInv, InitLoad
<1>2. IInv /\ LoadInv /\ [Next]_vars => (IInv /\ LoadInv)'
  BY NextInv, NextLoad
<1>3. QED
  BY <1>1, <1>2, LoadTypes, PTL DEF Spec

(* The call succeeds exactly when nothing failed, the helper speaks this     *)
(* version and the buffer is the whole wire of the policy, and then out_ir   *)
(* is that policy: load_ir_from_wire undoes write_ir, refusals and casts     *)
(* included, for every policy whose entries are in the ranges the in-process *)
(* loader enforces (EntryOf), and wherever the helper stopped writing it.    *)
THEOREM LoadsFaithfully == Spec => []FaithfulLoad
<1>1. Init => IInv /\ LoadInv
  BY InitInv, InitLoad
<1>2. IInv /\ LoadInv /\ [Next]_vars => (IInv /\ LoadInv)'
  BY NextInv, NextLoad
<1>3. IInv /\ LoadInv => FaithfulLoad
  BY DEF LoadInv
<1>4. QED
  BY <1>1, <1>2, <1>3, PTL DEF Spec
=============================================================================
