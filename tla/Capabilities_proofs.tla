------------------------ MODULE Capabilities_proofs ------------------------
(***************************************************************************)
(* Proofs about host capabilities for any number of registrations, names   *)
(* and calls and any limits: types, exact permits and retention, the ready *)
(* queue, single ownership of every completion, and that a drained or      *)
(* retired registration is out of reach and stays so.                      *)
(***************************************************************************)
EXTENDS Capabilities, QueueFacts

\* A native closure exists as long as a call may be admitted or runs.
EntryShape(e) ==
  /\ e.closure => e.native
  /\ ~Idle(e)
  /\ e.native /\ ~e.closure => ~e.accepting /\ e.running = 0
  /\ e.releasing => e.native /\ ~e.closure
  /\ e.running <= MaxConcurrent

RegistryShape ==
  /\ \A g \in RegIds : entries[g] # NoEntry => EntryShape(entries[g])
  /\ \A g \in RegIds : entries[g] = NoEntry => retiring[g] = "no"
  /\ \A g \in RegIds : retiring[g] \in {"closed", "scanned", "done"} => ~entries[g].accepting
  /\ \A n \in Names : active[n] # NoReg =>
       /\ entries[active[n]] # NoEntry /\ entries[active[n]].name = n
       /\ entries[active[n]].listed /\ entries[active[n]].accepting
       /\ retiring[active[n]] = "no"
  /\ closing => \A n \in Names : active[n] = NoReg
  /\ shutdown # "open" => closing

\* Where the prepared call of a retained request is.
RecordShape(x, k) ==
  /\ x.phase \in {"Queued", "Dispatched"} => x.prepared /\ x.owner = "none" /\ ~x.pending_outcome
  /\ x.phase = "Completing" =>
       IF x.owner = "none" THEN x.prepared /\ x.pending_outcome ELSE ~x.prepared /\ ~x.pending_outcome
  /\ x.phase = "Completed" => x.owner = "none" /\ ~x.prepared /\ k.pc = "over" /\ k.evidence = "Completed"
  /\ x.phase # "Completed" => k.pc = "submitted" /\ (k.permit <=> x.owner # "publish")
  /\ x.owner = "publish" => k.evidence = "Completed"

CallShape(c) ==
  LET k == calls[c] IN
  /\ k.pc \in {"absent", "over"} => ~k.permit
  /\ k.pc # "absent" => k.reg \in RegIds /\ entries[k.reg] # NoEntry
  /\ k.pc \in {"admitted", "prepared", "rejected", "refusing", "running", "returned", "failed"} => k.permit
  /\ k.pc = "submitted" => records[c] # NoRecord
  /\ records[c] # NoRecord => RecordShape(records[c], k)

Permits == {c \in Calls : calls[c].permit}
PermitsOf(g) == {c \in Calls : calls[c].permit /\ calls[c].reg = g}
PermitsCounted ==
  /\ running = Cardinality(Permits)
  /\ \A g \in RegIds : entries[g] # NoEntry => entries[g].running = Cardinality(PermitsOf(g))

Queued(c) == records[c] # NoRecord /\ records[c].phase = "Queued"
QueueShape == Injective(ready) /\ Owned(ready) = {c \in Calls : Queued(c)}

\* A retiring registration cancels what it left in the queue.
RetireShape ==
  \A c \in Calls : Queued(c) =>
    /\ retiring[calls[c].reg] = "scanned" => <<calls[c].reg, c>> \in cancels
    /\ retiring[calls[c].reg] # "done"

Records == {c \in Calls : records[c] # NoRecord}
RetentionShape ==
  /\ reserved = Cardinality(Records) /\ reserved <= MaxRequests
  /\ Len(tombstones) <= MaxRequests /\ Injective(tombstones)
  /\ \A c \in Owned(tombstones) : records[c] = NoRecord /\ calls[c].pc = "over"

CapabilitiesInv ==
  /\ CapabilitiesTypeOK
  /\ RegistryShape
  /\ \A c \in Calls : CallShape(c)
  /\ PermitsCounted /\ QueueShape /\ RetireShape /\ RetentionShape

-----------------------------------------------------------------------------
\* A queue of distinct requests that forgets one keeps the others.
LEMMA RetainOwns ==
  ASSUME NEW S, NEW s \in Seq(S), Injective(s), NEW c
  PROVE  /\ Retain(s, c) \in Seq(S) /\ Injective(Retain(s, c))
         /\ Owned(Retain(s, c)) = Owned(s) \ {c}
<1> DEFINE n == Len(s)
           kept == {i \in DOMAIN s : s[i] # c}
           Rank(i) == Cardinality({j \in kept : j <= i})
           pos == [k \in 1 .. Cardinality(kept) |-> CHOOSE i \in kept : Rank(i) = k]
<1>1. n \in Nat /\ DOMAIN s = 1 .. n /\ \A i \in 1 .. n : s[i] \in S
  OBVIOUS
<1>2. Retain(s, c) = [k \in 1 .. Cardinality(kept) |-> s[pos[k]]]
  BY DEF Retain
<1>3. CASE c \notin Owned(s)
  <2>1. kept = 1 .. n
    BY <1>1, <1>3 DEF Owned
  <2>2. ASSUME NEW i \in 1 .. n PROVE Rank(i) = i
    <3>1. {j \in kept : j <= i} = 1 .. i
      BY <2>1, <1>1
    <3>2. i \in Nat /\ Cardinality(1 .. i) = i
      BY <1>1, IntervalSize
    <3> QED BY <3>1, <3>2, Zenon
  <2>3. Cardinality(kept) = n
    BY <1>1, <2>1, IntervalSize
  <2> HIDE DEF kept, Rank
  <2>4. \A k \in 1 .. n : pos[k] = k
    BY <2>1, <2>2, <2>3
  <2> HIDE DEF pos
  <2>5. Retain(s, c) = s
    BY <1>1, <1>2, <2>3, <2>4
  <2> QED BY <1>3, <2>5
<1>4. CASE c \in Owned(s)
  <2>1. PICK p \in 1 .. n : s[p] = c
    BY <1>1, <1>4 DEF Owned
  <2>2. kept = (1 .. n) \ {p}
    BY <1>1, <2>1 DEF Injective
  <2>3. ASSUME NEW i \in kept PROVE Rank(i) = IF i < p THEN i ELSE i - 1
    <3>1. CASE i < p
      <4>1. {j \in kept : j <= i} = 1 .. i
        BY <1>1, <2>2, <3>1
      <4>2. i \in Nat /\ Cardinality(1 .. i) = i
        BY <1>1, <2>2, IntervalSize
      <4>3. Rank(i) = i
        BY <4>1, <4>2, Zenon
      <4> HIDE DEF Rank
      <4> QED BY <3>1, <4>3
    <3>2. CASE i > p
      <4>1. {j \in kept : j <= i} = (1 .. i) \ {p} /\ p \in 1 .. i /\ i \in Nat
        BY <1>1, <2>2, <3>2
      <4>2. Cardinality((1 .. i) \ {p}) = i - 1
        BY <4>1, IntervalSize, FS_RemoveElement
      <4>3. Rank(i) = i - 1
        BY <4>1, <4>2, Zenon
      <4> HIDE DEF Rank
      <4> QED BY <3>2, <4>1, <4>3
    <3> QED BY <1>1, <2>2, <3>1, <3>2
  <2>4. Cardinality(kept) = n - 1
    BY <1>1, <2>2, IntervalSize, FS_RemoveElement
  <2> HIDE DEF Rank, kept
  <2>5. ASSUME NEW k \in 1 .. n - 1 PROVE pos[k] = IF k < p THEN k ELSE k + 1
    <3> DEFINE q == IF k < p THEN k ELSE k + 1
    <3>1. q \in kept /\ Rank(q) = k
      BY <1>1, <2>2, <2>3
    <3>2. \A i \in kept : Rank(i) = k => i = q
      BY <1>1, <2>2, <2>3
    <3>3. pos[k] = CHOOSE i \in kept : Rank(i) = k
      BY <1>1, <2>4
    <3> HIDE DEF pos
    <3> QED BY <3>1, <3>2, <3>3
  <2> HIDE DEF pos
  <2> DEFINE t == Retain(s, c)
  <2>6. /\ DOMAIN t = 1 .. n - 1 /\ t = [k \in 1 .. n - 1 |-> s[pos[k]]]
        /\ \A k \in 1 .. n - 1 : t[k] = s[pos[k]]
    BY <1>1, <1>2, <2>4
  <2> HIDE DEF t
  <2>7. \A k \in 1 .. n - 1 : pos[k] \in 1 .. n /\ pos[k] # p
    BY <1>1, <2>5
  <2>8. t \in Seq(S)
    <3>1. \A k \in 1 .. n - 1 : s[pos[k]] \in S
      BY <1>1, <2>7
    <3>2. t \in [1 .. n - 1 -> S] /\ n - 1 \in Nat
      BY <1>1, <2>1, <2>6, <3>1
    <3> QED BY <3>2
  <2>9. Injective(t)
    <3>1. ASSUME NEW i \in 1 .. n - 1, NEW j \in 1 .. n - 1, t[i] = t[j] PROVE i = j
      <4>1. pos[i] = pos[j]
        BY <1>1, <2>6, <2>7, <3>1 DEF Injective
      <4> QED BY <4>1, <2>5, <1>1
    <3> QED BY <2>6, <3>1 DEF Injective
  <2>10. Owned(t) = Owned(s) \ {c}
    <3>1. ASSUME NEW y \in Owned(t) PROVE y \in Owned(s) /\ y # c
      <4>1. PICK k \in 1 .. n - 1 : y = s[pos[k]]
        BY <2>6 DEF Owned
      <4> QED BY <1>1, <2>1, <2>7, <4>1 DEF Owned, Injective
    <3>2. ASSUME NEW y \in Owned(s), y # c PROVE y \in Owned(t)
      <4>1. PICK i \in 1 .. n : y = s[i]
        BY <1>1 DEF Owned
      <4> DEFINE k == IF i < p THEN i ELSE i - 1
      <4>2. i # p /\ k \in 1 .. n - 1 /\ pos[k] = i
        BY <1>1, <2>1, <2>5, <3>2, <4>1
      <4>3. k \in DOMAIN t /\ t[k] = y
        BY <2>6, <4>1, <4>2
      <4> HIDE DEF k
      <4> QED BY <4>3 DEF Owned
    <3> QED BY <3>1, <3>2
  <2> QED BY <2>8, <2>9, <2>10 DEF t
<1> QED BY <1>3, <1>4

-----------------------------------------------------------------------------
(* What a step has to say about each part of the state.                    *)

\* Sets of calls can be counted.
LEMMA CallsCountable ==
  ASSUME NEW S \in SUBSET Calls
  PROVE  IsFiniteSet(S) /\ Cardinality(S) \in Nat
  BY CapabilitiesAssumption, FS_Subset, FS_CardinalityType

\* Registrations are never taken out of memory.
Lives == \A g \in RegIds : entries[g] # NoEntry => entries'[g] # NoEntry

\* A step that changes one call and its record keeps the shape of the others.
LEMMA OneCall ==
  ASSUME CapabilitiesInv, Lives, NEW c \in Calls, CallShape(c)',
         \A d \in Calls \ {c} : calls'[d] = calls[d] /\ records'[d] = records[d]
  PROVE  \A d \in Calls : CallShape(d)'
<1>1. ASSUME NEW d \in Calls, d # c PROVE CallShape(d)'
  <2>1. CallShape(d) /\ calls'[d] = calls[d] /\ records'[d] = records[d]
    BY <1>1 DEF CapabilitiesInv
  <2> QED BY <2>1 DEF CallShape, Lives, RecordShape
<1> QED BY <1>1

\* Steps that neither admit nor release a call.
LEMMA PermitsSame ==
  ASSUME CapabilitiesInv, \A c \in Calls : CallShape(c)', running' = running,
         \A g \in RegIds : entries[g] # NoEntry =>
            entries'[g] # NoEntry /\ entries'[g].running = entries[g].running,
         \A g \in RegIds : entries[g] = NoEntry /\ entries'[g] # NoEntry =>
            entries'[g].running = 0,
         \A c \in Calls : calls'[c].permit = calls[c].permit /\ calls'[c].reg = calls[c].reg
  PROVE  PermitsCounted'
<1>1. Permits' = Permits /\ \A g \in RegIds : PermitsOf(g)' = PermitsOf(g)
  BY DEF Permits, PermitsOf
<1>2. running = Cardinality(Permits)
  BY DEF CapabilitiesInv, PermitsCounted
<1>3. ASSUME NEW g \in RegIds, entries'[g] # NoEntry
      PROVE  entries'[g].running = Cardinality(PermitsOf(g)')
  <2>1. CASE entries[g] # NoEntry
    BY <1>1, <2>1 DEF CapabilitiesInv, PermitsCounted
  <2>2. CASE entries[g] = NoEntry
    <3>1. PermitsOf(g) = {}
      BY <2>2 DEF PermitsOf, CapabilitiesInv, CallShape
    <3> QED BY <1>1, <1>3, <2>2, <3>1, FS_EmptySet
  <2> QED BY <2>1, <2>2
<1> QED BY <1>1, <1>2, <1>3 DEF PermitsCounted

\* One more call is admitted, under its registration.
LEMMA PermitTaken ==
  ASSUME CapabilitiesInv, NEW c \in Calls, NEW g \in RegIds, entries[g] # NoEntry,
         ~calls[c].permit, calls'[c].permit = TRUE, calls'[c].reg = g,
         \A d \in Calls \ {c} : calls'[d] = calls[d],
         running' = running + 1, entries'[g].running = entries[g].running + 1,
         \A h \in RegIds \ {g} : entries'[h] = entries[h]
  PROVE  PermitsCounted'
<1>1. Permits' = Permits \cup {c} /\ c \notin Permits /\ Permits \in SUBSET Calls
  BY DEF Permits
<1>2. PermitsOf(g)' = PermitsOf(g) \cup {c} /\ c \notin PermitsOf(g) /\ PermitsOf(g) \in SUBSET Calls
  BY DEF PermitsOf
<1>3. \A h \in RegIds \ {g} : PermitsOf(h)' = PermitsOf(h)
  BY DEF PermitsOf
<1>4. /\ running = Cardinality(Permits)
      /\ \A h \in RegIds : entries[h] # NoEntry => entries[h].running = Cardinality(PermitsOf(h))
  BY DEF CapabilitiesInv, PermitsCounted
<1>5. Cardinality(Permits') = Cardinality(Permits) + 1
  BY <1>1, CallsCountable, FS_AddElement
<1>6. Cardinality(PermitsOf(g)') = Cardinality(PermitsOf(g)) + 1
  BY <1>2, CallsCountable, FS_AddElement
<1>7. ASSUME NEW h \in RegIds, entries'[h] # NoEntry
      PROVE  entries'[h].running = Cardinality(PermitsOf(h)')
  BY <1>3, <1>4, <1>6, <1>7
<1> QED BY <1>4, <1>5, <1>7 DEF PermitsCounted

\* One admitted call is released.
LEMMA PermitReturned ==
  ASSUME CapabilitiesInv, NEW c \in Calls, calls[c].permit, Release(c),
         calls'[c].permit = FALSE, calls'[c].reg = calls[c].reg,
         \A d \in Calls \ {c} : calls'[d] = calls[d]
  PROVE  /\ PermitsCounted' /\ running' \in 0 .. MaxRequests
         /\ calls[c].reg \in RegIds /\ entries[calls[c].reg] # NoEntry
         /\ entries[calls[c].reg].running \in Nat \ {0}
<1> DEFINE g == calls[c].reg
<1>1. g \in RegIds /\ entries[g] # NoEntry /\ entries[g] \in Entry
  BY DEF CapabilitiesInv, CallShape, CapabilitiesTypeOK
<1>2. Permits' = Permits \ {c} /\ c \in Permits /\ Permits \in SUBSET Calls
  BY DEF Permits
<1>3. PermitsOf(g)' = PermitsOf(g) \ {c} /\ c \in PermitsOf(g) /\ PermitsOf(g) \in SUBSET Calls
  BY DEF PermitsOf
<1>4. \A h \in RegIds \ {g} : PermitsOf(h)' = PermitsOf(h)
  BY DEF PermitsOf
<1>5. /\ running = Cardinality(Permits) /\ running \in 0 .. MaxRequests
      /\ \A h \in RegIds : entries[h] # NoEntry => entries[h].running = Cardinality(PermitsOf(h))
  BY DEF CapabilitiesInv, PermitsCounted, CapabilitiesTypeOK
<1>6. Cardinality(Permits') = Cardinality(Permits) - 1 /\ Cardinality(Permits') \in Nat
  BY <1>2, CallsCountable, FS_RemoveElement
<1>7. Cardinality(PermitsOf(g)') = Cardinality(PermitsOf(g)) - 1 /\ Cardinality(PermitsOf(g)') \in Nat
  BY <1>3, CallsCountable, FS_RemoveElement
<1>8. running' = running - 1 /\ running' \in 0 .. MaxRequests
  BY <1>5, <1>6, CapabilitiesAssumption DEF Release
<1>9. entries[g].running \in Nat \ {0}
  BY <1>1, <1>5, <1>7 DEF Entry
<1>10. entries'[g].running = entries[g].running - 1
  <2>1. entries \in [RegIds -> Entry \cup {NoEntry}]
    BY DEF CapabilitiesInv, CapabilitiesTypeOK
  <2>2. entries'[g] = Left(entries[g])
    BY <1>1, <2>1 DEF Release
  <2> QED BY <1>1, <2>2 DEF Left, Settled, Entry
<1>11. \A h \in RegIds \ {g} : entries'[h] = entries[h]
  BY <1>1 DEF Release, CapabilitiesInv, CapabilitiesTypeOK
<1>12. ASSUME NEW h \in RegIds, entries'[h] # NoEntry
       PROVE  entries'[h].running = Cardinality(PermitsOf(h)')
  BY <1>1, <1>4, <1>5, <1>7, <1>10, <1>11, <1>12
<1> QED BY <1>1, <1>5, <1>6, <1>8, <1>9, <1>12 DEF PermitsCounted

-----------------------------------------------------------------------------
(* Registrations.                                                          *)

\* Closing an entry keeps its calls and takes its closure if it has none.
LEMMA ClosedEntry ==
  ASSUME NEW e \in Entry, EntryShape(e)
  PROVE  /\ Closed(e) \in Entry /\ EntryShape(Closed(e)) /\ ~Closed(e).accepting
         /\ Closed(e).name = e.name /\ Closed(e).listed = e.listed /\ Closed(e).running = e.running
<1> DEFINE f == [e EXCEPT !.accepting = FALSE]
<1>1. /\ f \in Entry /\ ~f.accepting /\ f.name = e.name /\ f.listed = e.listed
      /\ f.running = e.running /\ f.closure = e.closure /\ f.native = e.native
      /\ f.releasing = e.releasing
  BY DEF Entry
<1>2. Closed(e) = Settled(f)
  BY DEF Closed
<1> HIDE DEF f
<1>3. CASE Idle(f)
  <2>1. Settled(f) = [f EXCEPT !.closure = FALSE, !.releasing = TRUE]
    BY <1>3 DEF Settled
  <2> QED BY <1>1, <1>2, <1>3, <2>1 DEF Idle, EntryShape, Entry
<1>4. CASE ~Idle(f)
  BY <1>1, <1>2, <1>4 DEF Settled, Idle, EntryShape, Entry
<1> QED BY <1>3, <1>4

\* Releasing one call takes the closure of a closed entry with the last one.
LEMMA LeftEntry ==
  ASSUME NEW e \in Entry, EntryShape(e), e.running # 0
  PROVE  /\ Left(e) \in Entry /\ EntryShape(Left(e)) /\ Left(e).accepting = e.accepting
         /\ Left(e).name = e.name /\ Left(e).listed = e.listed
<1> DEFINE f == [e EXCEPT !.running = @ - 1]
<1>1. /\ f \in Entry /\ f.accepting = e.accepting /\ f.name = e.name /\ f.listed = e.listed
      /\ f.running = e.running - 1 /\ f.closure = e.closure /\ f.native = e.native
      /\ f.releasing = e.releasing /\ e.running \in Nat /\ f.running \in Nat
  BY DEF Entry
<1>2. Left(e) = Settled(f)
  BY DEF Left
<1> HIDE DEF f
<1>3. CASE Idle(f)
  <2>1. Settled(f) = [f EXCEPT !.closure = FALSE, !.releasing = TRUE]
    BY <1>3 DEF Settled
  <2>2. ~f.accepting /\ f.running = 0 /\ f.native /\ f.native \in BOOLEAN
    BY <1>1, <1>3 DEF Idle, EntryShape, Entry
  <2> DEFINE l == [f EXCEPT !.closure = FALSE, !.releasing = TRUE]
  <2>4. l \in Entry /\ ~l.closure /\ l.releasing
    BY <1>1 DEF Entry
  <2>5. l.running = f.running /\ l.name = f.name
    BY <1>1 DEF Entry
  <2>6. l.native = f.native /\ l.accepting = f.accepting /\ l.listed = f.listed
    BY <1>1 DEF Entry
  <2>7. Left(e) = l
    BY <1>2, <2>1
  <2> HIDE DEF l
  <2>3. /\ Left(e) \in Entry /\ ~Left(e).closure /\ Left(e).releasing /\ Left(e).running = 0
        /\ Left(e).native /\ Left(e).accepting = f.accepting
        /\ Left(e).name = f.name /\ Left(e).listed = f.listed
    BY <2>2, <2>4, <2>5, <2>6, <2>7
  <2> QED BY <1>1, <2>2, <2>3, CapabilitiesAssumption DEF Idle, EntryShape
<1>4. CASE ~Idle(f)
  BY <1>1, <1>2, <1>4, CapabilitiesAssumption DEF Settled, Idle, EntryShape, Entry
<1> QED BY <1>3, <1>4

\* A step of the registry alone.
LEMMA RegistryFrame ==
  ASSUME CapabilitiesInv, CapabilitiesTypeOK', RegistryShape', RetireShape',
         UNCHANGED <<running, records, ready, tombstones, reserved, calls>>,
         \A g \in RegIds : entries[g] # NoEntry =>
            entries'[g] # NoEntry /\ entries'[g].running = entries[g].running,
         \A g \in RegIds : entries[g] = NoEntry /\ entries'[g] # NoEntry =>
            entries'[g].running = 0
  PROVE  CapabilitiesInv'
<1>1. ASSUME NEW c \in Calls PROVE CallShape(c)'
  <2>1. CallShape(c)
    BY DEF CapabilitiesInv
  <2> QED BY <2>1 DEF CallShape, RecordShape
<1>2. PermitsCounted'
  BY <1>1, PermitsSame
<1>3. QueueShape' /\ RetentionShape'
  BY DEF CapabilitiesInv, QueueShape, RetentionShape, Queued, Records
<1> QED BY <1>1, <1>2, <1>3 DEF CapabilitiesInv

\* One retained entry is replaced.
LEMMA OneEntry ==
  ASSUME CapabilitiesInv, NEW g \in RegIds, entries[g] # NoEntry, NEW e \in Entry,
         EntryShape(e), e.name = entries[g].name, e.running = entries[g].running,
         e.accepting => entries[g].accepting,
         \A n \in Names : active[n] = g => e.accepting = entries[g].accepting /\ e.listed,
         entries' = [entries EXCEPT ![g] = e],
         \/ UNCHANGED retiring
         \/ /\ retiring[g] = "removed" /\ ~e.accepting
            /\ retiring' = [retiring EXCEPT ![g] = "closed"],
         UNCHANGED <<active, closing, running, shutdown, brokerVars, calls>>
  PROVE  CapabilitiesInv'
<1>1. /\ entries' \in [RegIds -> Entry \cup {NoEntry}] /\ entries'[g] = e /\ e # NoEntry
      /\ \A h \in RegIds \ {g} : entries'[h] = entries[h]
  BY CapabilitiesAssumption DEF CapabilitiesInv, CapabilitiesTypeOK
<1>5. /\ retiring' \in [RegIds -> {"no", "removed", "closed", "scanned", "done"}]
      /\ \A h \in RegIds \ {g} : retiring'[h] = retiring[h]
      /\ \/ retiring'[g] = retiring[g]
         \/ retiring'[g] = "closed" /\ ~e.accepting /\ retiring[g] = "removed"
  BY DEF CapabilitiesInv, CapabilitiesTypeOK
<1>2. CapabilitiesTypeOK'
  BY <1>1, <1>5 DEF CapabilitiesInv, CapabilitiesTypeOK, brokerVars
<1>3. RegistryShape'
  <2>1. RegistryShape /\ active \in [Names -> RegIds \cup {NoReg}]
    BY DEF CapabilitiesInv, CapabilitiesTypeOK
  <2>2. \A h \in RegIds : entries'[h] # NoEntry => EntryShape(entries'[h])
    BY <1>1, <2>1 DEF RegistryShape
  <2>3. \A h \in RegIds : entries'[h] = NoEntry => retiring'[h] = "no"
    BY <1>1, <1>5, <2>1 DEF RegistryShape
  <2>4. \A h \in RegIds : retiring'[h] \in {"closed", "scanned", "done"} => ~entries'[h].accepting
    BY <1>1, <1>5, <2>1 DEF RegistryShape
  <2>5. ASSUME NEW n \in Names, active'[n] # NoReg
        PROVE  /\ entries'[active'[n]] # NoEntry /\ entries'[active'[n]].name = n
               /\ entries'[active'[n]].listed /\ entries'[active'[n]].accepting
               /\ retiring'[active'[n]] = "no"
    BY <1>1, <1>5, <2>1, <2>5 DEF RegistryShape
  <2>6. /\ closing' => \A n \in Names : active'[n] = NoReg
        /\ shutdown' # "open" => closing'
    BY <2>1 DEF RegistryShape
  <2> QED BY <2>2, <2>3, <2>4, <2>5, <2>6 DEF RegistryShape, EntryShape, Idle
<1>4. RetireShape'
  <2>1. ASSUME NEW c \in Calls, Queued(c)
        PROVE  /\ retiring'[calls[c].reg] = "scanned" => <<calls[c].reg, c>> \in cancels
               /\ retiring'[calls[c].reg] # "done"
    <3>1. calls[c].reg \in RegIds
      BY <2>1 DEF CapabilitiesInv, CallShape, RecordShape, Queued
    <3> QED BY <1>5, <2>1, <3>1 DEF CapabilitiesInv, RetireShape
  <2> QED BY <2>1 DEF RetireShape, Queued, brokerVars
<1> QED BY <1>1, <1>2, <1>3, <1>4, RegistryFrame DEF brokerVars

\* Releasing a closure, withdrawing, restricting, closing and forgetting entries.
LEMMA EntrySteps ==
  ASSUME CapabilitiesInv, NEW g \in RegIds,
         \/ finish_release(g) \/ unregister_close(g) \/ forget(g)
         \/ restrict_entry(g) \/ close_entry(g)
  PROVE  CapabilitiesInv'
<1> DEFINE x == entries[g]
<1>1. /\ x # NoEntry
  BY DEF finish_release, unregister_close, forget, restrict_entry, close_entry, Listed,
         CapabilitiesInv, RegistryShape
<1>2. /\ x \in Entry /\ EntryShape(x) /\ entries \in [RegIds -> Entry \cup {NoEntry}]
      /\ \A n \in Names : active[n] = g =>
           x.listed /\ x.accepting /\ retiring[g] = "no" /\ ~closing
  BY <1>1, CapabilitiesAssumption DEF CapabilitiesInv, CapabilitiesTypeOK, RegistryShape
<1>3. CASE finish_release(g)
  <2> DEFINE e == [x EXCEPT !.releasing = FALSE]
  <2>1. e \in Entry /\ EntryShape(e) /\ e.name = x.name /\ e.running = x.running
    BY <1>2 DEF Entry, EntryShape, Idle
  <2>2. e.accepting = x.accepting /\ e.listed = x.listed
    BY <1>2 DEF Entry
  <2>3. entries' = [entries EXCEPT ![g] = e]
    BY <1>2, <1>3 DEF finish_release
  <2> HIDE DEF e
  <2> QED BY <1>1, <1>2, <1>3, <2>1, <2>2, <2>3, OneEntry DEF finish_release
<1>4. CASE restrict_entry(g)
  <2> DEFINE e == [x EXCEPT !.finalization_only = TRUE]
  <2>1. e \in Entry /\ EntryShape(e) /\ e.name = x.name /\ e.running = x.running
    BY <1>2 DEF Entry, EntryShape, Idle
  <2>2. e.accepting = x.accepting /\ e.listed = x.listed
    BY <1>2 DEF Entry
  <2>3. entries' = [entries EXCEPT ![g] = e]
    BY <1>2, <1>4 DEF restrict_entry
  <2> HIDE DEF e
  <2> QED BY <1>1, <1>2, <1>4, <2>1, <2>2, <2>3, OneEntry DEF restrict_entry
<1>5. CASE forget(g)
  <2> DEFINE e == [x EXCEPT !.listed = FALSE]
  <2>1. e \in Entry /\ EntryShape(e) /\ e.name = x.name /\ e.running = x.running
    BY <1>2 DEF Entry, EntryShape, Idle
  <2>2. e.accepting = x.accepting /\ ~x.accepting
    BY <1>2, <1>5 DEF Entry, forget, Drained
  <2>3. entries' = [entries EXCEPT ![g] = e]
    BY <1>2, <1>5 DEF forget
  <2> HIDE DEF e
  <2> QED BY <1>1, <1>2, <1>5, <2>1, <2>2, <2>3, OneEntry DEF forget
<1>6. CASE close_entry(g)
  <2> DEFINE e == Closed(x)
  <2>1. /\ e \in Entry /\ EntryShape(e) /\ ~e.accepting
        /\ e.name = x.name /\ e.listed = x.listed /\ e.running = x.running
    BY <1>2, ClosedEntry
  <2>2. \A n \in Names : active[n] # g
    BY <1>2, <1>6 DEF close_entry, CapabilitiesInv, RegistryShape
  <2>3. entries' = [entries EXCEPT ![g] = e]
    BY <1>2, <1>6 DEF close_entry
  <2> HIDE DEF e
  <2> QED BY <1>1, <1>2, <1>6, <2>1, <2>2, <2>3, OneEntry DEF close_entry
<1>7. CASE unregister_close(g)
  <2> DEFINE e == Closed(x)
  <2>1. /\ e \in Entry /\ EntryShape(e) /\ ~e.accepting
        /\ e.name = x.name /\ e.listed = x.listed /\ e.running = x.running
    BY <1>2, ClosedEntry
  <2>2. \A n \in Names : active[n] # g
    BY <1>2, <1>7 DEF unregister_close
  <2>3. entries' = [entries EXCEPT ![g] = e]
    BY <1>2, <1>7 DEF unregister_close
  <2> HIDE DEF e
  <2> QED BY <1>1, <1>2, <1>7, <2>1, <2>2, <2>3, OneEntry DEF unregister_close
<1> QED BY <1>3, <1>4, <1>5, <1>6, <1>7

\* Names are withdrawn, or the position of an unregister or a shutdown moves on.
LEMMA PositionSteps ==
  ASSUME CapabilitiesInv,
         \/ \E g \in RegIds : unregister(g) \/ retire_registration(g) \/ unregister_return(g)
         \/ begin_shutdown \/ close_and_poll \/ close
  PROVE  CapabilitiesInv'
<1>1. UNCHANGED <<entries, running, records, ready, tombstones, reserved, calls>>
  BY DEF unregister, retire_registration, unregister_return, begin_shutdown, close_and_poll,
         close, brokerVars
<1>2. /\ CapabilitiesTypeOK /\ RegistryShape
      /\ \A c \in Calls : Queued(c) => calls[c].reg \in RegIds
      /\ \A c \in Calls : Queued(c) =>
           /\ retiring[calls[c].reg] = "scanned" => <<calls[c].reg, c>> \in cancels
           /\ retiring[calls[c].reg] # "done"
  BY DEF CapabilitiesInv, CallShape, RecordShape, Queued, RetireShape
<1>3. ASSUME CapabilitiesTypeOK', RegistryShape',
             \A c \in Calls : Queued(c) =>
               /\ retiring'[calls[c].reg] = "scanned" => <<calls[c].reg, c>> \in cancels'
               /\ retiring'[calls[c].reg] # "done"
      PROVE  CapabilitiesInv'
  <2>1. RetireShape'
    BY <1>1, <1>3 DEF RetireShape, Queued
  <2> QED BY <1>1, <1>3, <2>1, RegistryFrame
<1>4. ASSUME NEW g \in RegIds, unregister(g) PROVE CapabilitiesInv'
  <2>1. CapabilitiesTypeOK'
    BY <1>1, <1>2, <1>4 DEF unregister, CapabilitiesTypeOK, brokerVars
  <2>2. RegistryShape'
    BY <1>1, <1>2, <1>4 DEF unregister, CapabilitiesTypeOK, RegistryShape, EntryShape, Idle, Listed
  <2>3. \A h \in RegIds : retiring'[h] # retiring[h] => retiring'[h] = "removed"
    BY <1>2, <1>4 DEF unregister, CapabilitiesTypeOK
  <2> QED BY <1>2, <1>3, <1>4, <2>1, <2>2, <2>3 DEF unregister, brokerVars
<1>5. ASSUME NEW g \in RegIds, retire_registration(g) PROVE CapabilitiesInv'
  <2>1. /\ \A c \in Calls : Queued(c) /\ calls[c].reg = g => <<g, c>> \in cancels'
        /\ cancels \subseteq cancels' /\ cancels' \subseteq Cancellers \X Calls
    BY <1>2, <1>5 DEF retire_registration, Queued, CapabilitiesTypeOK, Cancellers
  <2>2. /\ retiring' \in [RegIds -> {"no", "removed", "closed", "scanned", "done"}]
        /\ retiring'[g] = "scanned" /\ retiring[g] = "closed"
        /\ \A h \in RegIds \ {g} : retiring'[h] = retiring[h]
    BY <1>2, <1>5 DEF retire_registration, CapabilitiesTypeOK
  <2>3. CapabilitiesTypeOK'
    BY <1>1, <1>2, <1>5, <2>1, <2>2 DEF retire_registration, CapabilitiesTypeOK
  <2>4. RegistryShape'
    BY <1>1, <1>2, <1>5, <2>2 DEF retire_registration, CapabilitiesTypeOK, RegistryShape, EntryShape, Idle
  <2>5. \A c \in Calls : Queued(c) =>
               /\ retiring'[calls[c].reg] = "scanned" => <<calls[c].reg, c>> \in cancels'
               /\ retiring'[calls[c].reg] # "done"
    BY <1>2, <2>1, <2>2
  <2> QED BY <1>3, <2>3, <2>4, <2>5
<1>6. ASSUME NEW g \in RegIds, unregister_return(g) PROVE CapabilitiesInv'
  <2>2. /\ retiring' \in [RegIds -> {"no", "removed", "closed", "scanned", "done"}]
        /\ retiring'[g] = "done" /\ retiring[g] = "scanned"
        /\ \A h \in RegIds \ {g} : retiring'[h] = retiring[h]
    BY <1>2, <1>6 DEF unregister_return, CapabilitiesTypeOK
  <2>3. CapabilitiesTypeOK'
    BY <1>1, <1>2, <1>6, <2>2 DEF unregister_return, CapabilitiesTypeOK, brokerVars
  <2>4. RegistryShape'
    BY <1>1, <1>2, <1>6, <2>2 DEF unregister_return, CapabilitiesTypeOK, RegistryShape, EntryShape, Idle
  <2>5. \A c \in Calls : Queued(c) =>
               /\ retiring'[calls[c].reg] = "scanned" => <<calls[c].reg, c>> \in cancels'
               /\ retiring'[calls[c].reg] # "done"
    BY <1>2, <1>6, <2>2 DEF unregister_return, brokerVars
  <2> QED BY <1>3, <2>3, <2>4, <2>5
<1>7. CASE begin_shutdown \/ close_and_poll \/ close
  <2>1. UNCHANGED retiring /\ cancels \subseteq cancels' /\ cancels' \subseteq Cancellers \X Calls
    BY <1>2, <1>7 DEF begin_shutdown, close_and_poll, close, brokerVars, CapabilitiesTypeOK, Cancellers
  <2>2. CapabilitiesTypeOK'
    BY <1>1, <1>2, <1>7, <2>1 DEF begin_shutdown, close_and_poll, close, brokerVars, CapabilitiesTypeOK
  <2>3. RegistryShape'
    BY <1>1, <1>2, <1>7, <2>1 DEF begin_shutdown, close_and_poll, close, RegistryShape, EntryShape, Idle
  <2> QED BY <1>2, <1>3, <2>1, <2>2, <2>3
<1> QED BY <1>4, <1>5, <1>6, <1>7

\* register publishes fresh, open entries.
LEMMA RegisterStep ==
  ASSUME CapabilitiesInv, NEW batch \in SUBSET Names, NEW native \in BOOLEAN,
         register(batch, native)
  PROVE  CapabilitiesInv'
<1> DEFINE Fresh == {g \in RegIds : entries[g] = NoEntry}
           New(n) == [name |-> n, native |-> native, accepting |-> TRUE,
                      finalization_only |-> FALSE, running |-> 0, closure |-> native,
                      releasing |-> FALSE, listed |-> TRUE]
<1>1. /\ CapabilitiesTypeOK /\ RegistryShape /\ ~closing
      /\ \A n \in batch : active[n] = NoReg
      /\ UNCHANGED <<closing, running, retiring, shutdown, brokerVars, calls>>
  BY DEF register, CapabilitiesInv
<1>2. PICK ids \in [batch -> Fresh] :
        /\ \A n, m \in batch : ids[n] = ids[m] => n = m
        /\ active' = [n \in Names |-> IF n \in batch THEN ids[n] ELSE active[n]]
        /\ entries' = [g \in RegIds |->
             IF \E n \in batch : ids[n] = g THEN New(CHOOSE n \in batch : ids[n] = g)
             ELSE entries[g]]
  BY DEF register
<1>3. \A n \in Names : /\ New(n) \in Entry /\ EntryShape(New(n)) /\ New(n).name = n
                       /\ New(n).listed /\ New(n).accepting /\ New(n).running = 0
  BY CapabilitiesAssumption DEF Entry, EntryShape, Idle
<1> HIDE DEF New
<1>4. ASSUME NEW n \in batch PROVE ids[n] \in RegIds /\ entries'[ids[n]] = New(n) /\ entries[ids[n]] = NoEntry
  <2>1. ids[n] \in Fresh
    BY <1>2
  <2>2. (CHOOSE m \in batch : ids[m] = ids[n]) = n
    BY <1>2
  <2> QED BY <1>2, <2>1, <2>2
<1>5. ASSUME NEW g \in RegIds, \A n \in batch : ids[n] # g PROVE entries'[g] = entries[g]
  BY <1>2, <1>5
<1>6. \A g \in RegIds : \/ entries'[g] = entries[g]
                        \/ \E n \in batch : g = ids[n] /\ entries[g] = NoEntry /\ entries'[g] = New(n)
  BY <1>4, <1>5
<1>7. NoEntry \notin Entry /\ NoReg \notin RegIds
  BY CapabilitiesAssumption
<1>8. entries' \in [RegIds -> Entry \cup {NoEntry}]
  <2>1. entries \in [RegIds -> Entry \cup {NoEntry}]
    BY <1>1 DEF CapabilitiesTypeOK
  <2>2. \A g \in RegIds : entries'[g] \in Entry \cup {NoEntry}
    BY <1>3, <1>6, <2>1
  <2>3. entries' = [g \in RegIds |-> entries'[g]]
    BY <1>2
  <2> QED BY <2>2, <2>3
<1>9. /\ active' \in [Names -> RegIds \cup {NoReg}]
      /\ \A n \in batch : active'[n] = ids[n]
      /\ \A n \in Names \ batch : active'[n] = active[n]
  BY <1>1, <1>2, <1>4 DEF CapabilitiesTypeOK
<1>10. CapabilitiesTypeOK'
  BY <1>1, <1>8, <1>9 DEF CapabilitiesTypeOK, brokerVars
<1>11. RegistryShape'
  <2>1. \A g \in RegIds : entries'[g] # NoEntry => EntryShape(entries'[g])
    BY <1>1, <1>3, <1>6 DEF RegistryShape
  <2>2. \A g \in RegIds : entries'[g] = NoEntry => retiring'[g] = "no"
    BY <1>1, <1>3, <1>6, <1>7 DEF RegistryShape
  <2>3. \A g \in RegIds : retiring'[g] \in {"closed", "scanned", "done"} => ~entries'[g].accepting
    BY <1>1, <1>6 DEF RegistryShape
  <2>4. ASSUME NEW n \in Names, active'[n] # NoReg
        PROVE  /\ entries'[active'[n]] # NoEntry /\ entries'[active'[n]].name = n
               /\ entries'[active'[n]].listed /\ entries'[active'[n]].accepting
               /\ retiring'[active'[n]] = "no"
    <3>1. CASE n \in batch
      BY <1>1, <1>3, <1>4, <1>7, <1>9, <3>1 DEF RegistryShape
    <3>2. CASE n \notin batch
      <4>1. active'[n] = active[n] /\ active[n] \in RegIds /\ active[n] # NoReg
        BY <1>1, <1>9, <2>4, <3>2 DEF CapabilitiesTypeOK
      <4>2. /\ entries[active[n]] # NoEntry /\ entries[active[n]].name = n
            /\ entries[active[n]].listed /\ entries[active[n]].accepting
            /\ retiring[active[n]] = "no"
        BY <1>1, <4>1 DEF RegistryShape
      <4> QED BY <1>1, <1>6, <4>1, <4>2
    <3> QED BY <3>1, <3>2
  <2> QED BY <1>1, <2>1, <2>2, <2>3, <2>4 DEF RegistryShape, EntryShape, Idle
<1>12. RetireShape'
  BY <1>1 DEF CapabilitiesInv, RetireShape, Queued, brokerVars
<1>13. /\ \A g \in RegIds : entries[g] # NoEntry =>
            entries'[g] # NoEntry /\ entries'[g].running = entries[g].running
       /\ \A g \in RegIds : entries[g] = NoEntry /\ entries'[g] # NoEntry =>
            entries'[g].running = 0
  BY <1>3, <1>6
<1> QED BY <1>1, <1>10, <1>11, <1>12, <1>13, RegistryFrame DEF brokerVars

-----------------------------------------------------------------------------
(* Calls.                                                                  *)

\* Steps that leave the broker's records and queues alone.
LEMMA BrokerSame ==
  ASSUME CapabilitiesInv, UNCHANGED <<records, ready, tombstones, reserved, retiring, cancels>>,
         \A c \in Calls : records[c] # NoRecord => calls'[c].reg = calls[c].reg,
         \A c \in Calls : calls[c].pc = "over" => calls'[c].pc = "over"
  PROVE  QueueShape' /\ RetireShape' /\ RetentionShape'
<1>1. QueueShape /\ RetireShape /\ RetentionShape /\ tombstones \in Seq(Calls)
  BY DEF CapabilitiesInv, CapabilitiesTypeOK
<1>2. QueueShape'
  BY <1>1 DEF QueueShape, Queued
<1>3. RetireShape'
  BY <1>1 DEF RetireShape, Queued
<1>4. Owned(tombstones) \subseteq Calls
  BY <1>1 DEF Owned
<1>5. RetentionShape'
  BY <1>1, <1>4 DEF RetentionShape, Records
<1> QED BY <1>2, <1>3, <1>5

\* A call that is neither new, submitted nor over has no record.
LEMMA Unrecorded ==
  ASSUME CapabilitiesInv, NEW c \in Calls, calls[c].pc \notin {"submitted", "over"}
  PROVE  records[c] = NoRecord
  BY DEF CapabilitiesInv, CallShape, RecordShape

\* A call moves on within its caller.
LEMMA CallMoves ==
  ASSUME CapabilitiesInv, NEW c \in Calls, calls[c].pc \notin {"absent", "submitted", "over"},
         calls' \in [Calls -> Call], calls'[c].pc \notin {"absent", "submitted"},
         calls'[c].pc = "over" => ~calls[c].permit,
         calls'[c].pc \notin {"over", "confirmed"} => calls[c].permit,
         calls'[c].permit = calls[c].permit, calls'[c].reg = calls[c].reg,
         \A d \in Calls \ {c} : calls'[d] = calls[d], lock' \in Calls \cup {NoCall},
         UNCHANGED <<registryVars, records, ready, tombstones, reserved, stopping, cancels>>
  PROVE  CapabilitiesInv'
<1>1. CapabilitiesTypeOK'
  BY DEF CapabilitiesInv, CapabilitiesTypeOK, registryVars
<1>2. RegistryShape'
  BY DEF CapabilitiesInv, RegistryShape, registryVars, EntryShape, Idle
<1>3. CallShape(c)'
  <2>1. records[c] = NoRecord
    BY Unrecorded
  <2>2. CallShape(c)
    BY DEF CapabilitiesInv
  <2> QED BY <2>1, <2>2 DEF CallShape, registryVars
<1>4. Lives
  BY DEF Lives, registryVars
<1>5. \A d \in Calls : CallShape(d)'
  BY <1>3, <1>4, OneCall
<1>6. PermitsCounted'
  <2>1. \A d \in Calls : calls'[d].permit = calls[d].permit /\ calls'[d].reg = calls[d].reg
    OBVIOUS
  <2>2. \A g \in RegIds : entries'[g] = entries[g]
    BY DEF registryVars
  <2> QED BY <1>5, <2>1, <2>2, PermitsSame DEF registryVars
<1>7. QueueShape' /\ RetireShape' /\ RetentionShape'
  <2>1. \A d \in Calls : calls'[d].reg = calls[d].reg /\ (calls[d].pc = "over" => calls'[d].pc = "over")
    OBVIOUS
  <2> QED BY <2>1, BrokerSame DEF registryVars
<1> QED BY <1>1, <1>2, <1>5, <1>6, <1>7 DEF CapabilitiesInv

\* The registry when a permit is dropped.
LEMMA ReleaseRegistry ==
  ASSUME CapabilitiesInv, NEW c \in Calls, calls[c].permit, Release(c),
         calls'[c].permit = FALSE, calls'[c].reg = calls[c].reg,
         \A d \in Calls \ {c} : calls'[d] = calls[d],
         UNCHANGED <<active, closing, retiring, shutdown>>
  PROVE  /\ PermitsCounted' /\ RegistryShape' /\ Lives /\ running' \in 0 .. MaxRequests
         /\ entries' \in [RegIds -> Entry \cup {NoEntry}]
<1> DEFINE g == calls[c].reg
<1>1. /\ PermitsCounted' /\ running' \in 0 .. MaxRequests
      /\ g \in RegIds /\ entries[g] # NoEntry /\ entries[g].running \in Nat \ {0}
  BY PermitReturned
<1>2. entries \in [RegIds -> Entry \cup {NoEntry}] /\ RegistryShape /\ active \in [Names -> RegIds \cup {NoReg}]
  BY DEF CapabilitiesInv, CapabilitiesTypeOK
<1>3. entries[g] \in Entry /\ EntryShape(entries[g])
  BY <1>1, <1>2 DEF RegistryShape
<1>4. /\ Left(entries[g]) \in Entry /\ EntryShape(Left(entries[g]))
      /\ Left(entries[g]).accepting = entries[g].accepting
      /\ Left(entries[g]).name = entries[g].name /\ Left(entries[g]).listed = entries[g].listed
  BY <1>1, <1>3, LeftEntry
<1>5. /\ entries' = [entries EXCEPT ![g] = Left(entries[g])]
  BY <1>1, <1>2 DEF Release
<1>6. /\ entries' \in [RegIds -> Entry \cup {NoEntry}] /\ entries'[g] = Left(entries[g])
      /\ \A h \in RegIds \ {g} : entries'[h] = entries[h]
  BY <1>1, <1>2, <1>4, <1>5
<1> HIDE DEF g
<1>7. entries'[g] # NoEntry /\ entries'[g] \in Entry /\ EntryShape(entries'[g])
      /\ entries'[g].accepting = entries[g].accepting
      /\ entries'[g].name = entries[g].name /\ entries'[g].listed = entries[g].listed
  BY <1>4, <1>6, CapabilitiesAssumption
<1>8. Lives
  BY <1>6, <1>7 DEF Lives
<1>9. RegistryShape'
  <2>1. \A h \in RegIds : entries'[h] # NoEntry => EntryShape(entries'[h])
    BY <1>2, <1>6, <1>7 DEF RegistryShape
  <2>2. \A h \in RegIds : entries'[h] = NoEntry => retiring'[h] = "no"
    BY <1>2, <1>6, <1>7 DEF RegistryShape
  <2>3. \A h \in RegIds : retiring'[h] \in {"closed", "scanned", "done"} => ~entries'[h].accepting
    BY <1>2, <1>6, <1>7 DEF RegistryShape
  <2>4. ASSUME NEW n \in Names, active'[n] # NoReg
        PROVE  /\ entries'[active'[n]] # NoEntry /\ entries'[active'[n]].name = n
               /\ entries'[active'[n]].listed /\ entries'[active'[n]].accepting
               /\ retiring'[active'[n]] = "no"
    BY <1>2, <1>6, <1>7, <2>4 DEF RegistryShape
  <2> QED BY <1>2, <2>1, <2>2, <2>3, <2>4 DEF RegistryShape, EntryShape, Idle
<1> QED BY <1>1, <1>6, <1>8, <1>9

\* A call drops its permit within its caller.
LEMMA ReleaseMoves ==
  ASSUME CapabilitiesInv, NEW c \in Calls, calls[c].pc \notin {"absent", "submitted", "over"},
         calls[c].permit, Release(c), calls' \in [Calls -> Call],
         calls'[c].pc \in {"over", "confirmed"}, calls'[c].permit = FALSE,
         calls'[c].reg = calls[c].reg,
         \A d \in Calls \ {c} : calls'[d] = calls[d], lock' \in Calls \cup {NoCall},
         UNCHANGED <<active, closing, retiring, shutdown, records, ready, tombstones, reserved,
                     stopping, cancels>>
  PROVE  CapabilitiesInv'
<1>1. /\ PermitsCounted' /\ RegistryShape' /\ Lives /\ running' \in 0 .. MaxRequests
      /\ entries' \in [RegIds -> Entry \cup {NoEntry}]
  BY ReleaseRegistry
<1>2. CapabilitiesTypeOK'
  BY <1>1 DEF CapabilitiesInv, CapabilitiesTypeOK
<1>3. CallShape(c)'
  <2>1. records[c] = NoRecord
    BY Unrecorded
  <2>2. CallShape(c)
    BY DEF CapabilitiesInv
  <2> QED BY <1>1, <2>1, <2>2 DEF CallShape, Lives
<1>4. \A d \in Calls : CallShape(d)'
  BY <1>1, <1>3, OneCall
<1>5. QueueShape' /\ RetireShape' /\ RetentionShape'
  <2>1. \A d \in Calls : calls'[d].reg = calls[d].reg /\ (calls[d].pc = "over" => calls'[d].pc = "over")
    OBVIOUS
  <2> QED BY <2>1, BrokerSame
<1> QED BY <1>1, <1>2, <1>4, <1>5 DEF CapabilitiesInv

\* CapabilityEntry::admit counts the call with the parent and its registration.
LEMMA AdmitStep ==
  ASSUME CapabilitiesInv, NEW c \in Calls, NEW g \in RegIds, NEW finalization \in BOOLEAN,
         admit(c, g, finalization)
  PROVE  CapabilitiesInv'
<1>1. /\ CapabilitiesTypeOK /\ RegistryShape /\ CallShape(c) /\ calls[c].pc = "absent"
      /\ entries[g] # NoEntry /\ running < MaxRequests /\ entries[g].running < MaxConcurrent
      /\ Count(c, g, finalization)
  BY DEF admit, CapabilitiesInv
<1>2. entries[g] \in Entry /\ EntryShape(entries[g]) /\ entries[g].running \in Nat /\ entries[g].accepting
  BY <1>1 DEF CapabilitiesTypeOK, RegistryShape, Entry, admit, GateOpen
<1> DEFINE e == [entries[g] EXCEPT !.running = @ + 1]
<1>3. /\ e \in Entry /\ e.running = entries[g].running + 1 /\ e.name = entries[g].name
  BY <1>2 DEF Entry
<1>4. /\ e.listed = entries[g].listed /\ e.accepting = entries[g].accepting
      /\ e.closure = entries[g].closure /\ e.native = entries[g].native
      /\ e.releasing = entries[g].releasing
  BY <1>2 DEF Entry
<1>5. /\ entries' \in [RegIds -> Entry \cup {NoEntry}] /\ entries'[g] = e
      /\ \A h \in RegIds \ {g} : entries'[h] = entries[h]
  BY <1>1, <1>3 DEF Count, CapabilitiesTypeOK
<1> HIDE DEF e
<1>6. EntryShape(e) /\ e # NoEntry
  BY <1>1, <1>2, <1>3, <1>4, CapabilitiesAssumption DEF EntryShape, Idle
<1>7. /\ calls' \in [Calls -> Call] /\ calls'[c].pc = "admitted" /\ calls'[c].reg = g
      /\ calls'[c].permit = TRUE /\ \A d \in Calls \ {c} : calls'[d] = calls[d]
  <2>1. /\ calls \in [Calls -> Call] /\ calls[c] \in Call
        /\ calls' = [calls EXCEPT ![c].pc = "admitted", ![c].reg = g,
                       ![c].finalization = finalization, ![c].permit = TRUE]
    BY <1>1 DEF Count, CapabilitiesTypeOK
  <2>2. calls' \in [Calls -> Call]
    BY <2>1 DEF Call, CallPc
  <2>3. calls'[c].pc = "admitted" /\ calls'[c].reg = g /\ \A d \in Calls \ {c} : calls'[d] = calls[d]
    BY <2>1 DEF Call
  <2>4. calls'[c].permit = TRUE
    BY <2>1 DEF Call
  <2> QED BY <2>2, <2>3, <2>4
<1>8. running' = running + 1 /\ running' \in 0 .. MaxRequests
  BY <1>1, CapabilitiesAssumption DEF Count, CapabilitiesTypeOK
<1>9. UNCHANGED <<active, closing, retiring, shutdown, records, ready, tombstones, reserved,
                  stopping, lock, cancels>>
  BY <1>1 DEF Count, brokerVars
<1>10. CapabilitiesTypeOK'
  BY <1>1, <1>5, <1>7, <1>8, <1>9 DEF CapabilitiesTypeOK
<1>11. Lives
  BY <1>5, <1>6 DEF Lives
<1>12. RegistryShape'
  <2>1. \A h \in RegIds : entries'[h] # NoEntry => EntryShape(entries'[h])
    BY <1>1, <1>5, <1>6 DEF RegistryShape
  <2>2. \A h \in RegIds : entries'[h] = NoEntry => retiring'[h] = "no"
    BY <1>1, <1>5, <1>6, <1>9 DEF RegistryShape
  <2>3. \A h \in RegIds : retiring'[h] \in {"closed", "scanned", "done"} => ~entries'[h].accepting
    BY <1>1, <1>4, <1>5, <1>9 DEF RegistryShape
  <2>4. ASSUME NEW n \in Names, active'[n] # NoReg
        PROVE  /\ entries'[active'[n]] # NoEntry /\ entries'[active'[n]].name = n
               /\ entries'[active'[n]].listed /\ entries'[active'[n]].accepting
               /\ retiring'[active'[n]] = "no"
    <3>1. active[n] \in RegIds /\ active'[n] = active[n]
      BY <1>1, <1>9, <2>4 DEF CapabilitiesTypeOK
    <3> QED BY <1>1, <1>3, <1>4, <1>5, <1>6, <1>9, <2>4, <3>1 DEF RegistryShape
  <2> QED BY <1>1, <1>9, <2>1, <2>2, <2>3, <2>4 DEF RegistryShape, EntryShape, Idle
<1>13. records[c] = NoRecord
  BY <1>1, Unrecorded
<1>14. CallShape(c)'
  BY <1>5, <1>6, <1>7, <1>9, <1>13 DEF CallShape
<1>15. \A d \in Calls : CallShape(d)'
  BY <1>7, <1>9, <1>11, <1>14, OneCall
<1>16. PermitsCounted'
  <2>1. ~calls[c].permit
    BY <1>1 DEF CallShape
  <2> QED BY <1>1, <1>3, <1>5, <1>7, <1>8, <2>1, PermitTaken
<1>17. QueueShape' /\ RetireShape' /\ RetentionShape'
  BY <1>1, <1>7, <1>9, <1>13, BrokerSame
<1> QED BY <1>10, <1>12, <1>15, <1>16, <1>17 DEF CapabilitiesInv

\* Steps of a call within its caller.
LEMMA CallerSteps ==
  ASSUME CapabilitiesInv, NEW c \in Calls,
         \/ prepare(c) \/ drop_failed(c) \/ begin_native(c) \/ return_native(c)
         \/ confirm_native(c) \/ finish_native(c) \/ drop_submission(c)
  PROVE  CapabilitiesInv'
<1>1. /\ calls \in [Calls -> Call] /\ CallShape(c) /\ lock \in Calls \cup {NoCall}
      /\ calls[c] \in Call
  BY DEF CapabilitiesInv, CapabilitiesTypeOK
<1>2. CASE prepare(c)
  <2>1. CASE calls' = [calls EXCEPT ![c].evidence = "Prepared",
                         ![c].pc = IF calls[c].revoked THEN "failed" ELSE "prepared"]
             /\ UNCHANGED <<entries, running>>
    <3>1. /\ calls' \in [Calls -> Call] /\ calls'[c].pc \in {"failed", "prepared"}
          /\ calls'[c].reg = calls[c].reg /\ \A d \in Calls \ {c} : calls'[d] = calls[d]
      BY <1>1, <2>1 DEF Call, CallPc
    <3>2. calls'[c].permit = calls[c].permit
      BY <1>1, <2>1 DEF Call
    <3>3. calls[c].pc = "admitted" /\ calls[c].permit
      BY <1>1, <1>2 DEF prepare, CallShape
    <3>4. /\ lock' \in Calls \cup {NoCall}
          /\ UNCHANGED <<registryVars, records, ready, tombstones, reserved, stopping, cancels>>
      BY <1>1, <1>2, <2>1 DEF prepare, registryVars, brokerVars
    <3> QED BY <3>1, <3>2, <3>3, <3>4, CallMoves
  <2>2. CASE Release(c) /\ calls' = [calls EXCEPT ![c].permit = FALSE, ![c].pc = "over"]
    <3>1. /\ calls' \in [Calls -> Call] /\ calls'[c].pc = "over"
          /\ calls'[c].reg = calls[c].reg /\ \A d \in Calls \ {c} : calls'[d] = calls[d]
      BY <1>1, <2>2 DEF Call, CallPc
    <3>2. calls'[c].permit = FALSE
      BY <1>1, <2>2 DEF Call
    <3>3. calls[c].pc = "admitted" /\ calls[c].permit
      BY <1>1, <1>2 DEF prepare, CallShape
    <3>4. /\ lock' \in Calls \cup {NoCall}
          /\ UNCHANGED <<active, closing, retiring, shutdown, records, ready, tombstones,
                         reserved, stopping, cancels>>
      BY <1>1, <1>2 DEF prepare, brokerVars
    <3> QED BY <2>2, <3>1, <3>2, <3>3, <3>4, ReleaseMoves
  <2> QED BY <1>2, <2>1, <2>2 DEF prepare
<1>3. CASE drop_failed(c)
  <2>0. calls[c].pc = "failed" /\ calls[c].permit
    BY <1>1, <1>3 DEF drop_failed, CallShape
  <2>1. CASE calls[c].evidence # "Completed"
    <3>0. calls' = [calls EXCEPT ![c].evidence = "Completed"]
      BY <1>3, <2>1 DEF drop_failed
    <3>1. /\ calls' \in [Calls -> Call] /\ calls'[c].pc = "failed"
          /\ calls'[c].reg = calls[c].reg /\ \A d \in Calls \ {c} : calls'[d] = calls[d]
      BY <1>1, <2>0, <3>0 DEF Call, CallPc
    <3>2. calls'[c].permit = calls[c].permit
      BY <1>1, <3>0 DEF Call
    <3>4. /\ lock' \in Calls \cup {NoCall}
          /\ UNCHANGED <<registryVars, records, ready, tombstones, reserved, stopping, cancels>>
      BY <1>1, <1>3, <2>1 DEF drop_failed, registryVars, brokerVars
    <3> QED BY <2>0, <3>1, <3>2, <3>4, CallMoves
  <2>2. CASE calls[c].evidence = "Completed"
    <3>0. Release(c) /\ calls' = [calls EXCEPT ![c].permit = FALSE, ![c].pc = "over"]
      BY <1>3, <2>2 DEF drop_failed
    <3>1. /\ calls' \in [Calls -> Call] /\ calls'[c].pc = "over"
          /\ calls'[c].reg = calls[c].reg /\ \A d \in Calls \ {c} : calls'[d] = calls[d]
      BY <1>1, <3>0 DEF Call, CallPc
    <3>2. calls'[c].permit = FALSE
      BY <1>1, <3>0 DEF Call
    <3>4. /\ lock' \in Calls \cup {NoCall}
          /\ UNCHANGED <<active, closing, retiring, shutdown, records, ready, tombstones,
                         reserved, stopping, cancels>>
      BY <1>1, <1>3 DEF drop_failed, brokerVars
    <3> QED BY <2>0, <3>0, <3>1, <3>2, <3>4, ReleaseMoves
  <2> QED BY <2>1, <2>2
<1>4. CASE begin_native(c) \/ return_native(c) \/ confirm_native(c)
  <2>0. calls[c].pc \in {"prepared", "running", "returned"} /\ calls[c].permit
    BY <1>1, <1>4 DEF begin_native, return_native, confirm_native, CallShape
  <2>1. PICK pc \in {"running", "failed", "returned", "confirmed"} :
          \/ calls' = [calls EXCEPT ![c].pc = pc]
          \/ calls' = [calls EXCEPT ![c].pc = pc, ![c].evidence = "Running"]
    BY <1>4 DEF begin_native, return_native, confirm_native
  <2>2. /\ calls' \in [Calls -> Call] /\ calls'[c].pc = pc
        /\ calls'[c].reg = calls[c].reg /\ \A d \in Calls \ {c} : calls'[d] = calls[d]
    BY <1>1, <2>1 DEF Call, CallPc
  <2>3. calls'[c].permit = calls[c].permit
    BY <1>1, <2>1 DEF Call
  <2>4. /\ lock' \in Calls \cup {NoCall}
        /\ UNCHANGED <<registryVars, records, ready, tombstones, reserved, stopping, cancels>>
    BY <1>1, <1>4 DEF begin_native, return_native, confirm_native, brokerVars
  <2> QED BY <2>0, <2>2, <2>3, <2>4, CallMoves
<1>5. CASE finish_native(c)
  <2>0. calls[c].pc = "confirmed"
    BY <1>5 DEF finish_native
  <2>1. CASE ~calls[c].permit
    <3>0. calls' = [calls EXCEPT ![c].evidence = "Completed", ![c].pc = "over"]
      BY <1>5, <2>1 DEF finish_native
    <3>1. /\ calls' \in [Calls -> Call] /\ calls'[c].pc = "over"
          /\ calls'[c].reg = calls[c].reg /\ \A d \in Calls \ {c} : calls'[d] = calls[d]
      BY <1>1, <3>0 DEF Call, CallPc
    <3>2. calls'[c].permit = calls[c].permit
      BY <1>1, <3>0 DEF Call
    <3>4. /\ lock' \in Calls \cup {NoCall}
          /\ UNCHANGED <<registryVars, records, ready, tombstones, reserved, stopping, cancels>>
      BY <1>1, <1>5, <2>1 DEF finish_native, registryVars, brokerVars
    <3> QED BY <2>0, <2>1, <3>1, <3>2, <3>4, CallMoves
  <2>2. CASE calls[c].permit
    <3>0. Release(c) /\ calls' = [calls EXCEPT ![c].permit = FALSE]
      BY <1>5, <2>2 DEF finish_native
    <3>1. /\ calls' \in [Calls -> Call] /\ calls'[c].pc = "confirmed"
          /\ calls'[c].reg = calls[c].reg /\ \A d \in Calls \ {c} : calls'[d] = calls[d]
      BY <1>1, <2>0, <3>0 DEF Call, CallPc
    <3>2. calls'[c].permit = FALSE
      BY <1>1, <3>0 DEF Call
    <3>4. /\ lock' \in Calls \cup {NoCall}
          /\ UNCHANGED <<active, closing, retiring, shutdown, records, ready, tombstones,
                         reserved, stopping, cancels>>
      BY <1>1, <1>5 DEF finish_native, brokerVars
    <3> QED BY <2>0, <2>2, <3>0, <3>1, <3>2, <3>4, ReleaseMoves
  <2> QED BY <2>1, <2>2
<1>6. CASE drop_submission(c)
  <2>0. calls[c].pc \in {"rejected", "refusing"} /\ calls[c].permit
    BY <1>1, <1>6 DEF drop_submission, CallShape
  <2>1. Release(c) /\ calls' = [calls EXCEPT ![c].permit = FALSE, ![c].evidence = "Completed",
                                             ![c].pc = "over"]
    BY <1>6 DEF drop_submission, DropPrepared
  <2>2. /\ calls' \in [Calls -> Call] /\ calls'[c].pc = "over"
        /\ calls'[c].reg = calls[c].reg /\ \A d \in Calls \ {c} : calls'[d] = calls[d]
    BY <1>1, <2>1 DEF Call, CallPc
  <2>3. calls'[c].permit = FALSE
    BY <1>1, <2>1 DEF Call
  <2>4. /\ lock' \in Calls \cup {NoCall}
        /\ UNCHANGED <<active, closing, retiring, shutdown, records, ready, tombstones,
                       reserved, stopping, cancels>>
    BY <1>1, <1>6 DEF drop_submission
  <2> QED BY <2>0, <2>1, <2>2, <2>3, <2>4, ReleaseMoves
<1> QED BY <1>2, <1>3, <1>4, <1>5, <1>6

\* The caller's authority may end at any time.
LEMMA RevokeStep ==
  ASSUME CapabilitiesInv, NEW c \in Calls, revoke(c)
  PROVE  CapabilitiesInv'
<1>1. CapabilitiesTypeOK /\ CallShape(c) /\ calls \in [Calls -> Call] /\ calls[c] \in Call
  BY DEF CapabilitiesInv, CapabilitiesTypeOK
<1>2. /\ calls' \in [Calls -> Call] /\ calls'[c].pc = calls[c].pc
      /\ calls'[c].reg = calls[c].reg /\ calls'[c].evidence = calls[c].evidence
      /\ \A d \in Calls \ {c} : calls'[d] = calls[d]
  BY <1>1 DEF revoke, Call, CallPc
<1>3. calls'[c].permit = calls[c].permit
  BY <1>1 DEF revoke, Call
<1>4. UNCHANGED <<registryVars, brokerVars>>
  BY DEF revoke
<1>5. CapabilitiesTypeOK' /\ RegistryShape'
  BY <1>1, <1>2, <1>4 DEF CapabilitiesInv, CapabilitiesTypeOK, RegistryShape, registryVars,
     brokerVars, EntryShape, Idle
<1>6. CallShape(c)'
  BY <1>1, <1>2, <1>3, <1>4 DEF CallShape, RecordShape, registryVars, brokerVars
<1>7. Lives
  BY <1>4 DEF Lives, registryVars
<1>8. \A d \in Calls : CallShape(d)'
  BY <1>2, <1>4, <1>6, <1>7, OneCall DEF brokerVars
<1>9. PermitsCounted'
  <2>1. \A d \in Calls : calls'[d].permit = calls[d].permit /\ calls'[d].reg = calls[d].reg
    BY <1>2, <1>3
  <2>2. \A g \in RegIds : entries'[g] = entries[g]
    BY <1>4 DEF registryVars
  <2> QED BY <1>4, <1>8, <2>1, <2>2, PermitsSame DEF registryVars
<1>10. QueueShape' /\ RetireShape' /\ RetentionShape'
  <2>1. \A d \in Calls : calls'[d].reg = calls[d].reg /\ (calls[d].pc = "over" => calls'[d].pc = "over")
    BY <1>2
  <2> QED BY <1>4, <2>1, BrokerSame DEF registryVars, brokerVars
<1> QED BY <1>5, <1>8, <1>9, <1>10 DEF CapabilitiesInv

-----------------------------------------------------------------------------
(* Requests.                                                               *)

\* A request's record changes and stays.
LEMMA RecordMoves ==
  ASSUME CapabilitiesInv, NEW c \in Calls, records[c] # NoRecord, NEW r \in RequestRecord,
         records' = [records EXCEPT ![c] = r],
         r.phase = "Queued" => records[c].phase = "Queued",
         calls' \in [Calls -> Call], RecordShape(r, calls'[c]),
         calls'[c].permit = calls[c].permit, calls'[c].reg = calls[c].reg,
         calls[c].pc = "over" => calls'[c].pc = "over",
         calls'[c].pc \in {"submitted", "over"}, calls'[c].pc = "over" => ~calls[c].permit,
         \A d \in Calls \ {c} : calls'[d] = calls[d],
         ready' \in Seq(Calls), QueueShape',
         UNCHANGED <<registryVars, tombstones, reserved, stopping, lock>>,
         cancels' \subseteq Cancellers \X Calls,
         \A g \in RegIds, d \in Calls :
            <<g, d>> \in cancels /\ (d # c \/ r.phase = "Queued") => <<g, d>> \in cancels'
  PROVE  CapabilitiesInv'
<1>1. CapabilitiesTypeOK /\ CallShape(c) /\ NoRecord \notin RequestRecord
  BY CapabilitiesAssumption DEF CapabilitiesInv
<1>2. /\ records' \in [Calls -> RequestRecord \cup {NoRecord}] /\ records'[c] = r /\ r # NoRecord
      /\ \A d \in Calls \ {c} : records'[d] = records[d]
  BY <1>1 DEF CapabilitiesTypeOK
<1>3. CapabilitiesTypeOK' /\ RegistryShape'
  BY <1>1, <1>2 DEF CapabilitiesInv, CapabilitiesTypeOK, RegistryShape, registryVars, EntryShape, Idle
<1>4. CallShape(c)'
  <2>1. RecordShape(records[c], calls[c])' <=> RecordShape(r, calls'[c])
    BY <1>2 DEF RecordShape
  <2> QED BY <1>1, <1>2, <2>1 DEF CallShape, registryVars, RecordShape
<1>5. Lives
  BY DEF Lives, registryVars
<1>6. \A d \in Calls : CallShape(d)'
  BY <1>2, <1>4, <1>5, OneCall
<1>7. PermitsCounted'
  <2>1. \A d \in Calls : calls'[d].permit = calls[d].permit /\ calls'[d].reg = calls[d].reg
    OBVIOUS
  <2>2. \A g \in RegIds : entries'[g] = entries[g]
    BY DEF registryVars
  <2> QED BY <1>6, <2>1, <2>2, PermitsSame DEF registryVars
<1>8. RetireShape'
  <2>1. ASSUME NEW d \in Calls, Queued(d)' PROVE Queued(d) /\ calls'[d].reg = calls[d].reg /\ calls[d].reg \in RegIds
    <3>1. Queued(d)
      BY <1>2, <2>1 DEF Queued
    <3> QED BY <3>1 DEF CapabilitiesInv, CallShape, RecordShape, Queued
  <2>2. ASSUME NEW d \in Calls, Queued(d)', NEW g \in RegIds, <<g, d>> \in cancels PROVE <<g, d>> \in cancels'
    BY <1>2, <2>2 DEF Queued
  <2> QED BY <2>1, <2>2 DEF RetireShape, CapabilitiesInv, registryVars
<1>9. RetentionShape'
  <2>1. Records' = Records
    BY <1>2 DEF Records
  <2>2. Owned(tombstones) \subseteq Calls
    BY <1>1 DEF Owned, CapabilitiesTypeOK
  <2>3. \A d \in Calls : (records[d] = NoRecord => records'[d] = NoRecord) /\ (calls[d].pc = "over" => calls'[d].pc = "over")
    BY <1>2
  <2> QED BY <2>1, <2>2, <2>3 DEF RetentionShape, CapabilitiesInv
<1> QED BY <1>3, <1>6, <1>7, <1>8, <1>9 DEF CapabilitiesInv

\* The queue of a step that neither delivers, cancels nor submits.
LEMMA QueueSame ==
  ASSUME CapabilitiesInv, UNCHANGED ready,
         \A d \in Calls : Queued(d)' <=> Queued(d)
  PROVE  QueueShape' /\ ready' \in Seq(Calls)
  BY DEF CapabilitiesInv, CapabilitiesTypeOK, QueueShape

\* A terminal record is dropped, and remembered for a while.
LEMMA RemoveMoves ==
  ASSUME CapabilitiesInv, NEW c \in Calls, records[c] # NoRecord, records[c].phase # "Queued",
         Removed(c), calls' \in [Calls -> Call], calls'[c].pc = "over", ~calls[c].permit,
         calls[c].pc # "absent",
         calls'[c].permit = calls[c].permit, calls'[c].reg = calls[c].reg,
         \A d \in Calls \ {c} : calls'[d] = calls[d],
         UNCHANGED <<registryVars, stopping, lock, cancels>>
  PROVE  CapabilitiesInv'
<1>1. /\ CapabilitiesTypeOK /\ CallShape(c) /\ NoRecord \notin RequestRecord
      /\ QueueShape /\ RetentionShape /\ MaxRequests \in Nat \ {0}
  BY CapabilitiesAssumption DEF CapabilitiesInv
<1>2. /\ records' \in [Calls -> RequestRecord \cup {NoRecord}] /\ records'[c] = NoRecord
      /\ \A d \in Calls \ {c} : records'[d] = records[d]
  BY <1>1 DEF CapabilitiesTypeOK, Removed
<1>3. ready' \in Seq(Calls) /\ Injective(ready') /\ Owned(ready') = Owned(ready) \ {c}
  <2>1. ready \in Seq(Calls) /\ Injective(ready) /\ ready' = Retain(ready, c)
    BY <1>1 DEF CapabilitiesTypeOK, QueueShape, Removed
  <2> QED BY <2>1, RetainOwns
<1>4. /\ tombstones' \in Seq(Calls) /\ Injective(tombstones') /\ Len(tombstones') <= MaxRequests
      /\ Owned(tombstones') \subseteq Owned(tombstones) \cup {c}
  <2> DEFINE all == Append(tombstones, c)
  <2>1. /\ tombstones \in Seq(Calls) /\ Injective(tombstones) /\ Len(tombstones) <= MaxRequests
        /\ c \notin Owned(tombstones)
    BY <1>1 DEF CapabilitiesTypeOK, RetentionShape
  <2>2. /\ all \in Seq(Calls) /\ Injective(all) /\ Owned(all) = Owned(tombstones) \cup {c}
    BY <2>1, AppendOwns
  <2>3. Len(all) = Len(tombstones) + 1 /\ all # <<>> /\ Len(Tail(all)) = Len(tombstones)
    BY <2>1
  <2>4. tombstones' = IF Len(all) > MaxRequests THEN Tail(all) ELSE all
    BY DEF Removed
  <2> HIDE DEF all
  <2>5. Tail(all) \in Seq(Calls) /\ Injective(Tail(all)) /\ Owned(Tail(all)) \subseteq Owned(all)
    BY <2>2, <2>3, PopOwns
  <2>6. Len(tombstones) \in Nat
    BY <2>1
  <2>7. CASE Len(all) > MaxRequests
    BY <2>1, <2>2, <2>3, <2>4, <2>5, <2>7
  <2>8. CASE ~(Len(all) > MaxRequests)
    BY <1>1, <2>1, <2>2, <2>3, <2>4, <2>6, <2>8
  <2> QED BY <2>7, <2>8
<1>5. /\ reserved' = Cardinality(Records') /\ reserved' <= MaxRequests /\ reserved' \in Nat
  <2>1. Records' = Records \ {c} /\ c \in Records /\ Records \in SUBSET Calls
    BY <1>2 DEF Records
  <2>2. Cardinality(Records') = Cardinality(Records) - 1 /\ Cardinality(Records') \in Nat /\ Cardinality(Records) \in Nat
    BY <2>1, CallsCountable, FS_RemoveElement
  <2>3. reserved = Cardinality(Records) /\ reserved <= MaxRequests /\ reserved' = reserved - 1
    BY <1>1 DEF RetentionShape, Removed
  <2> QED BY <1>1, <2>2, <2>3
<1>6. CapabilitiesTypeOK' /\ RegistryShape'
  BY <1>1, <1>2, <1>3, <1>4, <1>5 DEF CapabilitiesInv, CapabilitiesTypeOK, RegistryShape,
     registryVars, EntryShape, Idle
<1>7. CallShape(c)'
  BY <1>1, <1>2 DEF CallShape, registryVars
<1>8. Lives
  BY DEF Lives, registryVars
<1>9. \A d \in Calls : CallShape(d)'
  BY <1>2, <1>7, <1>8, OneCall
<1>10. PermitsCounted'
  <2>1. \A d \in Calls : calls'[d].permit = calls[d].permit /\ calls'[d].reg = calls[d].reg
    OBVIOUS
  <2>2. \A g \in RegIds : entries'[g] = entries[g]
    BY DEF registryVars
  <2> QED BY <1>9, <2>1, <2>2, PermitsSame DEF registryVars
<1>11. \A d \in Calls : Queued(d)' <=> Queued(d)
  BY <1>2 DEF Queued
<1>12. QueueShape'
  <2>1. c \notin Owned(ready) /\ Owned(ready) = {d \in Calls : Queued(d)}
    BY <1>1 DEF QueueShape, Queued
  <2> QED BY <1>3, <1>11, <2>1 DEF QueueShape
<1>13. RetireShape'
  <2>1. \A d \in Calls : calls'[d].reg = calls[d].reg
    OBVIOUS
  <2> QED BY <1>11, <2>1 DEF RetireShape, CapabilitiesInv, registryVars
<1>14. RetentionShape'
  <2>1. ASSUME NEW d \in Owned(tombstones') PROVE records'[d] = NoRecord /\ calls'[d].pc = "over"
    <3>1. CASE d = c
      BY <1>2, <3>1
    <3>2. CASE d # c
      <4>1. d \in Owned(tombstones)
        BY <1>4, <2>1, <3>2
      <4>2. d \in Calls
        BY <1>1, <4>1 DEF Owned, CapabilitiesTypeOK
      <4> QED BY <1>1, <1>2, <3>2, <4>1, <4>2 DEF RetentionShape
    <3> QED BY <3>1, <3>2
  <2> QED BY <1>4, <1>5, <2>1 DEF RetentionShape
<1> QED BY <1>6, <1>9, <1>10, <1>12, <1>13, <1>14 DEF CapabilitiesInv

\* A cancellation is requested, or found to have nothing to do.
LEMMA CancelsMove ==
  ASSUME CapabilitiesInv,
         UNCHANGED <<registryVars, records, ready, tombstones, reserved, stopping, lock, calls>>,
         cancels' \subseteq Cancellers \X Calls,
         \A g \in RegIds, d \in Calls : Queued(d) /\ <<g, d>> \in cancels => <<g, d>> \in cancels'
  PROVE  CapabilitiesInv'
<1>1. CapabilitiesTypeOK' /\ RegistryShape'
  BY DEF CapabilitiesInv, CapabilitiesTypeOK, RegistryShape, registryVars, EntryShape, Idle
<1>2. RetireShape'
  <2>1. \A d \in Calls : Queued(d) => calls[d].reg \in RegIds
    BY DEF CapabilitiesInv, CallShape, RecordShape, Queued
  <2> QED BY <2>1 DEF CapabilitiesInv, RetireShape, Queued, registryVars
<1>3. \A g \in RegIds : entries'[g] = entries[g]
  BY DEF registryVars
<1> QED BY <1>1, <1>2, <1>3, RegistryFrame DEF registryVars

\* Completion claims, returns and restores the prepared call and its outcome.
LEMMA CompletionSteps ==
  ASSUME CapabilitiesInv, NEW c \in Calls,
         complete(c) \/ retain_outcome(c) \/ drive_completion(c) \/ restore_outcome(c)
  PROVE  CapabilitiesInv'
<1> DEFINE x == records[c]
<1>1. x # NoRecord
  BY DEF complete, retain_outcome, drive_completion, restore_outcome, Retained
<1>2. /\ x \in RequestRecord /\ records \in [Calls -> RequestRecord \cup {NoRecord}]
      /\ CallShape(c) /\ calls \in [Calls -> Call] /\ RecordShape(x, calls[c])
  BY <1>1 DEF CapabilitiesInv, CapabilitiesTypeOK, CallShape
<1>3. /\ UNCHANGED <<registryVars, ready, tombstones, reserved, stopping, lock, cancels, calls>>
      /\ cancels \subseteq Cancellers \X Calls
  BY DEF complete, retain_outcome, drive_completion, restore_outcome, CapabilitiesInv, CapabilitiesTypeOK
<1>4. ASSUME NEW r \in RequestRecord, records' = [records EXCEPT ![c] = r],
             r.phase = "Completing", x.phase # "Queued", RecordShape(r, calls[c])
      PROVE  CapabilitiesInv'
  <2>1. \A d \in Calls : Queued(d)' <=> Queued(d)
    <3>1. records'[c] = r /\ \A d \in Calls \ {c} : records'[d] = records[d]
      BY <1>2, <1>4
    <3> QED BY <1>1, <1>4, <3>1, CapabilitiesAssumption DEF Queued
  <2>2. QueueShape' /\ ready' \in Seq(Calls)
    BY <1>3, <2>1, QueueSame
  <2>3. calls[c].pc \in {"submitted", "over"} /\ (calls[c].pc = "over" => ~calls[c].permit)
    BY <1>2, <1>4 DEF RecordShape, CallShape
  <2> QED BY <1>1, <1>2, <1>3, <1>4, <2>2, <2>3, RecordMoves
<1>5. CASE complete(c)
  <2> DEFINE r == [x EXCEPT !.phase = "Completing", !.prepared = FALSE, !.owner = "complete"]
  <2>1. /\ r \in RequestRecord /\ r.phase = "Completing" /\ r.owner = "complete" /\ ~r.prepared
        /\ x.phase = "Dispatched" /\ ~r.pending_outcome
    BY <1>2, <1>5 DEF RequestRecord, complete, RecordShape
  <2>2. records' = [records EXCEPT ![c] = r]
    BY <1>2, <1>5 DEF complete
  <2> HIDE DEF r
  <2>3. RecordShape(r, calls[c])
    BY <1>2, <2>1 DEF RecordShape
  <2> QED BY <1>4, <2>1, <2>2, <2>3
<1>6. CASE retain_outcome(c) \/ restore_outcome(c)
  <2> DEFINE r == [x EXCEPT !.prepared = TRUE, !.pending_outcome = TRUE, !.owner = "none"]
  <2>1. x.owner \in {"complete", "drive"} /\ x.phase = "Completing"
    BY <1>2, <1>6 DEF RequestRecord, retain_outcome, restore_outcome, RecordShape
  <2>2. /\ r \in RequestRecord /\ r.phase = "Completing" /\ r.owner = "none"
        /\ r.prepared /\ r.pending_outcome
    BY <1>2, <2>1 DEF RequestRecord
  <2>3. records' = [records EXCEPT ![c] = r]
    BY <1>2, <1>6 DEF retain_outcome, restore_outcome
  <2> HIDE DEF r
  <2>4. RecordShape(r, calls[c])
    BY <1>2, <2>1, <2>2 DEF RecordShape
  <2> QED BY <1>4, <2>1, <2>2, <2>3, <2>4
<1>7. CASE drive_completion(c)
  <2> DEFINE r == [x EXCEPT !.prepared = FALSE, !.pending_outcome = FALSE, !.owner = "drive"]
  <2>1. x.phase = "Completing" /\ x.pending_outcome
    BY <1>7 DEF drive_completion
  <2>2. /\ r \in RequestRecord /\ r.phase = "Completing" /\ r.owner = "drive"
        /\ ~r.prepared /\ ~r.pending_outcome
    BY <1>2, <2>1 DEF RequestRecord
  <2>3. records' = [records EXCEPT ![c] = r]
    BY <1>2, <1>7 DEF drive_completion
  <2>4. RecordShape(r, calls[c])
    <3> HIDE DEF r
    <3>1. x.owner # "publish"
      <4> SUFFICES ASSUME x.owner = "publish" PROVE FALSE
        OBVIOUS
      <4> QED BY <1>2, <1>7, <2>1 DEF RecordShape, drive_completion
    <3> QED BY <1>2, <2>1, <2>2, <3>1 DEF RecordShape
  <2> HIDE DEF r
  <2> QED BY <1>4, <2>1, <2>2, <2>3, <2>4
<1> QED BY <1>5, <1>6, <1>7

\* The outcome is published, or the abandoned record removed.
LEMMA PublishStep ==
  ASSUME CapabilitiesInv, NEW c \in Calls, publish(c)
  PROVE  CapabilitiesInv'
<1> DEFINE x == records[c]
<1>1. /\ x # NoRecord /\ x.owner = "publish" /\ x \in RequestRecord
      /\ records \in [Calls -> RequestRecord \cup {NoRecord}]
      /\ CallShape(c) /\ calls \in [Calls -> Call] /\ calls[c] \in Call /\ RecordShape(x, calls[c])
      /\ cancels \subseteq Cancellers \X Calls /\ UNCHANGED <<registryVars, stopping, lock, cancels>>
  BY DEF publish, Retained, CapabilitiesInv, CapabilitiesTypeOK, CallShape
<1>2. /\ x.phase = "Completing" /\ calls[c].pc = "submitted" /\ ~calls[c].permit
      /\ calls[c].evidence = "Completed"
  BY <1>1 DEF RecordShape, RequestRecord
<1>3. /\ calls' \in [Calls -> Call] /\ calls'[c].pc = "over" /\ calls'[c].evidence = calls[c].evidence
      /\ calls'[c].reg = calls[c].reg /\ \A d \in Calls \ {c} : calls'[d] = calls[d]
  BY <1>1 DEF publish, Call, CallPc
<1>4. calls'[c].permit = calls[c].permit
  BY <1>1 DEF publish, Call
<1>5. CASE x.waiter_alive
  <2>1. PICK outcome \in {"ok", "error"} :
          records' = [records EXCEPT ![c].phase = "Completed", ![c].outcome = outcome,
                                     ![c].owner = "none"]
    BY <1>5 DEF publish
  <2> DEFINE r == [x EXCEPT !.phase = "Completed", !.outcome = outcome, !.owner = "none"]
  <2>2. records' = [records EXCEPT ![c] = r]
    BY <1>1, <2>1
  <2>3. r \in RequestRecord /\ r.phase = "Completed" /\ r.owner = "none"
    BY <1>1 DEF RequestRecord
  <2>7. r.prepared = x.prepared
    BY <1>1 DEF RequestRecord
  <2> HIDE DEF r
  <2>4. RecordShape(r, calls'[c])
    BY <1>1, <1>2, <1>3, <2>3, <2>7 DEF RecordShape
  <2>5. \A d \in Calls : Queued(d)' <=> Queued(d)
    <3>1. records'[c] = r /\ \A d \in Calls \ {c} : records'[d] = records[d]
      BY <1>1, <2>2
    <3> QED BY <1>2, <2>3, <3>1 DEF Queued
  <2>6. QueueShape' /\ ready' \in Seq(Calls) /\ UNCHANGED <<tombstones, reserved>>
    BY <1>5, <2>5, QueueSame DEF publish
  <2> QED BY <1>1, <1>2, <1>3, <1>4, <2>2, <2>3, <2>4, <2>6, RecordMoves
<1>6. CASE ~x.waiter_alive
  <2>1. Removed(c)
    BY <1>6 DEF publish
  <2> QED BY <1>1, <1>2, <1>3, <1>4, <2>1, RemoveMoves
<1> QED BY <1>5, <1>6

\* The waiter gives its request up.
LEMMA DropHandleStep ==
  ASSUME CapabilitiesInv, NEW c \in Calls, drop_handle(c)
  PROVE  CapabilitiesInv'
<1> DEFINE x == records[c]
<1>1. /\ x # NoRecord /\ x \in RequestRecord
      /\ records \in [Calls -> RequestRecord \cup {NoRecord}]
      /\ CallShape(c) /\ calls \in [Calls -> Call] /\ RecordShape(x, calls[c])
      /\ cancels \subseteq Cancellers \X Calls /\ UNCHANGED <<registryVars, stopping, lock, calls>>
  BY DEF drop_handle, Retained, CapabilitiesInv, CapabilitiesTypeOK, CallShape
<1>2. CASE x.phase = "Completed"
  <2>1. /\ Removed(c) /\ UNCHANGED cancels
    BY <1>2 DEF drop_handle
  <2>2. calls[c].pc = "over" /\ ~calls[c].permit
    BY <1>1, <1>2 DEF RecordShape, CallShape
  <2> QED BY <1>1, <1>2, <2>1, <2>2, RemoveMoves
<1>3. CASE x.phase # "Completed"
  <2> DEFINE r == [x EXCEPT !.waiter_alive = FALSE]
  <2>1. /\ records' = [records EXCEPT ![c] = r]
        /\ cancels' = cancels \cup {<<"request", c>>} /\ UNCHANGED <<ready, tombstones, reserved>>
    BY <1>1, <1>3 DEF drop_handle
  <2>2. r \in RequestRecord /\ r.phase = x.phase /\ r.owner = x.owner
    BY <1>1 DEF RequestRecord
  <2>7. r.prepared = x.prepared /\ r.pending_outcome = x.pending_outcome
    BY <1>1 DEF RequestRecord
  <2> HIDE DEF r
  <2>3. RecordShape(r, calls[c])
    BY <1>1, <2>2, <2>7 DEF RecordShape
  <2>4. \A d \in Calls : Queued(d)' <=> Queued(d)
    <3>1. records'[c] = r /\ \A d \in Calls \ {c} : records'[d] = records[d]
      BY <1>1, <2>1
    <3> QED BY <1>1, <2>2, <3>1, CapabilitiesAssumption DEF Queued
  <2>5. QueueShape' /\ ready' \in Seq(Calls)
    BY <2>1, <2>4, QueueSame
  <2>6. calls[c].pc = "submitted"
    BY <1>1, <1>3 DEF RecordShape
  <2>8. cancels' \subseteq Cancellers \X Calls
    BY <1>1, <2>1 DEF Cancellers
  <2> QED BY <1>1, <2>1, <2>2, <2>3, <2>5, <2>6, <2>8, RecordMoves
<1> QED BY <1>2, <1>3

\* A decided cancellation is applied.
LEMMA CancelStep ==
  ASSUME CapabilitiesInv, NEW c \in Calls, NEW who \in Cancellers, cancel(who, c)
  PROVE  CapabilitiesInv'
<1> DEFINE x == records[c]
<1>1. /\ records \in [Calls -> RequestRecord \cup {NoRecord}] /\ CallShape(c)
      /\ calls \in [Calls -> Call] /\ UNCHANGED <<registryVars, tombstones, reserved, stopping, lock, calls>>
      /\ x # NoRecord => x \in RequestRecord /\ RecordShape(x, calls[c])
  BY DEF cancel, CapabilitiesInv, CapabilitiesTypeOK, CallShape
<1>2. /\ cancels' \subseteq Cancellers \X Calls
      /\ \A g \in RegIds, d \in Calls : <<g, d>> \in cancels /\ d # c => <<g, d>> \in cancels'
  BY DEF cancel, CapabilitiesInv, CapabilitiesTypeOK
<1>3. CASE x = NoRecord \/ x.phase = "Completed"
  <2>1. UNCHANGED <<records, ready>> /\ ~Queued(c)
    BY <1>3 DEF cancel, Queued
  <2> QED BY <1>1, <1>2, <2>1, CancelsMove
<1>4. CASE x # NoRecord /\ x.phase \in {"Dispatched", "Completing"}
  <2> DEFINE r == [x EXCEPT !.cancelled = TRUE]
  <2>1. records' = [records EXCEPT ![c] = r] /\ UNCHANGED ready
    BY <1>1, <1>4 DEF cancel
  <2>2. r \in RequestRecord /\ r.phase = x.phase /\ r.owner = x.owner
    BY <1>1, <1>4 DEF RequestRecord
  <2>3. r.prepared = x.prepared /\ r.pending_outcome = x.pending_outcome
    BY <1>1, <1>4 DEF RequestRecord
  <2> HIDE DEF r
  <2>4. RecordShape(r, calls[c])
    BY <1>1, <1>4, <2>2, <2>3 DEF RecordShape
  <2>5. \A d \in Calls : Queued(d)' <=> Queued(d)
    <3>1. records'[c] = r /\ \A d \in Calls \ {c} : records'[d] = records[d]
      BY <1>1, <2>1
    <3> QED BY <1>4, <2>2, <3>1 DEF Queued
  <2>6. QueueShape' /\ ready' \in Seq(Calls)
    BY <2>1, <2>5, QueueSame
  <2>7. calls[c].pc = "submitted" /\ r.phase # "Queued"
    BY <1>1, <1>4, <2>2 DEF RecordShape
  <2> QED BY <1>1, <1>2, <1>4, <2>1, <2>2, <2>4, <2>6, <2>7, RecordMoves
<1>5. CASE x # NoRecord /\ x.phase = "Queued"
  <2> DEFINE r == [x EXCEPT !.cancelled = TRUE, !.phase = "Completing", !.prepared = FALSE,
                            !.owner = "cancel"]
  <2>1. records' = [records EXCEPT ![c] = r] /\ ready' = Retain(ready, c)
    BY <1>1, <1>5 DEF cancel
  <2>2. r \in RequestRecord /\ r.phase = "Completing" /\ r.owner = "cancel" /\ ~r.prepared
    BY <1>1, <1>5 DEF RequestRecord
  <2>3. ~r.pending_outcome
    BY <1>1, <1>5 DEF RequestRecord, RecordShape
  <2> HIDE DEF r
  <2>4. RecordShape(r, calls[c]) /\ calls[c].pc = "submitted"
    BY <1>1, <1>5, <2>2, <2>3 DEF RecordShape
  <2>5. ready' \in Seq(Calls) /\ QueueShape'
    <3>1. ready \in Seq(Calls) /\ Injective(ready) /\ Owned(ready) = {d \in Calls : Queued(d)}
      BY DEF CapabilitiesInv, CapabilitiesTypeOK, QueueShape
    <3>2. ready' \in Seq(Calls) /\ Injective(ready') /\ Owned(ready') = Owned(ready) \ {c}
      BY <2>1, <3>1, RetainOwns
    <3>3. records'[c] = r /\ \A d \in Calls \ {c} : records'[d] = records[d]
      BY <1>1, <2>1
    <3>4. ~Queued(c)' /\ \A d \in Calls \ {c} : Queued(d)' <=> Queued(d)
      BY <2>2, <3>3 DEF Queued
    <3> QED BY <3>1, <3>2, <3>4 DEF QueueShape
  <2> QED BY <1>1, <1>2, <1>5, <2>1, <2>2, <2>4, <2>5, RecordMoves
<1>6. x # NoRecord => x.phase \in {"Queued", "Dispatched", "Completing", "Completed"}
  BY <1>1 DEF RequestRecord
<1> QED BY <1>3, <1>4, <1>5, <1>6

\* The head is delivered, or its cancellation requested.
LEMMA TakeNextStep ==
  ASSUME CapabilitiesInv, take_next
  PROVE  CapabilitiesInv'
<1>1. /\ ready \in Seq(Calls) /\ ready # <<>> /\ Injective(ready)
      /\ Owned(ready) = {d \in Calls : Queued(d)} /\ cancels \subseteq Cancellers \X Calls
      /\ records \in [Calls -> RequestRecord \cup {NoRecord}] /\ calls \in [Calls -> Call]
      /\ UNCHANGED <<registryVars, tombstones, reserved, stopping, lock>>
  BY DEF take_next, CapabilitiesInv, CapabilitiesTypeOK, QueueShape
<1>0. PICK c \in Calls : c = Head(ready)
  BY <1>1, PopOwns
<1> DEFINE x == records[c]
<1>2. /\ c \in Calls /\ c \in Owned(ready) /\ Tail(ready) \in Seq(Calls) /\ Injective(Tail(ready))
      /\ Owned(Tail(ready)) = Owned(ready) \ {c}
  BY <1>0, <1>1, PopOwns
<1>3. x # NoRecord /\ x.phase = "Queued"
  BY <1>1, <1>2 DEF Queued
<1>4. x \in RequestRecord /\ CallShape(c) /\ RecordShape(x, calls[c]) /\ calls[c] \in Call
  BY <1>1, <1>2, <1>3 DEF CapabilitiesInv, CallShape
<1>5. CASE /\ records' = [records EXCEPT ![c].phase = "Dispatched"]
           /\ calls' = [calls EXCEPT ![c].evidence = "Running"]
           /\ ready' = Tail(ready) /\ UNCHANGED cancels
  <2> DEFINE r == [x EXCEPT !.phase = "Dispatched"]
  <2>1. records' = [records EXCEPT ![c] = r]
    BY <1>1, <1>5
  <2>2. r \in RequestRecord /\ r.phase = "Dispatched" /\ r.owner = x.owner
    BY <1>4 DEF RequestRecord
  <2>3. r.prepared = x.prepared /\ r.pending_outcome = x.pending_outcome
    BY <1>4 DEF RequestRecord
  <2>4. /\ calls' \in [Calls -> Call] /\ calls'[c].pc = calls[c].pc
        /\ calls'[c].reg = calls[c].reg /\ \A d \in Calls \ {c} : calls'[d] = calls[d]
    BY <1>1, <1>2, <1>4, <1>5 DEF Call, CallPc
  <2>5. calls'[c].permit = calls[c].permit
    BY <1>1, <1>2, <1>4, <1>5 DEF Call
  <2>6. records'[c] = r /\ \A d \in Calls \ {c} : records'[d] = records[d]
    BY <1>1, <1>2, <2>1
  <2> HIDE DEF r
  <2>7. RecordShape(r, calls'[c]) /\ calls'[c].pc = "submitted"
    BY <1>3, <1>4, <2>2, <2>3, <2>4, <2>5 DEF RecordShape
  <2>8. ~Queued(c)' /\ \A d \in Calls \ {c} : Queued(d)' <=> Queued(d)
    BY <2>2, <2>6 DEF Queued
  <2>9. QueueShape' /\ ready' \in Seq(Calls)
    BY <1>1, <1>2, <1>5, <2>8 DEF QueueShape
  <2> QED BY <1>1, <1>2, <1>3, <1>5, <2>1, <2>2, <2>4, <2>5, <2>7, <2>9, RecordMoves
<1>6. CASE cancels' = cancels \cup {<<"request", c>>} /\ UNCHANGED <<records, calls, ready>>
  <2>1. cancels' \subseteq Cancellers \X Calls
    BY <1>1, <1>2, <1>6 DEF Cancellers
  <2> QED BY <1>1, <1>6, <2>1, CancelsMove
<1> QED BY <1>0, <1>5, <1>6 DEF take_next

\* A prepared call is published as a request, or refused.
LEMMA SubmitStep ==
  ASSUME CapabilitiesInv, NEW c \in Calls, submit(c)
  PROVE  CapabilitiesInv'
<1>1. /\ CapabilitiesTypeOK /\ RegistryShape /\ CallShape(c) /\ calls \in [Calls -> Call]
      /\ calls[c] \in Call /\ calls[c].pc = "prepared" /\ calls[c].permit
      /\ calls[c].reg \in RegIds /\ entries[calls[c].reg] # NoEntry
      /\ UNCHANGED <<registryVars, tombstones, stopping, cancels>>
  BY DEF submit, CapabilitiesInv, CapabilitiesTypeOK, CallShape
<1>2. records[c] = NoRecord
  BY <1>1, Unrecorded
<1>3. PICK pc \in {"rejected", "refusing", "submitted"} : calls' = [calls EXCEPT ![c].pc = pc]
  BY DEF submit
<1>4. /\ calls' \in [Calls -> Call] /\ calls'[c].pc = pc
      /\ calls'[c].reg = calls[c].reg /\ \A d \in Calls \ {c} : calls'[d] = calls[d]
  BY <1>1, <1>3 DEF Call, CallPc
<1>5. calls'[c].permit = calls[c].permit
  BY <1>1, <1>3 DEF Call
<1>6. CASE pc # "submitted"
  <2>1. UNCHANGED <<records, ready, reserved>> /\ lock' \in Calls \cup {NoCall}
    <3>1. calls'[c].pc # "submitted"
      BY <1>4, <1>6
    <3>2. [calls EXCEPT ![c].pc = "submitted"][c].pc = "submitted"
      BY <1>1 DEF Call
    <3> QED BY <1>1, <3>1, <3>2 DEF submit, CapabilitiesTypeOK
  <2> QED BY <1>1, <1>4, <1>5, <1>6, <2>1, CallMoves
<1>7. CASE pc = "submitted"
  <2>1. /\ ~RecordsFull /\ GateOpen(calls[c].reg, calls[c].finalization)
        /\ records' = [records EXCEPT ![c] = NewRecord]
        /\ ready' = Append(ready, c) /\ reserved' = reserved + 1 /\ UNCHANGED lock
    <3>1. calls'[c].pc = "submitted"
      BY <1>4, <1>7
    <3>2. /\ [calls EXCEPT ![c].pc = "rejected"][c].pc = "rejected"
          /\ [calls EXCEPT ![c].pc = "refusing"][c].pc = "refusing"
      BY <1>1 DEF Call
    <3>3. calls' # [calls EXCEPT ![c].pc = "rejected"] /\ calls' # [calls EXCEPT ![c].pc = "refusing"]
      BY <3>1, <3>2
    <3> QED BY <3>3, Zenon DEF submit
  <2>2. /\ NewRecord \in RequestRecord /\ NewRecord # NoRecord
        /\ RecordShape(NewRecord, calls'[c]) /\ NewRecord.phase = "Queued"
    <3>1. NewRecord \in RequestRecord
      BY DEF NewRecord, RequestRecord
    <3>2. NewRecord # NoRecord
      BY <3>1, CapabilitiesAssumption
    <3>3. RecordShape(NewRecord, calls'[c]) /\ NewRecord.phase = "Queued"
      BY <1>1, <1>4, <1>5, <1>7 DEF NewRecord, RecordShape
    <3> QED BY <3>1, <3>2, <3>3
  <2>3. /\ records' \in [Calls -> RequestRecord \cup {NoRecord}] /\ records'[c] = NewRecord
        /\ \A d \in Calls \ {c} : records'[d] = records[d]
    BY <1>1, <2>1, <2>2 DEF CapabilitiesTypeOK
  <2>4. /\ ready \in Seq(Calls) /\ Injective(ready) /\ Owned(ready) = {d \in Calls : Queued(d)}
    BY <1>1 DEF CapabilitiesInv, CapabilitiesTypeOK, QueueShape
  <2>5. /\ ready' \in Seq(Calls) /\ Injective(ready') /\ Owned(ready') = Owned(ready) \cup {c}
    <3>1. c \notin Owned(ready)
      BY <1>2, <2>4 DEF Queued
    <3> QED BY <2>1, <2>4, <3>1, AppendOwns
  <2>6. Queued(c)' /\ \A d \in Calls \ {c} : Queued(d)' <=> Queued(d)
    BY <2>2, <2>3 DEF Queued
  <2>7. QueueShape'
    BY <2>4, <2>5, <2>6 DEF QueueShape
  <2>8. reserved' \in Nat /\ reserved' = Cardinality(Records') /\ reserved' <= MaxRequests
    <3>1. Records' = Records \cup {c} /\ c \notin Records /\ Records \in SUBSET Calls
      BY <1>2, <2>2, <2>3 DEF Records
    <3>2. Cardinality(Records') = Cardinality(Records) + 1 /\ Cardinality(Records) \in Nat
      BY <3>1, CallsCountable, FS_AddElement
    <3>3. reserved = Cardinality(Records) /\ ~(Cardinality(Records) >= MaxRequests)
      BY <2>1 DEF CapabilitiesInv, RetentionShape, Records, RecordsFull
    <3> QED BY <2>1, <3>2, <3>3, CapabilitiesAssumption
  <2>9. CapabilitiesTypeOK' /\ RegistryShape'
    BY <1>1, <1>4, <2>1, <2>3, <2>5, <2>8 DEF CapabilitiesTypeOK, RegistryShape, registryVars, EntryShape, Idle
  <2>10. CallShape(c)'
    <3>1. RecordShape(records[c], calls[c])' <=> RecordShape(NewRecord, calls'[c])
      BY <2>3 DEF RecordShape, NewRecord
    <3> QED BY <1>1, <1>4, <1>5, <1>7, <2>2, <2>3, <3>1 DEF CallShape, registryVars
  <2>11. Lives
    BY <1>1 DEF Lives, registryVars
  <2>12. \A d \in Calls : CallShape(d)'
    BY <1>4, <2>3, <2>10, <2>11, OneCall
  <2>13. \A d \in Calls : calls'[d].permit = calls[d].permit /\ calls'[d].reg = calls[d].reg
    BY <1>4, <1>5
  <2>14. PermitsCounted'
    <3>1. \A g \in RegIds : entries'[g] = entries[g]
      BY <1>1 DEF registryVars
    <3> QED BY <1>1, <2>12, <2>13, <3>1, PermitsSame DEF registryVars
  <2>15. RetireShape'
    <3>1. retiring[calls[c].reg] \notin {"closed", "scanned", "done"}
      BY <1>1, <2>1 DEF RegistryShape, GateOpen
    <3> QED BY <1>1, <2>6, <2>13, <3>1 DEF RetireShape, CapabilitiesInv, registryVars
  <2>16. RetentionShape'
    <3>1. Owned(tombstones) \subseteq Calls /\ c \notin Owned(tombstones)
      BY <1>1 DEF Owned, CapabilitiesTypeOK, CapabilitiesInv, RetentionShape
    <3>2. \A d \in Owned(tombstones) : records'[d] = NoRecord /\ calls'[d].pc = "over"
      BY <1>4, <2>3, <3>1 DEF CapabilitiesInv, RetentionShape
    <3> QED BY <1>1, <2>8, <3>2 DEF CapabilitiesInv, RetentionShape
  <2> QED BY <2>7, <2>9, <2>12, <2>14, <2>15, <2>16 DEF CapabilitiesInv
<1> QED BY <1>6, <1>7

\* The prepared call is destroyed by whoever took it out of the record.
LEMMA DropPreparedStep ==
  ASSUME CapabilitiesInv, NEW c \in Calls, drop_prepared(c)
  PROVE  CapabilitiesInv'
<1> DEFINE x == records[c]
           r == [x EXCEPT !.owner = "publish"]
<1>1. /\ x # NoRecord /\ x.owner \in {"drive", "cancel"} /\ x \in RequestRecord
      /\ CapabilitiesTypeOK /\ CallShape(c) /\ calls[c] \in Call /\ RecordShape(x, calls[c])
      /\ UNCHANGED <<active, closing, retiring, shutdown, ready, tombstones, reserved, stopping,
                     lock, cancels>>
  BY DEF drop_prepared, CapabilitiesInv, CapabilitiesTypeOK, CallShape
<1>2. x.phase = "Completing" /\ calls[c].pc = "submitted" /\ calls[c].permit
  BY <1>1 DEF RecordShape, RequestRecord
<1>3. Release(c) /\ calls' = [calls EXCEPT ![c].permit = FALSE, ![c].evidence = "Completed",
                                           ![c].pc = "submitted"]
  BY DEF drop_prepared, DropPrepared
<1>4. /\ calls' \in [Calls -> Call] /\ calls'[c].pc = "submitted" /\ calls'[c].evidence = "Completed"
      /\ calls'[c].reg = calls[c].reg /\ \A d \in Calls \ {c} : calls'[d] = calls[d]
  BY <1>1, <1>3 DEF Call, CallPc, CapabilitiesTypeOK
<1>5. calls'[c].permit = FALSE
  BY <1>1, <1>3 DEF Call, CapabilitiesTypeOK
<1>6. r \in RequestRecord /\ r.phase = x.phase /\ r.owner = "publish"
  BY <1>1 DEF RequestRecord
<1>7. r.prepared = x.prepared /\ r.pending_outcome = x.pending_outcome
  BY <1>1 DEF RequestRecord
<1>8. /\ records' \in [Calls -> RequestRecord \cup {NoRecord}] /\ records'[c] = r
      /\ \A d \in Calls \ {c} : records'[d] = records[d]
  BY <1>1, <1>6 DEF drop_prepared, CapabilitiesTypeOK
<1> HIDE DEF r
<1>9. RecordShape(r, calls'[c]) /\ r # NoRecord
  BY <1>1, <1>2, <1>4, <1>5, <1>6, <1>7, CapabilitiesAssumption DEF RecordShape
<1>10. /\ PermitsCounted' /\ RegistryShape' /\ Lives /\ running' \in 0 .. MaxRequests
       /\ entries' \in [RegIds -> Entry \cup {NoEntry}]
  BY <1>1, <1>2, <1>3, <1>4, <1>5, ReleaseRegistry
<1>11. CapabilitiesTypeOK'
  BY <1>1, <1>4, <1>8, <1>10 DEF CapabilitiesTypeOK
<1>12. CallShape(c)'
  <2>1. RecordShape(records[c], calls[c])' <=> RecordShape(r, calls'[c])
    BY <1>8 DEF RecordShape
  <2> QED BY <1>1, <1>2, <1>4, <1>5, <1>8, <1>9, <1>10, <2>1 DEF CallShape, Lives
<1>13. \A d \in Calls : CallShape(d)'
  BY <1>4, <1>8, <1>10, <1>12, OneCall
<1>14. \A d \in Calls : Queued(d)' <=> Queued(d)
  BY <1>1, <1>2, <1>6, <1>8 DEF Queued
<1>15. QueueShape'
  BY <1>1, <1>14, QueueSame
<1>16. \A d \in Calls : calls'[d].reg = calls[d].reg /\ (calls[d].pc = "over" => calls'[d].pc = "over")
  BY <1>2, <1>4
<1>17. RetireShape'
  BY <1>1, <1>14, <1>16 DEF RetireShape, CapabilitiesInv
<1>18. RetentionShape'
  <2>1. Records' = Records /\ Owned(tombstones) \subseteq Calls
    BY <1>1, <1>8, <1>9 DEF Records, Owned, CapabilitiesTypeOK
  <2>2. \A d \in Calls : records[d] = NoRecord => records'[d] = NoRecord
    BY <1>1, <1>8
  <2> QED BY <1>1, <1>16, <2>1, <2>2 DEF RetentionShape, CapabilitiesInv
<1> QED BY <1>10, <1>11, <1>13, <1>15, <1>17, <1>18 DEF CapabilitiesInv

-----------------------------------------------------------------------------
(* The theorems.                                                           *)

\* The inductive invariant holds initially.
LEMMA CapabilitiesStart == Init => CapabilitiesInv
<1> SUFFICES ASSUME Init PROVE CapabilitiesInv
  OBVIOUS
<1>1. CapabilitiesTypeOK
  <2>1. 0 \in 0 .. MaxRequests /\ <<>> \in Seq(Calls)
    BY CapabilitiesAssumption
  <2> QED BY <2>1 DEF Init, CapabilitiesTypeOK, Call, CallPc
<1>2. RegistryShape
  BY DEF Init, RegistryShape
<1>3. \A c \in Calls : CallShape(c)
  BY DEF Init, CallShape
<1>4. PermitsCounted
  <2>1. Permits = {}
    BY DEF Init, Permits
  <2> QED BY <2>1, FS_EmptySet DEF Init, PermitsCounted
<1>5. QueueShape /\ RetireShape /\ RetentionShape
  <2>1. Records = {} /\ {c \in Calls : Queued(c)} = {}
    BY DEF Init, Records, Queued
  <2> QED BY <2>1, EmptyOwns, FS_EmptySet, CapabilitiesAssumption
          DEF Init, QueueShape, RetireShape, RetentionShape, Queued
<1> QED BY <1>1, <1>2, <1>3, <1>4, <1>5 DEF CapabilitiesInv

\* And every step keeps it.
LEMMA CapabilitiesStep ==
  ASSUME CapabilitiesInv, [Next]_vars
  PROVE  CapabilitiesInv'
<1>1. CASE RegistryStep
  BY <1>1, RegisterStep, EntrySteps, PositionSteps DEF RegistryStep
<1>2. CASE take_next
  BY <1>2, TakeNextStep
<1>3. ASSUME NEW c \in Calls, CallStep(c) PROVE CapabilitiesInv'
  BY <1>3, AdmitStep, CallerSteps, RevokeStep, SubmitStep DEF CallStep
<1>4. ASSUME NEW c \in Calls, OwnerStep(c) PROVE CapabilitiesInv'
  BY <1>4, CompletionSteps, DropPreparedStep, PublishStep DEF OwnerStep
<1>5. ASSUME NEW c \in Calls, RequestStep(c) PROVE CapabilitiesInv'
  <2>1. CASE refresh(c) \/ request_cancel(c)
    <3>1. /\ UNCHANGED <<registryVars, records, ready, tombstones, reserved, stopping, lock, calls>>
          /\ cancels' = cancels \cup {<<"request", c>>}
      BY <2>1 DEF refresh, request_cancel
    <3>2. cancels' \subseteq Cancellers \X Calls
      BY <3>1 DEF CapabilitiesInv, CapabilitiesTypeOK, Cancellers
    <3> QED BY <3>1, <3>2, CancelsMove
  <2> QED BY <1>5, <2>1, CompletionSteps, DropHandleStep, CancelStep DEF RequestStep
<1>6. CASE UNCHANGED vars
  BY <1>6, CancelsMove DEF vars, brokerVars, CapabilitiesInv, CapabilitiesTypeOK
<1> QED BY <1>1, <1>2, <1>3, <1>4, <1>5, <1>6 DEF Next

\* What every reachable state of the registry and the broker looks like, for any
\* number of registrations, names and calls.
THEOREM CapabilitiesInductive == Spec => []CapabilitiesInv
<1>1. CapabilitiesInv /\ [Next]_vars => CapabilitiesInv'
  BY CapabilitiesStep
<1> QED BY CapabilitiesStart, <1>1, PTL DEF Spec

\* Types of the registry, the broker and the calls: no count ever underflows.
THEOREM CapabilitiesTyped == Spec => []CapabilitiesTypeOK
<1>1. CapabilitiesInv => CapabilitiesTypeOK
  BY DEF CapabilitiesInv
<1> QED BY CapabilitiesInductive, <1>1, PTL

\* However a call ends (refused, failed, cancelled, abandoned, completed), the
\* parent and its registration count exactly the permits alive, and the ready
\* queue holds exactly the queued requests.
THEOREM CallsAlwaysCounted == Spec => []CallsCounted
<1>1. CapabilitiesInv => CallsCounted
  <2> SUFFICES ASSUME CapabilitiesInv PROVE CallsCounted
    OBVIOUS
  <2>1. PermitsExact
    BY DEF CapabilitiesInv, PermitsCounted, Permits, PermitsOf, PermitsExact, RegistryShape, EntryShape
  <2>2. ready \in Seq(Calls) /\ QueueShape /\ \A c \in Calls : CallShape(c)
    BY DEF CapabilitiesInv, CapabilitiesTypeOK
  <2>3. \A i, j \in DOMAIN ready : ready[i] = ready[j] => i = j
    BY <2>2 DEF QueueShape, Injective
  <2>4. ASSUME NEW c \in Calls
        PROVE  (\E i \in DOMAIN ready : ready[i] = c) <=> (records[c] # NoRecord /\ records[c].phase = "Queued")
    BY <2>2 DEF QueueShape, Owned, Queued
  <2>5. \A c \in Calls : records[c] # NoRecord /\ records[c].phase \in {"Queued", "Dispatched"} =>
          records[c].prepared
    BY <2>2 DEF CallShape, RecordShape
  <2> QED BY <2>1, <2>3, <2>4, <2>5 DEF CallsCounted, ReadyExact
<1> QED BY CapabilitiesInductive, <1>1, PTL

\* Whoever completes or cancels a request owns its prepared call alone and finds
\* the record again, and a waiter sees an outcome only after the release.
THEOREM CompletionAlwaysSound == Spec => []CompletionSound
<1>1. CapabilitiesInv => CompletionSound
  <2> SUFFICES ASSUME CapabilitiesInv, NEW c \in Calls
               PROVE  /\ calls[c].pc = "submitted" =>
                           /\ records[c] # NoRecord
                           /\ records[c].owner # "none" => ~records[c].prepared /\ records[c].phase = "Completing"
                           /\ records[c].owner = "none" => records[c].prepared /\ calls[c].permit
                      /\ records[c] # NoRecord /\ records[c].phase = "Completed" =>
                           ~calls[c].permit /\ calls[c].evidence = "Completed"
    BY DEF CompletionSound, CompletionOwned, PublishedAfterRelease
  <2>1. CallShape(c) /\ (records[c] # NoRecord => records[c] \in RequestRecord)
    BY DEF CapabilitiesInv, CapabilitiesTypeOK
  <2> QED BY <2>1 DEF CallShape, RecordShape, RequestRecord
<1> QED BY CapabilitiesInductive, <1>1, PTL

\* A drained registration is out of every call's reach, a published name always
\* resolves, a retired registration has nothing queued, and what the broker
\* retains and remembers is exact and bounded.
THEOREM RetiredAlwaysQuiet == Spec => []RetiredIsQuiet
<1>1. CapabilitiesInv => RetiredIsQuiet
  <2> SUFFICES ASSUME CapabilitiesInv PROVE RetiredIsQuiet
    OBVIOUS
  <2>0. CapabilitiesTypeOK /\ RegistryShape /\ \A c \in Calls : CallShape(c)
    BY DEF CapabilitiesInv
  <2>1. DrainedIsIdle
    <3> SUFFICES ASSUME NEW g \in RegIds, entries[g] # NoEntry,
                        Drained(g) \/ (~entries[g].closure /\ entries[g].native),
                        NEW c \in Calls, calls[c].reg = g, calls[c].permit
                 PROVE  FALSE
      BY DEF DrainedIsIdle
    <3>1. entries[g].running = 0
      BY <2>0 DEF Drained, RegistryShape, EntryShape
    <3>2. c \in PermitsOf(g) /\ PermitsOf(g) \in SUBSET Calls
      BY DEF PermitsOf
    <3>3. Cardinality(PermitsOf(g)) = 0
      BY <3>1 DEF CapabilitiesInv, PermitsCounted
    <3> QED BY <3>2, <3>3, CallsCountable, FS_EmptySet
  <2>2. ActiveResolves
    BY <2>0 DEF ActiveResolves, RegistryShape, Listed, Drained, CapabilitiesTypeOK
  <2>3. RetiredHasNoQueue
    BY DEF CapabilitiesInv, RetireShape, RetiredHasNoQueue, Queued
  <2>4. RetentionExact
    <3>1. /\ reserved = Cardinality({c \in Calls : records[c] # NoRecord})
          /\ reserved <= MaxRequests /\ running <= MaxRequests
          /\ Len(tombstones) <= MaxRequests /\ Injective(tombstones)
      BY CapabilitiesAssumption DEF CapabilitiesInv, RetentionShape, Records, CapabilitiesTypeOK
    <3>2. \A i \in DOMAIN tombstones : tombstones[i] \in Owned(tombstones)
      BY DEF Owned
    <3>3. \A i \in DOMAIN tombstones : records[tombstones[i]] = NoRecord /\ calls[tombstones[i]].pc = "over"
      BY <3>2 DEF CapabilitiesInv, RetentionShape
    <3> QED BY <3>1, <3>3 DEF RetentionExact, Injective
  <2> QED BY <2>1, <2>2, <2>3, <2>4 DEF RetiredIsQuiet
<1> QED BY CapabilitiesInductive, <1>1, PTL

\* What a step may do to a retained entry.
EntryMoves(e, f) ==
  \/ f = e
  \/ f \in {[e EXCEPT !.releasing = FALSE], [e EXCEPT !.finalization_only = TRUE],
            [e EXCEPT !.listed = FALSE], Closed(e)}
  \/ e.running # 0 \/ e.accepting

\* No step does anything else to a retained entry.
LEMMA EntriesMove ==
  ASSUME CapabilitiesInv, [Next]_vars, NEW g \in RegIds, entries[g] # NoEntry
  PROVE  EntryMoves(entries[g], entries'[g])
<1>1. entries \in [RegIds -> Entry \cup {NoEntry}]
  BY DEF CapabilitiesInv, CapabilitiesTypeOK
<1>2. ASSUME UNCHANGED entries PROVE EntryMoves(entries[g], entries'[g])
  BY <1>2 DEF EntryMoves
<1>3. ASSUME NEW c \in Calls, Release(c), calls[c].permit
      PROVE  EntryMoves(entries[g], entries'[g])
  <2>1. CASE calls[c].reg = g
    <3>1. entries[g].running = Cardinality(PermitsOf(g))
      BY DEF CapabilitiesInv, PermitsCounted
    <3>2. c \in PermitsOf(g) /\ PermitsOf(g) \in SUBSET Calls
      BY <1>3, <2>1 DEF PermitsOf
    <3>3. Cardinality(PermitsOf(g)) # 0
      BY <3>2, CallsCountable, FS_EmptySet
    <3> QED BY <3>1, <3>3 DEF EntryMoves
  <2>2. CASE calls[c].reg # g
    <3>1. entries'[g] = entries[g]
      BY <1>1, <1>3, <2>2 DEF Release
    <3> QED BY <3>1 DEF EntryMoves
  <2> QED BY <2>1, <2>2
<1>4. ASSUME NEW h \in RegIds, NEW e, entries' = [entries EXCEPT ![h] = e],
             h = g => EntryMoves(entries[g], e)
      PROVE  EntryMoves(entries[g], entries'[g])
  <2>1. entries'[g] = IF h = g THEN e ELSE entries[g]
    BY <1>1, <1>4
  <2> QED BY <1>4, <2>1 DEF EntryMoves
<1>5. CASE RegistryStep
  <2>1. ASSUME NEW batch \in SUBSET Names, NEW native \in BOOLEAN, register(batch, native)
        PROVE  EntryMoves(entries[g], entries'[g])
    <3>1. PICK ids \in [batch -> {h \in RegIds : entries[h] = NoEntry}] :
            entries' = [h \in RegIds |->
              IF \E n \in batch : ids[n] = h
              THEN [name |-> CHOOSE n \in batch : ids[n] = h, native |-> native,
                    accepting |-> TRUE, finalization_only |-> FALSE, running |-> 0,
                    closure |-> native, releasing |-> FALSE, listed |-> TRUE]
              ELSE entries[h]]
      BY <2>1 DEF register
    <3>2. \A n \in batch : ids[n] # g
      BY <3>1
    <3>3. entries'[g] = entries[g]
      BY <3>1, <3>2
    <3> QED BY <3>3 DEF EntryMoves
  <2>2. ASSUME NEW h \in RegIds, finish_release(h) PROVE EntryMoves(entries[g], entries'[g])
    <3>1. entries' = [entries EXCEPT ![h] = [entries[h] EXCEPT !.releasing = FALSE]]
      BY <1>1, <2>2 DEF finish_release
    <3> QED BY <1>4, <3>1 DEF EntryMoves
  <2>3. ASSUME NEW h \in RegIds, forget(h) PROVE EntryMoves(entries[g], entries'[g])
    <3>1. entries' = [entries EXCEPT ![h] = [entries[h] EXCEPT !.listed = FALSE]]
      BY <1>1, <2>3 DEF forget
    <3> QED BY <1>4, <3>1 DEF EntryMoves
  <2>4. ASSUME NEW h \in RegIds, restrict_entry(h) PROVE EntryMoves(entries[g], entries'[g])
    <3>1. entries' = [entries EXCEPT ![h] = [entries[h] EXCEPT !.finalization_only = TRUE]]
      BY <1>1, <2>4 DEF restrict_entry
    <3> QED BY <1>4, <3>1 DEF EntryMoves
  <2>5. ASSUME NEW h \in RegIds, unregister_close(h) \/ close_entry(h)
        PROVE  EntryMoves(entries[g], entries'[g])
    <3>1. entries' = [entries EXCEPT ![h] = Closed(entries[h])]
      BY <1>1, <2>5 DEF unregister_close, close_entry
    <3> QED BY <1>4, <3>1 DEF EntryMoves
  <2>6. ASSUME NEW h \in RegIds, unregister(h) \/ retire_registration(h) \/ unregister_return(h)
        PROVE  EntryMoves(entries[g], entries'[g])
    BY <1>2, <2>6 DEF unregister, retire_registration, unregister_return
  <2>7. CASE begin_shutdown \/ close_and_poll \/ close
    BY <1>2, <2>7 DEF begin_shutdown, close_and_poll, close
  <2> QED BY <1>5, <2>1, <2>2, <2>3, <2>4, <2>5, <2>6, <2>7 DEF RegistryStep
<1>6. CASE take_next
  BY <1>2, <1>6 DEF take_next, registryVars
<1>7. ASSUME NEW c \in Calls, CallStep(c) PROVE EntryMoves(entries[g], entries'[g])
  <2>1. CallShape(c)
    BY DEF CapabilitiesInv
  <2>2. ASSUME NEW h \in RegIds, NEW finalization \in BOOLEAN, admit(c, h, finalization)
        PROVE  EntryMoves(entries[g], entries'[g])
    <3>1. entries' = [entries EXCEPT ![h] = [entries[h] EXCEPT !.running = @ + 1]] /\ entries[h].accepting
      BY <1>1, <2>2 DEF admit, Count, GateOpen
    <3> QED BY <1>4, <3>1 DEF EntryMoves
  <2>3. CASE prepare(c) \/ drop_failed(c)
    <3>1. calls[c].permit /\ (Release(c) \/ UNCHANGED entries)
      BY <2>1, <2>3 DEF CallShape, prepare, drop_failed
    <3> QED BY <1>2, <1>3, <3>1
  <2>4. CASE finish_native(c)
    <3>1. (calls[c].permit /\ Release(c)) \/ UNCHANGED entries
      BY <2>4 DEF finish_native
    <3> QED BY <1>2, <1>3, <3>1
  <2>5. CASE drop_submission(c)
    <3>1. calls[c].permit /\ Release(c)
      BY <2>1, <2>5 DEF CallShape, drop_submission, DropPrepared
    <3> QED BY <1>3, <3>1
  <2>6. CASE revoke(c) \/ begin_native(c) \/ return_native(c) \/ confirm_native(c) \/ submit(c)
    BY <1>2, <2>6 DEF revoke, begin_native, return_native, confirm_native, submit, registryVars
  <2> QED BY <1>7, <2>2, <2>3, <2>4, <2>5, <2>6 DEF CallStep
<1>8. ASSUME NEW c \in Calls, OwnerStep(c) \/ RequestStep(c) PROVE EntryMoves(entries[g], entries'[g])
  <2>1. CASE drop_prepared(c)
    <3>1. calls[c].permit /\ Release(c)
      BY <2>1 DEF CapabilitiesInv, CallShape, RecordShape, RequestRecord, drop_prepared, DropPrepared,
                  CapabilitiesTypeOK
    <3> QED BY <1>3, <3>1
  <2>2. CASE ~drop_prepared(c)
    BY <1>2, <1>8, <2>2 DEF OwnerStep, RequestStep, retain_outcome, publish, complete, drive_completion,
       restore_outcome, refresh, request_cancel, drop_handle, cancel, registryVars
  <2> QED BY <2>1, <2>2
<1>9. CASE UNCHANGED vars
  BY <1>2, <1>9 DEF vars, registryVars
<1> QED BY <1>5, <1>6, <1>7, <1>8, <1>9 DEF Next

\* A registration that was once drained stays drained: status and forget, and
\* the SDK that frees what the handler used, need no common lock.
THEOREM DrainedStaysFinal == Spec => DrainedIsFinal
<1>1. ASSUME CapabilitiesInv, CapabilitiesInv', [Next]_vars, NEW g \in RegIds,
             entries[g] # NoEntry, Drained(g)
      PROVE  Drained(g)'
  <2> DEFINE e == entries[g]
  <2>1. e \in Entry /\ ~e.accepting /\ e.running = 0 /\ ~e.closure /\ ~e.releasing
    BY <1>1 DEF CapabilitiesInv, CapabilitiesTypeOK, Drained
  <2>2. EntryMoves(e, entries'[g])
    BY <1>1, EntriesMove
  <2>3. /\ ~[e EXCEPT !.releasing = FALSE].accepting /\ [e EXCEPT !.releasing = FALSE].running = 0
        /\ ~[e EXCEPT !.releasing = FALSE].closure /\ ~[e EXCEPT !.releasing = FALSE].releasing
        /\ ~[e EXCEPT !.finalization_only = TRUE].accepting /\ [e EXCEPT !.finalization_only = TRUE].running = 0
        /\ ~[e EXCEPT !.finalization_only = TRUE].closure /\ ~[e EXCEPT !.finalization_only = TRUE].releasing
        /\ ~[e EXCEPT !.listed = FALSE].accepting /\ [e EXCEPT !.listed = FALSE].running = 0
        /\ ~[e EXCEPT !.listed = FALSE].closure /\ ~[e EXCEPT !.listed = FALSE].releasing
    BY <2>1 DEF Entry
  <2>4. ~Closed(e).accepting /\ Closed(e).running = 0 /\ ~Closed(e).closure /\ ~Closed(e).releasing
    BY <2>1 DEF Closed, Settled, Idle, Entry
  <2> QED BY <2>1, <2>2, <2>3, <2>4 DEF EntryMoves, Drained
<1>2. CapabilitiesInv /\ CapabilitiesInv' /\ [Next]_vars =>
        [\A g \in RegIds : entries[g] # NoEntry /\ Drained(g) => Drained(g)']_vars
  BY <1>1
<1> QED BY CapabilitiesInductive, <1>2, PTL DEF Spec, DrainedIsFinal
=============================================================================
