----------------------------- MODULE ToolCache -----------------------------
(***************************************************************************)
(* The process-wide tool cache (runtime/cache.rs): a write-once            *)
(* configuration cell, and entries that end by time, by deletion or by     *)
(* being the oldest when there are too many.                               *)
(*                                                                         *)
(* An id and a creation sequence come from one counter before the store is *)
(* locked, so entries are not inserted in the order of their sequences.    *)
(***************************************************************************)
EXTENDS Integers, FiniteSets

CONSTANTS CacheCallers,  \* threads
          CacheTools,    \* namespaces that own entries
          CacheConfigs,  \* configurations asked for
          DefaultCache,  \* ToolCacheConfig::default
          CacheTtls,     \* lifetimes asked for
          MaxCounter,    \* bound on the counter
          MaxCacheClock  \* bound on the clock

ASSUME CacheAssumption == DefaultCache \in CacheConfigs

VARIABLES cell,          \* GLOBAL_TOOL_CACHE
          accepted,      \* configurations whose caller was told Ok
          cacheClock, counter, entries, cacheCall,
          inserted,      \* every entry that was ever inserted
          removed        \* ids that delete removed for their owner

cacheVars == <<cell, accepted, cacheClock, counter, entries, cacheCall, inserted, removed>>

NoCache == [max |-> -1, default |-> 0, ceiling |-> 0]
NoTtl == -1
NotCalling == [at |-> "idle"]

CacheInit ==
    /\ cell = NoCache
    /\ accepted = {}
    /\ cacheClock = 0
    /\ counter = 1
    /\ entries = {}
    /\ cacheCall = [c \in CacheCallers |-> NotCalling]
    /\ inserted = {}
    /\ removed = {}
----------------------------------------------------------------------------
AtLeastOne(n) == IF n < 1 THEN 1 ELSE n
AtMost(n, m) == IF n > m THEN m ELSE n

ResolveTtl(ttl) ==
    AtMost(AtLeastOne(IF ttl = NoTtl THEN cell.default ELSE ttl), AtLeastOne(cell.ceiling))

Capacity == AtLeastOne(cell.max)

CleanupExpired(store, now) == {e \in store : e.expires > now}

EvictNewest(store) == {e \in store : Cardinality({f \in store : f.seq < e.seq}) < Capacity}

\* The oldest sequences leave until the capacity is kept.
EnforceCapacity(store) == {e \in store : Cardinality({f \in store : f.seq > e.seq}) < Capacity}

ConfigureAnyway(c, requested) == TRUE

ConfigMatches(c, requested) == c = requested
----------------------------------------------------------------------------
(* configure_tool_cache_cell and tool_cache_from_cell.                     *)

Configure(c, config) ==
    /\ cacheCall[c] = NotCalling
    /\ IF cell = NoCache
       THEN /\ cacheCall' = [cacheCall EXCEPT ![c] = [at |-> "set", config |-> config]]
            /\ UNCHANGED accepted
       ELSE /\ accepted' = accepted \union (IF ConfigMatches(cell, config) THEN {config} ELSE {})
            /\ UNCHANGED cacheCall
    /\ UNCHANGED <<cell, cacheClock, counter, entries, inserted, removed>>

\* The loser of the race compares its configuration with the winner's.
SetCell(c) ==
    /\ cacheCall[c].at = "set"
    /\ LET config == cacheCall[c].config
       IN IF cell = NoCache
          THEN cell' = config /\ accepted' = accepted \union {config}
          ELSE /\ accepted' = accepted \union
                    (IF ConfigMatches(cell, config) THEN {config} ELSE {})
               /\ UNCHANGED cell
    /\ cacheCall' = [cacheCall EXCEPT ![c] = NotCalling]
    /\ UNCHANGED <<cacheClock, counter, entries, inserted, removed>>

GetOrInit ==
    /\ cell = NoCache
    /\ cell' = DefaultCache
    /\ UNCHANGED <<accepted, cacheClock, counter, entries, cacheCall, inserted, removed>>
----------------------------------------------------------------------------
(* create, get and delete.                                                 *)

BeginCreate(c, tool, ttl) ==
    /\ cacheCall[c] = NotCalling
    /\ cell # NoCache
    /\ counter + 1 <= MaxCounter
    /\ cacheCall' = [cacheCall EXCEPT ![c] =
         [at |-> "sequence", now |-> cacheClock, tool |-> tool,
          expires |-> cacheClock + ResolveTtl(ttl), id |-> counter]]
    /\ counter' = counter + 1
    /\ UNCHANGED <<cell, accepted, cacheClock, entries, inserted, removed>>

TakeSequence(c) ==
    /\ cacheCall[c].at = "sequence"
    /\ cacheCall' = [cacheCall EXCEPT ![c] =
         [at |-> "insert", now |-> @.now,
          entry |-> [id |-> @.id, tool |-> @.tool, expires |-> @.expires, seq |-> counter]]]
    /\ counter' = counter + 1
    /\ UNCHANGED <<cell, accepted, cacheClock, entries, inserted, removed>>

Insert(c) ==
    /\ cacheCall[c].at = "insert"
    /\ LET entry == cacheCall[c].entry
           kept == IF Cardinality(entries) >= Capacity
                   THEN CleanupExpired(entries, cacheCall[c].now) ELSE entries
       IN /\ entries' = EnforceCapacity(kept \union {entry})
          /\ inserted' = inserted \union {entry}
    /\ cacheCall' = [cacheCall EXCEPT ![c] = NotCalling]
    /\ UNCHANGED <<cell, accepted, cacheClock, counter, removed>>

\* Under the read lock: a hit, a miss, or an expired entry that is removed afterwards.
Get(c, tool, e) ==
    /\ cacheCall[c] = NotCalling
    /\ e \in entries
    /\ e.expires <= cacheClock
    /\ cacheCall' = [cacheCall EXCEPT ![c] = [at |-> "drop", id |-> e.id, now |-> cacheClock]]
    /\ UNCHANGED <<cell, accepted, cacheClock, counter, entries, inserted, removed>>

DropExpired(c) ==
    /\ cacheCall[c].at = "drop"
    /\ entries' = {e \in entries : e.id # cacheCall[c].id \/ e.expires > cacheCall[c].now}
    /\ cacheCall' = [cacheCall EXCEPT ![c] = NotCalling]
    /\ UNCHANGED <<cell, accepted, cacheClock, counter, inserted, removed>>

DeleteAnybodys(e, tool) == TRUE

OwnerMatches(e, tool) == e.tool = tool

Delete(c, tool, e) ==
    /\ cacheCall[c] = NotCalling
    /\ e \in entries
    /\ LET expired == e.expires <= cacheClock
       IN /\ expired \/ OwnerMatches(e, tool)
          /\ entries' = entries \ {e}
          /\ removed' = IF ~expired /\ tool = e.tool THEN removed \union {e.id} ELSE removed
    /\ UNCHANGED <<cell, accepted, cacheClock, counter, cacheCall, inserted>>

CacheTick ==
    /\ cacheClock < MaxCacheClock
    /\ cacheClock' = cacheClock + 1
    /\ UNCHANGED <<cell, accepted, counter, entries, cacheCall, inserted, removed>>

CacheNext ==
    \/ GetOrInit \/ CacheTick
    \/ \E c \in CacheCallers :
        \/ SetCell(c) \/ TakeSequence(c) \/ Insert(c) \/ DropExpired(c)
        \/ \E config \in CacheConfigs : Configure(c, config)
        \/ \E tool \in CacheTools :
            \/ \E ttl \in CacheTtls \union {NoTtl} : BeginCreate(c, tool, ttl)
            \/ \E e \in entries : Get(c, tool, e) \/ Delete(c, tool, e)
----------------------------------------------------------------------------
\* The variables keep their types.
CacheTypeOK ==
    /\ cell \in CacheConfigs \union {NoCache}
    /\ cacheClock \in 0..MaxCacheClock
    /\ counter \in Nat
    /\ entries \subseteq inserted

(* Callers that were told their configuration holds share it for ever.  The *)
(* store keeps its capacity, and an entry that its owner has neither        *)
(* deleted nor outlived is missing only when as many entries with newer     *)
(* sequences as fit were inserted (configure_tool_cache_cell, create,       *)
(* delete, enforce_capacity_locked).                                        *)
EntriesKept ==
    /\ \A config \in accepted : config = cell
    /\ Cardinality(entries) <= Capacity
    /\ \A e \in inserted \ entries :
        \/ e.id \in removed
        \/ e.expires <= cacheClock
        \/ Cardinality({f \in inserted : f.seq > e.seq}) >= Capacity
============================================================================
