---------------------------- MODULE FileWatcher ----------------------------
(***************************************************************************)
(* The shared file watcher (runtime/file_watcher.rs): logical              *)
(* registrations share native watches by reference counts, and a           *)
(* registration whose path is missing watches its nearest existing         *)
(* ancestor until refresh_fallback_paths finds something better.           *)
(*                                                                         *)
(* Paths are the levels of one directory chain; level 0 always exists.     *)
(* Every operation holds the registry lock from beginning to end, but a     *)
(* registration has chosen what to watch before it takes the lock.          *)
(***************************************************************************)
EXTENDS Naturals, FiniteSets

CONSTANTS WatchDepth,       \* levels below the root of the chain
          MaxRegistrations, \* bound on registrations made
          MaxTopology,      \* bound on directories created and removed
          MaxWatchFaults    \* bound on native calls that fail

ASSUME WatchAssumption == WatchDepth \in Nat \ {0}

VARIABLES present,        \* levels that exist now
          asked,          \* registrations that wait for the registry lock
          registrations,  \* live registrations by id
          pathRefCounts,  \* reference counts of every path
          watchedPaths,   \* modes the backend believes it has installed
          native,         \* modes the operating system really watches with
          nextRegistration, topology, watchFaults,
          lostUnwatch     \* an unwatch was refused in the middle of an operation

watchVars == <<present, asked, registrations, pathRefCounts, watchedPaths, native,
               nextRegistration, topology, watchFaults, lostUnwatch>>

WatchLevels == 0..WatchDepth
Unwatched == "none"
NoCounts == [shallow |-> 0, deep |-> 0]

WatchInit ==
    /\ present \in {0..n : n \in WatchLevels}
    /\ asked = {}
    /\ registrations = {}
    /\ pathRefCounts = [p \in WatchLevels |-> NoCounts]
    /\ watchedPaths = [p \in WatchLevels |-> Unwatched]
    /\ native = [p \in WatchLevels |-> Unwatched]
    /\ nextRegistration = 0
    /\ topology = 0
    /\ watchFaults = 0
    /\ lostUnwatch = FALSE
----------------------------------------------------------------------------
Incremented(counts, deep) ==
    IF deep THEN [counts EXCEPT !.deep = @ + 1] ELSE [counts EXCEPT !.shallow = @ + 1]

Less(n) == IF n = 0 THEN 0 ELSE n - 1

Decremented(counts, deep) ==
    IF deep THEN [counts EXCEPT !.deep = Less(@)] ELSE [counts EXCEPT !.shallow = Less(@)]

EffectiveMode(counts) ==
    IF counts.deep > 0 THEN "deep" ELSE IF counts.shallow > 0 THEN "shallow" ELSE Unwatched

\* The requested path, or its nearest existing ancestor watched without descendants.
ActualWatchPath(requested) ==
    IF requested.path \in present THEN [path |-> requested.path, deep |-> requested.deep]
    ELSE [path |-> CHOOSE p \in present : p < requested.path
                                          /\ \A q \in present : q < requested.path => q <= p,
          deep |-> FALSE]

IsFallback(requested) == requested.path \notin present

(* The outcomes of reconfigure_watch on a backend state b: the native calls *)
(* fail by budget, on a path that is gone, or (unwatch) when the watch has  *)
(* disappeared with its directory.  The mode is put back after a failure    *)
(* and recorded whether or not that works.                                  *)
Cost(b, n) == b.faults + n <= MaxWatchFaults

Unwatching(b, p, previous) ==
    IF previous = Unwatched THEN {[ok |-> TRUE, b |-> b]}
    ELSE (IF b.native[p] # Unwatched
          THEN {[ok |-> TRUE, b |-> [b EXCEPT !.native[p] = Unwatched, !.watched[p] = Unwatched]]}
          ELSE {[ok |-> FALSE, b |-> b]})
         \union (IF Cost(b, 1) THEN {[ok |-> FALSE, b |-> [b EXCEPT !.faults = @ + 1]]} ELSE {})

Watching(b, p, mode) ==
    (IF p \in present THEN {[ok |-> TRUE, b |-> [b EXCEPT !.native[p] = mode]]}
     ELSE {[ok |-> FALSE, b |-> b]})
    \union (IF Cost(b, 1) THEN {[ok |-> FALSE, b |-> [b EXCEPT !.faults = @ + 1]]} ELSE {})

Recorded(o, p, mode) == [o EXCEPT !.b.watched[p] = mode]

ReconfigureWatch(b, p, previous, next) ==
    IF previous = next THEN {[ok |-> TRUE, b |-> b]}
    ELSE UNION {IF ~u.ok \/ next = Unwatched THEN {u}
                ELSE UNION {IF w.ok THEN {Recorded(w, p, next)}
                            ELSE IF previous = Unwatched THEN {w}
                            ELSE {[Recorded(r, p, previous) EXCEPT !.ok = FALSE] :
                                    r \in Watching(w.b, p, previous)} :
                              w \in Watching(u.b, p, next)} :
                u \in Unwatching(b, p, previous)}

Backend == [watched |-> watchedPaths, native |-> native, faults |-> watchFaults]

TakeBackend(b) ==
    /\ watchedPaths' = b.watched
    /\ native' = b.native
    /\ watchFaults' = b.faults
----------------------------------------------------------------------------
\* What is watched is decided without the lock, from the directories there are now.
AskRegistration(path, deep) ==
    /\ nextRegistration + Cardinality(asked) < MaxRegistrations
    /\ LET requested == [path |-> path, deep |-> deep]
       IN asked' = asked \union {[requested |-> requested, actual |-> ActualWatchPath(requested),
                                  fallback |-> IsFallback(requested)]}
    /\ UNCHANGED <<present, registrations, pathRefCounts, watchedPaths, native, nextRegistration,
                   topology, watchFaults, lostUnwatch>>

RegisterPath(ask) ==
    /\ asked' = asked \ {ask}
    /\ nextRegistration' = nextRegistration + 1
    /\ LET actual == ask.actual
           counts == Incremented(pathRefCounts[actual.path], actual.deep)
       IN \E o \in ReconfigureWatch(Backend, actual.path,
                                    EffectiveMode(pathRefCounts[actual.path]),
                                    EffectiveMode(counts)) :
            /\ TakeBackend(o.b)
            /\ IF o.ok
               THEN /\ pathRefCounts' = [pathRefCounts EXCEPT ![actual.path] = counts]
                    /\ registrations' = registrations \union
                         {[id |-> nextRegistration, requested |-> ask.requested,
                           actual |-> actual, fallback |-> ask.fallback]}
               ELSE UNCHANGED <<pathRefCounts, registrations>>
    /\ UNCHANGED <<present, topology, lostUnwatch>>

\* LiveWatchRegistration::drop ignores the error, so a refused unwatch is forgotten.
UnregisterPath(r) ==
    /\ registrations' = registrations \ {r}
    /\ LET p == r.actual.path
           counts == Decremented(pathRefCounts[p], r.actual.deep)
       IN \E o \in ReconfigureWatch(Backend, p, EffectiveMode(pathRefCounts[p]),
                                    EffectiveMode(counts)) :
            /\ TakeBackend(o.b)
            /\ pathRefCounts' = [pathRefCounts EXCEPT ![p] = counts]
            /\ lostUnwatch' = (lostUnwatch \/ ~o.ok)
    /\ UNCHANGED <<present, asked, nextRegistration, topology>>

MovedCounts(from, to) ==
    LET without == [pathRefCounts EXCEPT ![from.path] = Decremented(@, from.deep)]
    IN [without EXCEPT ![to.path] = Incremented(@, to.deep)]

MovedBackForgotten(moved, from, to) == [moved EXCEPT ![to.path] = Decremented(@, to.deep)]

\* The counts are put back when the new path cannot be watched.
MovedBack(moved, from, to) ==
    LET without == [moved EXCEPT ![to.path] = Decremented(@, to.deep)]
    IN [without EXCEPT ![from.path] = Incremented(@, from.deep)]

(* move_actual_watch: the counts move first; the previous path is released, *)
(* then the next one is watched.  A refused release returns at once.        *)
MoveActualWatch(r, to) ==
    LET from == r.actual
        moved == MovedCounts(from, to)
        oldFrom == EffectiveMode(pathRefCounts[from.path])
        newFrom == EffectiveMode(Decremented(pathRefCounts[from.path], from.deep))
        oldTo == EffectiveMode([pathRefCounts EXCEPT
                                  ![from.path] = Decremented(@, from.deep)][to.path])
        newTo == EffectiveMode(moved[to.path])
    IN \E u \in ReconfigureWatch(Backend, from.path, oldFrom, newFrom) :
         IF ~u.ok
         THEN /\ TakeBackend(u.b)
              /\ pathRefCounts' = moved
              /\ lostUnwatch' = TRUE
              /\ UNCHANGED registrations
         ELSE \E w \in ReconfigureWatch(u.b, to.path, oldTo, newTo) :
              IF w.ok
              THEN /\ TakeBackend(w.b)
                   /\ pathRefCounts' = moved
                   /\ registrations' = (registrations \ {r}) \union
                        {[r EXCEPT !.actual = to, !.fallback = IsFallback(r.requested)]}
                   /\ UNCHANGED lostUnwatch
              ELSE \E b \in ReconfigureWatch(w.b, from.path, newFrom, oldFrom) :
                   /\ TakeBackend(b.b)
                   /\ pathRefCounts' = MovedBack(moved, from, to)
                   /\ lostUnwatch' = (lostUnwatch \/ ~b.ok)
                   /\ UNCHANGED registrations

\* refresh_fallback_paths, one candidate at a time; an error ends the pass.
RefreshFallback(r) ==
    /\ r.fallback
    /\ LET to == ActualWatchPath(r.requested)
       IN IF r.actual = to
          THEN /\ registrations' = (registrations \ {r}) \union
                    {[r EXCEPT !.fallback = IsFallback(r.requested)]}
               /\ UNCHANGED <<pathRefCounts, watchedPaths, native, watchFaults, lostUnwatch>>
          ELSE MoveActualWatch(r, to)
    /\ UNCHANGED <<present, asked, nextRegistration, topology>>
----------------------------------------------------------------------------
(* The file system; a native watch ends with its directory.                *)

CreateLevel ==
    /\ topology < MaxTopology
    /\ Cardinality(present) <= WatchDepth
    /\ present' = present \union {Cardinality(present)}
    /\ topology' = topology + 1
    /\ UNCHANGED <<asked, registrations, pathRefCounts, watchedPaths, native, nextRegistration,
                   watchFaults, lostUnwatch>>

RemoveLevels(p) ==
    /\ topology < MaxTopology
    /\ p \in present \ {0}
    /\ present' = {q \in present : q < p}
    /\ native' = [q \in WatchLevels |-> IF q < p THEN native[q] ELSE Unwatched]
    /\ topology' = topology + 1
    /\ UNCHANGED <<asked, registrations, pathRefCounts, watchedPaths, nextRegistration, watchFaults,
                   lostUnwatch>>

WatchNext ==
    \/ \E p \in WatchLevels, deep \in BOOLEAN : AskRegistration(p, deep)
    \/ \E ask \in asked : RegisterPath(ask)
    \/ \E r \in registrations : UnregisterPath(r) \/ RefreshFallback(r)
    \/ CreateLevel
    \/ \E p \in WatchLevels : RemoveLevels(p)
----------------------------------------------------------------------------
\* The variables keep their types.
WatchTypeOK ==
    /\ present \subseteq WatchLevels
    /\ \A p \in WatchLevels :
        /\ pathRefCounts[p].deep \in Nat
        /\ pathRefCounts[p].shallow \in Nat
        /\ watchedPaths[p] \in {"deep", "shallow", Unwatched}
        /\ native[p] \in {"deep", "shallow", Unwatched}
    /\ watchFaults \in 0..MaxWatchFaults

CountOf(p, deep) == Cardinality({r \in registrations : r.actual = [path |-> p, deep |-> deep]})

(* Until the operating system refuses to end a watch, the counts are those  *)
(* of the live registrations and the backend watches every counted path in  *)
(* the mode they need, whatever watches could not be started (register_path,*)
(* move_actual_watch, unregister_path).                                     *)
CountsAreRegistrations ==
    lostUnwatch \/ \A p \in WatchLevels :
        /\ pathRefCounts[p] = [shallow |-> CountOf(p, FALSE), deep |-> CountOf(p, TRUE)]
        /\ watchedPaths[p] = EffectiveMode(pathRefCounts[p])

(* Does not hold: a registration that refresh_fallback_paths moves should   *)
(* be watched at its new path, but after an unwatch of the old path failed  *)
(* the next refresh only moves the record.                                  *)
MovedIsWatched ==
    [][\A r \in registrations, s \in registrations' :
         r.id = s.id /\ r.actual # s.actual => native'[s.actual.path] # Unwatched]_watchVars
============================================================================
