---------------------------- MODULE MCScheduler ----------------------------
(***************************************************************************)
(* A session pool and a reusable one, both with finalizers, compete for    *)
(* the only VM of their plugin and one worker.                             *)
(***************************************************************************)
EXTENDS Scheduler

CONSTANTS sp, rp, g1

MCPlugins == {g1}
MCPools == {sp, rp}

MCPolicy ==
  [p \in MCPools |->
     [plugin |-> g1, reuse |-> IF p = sp THEN "session" ELSE "reusable", finalizer |-> TRUE,
      running |-> 1, queued |-> 2, resident |-> 1, floor |-> 0]]

MCLimits ==
  [g \in MCPlugins |-> [running |-> 1, queued |-> 2, operations |-> 2, sessions |-> 1, resident |-> 1]]
=============================================================================
