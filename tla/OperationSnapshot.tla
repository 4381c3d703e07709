------------------------- MODULE OperationSnapshot -------------------------
(***************************************************************************)
(* The value every durable checkpoint carries: one operation's lifecycle   *)
(* phase, its aggregate effect evidence, the ordered host-effect records   *)
(* and the finalization evidence (operations.rs, effects.rs,               *)
(* operations/finalization.rs, journal/reconciliation.rs).                 *)
(*                                                                         *)
(* Abstractions: a JSON value or an error message is only the outcome      *)
(* class it decides ("ok", "failed", "cancelled"), so value/error are      *)
(* present exactly in a terminal phase; the caller identities and the      *)
(* module context collapse to one context token; an effect's identity is   *)
(* its position in the ledger (the code renders "<operation>:effect:<n>"). *)
(***************************************************************************)
EXTENDS Naturals, Sequences

\* OperationPhase, in the order of the enum.
NonTerminalPhases ==
  {"Queued", "Initializing", "Running", "WaitingForHost", "Cleaning"}
TerminalPhases == {"Succeeded", "Failed", "Cancelled"}
OperationPhase == NonTerminalPhases \cup TerminalPhases

\* OperationPhase::is_terminal.
is_terminal(phase) == phase \in TerminalPhases

\* EffectState and the resolved states a host may attest to.
ResolvedEffectState == {"NotStarted", "NotApplicable", "Committed", "RolledBack"}
EffectState == ResolvedEffectState \cup {"Unknown"}

\* HostEffectPhase and the retained record of one host call.
HostEffectPhase == {"Prepared", "Running", "Completed"}
HostEffectRecord == [phase : HostEffectPhase, effects : EffectState]

\* Some host handler still owns its admission.
AnyEffectOpen(host) == \E i \in DOMAIN host : host[i].phase # "Completed"

\* The single legal nonterminal transition table.
LegalAdvance(from, to) ==
  \/ from = "Queued" /\ to \in {"Initializing", "Running", "Cleaning"}
  \/ from = "Initializing" /\ to \in {"Running", "WaitingForHost", "Cleaning"}
  \/ from = "Running" /\ to \in {"WaitingForHost", "Cleaning"}
  \/ from = "WaitingForHost" /\ to \in {"Running", "Initializing", "Cleaning"}

\* Entering an executing phase makes the aggregate effect evidence unknown.
advance_snapshot(snapshot, to) ==
  [snapshot EXCEPT
     !.phase = to,
     !.effects = IF to \in {"Initializing", "Running", "WaitingForHost"}
                 THEN "Unknown" ELSE @]

\* Strength order of proven evidence once nothing is open or unknown.
EvidenceOrder == <<"Committed", "RolledBack", "NotApplicable", "NotStarted">>

\* Owner evidence merged with the retained host records.
merge_effects(base, host) ==
  LET seen == {base} \cup {host[i].effects : i \in DOMAIN host} IN
  IF AnyEffectOpen(host) \/ "Unknown" \in seen
  THEN "Unknown"
  ELSE EvidenceOrder[CHOOSE k \in 1 .. 4 :
         /\ EvidenceOrder[k] \in seen
         /\ \A j \in 1 .. (k - 1) : EvidenceOrder[j] \notin seen]

-----------------------------------------------------------------------------
(* Finalization evidence.  business = "none" encodes its absence.          *)

\* OperationOutcome reduced to what the terminal projection depends on.
Outcome == {"ok", "failed", "cancelled"}

NoFinalization == [business |-> "none", count |-> 0, outcome |-> "none"]

\* The terminal phase of a result.
TerminalPhase(outcome) ==
  CASE outcome = "ok" -> "Succeeded"
    [] outcome = "cancelled" -> "Cancelled"
    [] OTHER -> "Failed"

\* A business failure stays primary; a closing failure replaces a success.
FinalResult(business, closing) == IF business = "ok" THEN closing ELSE business

\* OperationSnapshot::validate_finalization.
validate_finalization(s) ==
  s.finalization # NoFinalization =>
    LET f == s.finalization
        open == {i \in DOMAIN s.host : s.host[i].phase # "Completed"} IN
    /\ f.count <= Len(s.host)
    /\ is_terminal(s.phase) \/ s.phase = "Cleaning"
    /\ \A i \in open : i > f.count
    /\ f.outcome # "none" => open = {}
    /\ is_terminal(s.phase) =>
         /\ f.outcome # "none"
         /\ s.phase = TerminalPhase(FinalResult(f.business, f.outcome))

\* OperationSnapshot::validate_finalization_successor.
validate_finalization_successor(next, previous) ==
  LET old == previous.finalization
      new == next.finalization IN
  old # NoFinalization =>
    /\ new.business = old.business
    /\ new.count = old.count
    /\ old.outcome # "none" => new.outcome = old.outcome

-----------------------------------------------------------------------------
(* Host reconciliation: one attestation over the unchanged snapshot.       *)

\* OperationReconciliation::validate, with the evidence strings present.
validate_reconciliation(r, s) ==
  /\ (r.execution = "ObservedTerminal") <=> is_terminal(s.phase)
  /\ Len(r.host) = Len(s.host)
  /\ s.effects \in {"Unknown", r.effects}
  /\ \A i \in DOMAIN s.host : s.host[i].effects \in {"Unknown", r.host[i]}
  /\ merge_effects(r.effects,
        [i \in DOMAIN s.host |-> [phase |-> "Completed", effects |-> r.host[i]]])
       = r.effects

\* Evidence that still needs the host: forget refuses to drop it.
Unresolved(s) ==
  \/ ~is_terminal(s.phase)
  \/ s.effects = "Unknown"
  \/ \E i \in DOMAIN s.host :
        s.host[i].phase # "Completed" \/ s.host[i].effects = "Unknown"
=============================================================================
