----------------------------- MODULE OneShotExec -----------------------------
(***************************************************************************)
(* process.exec (runtime/engine/runlua.rs): one child process is spawned   *)
(* in a process tree of its own, a thread per pipe moves its data, the     *)
(* caller polls the child until it exits or the timeout passes, closes the *)
(* tree, joins the pipe threads and reports.                               *)
(*                                                                         *)
(* One call.  The child may leave a descendant in its tree, which          *)
(* inherits the pipes, and one that left the tree and keeps them too.      *)
(* Reserving and recycling of reaper slots are ProcessSession; here the    *)
(* slot of this call is held, free again, or with the reaper.              *)
(***************************************************************************)
EXTENDS Naturals

CONSTANT MaxExecFaults  \* bound: operating-system calls that fail

ASSUME ExecAssumption == MaxExecFaults \in Nat

VARIABLES
  execPc,      \* where the call is
  execAsked,   \* what was asked: input to write, a limit on the time
  execChild,   \* the direct child
  execKin,     \* other live processes that hold the pipes
  execPipes,   \* the thread of every pipe
  execSeen,    \* what the call has observed so far
  execSlot,    \* the reaper slot
  execAnswer,  \* the result table
  execFaults   \* failures so far

execVars == <<execPc, execAsked, execChild, execKin, execPipes, execSeen, execSlot, execAnswer, execFaults>>

Pipes == {"stdin", "stdout", "stderr"}
NoAnswer == [success |-> FALSE, timed_out |-> FALSE, code |-> "none", error |-> FALSE]
ErrorAnswer(timed) == [NoAnswer EXCEPT !.timed_out = timed, !.error = TRUE]

ExecInit ==
  /\ execPc = "idle" /\ execAsked = [stdin |-> FALSE, timeout |-> FALSE]
  /\ execChild = "none" /\ execKin = {}
  /\ execPipes = [p \in Pipes |-> "none"]
  /\ execSeen = [timed |-> FALSE, waitFailed |-> FALSE, status |-> "none"]
  /\ execSlot = "free" /\ execAnswer = NoAnswer /\ execFaults = 0

ExecFault == execFaults < MaxExecFaults /\ execFaults' = execFaults + 1

-----------------------------------------------------------------------------
\* The request

\* parse_exec_request: a command for a shell or a program with arguments,
\* never both.
ExecMode(r) ==
  IF r.command /\ ~r.program /\ r.shell # "false" /\ ~r.args THEN "Shell"
  ELSE IF r.program /\ ~r.command /\ r.shell \notin {"true", "named"} THEN "Program"
  ELSE "refused"
ExecRequests == [command : BOOLEAN, program : BOOLEAN, args : BOOLEAN,
                 shell : {"unset", "true", "false", "named"}]

\* cap_timeout: inside a limited evaluation every child is limited.
Limited(timeout, budget) == timeout \/ budget

\* A request that is malformed, cannot be encoded or names no shell answers
\* with an error, and so does a child that cannot be spawned.
ExecRefused(r) ==
  /\ execPc = "idle"
  /\ \/ ExecMode(r) = "refused" /\ UNCHANGED execFaults
     \/ ExecMode(r) # "refused" /\ ExecFault
  /\ execPc' = "done" /\ execAnswer' = ErrorAnswer(FALSE)
  /\ UNCHANGED <<execAsked, execChild, execKin, execPipes, execSeen, execSlot>>

Exec(r, stdin, timeout, budget) ==
  /\ execPc = "idle" /\ ExecMode(r) # "refused"
  /\ execPc' = "polling"
  /\ execAsked' = [stdin |-> stdin, timeout |-> Limited(timeout, budget)]
  /\ execChild' = "running" /\ execSlot' = "held"
  /\ execPipes' = [stdin |-> IF stdin THEN "open" ELSE "none", stdout |-> "open", stderr |-> "open"]
  /\ UNCHANGED <<execKin, execSeen, execAnswer, execFaults>>

-----------------------------------------------------------------------------
\* The child and its kin (external)

ChildSpawns(kind) ==
  /\ execChild = "running" /\ kind \notin execKin
  /\ execKin' = execKin \cup {kind}
  /\ UNCHANGED <<execPc, execAsked, execChild, execPipes, execSeen, execSlot, execAnswer, execFaults>>
ExecChildExits(code) ==
  /\ execChild = "running" /\ execChild' = code
  /\ UNCHANGED <<execPc, execAsked, execKin, execPipes, execSeen, execSlot, execAnswer, execFaults>>
KinExits(kind) ==
  /\ kind \in execKin /\ execKin' = execKin \ {kind}
  /\ UNCHANGED <<execPc, execAsked, execChild, execPipes, execSeen, execSlot, execAnswer, execFaults>>

-----------------------------------------------------------------------------
\* The pipe threads

\* A reader ends when nobody has the other end open any more.
PipeClosed == execChild # "running" /\ execKin = {}

\* read_to_end and write_all, or a failure; input to a child that is gone
\* cannot be written.
PipeEnds(p) ==
  /\ execPipes[p] = "open"
  /\ \/ /\ p = "stdin" \/ PipeClosed
        /\ execPipes' = [execPipes EXCEPT ![p] = "whole"] /\ UNCHANGED execFaults
     \/ /\ p = "stdin" /\ PipeClosed
        /\ execPipes' = [execPipes EXCEPT ![p] = "failed"] /\ UNCHANGED execFaults
     \/ /\ ExecFault
        /\ execPipes' = [execPipes EXCEPT ![p] = "failed"]
  /\ UNCHANGED <<execPc, execAsked, execChild, execKin, execSeen, execSlot, execAnswer>>

-----------------------------------------------------------------------------
\* The caller

\* try_wait reaps the child, finds it running, or fails.
PollChild ==
  /\ execPc = "polling"
  /\ \/ /\ execChild # "running"
        /\ execPc' = "closing" /\ execSeen' = [execSeen EXCEPT !.status = execChild]
        /\ UNCHANGED execFaults
     \/ /\ execChild = "running" /\ execPc' = "waiting"
        /\ UNCHANGED <<execSeen, execFaults>>
     \/ /\ ExecFault
        /\ execPc' = "closing" /\ execSeen' = [execSeen EXCEPT !.waitFailed = TRUE]
  /\ UNCHANGED <<execAsked, execChild, execKin, execPipes, execSlot, execAnswer>>

CheckTimeoutOfRequest(passed) ==
  /\ execPc = "waiting" /\ ~passed
  /\ execPc' = "polling"
  /\ UNCHANGED <<execAsked, execChild, execKin, execPipes, execSeen, execSlot, execAnswer, execFaults>>

\* The child was running a moment ago: the limit has passed, or it is not yet
\* time and the caller sleeps.
CheckTimeout(passed) ==
  /\ execPc = "waiting"
  /\ passed => execAsked.timeout
  /\ execPc' = IF passed THEN "closing" ELSE "polling"
  /\ execSeen' = [execSeen EXCEPT !.timed = passed]
  /\ UNCHANGED <<execAsked, execChild, execKin, execPipes, execSlot, execAnswer, execFaults>>

\* finalize_one_shot_process_tree, first half: the whole tree is terminated,
\* or at least the direct child, unless its status is known or that fails too.
TerminateTree ==
  /\ execPc = "closing"
  /\ \/ /\ execChild' = IF execChild = "running" THEN "killed" ELSE execChild
        /\ execKin' = execKin \ {"descendant"}
        /\ execPc' = "reaping" /\ UNCHANGED execFaults
     \/ /\ ExecFault
        /\ execChild' \in {execChild, IF execChild = "running" THEN "killed" ELSE execChild}
        /\ execPc' = "reaping failed" /\ UNCHANGED execKin
  /\ UNCHANGED <<execAsked, execPipes, execSeen, execSlot, execAnswer>>

TreeClosedUnchecked(reaped, empty) == reaped
TreeClosed(reaped, empty) == reaped /\ empty

\* Second half: wait for the direct child within its deadline, ask whether the
\* tree is empty, and give the slot back or hand the child to the reaper.  Any
\* failure on the way is the answer.
ReapTree ==
  /\ execPc \in {"reaping", "reaping failed"}
  /\ \E reaped \in {execChild # "running", FALSE}, inspected \in BOOLEAN :
       LET ended == execSeen.status # "none" \/ reaped
           empty == inspected /\ "descendant" \notin execKin
           status == IF execSeen.status # "none" THEN execSeen.status ELSE execChild
       IN /\ IF reaped = (execChild # "running") /\ inspected THEN UNCHANGED execFaults ELSE ExecFault
          /\ execSlot' = IF TreeClosed(ended, empty) THEN "free" ELSE "reaper"
          /\ IF execPc = "reaping" /\ ended /\ empty /\ ~execSeen.waitFailed
             THEN /\ execPc' = "joining" /\ execSeen' = [execSeen EXCEPT !.status = status]
                  /\ UNCHANGED execAnswer
             ELSE /\ execPc' = "done" /\ execAnswer' = ErrorAnswer(execSeen.timed)
                  /\ UNCHANGED execSeen
  /\ UNCHANGED <<execAsked, execChild, execKin, execPipes>>

\* The joins have no time limit: each waits for its pipe thread to end.
JoinedInput == execPipes["stdin"] # "open"
Joined == \A p \in Pipes : execPipes[p] # "open"
CaptureFailed == \E p \in Pipes : execPipes[p] = "failed"
SucceedsByStatus == execSeen.status = "0" /\ ~CaptureFailed
Succeeds == ~execSeen.timed /\ execSeen.status = "0" /\ ~CaptureFailed

ReportResult ==
  /\ execPc = "joining" /\ Joined
  /\ execAnswer' = [success |-> Succeeds, timed_out |-> execSeen.timed,
                    code |-> execSeen.status, error |-> ~Succeeds]
  /\ execPc' = "done"
  /\ UNCHANGED <<execAsked, execChild, execKin, execPipes, execSeen, execSlot, execFaults>>

\* The reaper gives the slot back when child and tree are gone.
ReaperFinishes ==
  /\ execSlot = "reaper" /\ execChild # "running" /\ "descendant" \notin execKin
  /\ execSlot' = "free"
  /\ UNCHANGED <<execPc, execAsked, execChild, execKin, execPipes, execSeen, execAnswer, execFaults>>

ExecSteps == PollChild \/ CheckTimeout(FALSE) \/ TerminateTree \/ ReapTree \/ ReportResult
ExecNext ==
  \/ \E r \in ExecRequests : ExecRefused(r)
  \/ \E r \in ExecRequests, s, t, b \in BOOLEAN : Exec(r, s, t, b)
  \/ \E kind \in {"descendant", "escaped"} : ChildSpawns(kind) \/ KinExits(kind)
  \/ \E code \in {"0", "1"} : ExecChildExits(code)
  \/ \E p \in Pipes : PipeEnds(p)
  \/ CheckTimeout(TRUE) \/ ExecSteps \/ ReaperFinishes

-----------------------------------------------------------------------------
\* The variables keep their types.
ExecTypeOK ==
  /\ execPc \in {"idle", "polling", "waiting", "closing", "reaping", "reaping failed", "joining", "done"}
  /\ execChild \in {"none", "running", "0", "1", "killed"}
  /\ execKin \subseteq {"descendant", "escaped"}
  /\ execPipes \in [Pipes -> {"none", "open", "whole", "failed"}]
  /\ execSlot \in {"free", "held", "reaper"} /\ execFaults \in 0..MaxExecFaults

\* A call that reports success reports a child that exited with 0 by itself
\* before its limit, all of whose input and output went through, none of whose
\* tree is left, and whose reaper slot is free.  Whatever it reports, nobody
\* of the tree runs on without a slot, and the call never returns while it
\* still holds one.
ExecAnswerTrue ==
  /\ execAnswer.success =>
       /\ execChild = "0" /\ ~execAnswer.timed_out
       /\ \A p \in Pipes : execPipes[p] = "whole" \/ (p = "stdin" /\ ~execAsked.stdin)
       /\ "descendant" \notin execKin /\ execSlot = "free"
  /\ execSlot = "free" => execChild # "running" /\ "descendant" \notin execKin
  /\ execPc = "done" => execSlot # "held"

\* The caller and the pipe threads run and the clock advances; nothing is
\* assumed of the child and its kin.
ExecFairness ==
  /\ \A p \in Pipes : WF_execVars(PipeClosed /\ PipeEnds(p))
  /\ WF_execVars(ExecSteps) /\ SF_execVars(CheckTimeout(TRUE))

\* A call with a limit returns, whatever its child does, unless a process that
\* left the tree keeps the pipes open.
ExecReturns ==
  (execPc = "polling" /\ execAsked.timeout) ~> (execPc = "done" \/ "escaped" \in execKin)
=============================================================================
