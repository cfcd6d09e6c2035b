---------------------------- MODULE BoundedProcess ----------------------------
(***************************************************************************)
(* One process that the desktop runs and waits for, for a bounded time:     *)
(*   probe       ssh for a connection test, or for the agents of a source   *)
(*               (run_bounded_with_stop of ssh_connection_test.rs)          *)
(*   preflight   ssh -G (run_preflight of remote_worker.rs)                 *)
(*   version     aizu, codex or claude (cli_diagnostic.rs and               *)
(*               process_monitor.rs)                                        *)
(*   activation  open, osascript or tmux (terminal_activation.rs)           *)
(* The process writes into a pipe, which a process it started may hold too; *)
(* a thread reads it.  It may ignore SIGTERM.                               *)
(***************************************************************************)
EXTENDS Integers

CONSTANTS
  Limit,                \* the output that is kept
  PipeCapacity,         \* of the pipe
  MaxOutput             \* bounds the output

ASSUME ProcessAssumption ==
  Limit \in Nat \ {0} /\ PipeCapacity \in Nat \ {0} /\ MaxOutput \in Nat

VARIABLES
  runner,               \* one of Runners
  child,                \* "running", "exited" or "reaped"
  code,                 \* what it exits with: "ok" or "bad"
  holders,              \* who has the writing end of the pipe
  written, unread,      \* how much was written; what is in the pipe
  kept, over,           \* the output that was captured; was there more
  reader,               \* "reading" or "done"
  place,                \* where the caller is
  verdict,              \* what it will answer
  judged                \* how much of the output a failure is judged by

outputVars == <<written, unread, kept, over, reader>>
processVars == <<runner, child, code, holders, outputVars, place, verdict, judged>>

Runners == {"probe", "preflight", "version", "activation"}

\* They may be stopped, and give the process STOP_GRACE after a SIGTERM.
Polite == runner \in {"probe", "preflight"}

InitProcess ==
  /\ runner \in Runners
  /\ child = "running"
  /\ code = "none"
  /\ holders \in IF runner = "activation" THEN {{}} ELSE {{"child"}, {"child", "descendant"}}
  /\ written = 0 /\ unread = 0 /\ kept = 0 /\ over = FALSE
  /\ reader = IF runner = "activation" THEN "done" ELSE "reading"
  /\ place = "polling"
  /\ verdict = "none"
  /\ judged = 0

-------------------------------------------------------------------------------
(* The process, and the thread that reads its output *)

WriteOutput ==
  /\ holders # {} /\ written < MaxOutput /\ unread < PipeCapacity
  /\ written' = written + 1 /\ unread' = unread + 1
  /\ UNCHANGED <<runner, child, code, holders, kept, over, reader, place, verdict, judged>>

ChildExits ==
  /\ child = "running"
  /\ child' = "exited"
  /\ code' \in {"ok", "bad"}
  /\ holders' = holders \ {"child"}
  /\ UNCHANGED <<runner, outputVars, place, verdict, judged>>

DescendantExits ==
  /\ "descendant" \in holders
  /\ holders' = holders \ {"descendant"}
  /\ UNCHANGED <<runner, child, code, outputVars, place, verdict, judged>>

\* capture_thread, capture_bytes: what is over the limit is read and dropped;
\* read_to_end of a reader that takes one byte more than the limit ends there, and
\* the pipe breaks.
ReadOutput ==
  /\ reader = "reading" /\ unread > 0
  /\ unread' = unread - 1
  /\ kept' = IF kept < Limit THEN kept + 1 ELSE kept
  /\ over' = (over \/ kept = Limit)
  /\ reader' = IF runner = "version" /\ over' THEN "done" ELSE "reading"
  /\ holders' = IF reader' = "done" THEN {} ELSE holders
  /\ UNCHANGED <<runner, child, code, written, place, verdict, judged>>

ReadEnd ==
  /\ reader = "reading" /\ unread = 0 /\ holders = {}
  /\ reader' = "done"
  /\ UNCHANGED <<runner, child, code, holders, written, unread, kept, over, place, verdict, judged>>

-------------------------------------------------------------------------------
(* The caller *)

Ends(v) == verdict' = v /\ UNCHANGED <<runner, code, outputVars>>

\* The stop flag is seen.
SeeStop ==
  /\ place = "polling" /\ Polite
  /\ place' = "terminating"
  /\ Ends("stopped")
  /\ UNCHANGED <<child, holders, judged>>

\* The time is up.
TimeOut ==
  /\ place = "polling"
  /\ place' = IF Polite THEN "terminating" ELSE "killing"
  /\ Ends("timeout")
  /\ UNCHANGED <<child, holders, judged>>

\* try_wait: it has exited.  run_preflight judges a failure by what was captured
\* until now, the others by what is there after the join.
SeeExit ==
  /\ place = "polling" /\ child = "exited"
  /\ child' = "reaped"
  /\ place' = "joining"
  /\ judged' = IF runner = "preflight" THEN kept ELSE judged
  /\ Ends(code)
  /\ UNCHANGED holders

\* try_wait fails: the versions are given up with the process and the thread, and
\* the others stop the process.
WaitFails ==
  /\ place = "polling"
  /\ place' = CASE Polite -> "terminating" [] runner = "version" -> "done" [] OTHER -> "killing"
  /\ Ends("wait")
  /\ UNCHANGED <<child, holders, judged>>

\* terminate_child: it has exited, before the SIGTERM or in the time of grace.
SeeTermination ==
  /\ place = "terminating" /\ child = "exited"
  /\ child' = "reaped"
  /\ place' = "joining"
  /\ UNCHANGED <<runner, code, holders, outputVars, verdict, judged>>

\* It has not, within STOP_GRACE.
GraceEnds ==
  /\ place = "terminating"
  /\ place' = "killing"
  /\ UNCHANGED <<runner, child, code, holders, outputVars, verdict, judged>>

\* kill and wait.
Kill ==
  /\ place = "killing"
  /\ child' = "reaped"
  /\ holders' = holders \ {"child"}
  /\ place' = "joining"
  /\ UNCHANGED <<runner, code, outputVars, verdict, judged>>

\* Faulty variant: the output is taken when the process has exited.
Join_Early ==
  /\ place = "joining"
  /\ place' = "done"
  /\ judged' = IF runner = "preflight" THEN judged ELSE kept
  /\ UNCHANGED <<runner, child, code, holders, outputVars, verdict>>

\* The thread is joined, and the answer made.
Join ==
  /\ place = "joining" /\ reader = "done"
  /\ place' = "done"
  /\ judged' = IF runner = "preflight" THEN judged ELSE kept
  /\ UNCHANGED <<runner, child, code, holders, outputVars, verdict>>

Polls == SeeStop \/ TimeOut \/ SeeExit \/ WaitFails

NextProcess ==
  \/ WriteOutput \/ ChildExits \/ DescendantExits \/ ReadOutput \/ ReadEnd
  \/ Polls \/ SeeTermination \/ GraceEnds \/ Kill \/ Join

Process == InitProcess /\ [][NextProcess]_processVars

\* The threads run, and time passes.  A process need not exit, nor write.
ProcessFairness ==
  /\ WF_processVars(ReadOutput) /\ WF_processVars(ReadEnd)
  /\ WF_processVars(Polls) /\ WF_processVars(SeeTermination \/ GraceEnds)
  /\ WF_processVars(Kill) /\ WF_processVars(Join)

FairProcess == Process /\ ProcessFairness

-------------------------------------------------------------------------------

\* An answer by the exit status has the whole output, or says that it was cut, and
\* no answer leaves a process behind, unless it cannot be waited for (run_bounded_with_stop,
\* run_preflight, inspect_path, inspect_version).
AnswerIsWhole ==
  /\ verdict \in {"ok", "bad"} =>
       /\ runner # "activation" /\ ~over => kept = written
       /\ over <=> written > Limit
       /\ judged = kept \/ runner = "preflight"
  /\ child = "reaped" \/ (runner = "version" /\ verdict = "wait")

\* The caller is back after a while, even when the process ignores SIGTERM and never
\* stops, if no other process keeps the pipe (STOP_GRACE, the timeouts).
CallEnds == <>[](holders \subseteq {"child"}) => <>(place = "done")

\* Both: every call of a command has an answer, and a whole one.
CallsAnswer == [](place = "done" => AnswerIsWhole) /\ CallEnds
===============================================================================
