----------------------------- MODULE AgentStatus -----------------------------
(***************************************************************************)
(* What the desktop says of one agent (Codex, or Claude Code): waiting,    *)
(* running, completed, failed or not detected.  Two sources feed it, each   *)
(* with a time stamp: snapshots of the processes of this machine            *)
(* (process_monitor.rs, AppService::update_process_snapshot) and the events *)
(* of the agent's hooks, here or on an SSH source                           *)
(* (AppService::refresh_history and merge_agent_history).  The later stamp  *)
(* wins.                                                                    *)
(*                                                                          *)
(* A turn of the worker takes the snapshot first, without the lock; then,   *)
(* under it, it takes events in, merges the newest, and applies the         *)
(* snapshot.                                                                *)
(* The cap of 128 processes is not reached, and no other agent gets the     *)
(* process id of one that exited since the last snapshot.                   *)
(***************************************************************************)
EXTENDS Integers

CONSTANTS
  Pids,                 \* process ids
  MaxStamp,             \* bounds the clock
  Ahead                 \* how far a stamp of a source may be ahead of the clock

ASSUME StatusAssumption ==
  MaxStamp \in Nat /\ Ahead \subseteq Nat

VARIABLES
  clock,
  processes,            \* the running processes of the agent
  previous,             \* ProcessMonitor::previous
  snapshot,             \* taken, and not yet applied
  underway,             \* events that were written and not taken in yet
  newest,               \* the newest event of the agent in the history
  status, lastSeen,     \* of AgentMonitorView
  late, newestStamp     \* ghost: was newest overtaken by a later stamp? that stamp

machineVars == <<clock, processes, underway>>
monitorVars == <<status, lastSeen>>
statusVars == <<machineVars, previous, snapshot, newest, monitorVars, late, newestStamp>>

Kinds == {"waiting", "completed", "error"}   \* a question, and the two outcomes

NoEvent == [shows |-> "not_detected", at |-> 0]
NotTaken == [at |-> 0, running |-> {}, gone |-> {}]

InitStatus ==
  /\ clock = 1
  /\ processes = {} /\ previous = {}
  /\ snapshot = NotTaken
  /\ underway = {}
  /\ newest = NoEvent
  /\ status = "not_detected" /\ lastSeen = 0
  /\ late = FALSE
  /\ newestStamp = 0

-------------------------------------------------------------------------------
(* The machine *)

Happens ==
  /\ clock < MaxStamp
  /\ clock' = clock + 1
  /\ UNCHANGED <<previous, snapshot, newest, monitorVars, late, newestStamp>>

StartOrExit(pid) ==
  /\ processes' = (processes \ {pid}) \union ({pid} \ processes)
  /\ UNCHANGED underway
  /\ Happens

\* A hook or a source stamps an event; it reaches the history later.
HookRuns ==
  /\ \E kind \in Kinds, ahead \in Ahead :
       underway' = underway \union {[shows |-> kind, at |-> clock + ahead]}
  /\ UNCHANGED processes
  /\ Happens

-------------------------------------------------------------------------------
(* The worker *)

\* ProcessMonitor::snapshot: what runs, and what ran when it looked last.
TakeSnapshot ==
  /\ snapshot = NotTaken
  /\ snapshot' = [at |-> clock, running |-> processes, gone |-> previous \ processes]
  /\ previous' = processes
  /\ UNCHANGED <<machineVars, newest, monitorVars, late, newestStamp>>

\* An event is taken in, by the poll or by the thread of its source.
TakeIn ==
  /\ \E e \in underway :
       /\ underway' = underway \ {e}
       /\ newest' = e
       /\ late' = (e.at <= newestStamp)
  /\ UNCHANGED <<clock, processes, previous, snapshot, monitorVars, newestStamp>>

\* merge_agent_history: the newest event counts if its stamp is later.
Merges == newest # NoEvent /\ newest.at > lastSeen

Merged ==
  [status |-> IF Merges THEN newest.shows ELSE status,
   lastSeen |-> IF Merges THEN newest.at ELSE lastSeen]

Later(stamp) == IF stamp > newestStamp THEN stamp ELSE newestStamp

\* Faulty variant: a question goes like any other status.
Observed_Always(before) ==
  [status |-> IF snapshot.running # {} THEN "running" ELSE "not_detected",
   lastSeen |-> snapshot.at]

\* update_process_snapshot: processes of the agent, or their end, make its
\* status, but a question stays.
Observed(before) ==
  IF snapshot.running = {} /\ snapshot.gone = {} THEN before
  ELSE [status |-> CASE before.status = "waiting" -> "waiting"
                     [] before.status # "waiting" /\ snapshot.running # {} -> "running"
                     [] OTHER -> "not_detected",
        lastSeen |-> snapshot.at]

Show(view) == status' = view.status /\ lastSeen' = view.lastSeen

\* A poll without a snapshot, or a command that reads the history again.
Refresh ==
  /\ snapshot = NotTaken
  /\ Merges
  /\ Show(Merged)
  /\ newestStamp' = Later(newest.at)
  /\ UNCHANGED <<machineVars, previous, snapshot, newest, late>>

\* The turn of the worker that has a snapshot: poll_local_pipeline, then
\* update_process_snapshot.
Apply ==
  /\ snapshot # NotTaken
  /\ Show(Observed(Merged))
  /\ newestStamp' = IF Merges /\ newest.at > snapshot.at THEN Later(newest.at) ELSE Later(snapshot.at)
  /\ snapshot' = NotTaken
  /\ UNCHANGED <<machineVars, previous, newest, late>>

ClearHistory ==
  /\ newest # NoEvent
  /\ newest' = NoEvent
  /\ late' = FALSE
  /\ UNCHANGED <<machineVars, previous, snapshot, monitorVars, newestStamp>>

\* The application ends and starts again.
Restart ==
  /\ previous' = {}
  /\ snapshot' = NotTaken
  /\ status' = newest.shows /\ lastSeen' = newest.at
  /\ late' = FALSE
  /\ newestStamp' = newest.at
  /\ UNCHANGED <<machineVars, newest>>

NextStatus ==
  \/ \E pid \in Pids : StartOrExit(pid)
  \/ HookRuns \/ TakeSnapshot \/ TakeIn \/ Refresh \/ Apply \/ ClearHistory \/ Restart

Status == InitStatus /\ [][NextStatus]_statusVars

-------------------------------------------------------------------------------

\* After a turn with a snapshot, the agent is shown as waiting if and only if its
\* newest event is a question, unless that event was overtaken: it came in after
\* a later stamp had been shown.  And it is shown as running only while the last
\* snapshot had a process of it (merge_agent_history, update_process_snapshot).
StatusFollows ==
  [][snapshot # NotTaken /\ snapshot' = NotTaken /\ newest' = newest /\ previous' = previous =>
       /\ newest # NoEvent /\ ~late => (status' = "waiting" <=> newest.shows = "waiting")
       /\ status' = "running" => snapshot.running # {}]_statusVars
===============================================================================
