------------------------------- MODULE ViewFeed -------------------------------
(***************************************************************************)
(* How the state of AppService reaches the window and the tray: views are   *)
(* taken under its lock and sent after it was released, by the worker       *)
(* (worker.rs) and by every command (commands.rs); a command also returns   *)
(* one.  The window (App.tsx) numbers what it shows, and ignores a response *)
(* if something else was shown since the command was called.                *)
(*                                                                          *)
(* Versions count the changes of the state.                                 *)
(***************************************************************************)
EXTENDS Integers, Sequences

CONSTANTS
  Calls,                \* calls of commands that may be under way at once
  MaxVersion            \* bounds the changes

ASSUME FeedAssumption == MaxVersion \in Nat

VARIABLES
  version,              \* of the state
  workerView,           \* taken by the worker and not yet sent, or 0
  calls,                \* the calls: where each is, its view, and whether the
                        \* generation of the window is still the one it started with
  pushes,               \* events on their way to the window
  traySyncs,            \* closures queued for the main thread (at most one counts)
  inWindow,             \* view of App
  tray                  \* what the tray presents

feedVars == <<version, workerView, calls, pushes, traySyncs, inWindow, tray>>

NoCall == [at |-> "none", view |-> 0, current |-> FALSE]

InitFeed ==
  /\ version = 1
  /\ workerView = 0
  /\ calls = [c \in Calls |-> NoCall]
  /\ pushes = << >>
  /\ traySyncs = FALSE
  /\ inWindow = 0
  /\ tray = 1

Change == version < MaxVersion /\ version' = version + 1

-------------------------------------------------------------------------------
(* The worker *)

\* A turn that changed something; one that did not sends nothing.
WorkerPolls ==
  /\ workerView = 0
  /\ Change
  /\ workerView' = version'
  /\ UNCHANGED <<calls, pushes, traySyncs, inWindow, tray>>

WorkerSends ==
  /\ workerView # 0
  /\ traySyncs' = TRUE
  /\ pushes' = Append(pushes, workerView)
  /\ workerView' = 0
  /\ UNCHANGED <<version, calls, inWindow, tray>>

-------------------------------------------------------------------------------
(* The commands *)

\* load and runActionResult: the generation is kept before the call.
Call(c) ==
  /\ calls[c].at = "none"
  /\ calls' = [calls EXCEPT ![c] = [at |-> "called", view |-> 0, current |-> TRUE]]
  /\ UNCHANGED <<version, workerView, pushes, traySyncs, inWindow, tray>>

\* get_app_view and send_test_notification send nothing.
Read(c) ==
  /\ calls[c].at = "called"
  /\ calls' = [calls EXCEPT
       ![c] = [at |-> "answered", view |-> version, current |-> calls[c].current]]
  /\ UNCHANGED <<version, workerView, pushes, traySyncs, inWindow, tray>>

\* state.lock()?.command()?
Perform(c) ==
  /\ calls[c].at = "called"
  /\ Change
  /\ calls' = [calls EXCEPT
       ![c] = [at |-> "performed", view |-> version', current |-> calls[c].current]]
  /\ UNCHANGED <<workerView, pushes, traySyncs, inWindow, tray>>

\* configure_agents sends while it has the lock.
Configure(c) ==
  /\ calls[c].at = "called"
  /\ Change
  /\ calls' = [calls EXCEPT
       ![c] = [at |-> "answered", view |-> version', current |-> calls[c].current]]
  /\ pushes' = Append(pushes, version')
  /\ traySyncs' = TRUE
  /\ UNCHANGED <<workerView, inWindow, tray>>

\* publish, and the command returns.
Publish(c) ==
  /\ calls[c].at = "performed"
  /\ calls' = [calls EXCEPT
       ![c] = [at |-> "answered", view |-> calls[c].view, current |-> calls[c].current]]
  /\ pushes' = Append(pushes, calls[c].view)
  /\ traySyncs' = TRUE
  /\ UNCHANGED <<version, workerView, inWindow, tray>>

-------------------------------------------------------------------------------
(* The window and the tray *)

\* applyView: the generation moves on, for those calls that are still open.
ApplyView(view, open) ==
  /\ inWindow' = view
  /\ calls' = [c \in Calls |-> [open[c] EXCEPT !.current = FALSE]]

Push ==
  /\ pushes # << >>
  /\ ApplyView(Head(pushes), calls)
  /\ pushes' = Tail(pushes)
  /\ UNCHANGED <<version, workerView, traySyncs, tray>>

\* Faulty variant: the response is shown whatever was shown since.
Answer_Always(c) ==
  /\ calls[c].at = "answered"
  /\ ApplyView(calls[c].view, [calls EXCEPT ![c] = NoCall])
  /\ UNCHANGED <<version, workerView, pushes, traySyncs, tray>>

\* The response is here.
Answer(c) ==
  /\ calls[c].at = "answered"
  /\ LET open == [calls EXCEPT ![c] = NoCall]
     IN  IF calls[c].current
         THEN ApplyView(calls[c].view, open)
         ELSE calls' = open /\ UNCHANGED inWindow
  /\ UNCHANGED <<version, workerView, pushes, traySyncs, tray>>

\* An error shows no view.
Refuse(c) ==
  /\ calls[c].at = "called"
  /\ calls' = [calls EXCEPT ![c] = NoCall]
  /\ UNCHANGED <<version, workerView, pushes, traySyncs, inWindow, tray>>

\* The closure of sync_from_state: it reads the state, or the lock is held and it
\* does nothing.
SyncTray ==
  /\ traySyncs
  /\ traySyncs' = FALSE
  /\ tray' \in {tray, version}
  /\ UNCHANGED <<version, workerView, calls, pushes, inWindow>>

NextFeed ==
  \/ WorkerPolls \/ WorkerSends \/ Push \/ SyncTray
  \/ \E c \in Calls :
       Call(c) \/ Read(c) \/ Perform(c) \/ Configure(c) \/ Publish(c) \/ Answer(c) \/ Refuse(c)

Feed == InitFeed /\ [][NextFeed]_feedVars

-------------------------------------------------------------------------------

\* The response of a command never replaces a newer view in the window, and the
\* tray, which reads the state itself, never goes back (App.tsx applyView,
\* sync_from_state).
AnswersAreNotOlder ==
  [][/\ pushes' = pushes /\ inWindow' # inWindow => inWindow' > inWindow
     /\ tray' >= tray]_feedVars

\* No view in the window is replaced by an older one.  This fails: two threads
\* that took their views in one order may send them in the other.
NewerIsKept == [][inWindow' >= inWindow]_feedVars
===============================================================================
