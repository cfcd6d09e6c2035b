------------------------- MODULE LocalPipeline_proofs -------------------------
(***************************************************************************)
(* Proofs about LocalPipeline for any number of identities, events,        *)
(* attempts, notifications at once, faults and changes of the spool's      *)
(* identity: a notification is shown once, and once more for every fault   *)
(* at most; no entry is settled by the outcome of a batch it was not in;   *)
(* and the local reader writes off only what the spool no longer has.      *)
(*                                                                         *)
(* The argument.  The store keeps the inductive invariant of its own       *)
(* proofs.  For the reader, a snapshot taken under an identity bounds what *)
(* can still be stored under it (Snapshot).  For the notifications, an     *)
(* entry that could be shown again, which is one that is unsettled or that *)
(* a permission reopens, was shown no more often than there were faults,   *)
(* unless the batch on its way has just shown it (Counted); and that entry *)
(* is still in the window, so that the poll settles it before it ends      *)
(* (Batch).                                                                *)
(*                                                                         *)
(* Before it, what the desktop shows beside its notifications.  The status *)
(* of an agent (AgentStatus): a time that was shown is at most the largest *)
(* time stamp of an event, and who is shown as running runs, or is gone in *)
(* the snapshot that is being applied (StatusInd).  The views (ViewFeed):  *)
(* none is ahead of the state, and a call whose generation is the window's *)
(* has a view no older than what the window shows (FeedInd).               *)
(***************************************************************************)
EXTENDS LocalPipeline, DesktopStore_proofs, AgentStatus, ViewFeed, SequenceTheorems, WellFoundedInduction

-------------------------------------------------------------------------------
(* AgentStatus *)

Statuses == Kinds \union {"running", "not_detected"}

Events == [shows : Kinds \union {"not_detected"}, at : Nat]

\* The newest event, unless it came late, is what is shown from the time it counts; and
\* what is shown as running was so in the last snapshot, or is gone in this one.
StatusInd ==
  /\ clock \in Nat /\ clock > 0 /\ underway \subseteq Events /\ newest \in Events
  /\ snapshot.at \in Nat /\ status \in Statuses /\ lastSeen \in Nat /\ newestStamp \in Nat
  /\ lastSeen <= newestStamp
  /\ newest # NoEvent /\ ~late /\ newest.at <= lastSeen => (status = "waiting" <=> newest.shows = "waiting")
  /\ snapshot # NotTaken => previous = snapshot.running
  /\ status = "running" =>
       IF snapshot = NotTaken THEN previous # {} ELSE snapshot.running # {} \/ snapshot.gone # {}

\* The machine goes on; nobody looks.
LEMMA MachineKeeps ==
  ASSUME StatusAssumption, StatusInd, (\E pid \in Pids : StartOrExit(pid)) \/ HookRuns
  PROVE  StatusInd'
<1>1. /\ clock' = clock + 1 /\ UNCHANGED <<previous, snapshot, newest, monitorVars, late, newestStamp>>
  BY DEF StartOrExit, HookRuns, Happens
<1>2. underway' \subseteq Events
  <2>1. CASE HookRuns
    <3>1. PICK kind \in Kinds, ahead \in Ahead : underway' = underway \union {[shows |-> kind, at |-> clock + ahead]}
      BY <2>1 DEF HookRuns
    <3>2. clock + ahead \in Nat
      BY DEF StatusInd, StatusAssumption
    <3> QED
      BY <3>1, <3>2 DEF StatusInd, Events
  <2>2. CASE UNCHANGED underway
    BY <2>2 DEF StatusInd
  <2> QED
    BY <2>1, <2>2 DEF StartOrExit
<1>3. clock' \in Nat /\ clock' > 0
  BY <1>1 DEF StatusInd
<1> QED
  BY <1>1, <1>2, <1>3 DEF StatusInd, monitorVars

\* A snapshot has what ran before, running or gone.
LEMMA SnapshotKeeps ==
  ASSUME StatusInd, TakeSnapshot
  PROVE  StatusInd'
<1>1. /\ snapshot = NotTaken /\ previous' = processes
      /\ snapshot' = [at |-> clock, running |-> processes, gone |-> previous \ processes]
      /\ UNCHANGED <<clock, underway, newest, status, lastSeen, late, newestStamp>>
  BY DEF TakeSnapshot, machineVars, monitorVars
<1>2. /\ snapshot' # NotTaken /\ snapshot'.at \in Nat /\ snapshot'.running = processes
      /\ snapshot'.gone = previous \ processes
  BY <1>1 DEF StatusInd, NotTaken
<1> QED
  BY <1>1, <1>2 DEF StatusInd

\* An event is either later than all that was shown, or late.
LEMMA TakeInKeeps ==
  ASSUME StatusInd, TakeIn
  PROVE  StatusInd'
<1>1. PICK e \in underway :
        underway' = underway \ {e} /\ newest' = e /\ late' = (e.at <= newestStamp)
  BY DEF TakeIn
<1>2. UNCHANGED <<clock, processes, previous, snapshot, status, lastSeen, newestStamp>>
  BY DEF TakeIn, monitorVars
<1>3. e \in Events /\ e.at \in Nat
  BY DEF StatusInd, Events
<1>4. ~late' => ~(newest'.at <= lastSeen')
  <2>1. ~late' => ~(e.at <= newestStamp)
    BY <1>1
  <2>2. lastSeen' = lastSeen /\ lastSeen \in Nat /\ newestStamp \in Nat /\ lastSeen <= newestStamp
    BY <1>2 DEF StatusInd
  <2> QED
    BY <1>1, <1>3, <2>1, <2>2
<1> QED
  BY <1>1, <1>2, <1>3, <1>4 DEF StatusInd

\* What the newest event makes of a status.
LEMMA MergedIs ==
  ASSUME StatusInd
  PROVE  /\ Merged.status \in Statuses /\ Merged.lastSeen \in Nat
         /\ newest # NoEvent /\ ~late => (Merged.status = "waiting" <=> newest.shows = "waiting")
         /\ Merged.status = "running" => status = "running"
         /\ Merges => Merged.status = newest.shows /\ Merged.lastSeen = newest.at
         /\ ~Merges => Merged.status = status /\ Merged.lastSeen = lastSeen
<1>1. newest.shows \in Kinds \union {"not_detected"} /\ newest.at \in Nat /\ lastSeen \in Nat
  BY DEF StatusInd, Events
<1>2. CASE Merges
  BY <1>1, <1>2 DEF Merged, Statuses, Kinds
<1>3. CASE ~Merges
  <2>1. newest # NoEvent => newest.at <= lastSeen
    BY <1>1, <1>3 DEF Merges
  <2> QED
    BY <1>1, <1>3, <2>1 DEF Merged, StatusInd
<1> QED
  BY <1>2, <1>3

\* A poll shows what came in, without a snapshot.
LEMMA RefreshKeeps ==
  ASSUME StatusInd, Refresh
  PROVE  StatusInd'
<1>1. /\ Merges /\ snapshot = NotTaken /\ status' = newest.shows /\ lastSeen' = newest.at
      /\ newestStamp' = Later(newest.at)
      /\ UNCHANGED <<clock, underway, previous, snapshot, newest, late>>
  BY MergedIs DEF Refresh, Show, machineVars
<1>2. newest.shows \in Statuses \ {"running"} /\ newest.at \in Nat
  BY DEF StatusInd, Events, Statuses, Kinds
<1>3. newestStamp' \in Nat /\ lastSeen' <= newestStamp'
  BY <1>1, <1>2 DEF StatusInd, Later
<1> QED
  BY <1>1, <1>2, <1>3 DEF StatusInd

\* What a turn with a snapshot shows.
LEMMA AppliedIs ==
  ASSUME StatusInd, Apply
  PROVE  /\ StatusInd'
         /\ newest # NoEvent /\ ~late => (status' = "waiting" <=> newest.shows = "waiting")
         /\ status' = "running" => snapshot.running # {}
<1> DEFINE view == Observed(Merged)
<1>1. /\ snapshot # NotTaken /\ snapshot' = NotTaken /\ status' = view.status /\ lastSeen' = view.lastSeen
      /\ UNCHANGED <<clock, underway, previous, newest, late>>
      /\ newestStamp' = IF Merges /\ newest.at > snapshot.at THEN Later(newest.at) ELSE Later(snapshot.at)
  BY DEF Apply, Show, machineVars
<1>2. snapshot.at \in Nat /\ newest.at \in Nat /\ lastSeen \in Nat /\ newestStamp \in Nat /\ lastSeen <= newestStamp
  BY DEF StatusInd, Events
<1>3. /\ view.status \in Statuses
      /\ view.status = "waiting" <=> Merged.status = "waiting"
      /\ view.status = "running" => snapshot.running # {}
      /\ view.lastSeen \in {Merged.lastSeen, snapshot.at}
  <2>1. CASE snapshot.running = {} /\ snapshot.gone = {}
    <3>1. view = Merged
      BY <2>1 DEF Observed
    <3>2. status # "running"
      BY <1>1, <2>1 DEF StatusInd
    <3> QED
      BY <3>1, <3>2, MergedIs
  <2>2. CASE ~(snapshot.running = {} /\ snapshot.gone = {})
    <3>1. /\ view.lastSeen = snapshot.at
          /\ view.status = CASE Merged.status = "waiting" -> "waiting"
                             [] Merged.status # "waiting" /\ snapshot.running # {} -> "running"
                             [] OTHER -> "not_detected"
      BY <2>2 DEF Observed
    <3>2. /\ Merged.status = "waiting" => view.status = "waiting"
          /\ Merged.status # "waiting" /\ snapshot.running # {} => view.status = "running"
          /\ Merged.status # "waiting" /\ snapshot.running = {} => view.status = "not_detected"
      BY <3>1
    <3> QED
      BY <3>1, <3>2 DEF Statuses, Kinds
  <2> QED
    BY <2>1, <2>2
<1> HIDE DEF view
<1>4. newest # NoEvent /\ ~late => (status' = "waiting" <=> newest.shows = "waiting")
  BY <1>1, <1>3, MergedIs
<1>5. lastSeen' \in Nat /\ newestStamp' \in Nat /\ lastSeen' <= newestStamp'
  <2>1. lastSeen' \in {lastSeen, newest.at, snapshot.at} /\ (lastSeen' = newest.at => Merges \/ newest.at \in {lastSeen, snapshot.at})
    BY <1>1, <1>3, MergedIs
  <2> QED
    BY <1>1, <1>2, <2>1 DEF Later
<1>6. NotTaken.at = 0
  BY DEF NotTaken
<1>7. status' = "running" => previous' # {}
  BY <1>1, <1>3 DEF StatusInd
<1> QED
  BY <1>1, <1>3, <1>4, <1>5, <1>6, <1>7 DEF StatusInd

\* After a start, the newest event is what is shown.
LEMMA RestartKeeps ==
  ASSUME StatusInd, Restart
  PROVE  StatusInd' /\ status' = newest.shows /\ status' # "running"
<1>1. /\ previous' = {} /\ snapshot' = NotTaken /\ status' = newest.shows /\ lastSeen' = newest.at
      /\ newestStamp' = newest.at /\ UNCHANGED <<clock, underway, newest>>
  BY DEF Restart, machineVars
<1>2. newest.shows \in Statuses \ {"running"} /\ newest.at \in Nat /\ NotTaken.at = 0
  BY DEF StatusInd, Events, Statuses, Kinds, NotTaken
<1> QED
  BY <1>1, <1>2 DEF StatusInd

\* Every step.
LEMMA StatusStepKeeps ==
  ASSUME StatusAssumption, StatusInd, [NextStatus]_statusVars
  PROVE  StatusInd'
<1>1. CASE UNCHANGED statusVars
  BY <1>1 DEF statusVars, machineVars, monitorVars, StatusInd
<1>2. CASE ClearHistory
  <2>1. /\ newest' = NoEvent /\ UNCHANGED <<clock, underway, previous, snapshot, status, lastSeen, newestStamp>>
    BY <1>2 DEF ClearHistory, machineVars, monitorVars
  <2>2. NoEvent \in Events
    BY DEF NoEvent, Events
  <2> QED
    BY <2>1, <2>2 DEF StatusInd
<1> QED
  BY <1>1, <1>2, MachineKeeps, SnapshotKeeps, TakeInKeeps, RefreshKeeps, AppliedIs, RestartKeeps DEF NextStatus

\* What is shown of an agent follows the newest event that was not late, and whoever is
\* shown as running was seen to run (state.rs apply_agent_event, update_agent_processes).
THEOREM StatusIsTrue == Status => StatusFollows
<1>1. InitStatus => StatusInd
  BY DEF InitStatus, StatusInd, NoEvent, NotTaken, Events, Statuses, Kinds
<1>2. StatusInd /\ [NextStatus]_statusVars => StatusInd'
  BY StatusStepKeeps, StatusAssumption
<1>3. ASSUME StatusInd, [NextStatus]_statusVars
      PROVE  [snapshot # NotTaken /\ snapshot' = NotTaken /\ newest' = newest /\ previous' = previous =>
                /\ newest # NoEvent /\ ~late => (status' = "waiting" <=> newest.shows = "waiting")
                /\ status' = "running" => snapshot.running # {}]_statusVars
  <2> SUFFICES ASSUME NextStatus, snapshot # NotTaken, snapshot' = NotTaken, newest' = newest
               PROVE  /\ newest # NoEvent /\ ~late => (status' = "waiting" <=> newest.shows = "waiting")
                      /\ status' = "running" => snapshot.running # {}
    BY <1>3
  <2>1. Apply \/ Restart
    <3>1. snapshot' # snapshot
      OBVIOUS
    <3>2. ASSUME (\E pid \in Pids : StartOrExit(pid)) \/ HookRuns \/ TakeSnapshot \/ TakeIn \/ Refresh \/ ClearHistory
          PROVE  FALSE
      BY <3>1, <3>2 DEF StartOrExit, HookRuns, Happens, TakeSnapshot, TakeIn, Refresh, ClearHistory
    <3> QED
      BY <3>2 DEF NextStatus
  <2>2. CASE Apply
    BY <1>3, <2>2, AppliedIs
  <2>3. CASE Restart
    BY <1>3, <2>3, RestartKeeps
  <2> QED
    BY <2>1, <2>2, <2>3
<1> QED
  BY <1>1, <1>2, <1>3, PTL DEF Status, StatusFollows

-------------------------------------------------------------------------------
(* ViewFeed *)

Slots == [at : {"none", "called", "performed", "answered"}, view : Nat, current : BOOLEAN]

\* No view is ahead of the state, and the view of a call whose generation is still the
\* window's is no older than what the window shows.
FeedInd ==
  /\ version \in Nat /\ workerView \in 0..version
  /\ calls \in [Calls -> Slots]
  /\ pushes \in Seq(0..version) /\ traySyncs \in BOOLEAN
  /\ inWindow \in 0..version /\ tray \in 0..version
  /\ \A c \in Calls :
       /\ calls[c].view <= version
       /\ calls[c].at \in {"performed", "answered"} /\ calls[c].current => calls[c].view >= inWindow

\* What was behind the state stays behind it.
LEMMA ViewsStay ==
  ASSUME FeedInd, NEW next \in Nat, next >= version
  PROVE  /\ workerView \in 0..next /\ pushes \in Seq(0..next) /\ inWindow \in 0..next /\ tray \in 0..next
         /\ \A c \in Calls : calls[c].view \in Nat /\ calls[c].view <= next
<1>1. 0..version \subseteq 0..next
  BY DEF FeedInd
<1>2. pushes \in Seq(0..next)
  <2>1. pushes \in Seq(0..version)
    BY DEF FeedInd
  <2>2. /\ Len(pushes) \in Nat /\ DOMAIN pushes = 1..Len(pushes)
        /\ \A i \in 1..Len(pushes) : pushes[i] \in 0..version
    BY <2>1, LenProperties, ElementOfSeq
  <2> QED
    BY <1>1, <2>1, <2>2, IsASeq
<1>3. version \in Nat /\ workerView \in 0..version /\ inWindow \in 0..version /\ tray \in 0..version
  BY DEF FeedInd
<1>4. ASSUME NEW c \in Calls PROVE calls[c].view \in Nat /\ calls[c].view <= next
  <2>1. calls[c] \in Slots /\ calls[c].view <= version
    BY DEF FeedInd
  <2>2. calls[c].view \in Nat
    BY <2>1 DEF Slots
  <2> QED
    BY <1>3, <2>1, <2>2
<1> QED
  BY <1>1, <1>2, <1>3, <1>4

\* One call moves on.
LEMMA CallKeeps ==
  ASSUME FeedInd, NEW c \in Calls, NEW call \in Slots, calls' = [calls EXCEPT ![c] = call],
         NEW next \in Nat, next >= version, call.view <= next,
         call.at \in {"performed", "answered"} /\ call.current => call.view >= inWindow
  PROVE  /\ calls' \in [Calls -> Slots]
         /\ \A d \in Calls :
              /\ calls'[d].view <= next
              /\ calls'[d].at \in {"performed", "answered"} /\ calls'[d].current => calls'[d].view >= inWindow
<1>1. calls \in [Calls -> Slots]
  BY DEF FeedInd
<1>2. calls'[c] = call /\ \A d \in Calls : d # c => calls'[d] = calls[d]
  BY <1>1
<1>3. \A d \in Calls : calls[d].view <= next
  BY ViewsStay
<1>4. calls' \in [Calls -> Slots]
  BY <1>1
<1> QED
  BY <1>2, <1>3, <1>4 DEF FeedInd

\* What a call is made of.
LEMMA CallIs ==
  ASSUME FeedInd, NEW c \in Calls
  PROVE  /\ calls[c].current \in BOOLEAN /\ calls[c].view \in Nat
         /\ calls[c] = [at |-> calls[c].at, view |-> calls[c].view, current |-> calls[c].current]
<1>1. calls[c] \in Slots
  BY DEF FeedInd
<1> QED
  BY <1>1 DEF Slots

\* What the worker and the commands take of the state is the latest.
LEMMA TakesKeep ==
  ASSUME FeedInd,
         \/ WorkerPolls \/ WorkerSends
         \/ \E c \in Calls : Call(c) \/ Read(c) \/ Perform(c) \/ Configure(c) \/ Publish(c) \/ Refuse(c)
  PROVE  FeedInd' /\ inWindow' = inWindow /\ tray' = tray
<1>1. version' \in Nat /\ version' >= version /\ version' \in 0..version' /\ inWindow' = inWindow /\ tray' = tray
  <2>1. version' = version \/ version' = version + 1
    BY DEF WorkerPolls, WorkerSends, Call, Read, Perform, Configure, Publish, Refuse, Change
  <2>2. inWindow' = inWindow /\ tray' = tray
    BY DEF WorkerPolls, WorkerSends, Call, Read, Perform, Configure, Publish, Refuse
  <2>3. version \in Nat
    BY DEF FeedInd
  <2> QED
    BY <2>1, <2>2, <2>3
<1>2. /\ workerView \in 0..version' /\ pushes \in Seq(0..version') /\ inWindow \in 0..version' /\ tray \in 0..version'
      /\ \A c \in Calls : calls[c].view \in Nat /\ calls[c].view <= version'
  BY <1>1, ViewsStay
<1>3. workerView' \in 0..version'
  <2>1. workerView' \in {workerView, version', 0}
    BY DEF WorkerPolls, WorkerSends, Call, Read, Perform, Configure, Publish, Refuse
  <2> QED
    BY <1>1, <1>2, <2>1
<1>4. pushes' \in Seq(0..version')
  <2>1. CASE \E n \in 0..version' : pushes' = Append(pushes, n)
    BY <1>2, <2>1, AppendProperties
  <2>2. CASE pushes' = pushes
    BY <1>2, <2>2
  <2>3. \A c \in Calls : calls[c].view \in 0..version'
    BY <1>1, <1>2
  <2> QED
    BY <1>1, <1>2, <2>1, <2>2, <2>3
       DEF WorkerPolls, WorkerSends, Call, Read, Perform, Configure, Publish, Refuse
<1>5. traySyncs' \in BOOLEAN
  BY DEF FeedInd, WorkerPolls, WorkerSends, Call, Read, Perform, Configure, Publish, Refuse
<1>6. /\ calls' \in [Calls -> Slots]
      /\ \A c \in Calls :
           /\ calls'[c].view <= version'
           /\ calls'[c].at \in {"performed", "answered"} /\ calls'[c].current => calls'[c].view >= inWindow
  <2>1. CASE calls' = calls
    BY <1>2, <2>1 DEF FeedInd
  <2>2. CASE \E c \in Calls : Call(c) \/ Read(c) \/ Perform(c) \/ Configure(c) \/ Publish(c) \/ Refuse(c)
    <3>1. PICK c \in Calls : Call(c) \/ Read(c) \/ Perform(c) \/ Configure(c) \/ Publish(c) \/ Refuse(c)
      BY <2>2
    <3>2. /\ calls[c].current \in BOOLEAN /\ calls[c].view \in Nat
          /\ calls[c] = [at |-> calls[c].at, view |-> calls[c].view, current |-> calls[c].current]
      BY CallIs
    <3>3. version \in Nat /\ inWindow \in 0..version
      BY DEF FeedInd
    <3>4. CASE Call(c)
      <4> DEFINE call == [at |-> "called", view |-> 0, current |-> TRUE]
      <4>1. calls' = [calls EXCEPT ![c] = call]
        BY <3>2, <3>4, <3>3 DEF Call
      <4>2. /\ call \in Slots /\ call.view <= version'
            /\ call.at \in {"performed", "answered"} /\ call.current => call.view >= inWindow
        BY <1>1, <1>2, <3>2, <3>3, <4>1 DEF Slots
      <4> HIDE DEF call
      <4> QED
        BY <1>1, <4>1, <4>2, CallKeeps
    <3>5. CASE Read(c)
      <4> DEFINE call == [at |-> "answered", view |-> version, current |-> calls[c].current]
      <4>1. calls' = [calls EXCEPT ![c] = call] /\ version' = version
        BY <3>2, <3>5, <3>3 DEF Read
      <4>2. /\ call \in Slots /\ call.view <= version'
            /\ call.at \in {"performed", "answered"} /\ call.current => call.view >= inWindow
        BY <1>1, <1>2, <3>2, <3>3, <4>1 DEF Slots
      <4> HIDE DEF call
      <4> QED
        BY <1>1, <4>1, <4>2, CallKeeps
    <3>6. CASE Perform(c)
      <4> DEFINE call == [at |-> "performed", view |-> version', current |-> calls[c].current]
      <4>1. calls' = [calls EXCEPT ![c] = call]
        BY <3>2, <3>6, <3>3 DEF Perform
      <4>2. /\ call \in Slots /\ call.view <= version'
            /\ call.at \in {"performed", "answered"} /\ call.current => call.view >= inWindow
        BY <1>1, <1>2, <3>2, <3>3, <4>1 DEF Slots
      <4> HIDE DEF call
      <4> QED
        BY <1>1, <4>1, <4>2, CallKeeps
    <3>7. CASE Configure(c)
      <4> DEFINE call == [at |-> "answered", view |-> version', current |-> calls[c].current]
      <4>1. calls' = [calls EXCEPT ![c] = call]
        BY <3>2, <3>7, <3>3 DEF Configure
      <4>2. /\ call \in Slots /\ call.view <= version'
            /\ call.at \in {"performed", "answered"} /\ call.current => call.view >= inWindow
        BY <1>1, <1>2, <3>2, <3>3, <4>1 DEF Slots
      <4> HIDE DEF call
      <4> QED
        BY <1>1, <4>1, <4>2, CallKeeps
    <3>8. CASE Publish(c)
      <4> DEFINE call == [at |-> "answered", view |-> calls[c].view, current |-> calls[c].current]
      <4>1. calls' = [calls EXCEPT ![c] = call] /\ calls[c].at = "performed"
        BY <3>2, <3>8, <3>3 DEF Publish
      <4>2. /\ call \in Slots /\ call.view <= version'
            /\ call.at \in {"performed", "answered"} /\ call.current => call.view >= inWindow
        BY <1>1, <1>2, <3>2, <3>3, <4>1 DEF FeedInd, Slots
      <4> HIDE DEF call
      <4> QED
        BY <1>1, <4>1, <4>2, CallKeeps
    <3>9. CASE Refuse(c)
      <4> DEFINE call == [at |-> "none", view |-> 0, current |-> FALSE]
      <4>1. calls' = [calls EXCEPT ![c] = call]
        BY <3>2, <3>9, <3>3 DEF Refuse, NoCall
      <4>2. /\ call \in Slots /\ call.view <= version'
            /\ call.at \in {"performed", "answered"} /\ call.current => call.view >= inWindow
        BY <1>1, <1>2, <3>2, <3>3, <4>1 DEF Slots
      <4> HIDE DEF call
      <4> QED
        BY <1>1, <4>1, <4>2, CallKeeps
    <3> QED
      BY <3>1, <3>4, <3>5, <3>6, <3>7, <3>8, <3>9
  <2> QED
    BY <2>1, <2>2 DEF WorkerPolls, WorkerSends
<1> QED
  BY <1>1, <1>2, <1>3, <1>4, <1>5, <1>6 DEF FeedInd

\* What is shown moves the window's generation on, for all calls that are open.
LEMMA ShownKeeps ==
  ASSUME FeedInd, NEW view \in 0..version, NEW open \in [Calls -> Slots],
         \A c \in Calls : open[c].view <= version, ApplyView(view, open),
         UNCHANGED <<version, workerView, traySyncs, tray>>, pushes' \in Seq(0..version)
  PROVE  FeedInd' /\ inWindow' = view
<1>1. inWindow' = view /\ calls' = [c \in Calls |-> [open[c] EXCEPT !.current = FALSE]]
  BY DEF ApplyView
<1>2. \A c \in Calls :
        /\ calls'[c] \in Slots
        /\ calls'[c].view <= version /\ ~calls'[c].current
  BY <1>1 DEF Slots
<1>3. calls' \in [Calls -> Slots]
  BY <1>1, <1>2
<1> QED
  BY <1>1, <1>2, <1>3 DEF FeedInd

\* A queue without its first element is not the queue.
LEMMA TailIsOther ==
  ASSUME NEW S, NEW s \in Seq(S), s # << >>
  PROVE  Tail(s) # s
<1>1. Len(Tail(s)) = Len(s) - 1 /\ Len(s) \in Nat
  BY HeadTailProperties, LenProperties
<1>2. \A n \in Nat : n - 1 # n
  OBVIOUS
<1>3. Len(Tail(s)) # Len(s)
  BY <1>1, <1>2
<1> QED
  BY <1>3

\* A push shows another view, and is gone from its queue.
LEMMA PushKeeps ==
  ASSUME FeedInd, Push
  PROVE  FeedInd' /\ pushes' # pushes /\ tray' = tray
<1>1. /\ pushes \in Seq(0..version) /\ pushes # << >> /\ pushes' = Tail(pushes)
      /\ ApplyView(Head(pushes), calls) /\ UNCHANGED <<version, workerView, traySyncs, tray>>
  BY DEF Push, FeedInd
<1>2. Head(pushes) \in 0..version /\ Tail(pushes) \in Seq(0..version) /\ Len(Tail(pushes)) = Len(pushes) - 1
      /\ Len(pushes) \in Nat
  BY <1>1, HeadTailProperties, LenProperties
<1>3. Tail(pushes) # pushes
  BY <1>1, TailIsOther
<1> QED
  BY <1>1, <1>2, <1>3, ShownKeeps DEF FeedInd

\* The response of a call whose generation is the window's still is not older.
LEMMA AnswerKeeps ==
  ASSUME FeedInd, NEW c \in Calls, Answer(c)
  PROVE  FeedInd' /\ inWindow' >= inWindow /\ tray' = tray
<1> DEFINE open == [calls EXCEPT ![c] = NoCall]
<1>0. calls[c].view \in Nat /\ calls[c].view <= version
  <2>1. version \in Nat
    BY DEF FeedInd
  <2> QED
    BY <2>1, ViewsStay
<1>1. /\ calls[c].at = "answered" /\ UNCHANGED <<version, workerView, pushes, traySyncs, tray>>
      /\ IF calls[c].current THEN ApplyView(calls[c].view, open) ELSE calls' = open /\ inWindow' = inWindow
  BY DEF Answer
<1>2. NoCall \in Slots /\ NoCall.view = 0 /\ NoCall.at = "none"
  BY DEF NoCall, Slots
<1>3. calls \in [Calls -> Slots] /\ version \in Nat /\ inWindow \in 0..version
  BY DEF FeedInd
<1>4. /\ open \in [Calls -> Slots] /\ open[c] = NoCall
      /\ \A d \in Calls : d # c => open[d] = calls[d]
  BY <1>2, <1>3
<1>5. \A d \in Calls : open[d].view <= version
  BY <1>2, <1>3, <1>4 DEF FeedInd
<1> HIDE DEF open
<1>6. CASE calls[c].current
  <2>1. calls[c].view \in 0..version /\ calls[c].view >= inWindow
    <3>1. calls[c].view >= inWindow
      BY <1>1, <1>6 DEF FeedInd
    <3> QED
      BY <1>0, <1>3, <3>1
  <2>2. ApplyView(calls[c].view, open) /\ pushes' \in Seq(0..version)
    BY <1>1, <1>6 DEF FeedInd
  <2> QED
    BY <1>1, <1>4, <1>5, <2>1, <2>2, ShownKeeps
<1>7. CASE ~calls[c].current
  <2>1. calls' = open /\ inWindow' = inWindow
    BY <1>1, <1>7
  <2>2. \A d \in Calls : calls'[d].at \in {"performed", "answered"} /\ calls'[d].current => calls'[d].view >= inWindow
    BY <1>2, <1>4, <2>1 DEF FeedInd
  <2>3. inWindow >= inWindow
    BY <1>3
  <2> QED
    BY <1>1, <1>4, <1>5, <2>1, <2>2, <2>3 DEF FeedInd
<1> QED
  BY <1>6, <1>7

\* The tray reads the state itself.
LEMMA SyncTrayKeeps ==
  ASSUME FeedInd, SyncTray
  PROVE  FeedInd' /\ inWindow' = inWindow /\ tray' >= tray
<1>1. /\ traySyncs' = FALSE /\ tray' \in {tray, version}
      /\ UNCHANGED <<version, workerView, calls, pushes, inWindow>>
  BY DEF SyncTray
<1>2. tray' \in 0..version /\ tray' >= tray
  BY <1>1 DEF FeedInd
<1> QED
  BY <1>1, <1>2 DEF FeedInd

\* The response of a command never replaces a newer view in the window, and the tray never
\* goes back, whatever order the worker and the commands send in (App.tsx applyView).
THEOREM FeedIsCurrent == Feed => AnswersAreNotOlder
<1>1. InitFeed => FeedInd
  <2> SUFFICES ASSUME InitFeed PROVE FeedInd
    OBVIOUS
  <2>1. << >> \in Seq(0..1) /\ 0 \in 0..1 /\ 1 \in 0..1 /\ 1 \in Nat
    BY EmptySeq
  <2>2. NoCall.view = 0 /\ NoCall.at = "none"
        /\ NoCall \in Slots
    BY DEF NoCall, Slots
  <2>3. /\ version = 1 /\ workerView = 0 /\ calls = [c \in Calls |-> NoCall]
        /\ pushes = << >> /\ traySyncs = FALSE /\ inWindow = 0 /\ tray = 1
    BY DEF InitFeed
  <2>4. calls \in [Calls -> Slots] /\ \A c \in Calls : calls[c] = NoCall
    BY <2>2, <2>3
  <2>5. \A c \in Calls : calls[c].view <= version /\ calls[c].at \notin {"performed", "answered"}
    <3>1. "none" \notin {"performed", "answered"} /\ 0 <= 1
      OBVIOUS
    <3> QED
      BY <2>2, <2>3, <2>4, <3>1
  <2> QED
    BY <2>1, <2>3, <2>4, <2>5 DEF FeedInd
<1>2. ASSUME FeedInd, [NextFeed]_feedVars
      PROVE  /\ FeedInd'
             /\ [/\ pushes' = pushes /\ inWindow' # inWindow => inWindow' > inWindow
                 /\ tray' >= tray]_feedVars
  <2>1. inWindow \in Nat /\ tray \in Nat
    BY <1>2 DEF FeedInd
  <2>2. CASE UNCHANGED feedVars
    BY <1>2, <2>2 DEF feedVars, FeedInd
  <2>3. CASE NextFeed
    <3>1. CASE Push
      BY <1>2, <2>1, <3>1, PushKeeps
    <3>2. CASE SyncTray
      BY <1>2, <3>2, SyncTrayKeeps
    <3>3. CASE \E c \in Calls : Answer(c)
      <4>1. FeedInd' /\ inWindow' >= inWindow /\ tray' = tray
        BY <1>2, <3>3, AnswerKeeps
      <4>2. inWindow' \in Nat
        BY <4>1 DEF FeedInd
      <4> QED
        BY <2>1, <4>1, <4>2
    <3>4. CASE ~(Push \/ SyncTray \/ \E c \in Calls : Answer(c))
      <4>1. FeedInd' /\ inWindow' = inWindow /\ tray' = tray
        BY <1>2, <2>3, <3>4, TakesKeep DEF NextFeed
      <4> QED
        BY <2>1, <4>1
    <3> QED
      BY <3>1, <3>2, <3>3, <3>4
  <2> QED
    BY <1>2, <2>2, <2>3
<1> QED
  BY <1>1, <1>2, PTL DEF Feed, AnswersAreNotOlder

-------------------------------------------------------------------------------
-------------------------------------------------------------------------------
(* The inductive invariant *)

\* What the spool has been, and is.
Known == retired \union {sourceId}

Machine ==
  /\ sourceId \in SourceIds
  /\ retired \subseteq SourceIds
  /\ highWatermark \in 0..MaxSequence
  /\ stored \subseteq 1..highWatermark
  /\ seen \in [source : SourceIds, latest : 0..MaxSequence, oldest : 0..MaxSequence]
  /\ page \subseteq 1..MaxSequence
  /\ stage = "ingest" => page # {}
  /\ waiting \subseteq unsettled
  /\ attempts \in [Pairs -> 0..(MaxAttempts + 1)]
  /\ announced \in [Pairs -> Nat]
  /\ faults \in Nat

\* What a snapshot has behind its first row is not stored any more.
Behind(n) == (IF seen.oldest # 0 THEN seen.oldest - 1 ELSE seen.latest) < n

Snapshotting == {"oldest", "newest", "register", "pin", "gap"}

\* While the identity a snapshot has read is the spool's, the spool holds nothing
\* but what the snapshot has, or later events.
Snapshot ==
  /\ stage \in Snapshotting => seen.source \in Known
  /\ stage = "gap" => pinned[Local] = seen.source
  /\ stage \in Snapshotting /\ seen.source = sourceId =>
       /\ seen.latest <= highWatermark /\ seen.oldest <= highWatermark
       /\ stage # "oldest" => \A n \in stored : Behind(n)

\* What is recorded as lost stays behind what the spool can still store.  An identity
\* it may be given later has no losses.
LostIsGone ==
  \A s \in SourceIds, n \in 1..MaxSequence :
    <<s, n>> \in lost => s \in Known /\ (s = sourceId => n <= highWatermark /\ n \notin stored)

\* The checkpoint of an identity covers what was received under it.
ReceivedIsCovered == \A p \in received : p[2] <= checkpoints[p[1]]

\* What was never received was never tried.
Fresh == \A p \in Pairs \ received : announced[p] = 0 /\ attempts[p] = 0

\* The batch on its way has shown the event.
Shown(p) == p \in DOMAIN outcomes /\ outcomes[p] = "ok"

Counted ==
  /\ \A p \in Pairs : announced[p] <= 1 + faults
  /\ \A e \in unsettled \union denied :
       /\ attempts[PairOf(e)] <= MaxAttempts
       /\ ~Shown(PairOf(e)) => announced[PairOf(e)] <= faults
  /\ \A e \in denied \union waiting : ~Shown(PairOf(e))

\* Of the entries the drain still sees, those that need an outcome are those that were
\* collected, and until every outcome is there it sees them all.  A summary gives all
\* of them one outcome.
Batch ==
  /\ window \subseteq history
  /\ eligible \subseteq window
  /\ DOMAIN outcomes \subseteq {PairOf(e) : e \in eligible}
  /\ \A p \in DOMAIN outcomes : outcomes[p] \in NotifyResults
  /\ stage # "deliver" => outcomes = << >>
  /\ stage = "deliver" => \A e \in Page : NeedsOutcome(e) <=> e \in eligible
  /\ stage = "deliver" /\ Unnotified # {} => eligible \subseteq Page
  /\ Cardinality(eligible) > MaxIndividual /\ outcomes # << >> =>
       /\ DOMAIN outcomes = {PairOf(e) : e \in eligible}
       /\ \A p, q \in DOMAIN outcomes : outcomes[p] = outcomes[q]

Owes == ReceivedIsCovered /\ Fresh /\ Counted

PipelineInd == Inv /\ Machine /\ Snapshot /\ LostIsGone /\ Owes /\ Batch

USE DesktopAssumption, PipelineAssumption

-------------------------------------------------------------------------------
(* Facts about a state *)

LEMMA MinIsLeast ==
  ASSUME NEW S \in SUBSET Nat, S # {}
  PROVE  Min(S) \in S /\ \A x \in S : Min(S) <= x
<1> DEFINE R == OpToRel(<, Nat)
<1>1. IsWellFoundedOn(R, Nat)
  BY NatLessThanWellFounded
<1>2. \A x, y \in Nat : x < y => <<x, y>> \in R
  BY DEF OpToRel
<1> HIDE DEF R
<1>3. PICK x \in S : \A y \in S : ~ (<<y, x>> \in R)
  BY <1>1, WFMin
<1>4. ASSUME NEW y \in S PROVE x <= y
  <2>1. x \in Nat /\ y \in Nat /\ <<y, x>> \notin R
    BY <1>3
  <2>2. ~(y < x)
    BY <1>2, <2>1
  <2> QED
    BY <2>1, <2>2
<1> QED
  BY <1>4 DEF Min

\* Stored events are told apart by identity and sequence.
LEMMA RowsHavePairs ==
  ASSUME Inv
  PROVE  /\ \A e \in history : PairOf(e) \in Pairs /\ PairOf(e) \in received
         /\ \A d, e \in history : PairOf(d) = PairOf(e) => d = e
<1>1. \A e \in history : PairOf(e) \in Pairs /\ PairOf(e) \in received
  BY DEF Inv, TypeOK, Event, HistoryIsReceived, PairOf, Pairs
<1>2. ASSUME NEW d \in history, NEW e \in history, PairOf(d) = PairOf(e) PROVE d = e
  <2>1. d.source = e.source /\ d.sequence = e.sequence
    BY <1>2 DEF PairOf
  <2> QED
    BY <2>1 DEF Inv, Apart, Collides
<1> QED
  BY <1>1, <1>2

\* An event that is taken in is the next of its identity and was never seen.
LEMMA EventsAreTyped ==
  ASSUME NEW s \in SourceIds, NEW n \in 1..MaxSequence
  PROVE  EventOf(s, n) \in Event /\ PairOf(EventOf(s, n)) = <<s, n>>
BY DEF EventOf, Event, PairOf

\* Outside a delivery no batch is on its way.
LEMMA NothingShown ==
  ASSUME PipelineInd, stage # "deliver"
  PROVE  outcomes = << >> /\ \A p : ~Shown(p)
BY DEF PipelineInd, Batch, Shown

\* Every entry the drain still sees that needs an outcome was collected, and has it.
LEMMA BatchHolds ==
  ASSUME PipelineInd
  PROVE  BatchIsComplete
<1> SUFFICES ASSUME stage = "deliver", Unnotified = {}, NEW e \in Page, NeedsOutcome(e)
             PROVE  e \in eligible /\ OutcomeOf(e) # "incomplete"
  BY DEF BatchIsComplete
<1>1. e \in eligible
  BY DEF PipelineInd, Batch
<1>2. CASE Cardinality(eligible) > MaxIndividual
  <2>1. outcomes # << >>
    BY <1>2 DEF Unnotified
  <2>2. DOMAIN outcomes = {PairOf(x) : x \in eligible} /\ DOMAIN outcomes # {}
    BY <1>1, <1>2, <2>1 DEF PipelineInd, Batch
  <2>3. \A p \in DOMAIN outcomes : outcomes[p] # "incomplete"
    BY DEF PipelineInd, Batch, NotifyResults
  <2> QED
    BY <1>1, <1>2, <2>2, <2>3 DEF OutcomeOf
<1>3. CASE ~(Cardinality(eligible) > MaxIndividual)
  <2>1. PairOf(e) \in DOMAIN outcomes
    BY <1>1, <1>3 DEF Unnotified
  <2> QED
    BY <1>1, <1>3, <2>1 DEF OutcomeOf, PipelineInd, Batch, NotifyResults
<1> QED
  BY <1>2, <1>3

\* What an entry is finished with is what its own notification came to.
LEMMA OutcomeIsOwn ==
  ASSUME PipelineInd, stage = "deliver", Unnotified = {}, NEW e \in Page, NeedsOutcome(e)
  PROVE  PairOf(e) \in DOMAIN outcomes /\ OutcomeOf(e) = outcomes[PairOf(e)]
<1>1. e \in eligible
  BY DEF PipelineInd, Batch
<1>2. CASE Cardinality(eligible) > MaxIndividual
  <2>1. outcomes # << >>
    BY <1>2 DEF Unnotified
  <2>2. PairOf(e) \in DOMAIN outcomes /\ \A p, q \in DOMAIN outcomes : outcomes[p] = outcomes[q]
    BY <1>1, <1>2, <2>1 DEF PipelineInd, Batch
  <2> QED
    BY <1>2, <2>2 DEF OutcomeOf
<1>3. CASE ~(Cardinality(eligible) > MaxIndividual)
  <2>1. PairOf(e) \in DOMAIN outcomes
    BY <1>1, <1>3 DEF Unnotified
  <2> QED
    BY <1>3, <2>1 DEF OutcomeOf
<1> QED
  BY <1>2, <1>3

LEMMA BeginIsInd == Begin => PipelineInd
<1> SUFFICES ASSUME Begin PROVE PipelineInd
  OBVIOUS
<1>1. Inv
  <2>1. TypeOK
    BY DEF Begin, TypeOK
  <2>2. CursorIsPosition
    BY DEF Begin, CursorIsPosition
  <2> QED
    BY <2>1, <2>2 DEF Begin, Inv, Covered, Apart, PinnedAreRegistered, HistoryIsReceived
<1>2. Machine
  <2>1. 0 \in 0..MaxSequence /\ 0 \in 0..(MaxAttempts + 1)
    OBVIOUS
  <2> QED
    BY <2>1 DEF Begin, Machine, NothingSeen
<1>3. Snapshot /\ LostIsGone
  BY DEF Begin, Snapshot, Snapshotting, LostIsGone
<1>4. Owes
  BY DEF Begin, Owes, ReceivedIsCovered, Fresh, Counted, Shown
<1>5. Batch
  BY DEF Begin, Batch
<1> QED
  BY <1>1, <1>2, <1>3, <1>4, <1>5 DEF PipelineInd

-------------------------------------------------------------------------------
(* What steps leave alone *)

\* The tables of the store are as they were.
LEMMA StoreUnchanged ==
  ASSUME Inv, UNCHANGED storeVars
  PROVE  Inv'
BY NextPreserves

\* A step outside a delivery that touches neither the tables nor the schedule owes
\* what was owed.
LEMMA OwesUnchanged ==
  ASSUME PipelineInd, UNCHANGED <<storeVars, scheduleVars, outcomes, faults, announced>>
  PROVE  Owes'
BY DEF PipelineInd, Owes, storeVars, scheduleVars, ReceivedIsCovered, Fresh, Counted, Shown

LEMMA BatchUnchanged ==
  ASSUME PipelineInd, stage # "deliver", stage' # "deliver", UNCHANGED <<history, batchVars>>
  PROVE  Batch'
BY DEF PipelineInd, batchVars, Batch

-------------------------------------------------------------------------------
(* The spool *)

\* The hooks, the retention and the regeneration change nothing but the spool.
LEMMA SpoolStepLeaves ==
  ASSUME PipelineInd, OnlySpool \/ (UNCHANGED <<storeVars, stage, readVars, batchVars, scheduleVars,
                                               contextVars, announced>> /\ faults' = faults + 1),
         ~Dispatching
  PROVE  /\ UNCHANGED <<storeVars, stage, readVars, batchVars, scheduleVars, announced>>
         /\ Inv' /\ Owes' /\ Batch'
<1>1. /\ UNCHANGED <<storeVars, stage, readVars, batchVars, scheduleVars, announced>>
      /\ faults' = faults \/ faults' = faults + 1
  BY DEF OnlySpool
<1>2. Inv'
  BY <1>1, StoreUnchanged DEF PipelineInd
<1>3. Owes'
  <2>1. \A e \in unsettled \union denied : announced[PairOf(e)] \in Nat
    BY RowsHavePairs DEF PipelineInd, Machine, Inv, TypeOK
  <2>2. \A n \in Nat : (n <= faults => n <= faults') /\ (n <= 1 + faults => n <= 1 + faults')
    <3>1. faults \in Nat /\ (faults' = faults \/ faults' = faults + 1)
      BY <1>1 DEF PipelineInd, Machine
    <3> QED
      BY <3>1
  <2>3. \A p \in Pairs : announced[p] \in Nat
    BY DEF PipelineInd, Machine
  <2>4. Counted'
    BY <1>1, <2>1, <2>2, <2>3
       DEF PipelineInd, Owes, storeVars, batchVars, scheduleVars, Counted, Shown
  <2> QED
    BY <1>1, <2>4 DEF PipelineInd, Owes, storeVars, scheduleVars, ReceivedIsCovered, Fresh
<1>4. Batch'
  <2>1. stage # "deliver" /\ stage' = stage /\ UNCHANGED <<history, batchVars>>
    BY <1>1 DEF Dispatching, storeVars
  <2> QED
    BY <2>1, BatchUnchanged
<1> QED
  BY <1>1, <1>2, <1>3, <1>4

LEMMA StoreEventPreserves ==
  ASSUME PipelineInd, StoreEvent
  PROVE  PipelineInd'
<1>1. /\ highWatermark < MaxSequence /\ highWatermark' = highWatermark + 1
      /\ stored' = stored \union {highWatermark + 1} /\ UNCHANGED <<sourceId, retired>>
      /\ OnlySpool /\ ~Dispatching
  BY DEF StoreEvent, Source!Append, PipelineInd, Machine
<1>2. /\ UNCHANGED <<storeVars, stage, readVars, batchVars, scheduleVars, announced>>
      /\ Inv' /\ Owes' /\ Batch'
  BY <1>1, SpoolStepLeaves
<1>3. highWatermark' \in 0..MaxSequence /\ stored' \subseteq 1..highWatermark'
  BY <1>1 DEF PipelineInd, Machine
<1>4. Machine'
  BY <1>1, <1>2, <1>3 DEF PipelineInd, Machine, storeVars, readVars, scheduleVars, OnlySpool
<1>5. Snapshot'
  <2>1. seen.latest \in Nat /\ seen.oldest \in Nat /\ highWatermark \in Nat
    BY DEF PipelineInd, Machine
  <2>2. UNCHANGED <<stage, seen, pinned>>
    BY <1>2 DEF storeVars, readVars
  <2> QED
    BY <1>1, <2>1, <2>2 DEF PipelineInd, Snapshot, Behind, Known
<1>6. LostIsGone'
  BY <1>1, <1>2 DEF PipelineInd, Machine, LostIsGone, Known, storeVars
<1> QED
  BY <1>2, <1>4, <1>5, <1>6 DEF PipelineInd

LEMMA PruneEventsPreserves ==
  ASSUME PipelineInd, PruneEvents
  PROVE  PipelineInd'
<1>1. /\ stored' \subseteq stored /\ UNCHANGED <<sourceId, retired, highWatermark>>
      /\ OnlySpool /\ ~Dispatching
  BY DEF PruneEvents, Source!Prune
<1>2. /\ UNCHANGED <<storeVars, stage, readVars, batchVars, scheduleVars, announced>>
      /\ Inv' /\ Owes' /\ Batch'
  BY <1>1, SpoolStepLeaves
<1>3. Machine'
  BY <1>1, <1>2 DEF PipelineInd, Machine, storeVars, readVars, scheduleVars, OnlySpool
<1>4. Snapshot' /\ LostIsGone'
  <2>1. UNCHANGED <<stage, seen, pinned, lost>>
    BY <1>2 DEF storeVars, readVars
  <2> QED
    BY <1>1, <2>1 DEF PipelineInd, Snapshot, Behind, LostIsGone, Known
<1> QED
  BY <1>2, <1>3, <1>4 DEF PipelineInd

\* No snapshot and no loss is of the identity that comes.
LEMMA RegenerateIdentityPreserves ==
  ASSUME PipelineInd, RegenerateIdentity
  PROVE  PipelineInd'
<1>1. /\ sourceId' \in SourceIds \ Known /\ highWatermark' = 0 /\ stored' = {}
      /\ retired' = retired \union {sourceId} /\ faults' = faults + 1 /\ ~Dispatching
      /\ UNCHANGED <<storeVars, stage, readVars, batchVars, scheduleVars, contextVars, announced>>
  BY DEF RegenerateIdentity, Source!ChangeIdentity, Known
<1>2. Inv' /\ Owes' /\ Batch'
  BY <1>1, SpoolStepLeaves
<1>3. Machine'
  <2>1. 0 \in 0..MaxSequence /\ faults' \in Nat
    BY <1>1 DEF PipelineInd, Machine
  <2> QED
    BY <1>1, <2>1 DEF PipelineInd, Machine, storeVars, readVars, scheduleVars
<1>4. Snapshot' /\ LostIsGone'
  <2>1. UNCHANGED <<stage, seen, pinned, lost>>
    BY <1>1 DEF storeVars, readVars
  <2>2. Known' = Known \union {sourceId'}
    BY <1>1 DEF Known
  <2> QED
    BY <1>1, <2>1, <2>2 DEF PipelineInd, Snapshot, LostIsGone
<1> QED
  BY <1>2, <1>3, <1>4 DEF PipelineInd

-------------------------------------------------------------------------------
(* A poll that ends *)

\* A poll ends only when no entry that could be shown again was shown by its batch, or
\* by a fault.
LEMMA FailPreserves ==
  ASSUME PipelineInd, Fail, UNCHANGED <<spoolVars, scheduleVars, announced>>,
         \/ faults' = faults + 1
         \/ faults' = faults /\ \A e \in unsettled \union denied : ~Shown(PairOf(e))
  PROVE  PipelineInd'
<1>1. /\ stage' = "idle" /\ seen' = NothingSeen /\ page' = {} /\ window' = {} /\ eligible' = {}
      /\ outcomes' = << >> /\ UNCHANGED storeVars
  BY DEF Fail, EndPoll
<1>2. Inv'
  BY <1>1, StoreUnchanged DEF PipelineInd
<1>3. Machine'
  <2>1. NothingSeen \in [source : SourceIds, latest : 0..MaxSequence, oldest : 0..MaxSequence]
    BY DEF NothingSeen
  <2>2. faults' \in Nat
    BY DEF PipelineInd, Machine
  <2> QED
    BY <1>1, <2>1, <2>2 DEF PipelineInd, Machine, spoolVars, scheduleVars, storeVars
<1>4. Snapshot' /\ LostIsGone'
  BY <1>1 DEF PipelineInd, Snapshot, Snapshotting, LostIsGone, Known, spoolVars, storeVars
<1>5. Counted'
  <2>1. \A e \in unsettled \union denied : PairOf(e) \in Pairs
    BY RowsHavePairs DEF PipelineInd, Inv, TypeOK
  <2>2. \A p \in Pairs : announced[p] \in Nat /\ announced[p] <= 1 + faults
    BY DEF PipelineInd, Machine, Owes, Counted
  <2>3. faults \in Nat
    BY DEF PipelineInd, Machine
  <2>4. \A p \in Pairs : announced[p] <= 1 + faults'
    BY <2>2, <2>3
  <2>5. \A e \in unsettled \union denied : announced[PairOf(e)] <= faults'
    BY <2>1, <2>2, <2>3 DEF PipelineInd, Owes, Counted
  <2>6. \A p : ~Shown(p)'
    BY <1>1 DEF Shown
  <2>7. UNCHANGED <<unsettled, denied, attempts, waiting, announced>>
    BY <1>1 DEF storeVars, scheduleVars
  <2> QED
    BY <2>4, <2>5, <2>6, <2>7 DEF PipelineInd, Owes, Counted
<1>6. Owes'
  BY <1>1, <1>5 DEF PipelineInd, Owes, ReceivedIsCovered, Fresh, storeVars, scheduleVars
<1>7. Batch'
  BY <1>1 DEF Batch
<1> QED
  BY <1>2, <1>3, <1>4, <1>6, <1>7 DEF PipelineInd

\* Outside a delivery a poll may end at any time.
LEMMA EarlyFailPreserves ==
  ASSUME PipelineInd, Fail, stage # "deliver", UNCHANGED <<spoolVars, scheduleVars, faults, announced>>
  PROVE  PipelineInd'
BY FailPreserves, NothingShown

-------------------------------------------------------------------------------
(* Events are taken in *)

\* An event that comes in is the next of its identity: it was never shown or tried, and
\* no batch counts it.
LEMMA IngestKeeps ==
  ASSUME PipelineInd, NEW k \in Keys, NEW e \in Event, IngestEvent(k, e),
         UNCHANGED <<spoolVars, batchVars, scheduleVars, contextVars, faults, announced>>
  PROVE  /\ Inv' /\ Owes'
         /\ UNCHANGED <<pinned, lost>> /\ unsettled \subseteq unsettled'
         /\ LostIsGone'
         /\ stage' = stage \/ (stage # "deliver" /\ stage' # "deliver") => Batch'
<1>1. Inv'
  BY IngestEventPreserves DEF PipelineInd
<1>2. /\ e.sequence = checkpoints[e.source] + 1
      /\ checkpoints' = [checkpoints EXCEPT ![e.source] = e.sequence]
      /\ e \notin history
  BY InsertedIsNext, IngestAdvances DEF PipelineInd, IngestEvent, Collides
<1>3. /\ history' = history \union {e} /\ unsettled' = unsettled \union {e}
      /\ received' = received \union {PairOf(e)} /\ UNCHANGED <<pinned, denied, lost>>
  BY DEF IngestEvent, Advance, PairOf
<1>4. /\ checkpoints \in [SourceIds -> 0..MaxSequence] /\ e.source \in SourceIds
      /\ e.sequence \in 1..MaxSequence /\ received \subseteq Pairs
      /\ unsettled \subseteq history /\ denied \subseteq history
  BY DEF PipelineInd, Inv, TypeOK, Event, Pairs
<1>5. ReceivedIsCovered'
  <2>1. \A p \in received : p[1] \in SourceIds /\ p[2] \in Nat /\ p[2] <= checkpoints[p[1]]
    BY <1>4 DEF PipelineInd, Owes, ReceivedIsCovered, Pairs
  <2>2. \A s \in SourceIds : checkpoints[s] <= checkpoints'[s]
    BY <1>2, <1>4
  <2>3. checkpoints'[e.source] = e.sequence
    BY <1>2, <1>4
  <2>4. \A p \in received : p[2] <= checkpoints'[p[1]]
    BY <1>2, <1>4, <2>1, <2>2
  <2> QED
    BY <1>3, <1>4, <2>3, <2>4 DEF ReceivedIsCovered, PairOf
<1>6. PairOf(e) \in Pairs \ received
  <2>1. \A p \in received : p[2] <= checkpoints[p[1]]
    BY DEF PipelineInd, Owes, ReceivedIsCovered
  <2> QED
    BY <1>2, <1>4, <2>1 DEF PairOf, Pairs
<1>7. announced[PairOf(e)] = 0 /\ attempts[PairOf(e)] = 0
  BY <1>6 DEF PipelineInd, Owes, Fresh
<1>8. UNCHANGED <<attempts, waiting, outcomes, eligible, window, policy, faults, announced>>
  BY DEF scheduleVars, batchVars, contextVars
<1>9. Fresh'
  BY <1>3, <1>8 DEF PipelineInd, Owes, Fresh
<1>10. Counted'
  BY <1>3, <1>7, <1>8 DEF PipelineInd, Machine, Owes, Counted, Shown
<1>11. LostIsGone'
  BY <1>3 DEF PipelineInd, LostIsGone, Known, spoolVars
<1>12. ASSUME stage' = stage \/ (stage # "deliver" /\ stage' # "deliver")
       PROVE  Batch'
  <2>1. Page' = Page
    BY <1>2, <1>3, <1>8 DEF PipelineInd, Batch, Page, Due
  <2> QED
    BY <1>3, <1>8, <1>12, <2>1
       DEF PipelineInd, Batch, NeedsOutcome, Exhausted, Decide, Unnotified
<1> QED
  BY <1>1, <1>3, <1>5, <1>9, <1>10, <1>11, <1>12 DEF Owes

LEMMA RemoteIngestPreserves ==
  ASSUME PipelineInd, RemoteIngest
  PROVE  PipelineInd'
<1> DEFINE e == EventOf(RemoteId, cursor[Remote] + 1)
<1>1. /\ IngestEvent(Remote, e) /\ stage \notin Snapshotting /\ stage # "ingest" /\ stage' = stage
      /\ UNCHANGED <<spoolVars, readVars, batchVars, scheduleVars, contextVars, faults, announced>>
  BY DEF RemoteIngest, Dispatching, Snapshotting
<1>2. cursor[Remote] \in 0..MaxSequence
  BY DEF PipelineInd, Inv, TypeOK
<1>3. e \in Event
  <2>1. Matching(e) = {} => NewEventResult(Remote, e) = "inserted"
    BY <1>1 DEF IngestEvent, IngestResult
  <2>2. Matching(e) = {}
    BY <1>1 DEF IngestEvent, IngestResult
  <2>3. cursor[Remote] # MaxSequence
    BY <2>1, <2>2 DEF NewEventResult
  <2>4. cursor[Remote] + 1 \in 1..MaxSequence
    BY <1>2, <2>3
  <2> QED
    BY <2>4, EventsAreTyped
<1> HIDE DEF e
<1>4. /\ Inv' /\ Owes' /\ LostIsGone' /\ Batch'
      /\ unsettled \subseteq unsettled'
  BY <1>1, <1>3, IngestKeeps
<1>5. Machine'
  BY <1>1, <1>4 DEF PipelineInd, Machine, spoolVars, readVars, scheduleVars
<1>6. Snapshot'
  BY <1>1 DEF Snapshot, Snapshotting
<1> QED
  BY <1>4, <1>5, <1>6 DEF PipelineInd

LEMMA IngestRowPreserves ==
  ASSUME PipelineInd, IngestRow
  PROVE  PipelineInd'
<1> DEFINE e == EventOf(seen.source, Min(page))
           left == page \ {Min(page)}
<1>1. stage = "ingest" /\ UNCHANGED <<spoolVars, scheduleVars, faults, announced>>
  BY DEF IngestRow
<1>2. CASE Fail
  BY <1>1, <1>2, EarlyFailPreserves
<1>3. CASE ~Fail
  <2>1. /\ IngestEvent(Local, e) /\ page' = left
        /\ IF left # {} THEN UNCHANGED <<stage, seen, pageFull>>
                        ELSE stage' \in {"page", "dispatch"} /\ seen' = NothingSeen
        /\ UNCHANGED <<batchVars, contextVars>>
    BY <1>3 DEF IngestRow, GoTo
  <2>2. e \in Event
    <3>1. page # {} /\ page \subseteq 1..MaxSequence /\ seen.source \in SourceIds
      BY <1>1 DEF PipelineInd, Machine
    <3>2. Min(page) \in page
      BY <3>1, MinIsLeast
    <3> QED
      BY <3>1, <3>2, EventsAreTyped
  <2> HIDE DEF e
  <2>3. stage' \in {"ingest", "page", "dispatch"}
    BY <1>1, <2>1
  <2>4. /\ Inv' /\ Owes' /\ LostIsGone' /\ Batch'
        /\ unsettled \subseteq unsettled'
    BY <1>1, <2>1, <2>2, <2>3, IngestKeeps
  <2>5. Machine'
    <3>1. NothingSeen \in [source : SourceIds, latest : 0..MaxSequence, oldest : 0..MaxSequence]
      BY DEF NothingSeen
    <3> QED
      BY <1>1, <2>1, <2>4, <3>1 DEF PipelineInd, Machine, spoolVars, scheduleVars
  <2>6. Snapshot'
    BY <2>3 DEF Snapshot, Snapshotting
  <2> QED
    BY <2>4, <2>5, <2>6 DEF PipelineInd
<1> QED
  BY <1>2, <1>3

-------------------------------------------------------------------------------
(* The reader *)

\* A step that reads changes what the poll has read.
LEMMA ReadingKeeps ==
  ASSUME PipelineInd, stage # "deliver", stage' # "deliver",
         UNCHANGED <<spoolVars, storeVars, batchVars, scheduleVars, faults, announced>>,
         seen' \in [source : SourceIds, latest : 0..MaxSequence, oldest : 0..MaxSequence],
         page' \subseteq 1..MaxSequence, stage' = "ingest" => page' # {}, Snapshot'
  PROVE  PipelineInd'
<1>1. UNCHANGED <<history, outcomes>>
  BY DEF storeVars, batchVars
<1>2. Inv' /\ Owes' /\ Batch'
  BY <1>1, StoreUnchanged, OwesUnchanged, BatchUnchanged DEF PipelineInd
<1>3. Machine' /\ LostIsGone'
  BY DEF PipelineInd, Machine, LostIsGone, Known, spoolVars, storeVars, scheduleVars
<1> QED
  BY <1>2, <1>3 DEF PipelineInd

LEMMA SpoolFacts ==
  ASSUME PipelineInd
  PROVE  /\ sourceId \in SourceIds /\ sourceId \in Known /\ highWatermark \in 0..MaxSequence
         /\ stored \subseteq 1..MaxSequence
         /\ \A n \in stored : n \in Nat /\ 1 <= n /\ n <= highWatermark
         /\ seen \in [source : SourceIds, latest : 0..MaxSequence, oldest : 0..MaxSequence]
         /\ page \subseteq 1..MaxSequence
         /\ NothingSeen \in [source : SourceIds, latest : 0..MaxSequence, oldest : 0..MaxSequence]
BY DEF PipelineInd, Machine, Known, NothingSeen

LEMMA ReadIdentityPreserves ==
  ASSUME PipelineInd, ReadIdentity
  PROVE  PipelineInd'
<1>1. /\ stage = "identity" /\ stage' = "oldest"
      /\ seen' = [source |-> sourceId, latest |-> highWatermark, oldest |-> 0]
      /\ UNCHANGED <<storeVars, page, spoolVars, batchVars, scheduleVars, faults, announced>>
  BY DEF ReadIdentity, GoTo, OnlyIngest
<1>2. Snapshot'
  BY <1>1, SpoolFacts DEF Snapshot, Snapshotting, Known, spoolVars
<1> QED
  BY <1>1, <1>2, SpoolFacts, ReadingKeeps

\* The oldest row is not before the snapshot of the watermark has anything stored.
LEMMA ReadOldestPreserves ==
  ASSUME PipelineInd, ReadOldest
  PROVE  PipelineInd'
<1> DEFINE first == IF stored = {} THEN 0 ELSE Min(stored)
<1>1. /\ stage = "oldest" /\ stage' = "newest" /\ seen' = [seen EXCEPT !.oldest = first]
      /\ UNCHANGED <<storeVars, page, spoolVars, batchVars, scheduleVars, faults, announced>>
  BY DEF ReadOldest, GoTo, OnlyIngest
<1>2. /\ first \in 0..MaxSequence /\ first <= highWatermark
      /\ \A n \in stored : first # 0 /\ first - 1 < n
  <2>1. CASE stored = {}
    BY <2>1, SpoolFacts
  <2>2. CASE stored # {}
    <3>1. Min(stored) \in stored /\ \A n \in stored : Min(stored) <= n
      BY <2>2, SpoolFacts, MinIsLeast
    <3> QED
      BY <2>2, <3>1, SpoolFacts
  <2> QED
    BY <2>1, <2>2
<1> HIDE DEF first
<1>3. /\ seen' \in [source : SourceIds, latest : 0..MaxSequence, oldest : 0..MaxSequence]
      /\ seen'.source = seen.source /\ seen'.latest = seen.latest /\ seen'.oldest = first
  BY <1>1, <1>2, SpoolFacts
<1>4. Snapshot'
  BY <1>1, <1>2, <1>3 DEF PipelineInd, Snapshot, Snapshotting, Known, Behind, spoolVars, storeVars
<1> QED
  BY <1>1, <1>3, <1>4, SpoolFacts, ReadingKeeps

LEMMA ReadNewestPreserves ==
  ASSUME PipelineInd, ReadNewest
  PROVE  PipelineInd'
<1>1. stage = "newest" /\ UNCHANGED <<spoolVars, scheduleVars, faults, announced>>
  BY DEF ReadNewest
<1>2. CASE Fail
  BY <1>1, <1>2, EarlyFailPreserves
<1>3. CASE ~Fail
  <2>1. stage' = "register" /\ UNCHANGED <<storeVars, readVars, batchVars>>
    BY <1>3 DEF ReadNewest, GoTo
  <2>2. Snapshot'
    BY <1>1, <2>1
       DEF PipelineInd, Snapshot, Snapshotting, Known, Behind, spoolVars, storeVars, readVars
  <2> QED
    BY <1>1, <2>1, <2>2, SpoolFacts, ReadingKeeps DEF readVars
<1> QED
  BY <1>2, <1>3

\* Registering and pinning the local source touch neither events nor losses.
LEMMA SettingKeeps ==
  ASSUME PipelineInd, stage # "deliver", stage' \in {"pin", "gap"}, Inv', Snapshot',
         UNCHANGED <<history, unsettled, denied, checkpoints, received, lost>>,
         UNCHANGED <<spoolVars, readVars, batchVars, scheduleVars, faults, announced>>
  PROVE  PipelineInd'
<1>1. Batch'
  BY BatchUnchanged
<1>2. Owes'
  BY DEF PipelineInd, Owes, ReceivedIsCovered, Fresh, Counted, Shown, scheduleVars, batchVars
<1>3. Machine' /\ LostIsGone'
  BY DEF PipelineInd, Machine, LostIsGone, Known, spoolVars, readVars, scheduleVars
<1> QED
  BY <1>1, <1>2, <1>3 DEF PipelineInd

LEMMA RegisterLocalPreserves ==
  ASSUME PipelineInd, RegisterLocal
  PROVE  PipelineInd'
<1>1. /\ stage = "register" /\ stage' = "pin" /\ UNCHANGED readVars
      /\ UNCHANGED <<spoolVars, batchVars, scheduleVars, faults, announced>>
  BY DEF RegisterLocal, GoTo, OnlyIngest
<1>2. /\ Inv'
      /\ UNCHANGED <<history, unsettled, denied, checkpoints, received, lost, pinned>>
  <2>1. CASE RegisterSource(Local)
    BY <2>1, RegisterSourcePreserves DEF PipelineInd, RegisterSource, outboxVars, ghostVars
  <2>2. CASE UNCHANGED storeVars
    BY <2>2, StoreUnchanged DEF PipelineInd, storeVars
  <2> QED
    BY <2>1, <2>2 DEF RegisterLocal
<1>3. Snapshot'
  BY <1>1 DEF PipelineInd, Snapshot, Snapshotting, Known, Behind, spoolVars, readVars
<1> QED
  BY <1>1, <1>2, <1>3, SettingKeeps

LEMMA PinLocalPreserves ==
  ASSUME PipelineInd, PinLocal
  PROVE  PipelineInd'
<1>1. stage = "pin" /\ UNCHANGED <<spoolVars, scheduleVars, faults, announced>>
  BY DEF PinLocal
<1>2. CASE Fail
  BY <1>1, <1>2, EarlyFailPreserves
<1>3. CASE ~Fail
  <2>1. /\ PinSource(Local, seen.source) \/ (pinned[Local] = seen.source /\ UNCHANGED storeVars)
        /\ stage' = "gap" /\ UNCHANGED <<readVars, batchVars>>
    BY <1>3 DEF PinLocal, GoTo
  <2>2. /\ Inv' /\ pinned'[Local] = seen.source
        /\ UNCHANGED <<history, unsettled, denied, checkpoints, received, lost>>
    <3>1. seen.source \in SourceIds
      BY SpoolFacts
    <3>2. CASE PinSource(Local, seen.source)
      <4>1. Adopt(Local, seen.source)
        BY <3>2 DEF PinSource
      <4>2. pinned'[Local] = seen.source
        BY <4>1 DEF Adopt, PipelineInd, Inv, TypeOK
      <4> QED
        BY <3>1, <4>1, <4>2, AdoptPreserves DEF PipelineInd, Adopt, outboxVars, ghostVars
    <3>3. CASE pinned[Local] = seen.source /\ UNCHANGED storeVars
      BY <3>3, StoreUnchanged DEF PipelineInd, storeVars
    <3> QED
      BY <2>1, <3>2, <3>3
  <2>3. Snapshot'
    BY <1>1, <2>1, <2>2 DEF PipelineInd, Snapshot, Snapshotting, Known, Behind, spoolVars, readVars
  <2> QED
    BY <1>1, <2>1, <2>2, <2>3, SettingKeeps
<1> QED
  BY <1>2, <1>3

\* What is written off lies before everything the spool still has.
LEMMA RecordLostPreserves ==
  ASSUME PipelineInd, RecordLost
  PROVE  PipelineInd'
<1>1. stage = "gap" /\ UNCHANGED <<spoolVars, scheduleVars, faults, announced>>
  BY DEF RecordLost
<1>2. CASE Fail
  BY <1>1, <1>2, EarlyFailPreserves
<1>3. CASE ReadOn /\ UNCHANGED storeVars
  <2>1. stage' = "page" /\ seen' = NothingSeen /\ UNCHANGED <<page, batchVars>>
    BY <1>3 DEF ReadOn, GoTo
  <2>2. Snapshot'
    BY <2>1 DEF Snapshot, Snapshotting
  <2>3. page' \subseteq 1..MaxSequence
    BY <2>1, SpoolFacts
  <2> QED
    BY <1>1, <1>3, <2>1, <2>2, <2>3, SpoolFacts, ReadingKeeps
<1>4. CASE RecordGap(Local, cursor[Local], LostThrough) /\ ReadOn
  <2> DEFINE after == cursor[Local]
             through == LostThrough
             s == pinned[Local]
  <2>1. stage' = "page" /\ seen' = NothingSeen /\ UNCHANGED <<page, batchVars>>
    BY <1>4 DEF ReadOn, GoTo
  <2>2. after \in 0..MaxSequence /\ seen.latest \in 0..MaxSequence /\ seen.oldest \in 0..MaxSequence
    BY SpoolFacts DEF PipelineInd, Inv, TypeOK
  <2>3. through \in 0..MaxSequence
    BY <2>2 DEF LostThrough
  <2>4. /\ s \in SourceIds /\ after < through /\ checkpoints[s] = after
        /\ checkpoints' = [checkpoints EXCEPT ![s] = through]
    BY <1>4, <2>2, <2>3, RecordedIsNext DEF PipelineInd
  <2>5. Inv'
    BY <1>4, <2>2, <2>3, RecordGapPreserves DEF PipelineInd
  <2>6. /\ UNCHANGED <<pinned, history, unsettled, denied, tombstones, received>>
        /\ lost' = lost \union {<<s, n>> : n \in (after + 1)..through}
    BY <1>4 DEF RecordGap, Advance, outboxVars
  <2>7. s = seen.source /\ s \in Known
    BY <1>1 DEF PipelineInd, Snapshot, Snapshotting
  <2>8. s = sourceId => through <= highWatermark /\ \A n \in stored : through < n
    <3> SUFFICES ASSUME s = sourceId PROVE through <= highWatermark /\ \A n \in stored : through < n
      OBVIOUS
    <3>1. /\ seen.latest <= highWatermark /\ seen.oldest <= highWatermark
          /\ \A n \in stored : Behind(n)
      BY <1>1, <2>7 DEF PipelineInd, Snapshot, Snapshotting
    <3>2. \/ seen.oldest # 0 /\ through = seen.oldest - 1
          \/ seen.oldest = 0 /\ through = seen.latest
      BY <2>2, <2>4 DEF LostThrough
    <3> QED
      BY <2>2, <3>1, <3>2, SpoolFacts DEF Behind
  <2> HIDE DEF through
  <2>9. LostIsGone'
    <3> SUFFICES ASSUME NEW t \in SourceIds, NEW n \in 1..MaxSequence, <<t, n>> \in lost'
                 PROVE  t \in Known /\ (t = sourceId => n <= highWatermark /\ n \notin stored)
      BY <1>1 DEF LostIsGone, Known, spoolVars
    <3>1. CASE <<t, n>> \in lost
      BY <3>1 DEF PipelineInd, LostIsGone
    <3>2. CASE <<t, n>> \notin lost
      <4>1. t = s /\ n \in (after + 1)..through
        BY <2>6, <3>2
      <4> QED
        BY <2>2, <2>3, <2>7, <2>8, <4>1, SpoolFacts
    <3> QED
      BY <3>1, <3>2
  <2>10. ReceivedIsCovered'
    <3>1. checkpoints \in [SourceIds -> 0..MaxSequence] /\ received \subseteq Pairs
      BY DEF PipelineInd, Inv, TypeOK, Pairs
    <3>2. \A t \in SourceIds : checkpoints[t] <= checkpoints'[t] /\ checkpoints'[t] \in Nat
      BY <2>2, <2>3, <2>4, <3>1
    <3>3. \A p \in received : p[1] \in SourceIds /\ p[2] \in Nat /\ p[2] <= checkpoints[p[1]]
      BY <3>1 DEF PipelineInd, Owes, ReceivedIsCovered, Pairs
    <3>4. \A p \in received : p[2] <= checkpoints'[p[1]]
      BY <3>1, <3>2, <3>3
    <3> QED
      BY <2>6, <3>4 DEF ReceivedIsCovered
  <2>11. Fresh' /\ Counted'
    BY <1>1, <2>1, <2>6 DEF PipelineInd, Owes, Fresh, Counted, Shown, scheduleVars, batchVars
  <2>12. Batch'
    BY <1>1, <2>1, <2>6, BatchUnchanged
  <2>13. Machine'
    BY <1>1, <2>1, <2>6, SpoolFacts DEF PipelineInd, Machine, spoolVars, scheduleVars
  <2>14. Snapshot'
    BY <2>1 DEF Snapshot, Snapshotting
  <2> QED
    BY <2>5, <2>9, <2>10, <2>11, <2>12, <2>13, <2>14 DEF PipelineInd, Owes
<1> QED
  BY <1>2, <1>3, <1>4 DEF RecordLost

LEMMA ReadPageIdentityPreserves ==
  ASSUME PipelineInd, ReadPageIdentity
  PROVE  PipelineInd'
<1>1. /\ stage = "page" /\ stage' = "rows"
      /\ seen' = [seen EXCEPT !.source = sourceId, !.latest = highWatermark]
      /\ UNCHANGED <<storeVars, page, spoolVars, batchVars, scheduleVars, faults, announced>>
  BY DEF ReadPageIdentity, GoTo, OnlyIngest
<1>2. seen' \in [source : SourceIds, latest : 0..MaxSequence, oldest : 0..MaxSequence]
  BY <1>1, SpoolFacts
<1>3. Snapshot'
  BY <1>1 DEF Snapshot, Snapshotting
<1> QED
  BY <1>1, <1>2, <1>3, SpoolFacts, ReadingKeeps

LEMMA ReadRowsPreserves ==
  ASSUME PipelineInd, ReadRows
  PROVE  PipelineInd'
<1>1. stage = "rows" /\ UNCHANGED <<spoolVars, scheduleVars, faults, announced>>
  BY DEF ReadRows
<1>2. CASE Fail
  BY <1>1, <1>2, EarlyFailPreserves
<1>3. CASE ~Fail
  <2>1. PICK rows \in SUBSET stored :
          /\ page' = rows /\ seen' = IF rows = {} THEN NothingSeen ELSE seen
          /\ stage' = IF rows = {} THEN "dispatch" ELSE "ingest"
          /\ UNCHANGED <<storeVars, batchVars>>
    BY <1>3 DEF ReadRows, GoTo
  <2>2. /\ page' \subseteq 1..MaxSequence
        /\ stage' = "ingest" => page' # {}
        /\ seen' \in [source : SourceIds, latest : 0..MaxSequence, oldest : 0..MaxSequence]
    BY <2>1, SpoolFacts
  <2>3. stage' # "deliver" /\ Snapshot'
    BY <2>1 DEF Snapshot, Snapshotting
  <2>4. stage # "deliver" /\ UNCHANGED <<spoolVars, storeVars, batchVars, scheduleVars, faults, announced>>
    BY <1>1, <2>1
  <2> QED
    BY <2>2, <2>3, <2>4, ReadingKeeps
<1> QED
  BY <1>2, <1>3

-------------------------------------------------------------------------------
(* The schedule *)

\* The clock moves between two polls, when no batch is on its way.
LEMMA ClockPreserves ==
  ASSUME PipelineInd, TimePasses \/ ClockIsSetBack
  PROVE  PipelineInd'
<1>1. /\ stage = "idle" /\ waiting' \subseteq unsettled /\ faults' \in {faults, faults + 1}
      /\ UNCHANGED <<spoolVars, storeVars, stage, readVars, batchVars, attempts, announced>>
  BY DEF TimePasses, ClockIsSetBack, OnlySchedule
<1>2. UNCHANGED <<history, unsettled, denied, checkpoints, received, lost, pinned, outcomes>>
  BY <1>1 DEF storeVars, batchVars
<1>3. Inv' /\ Batch'
  <2>1. stage # "deliver" /\ stage' # "deliver" /\ UNCHANGED <<history, batchVars>>
    BY <1>1, <1>2
  <2> QED
    BY <1>1, <2>1, StoreUnchanged, BatchUnchanged DEF PipelineInd
<1>4. Machine' /\ Snapshot' /\ LostIsGone'
  <2>1. faults' \in Nat
    BY <1>1 DEF PipelineInd, Machine
  <2> QED
    BY <1>1, <1>2, <2>1 DEF PipelineInd, Machine, Snapshot, Snapshotting, Behind, LostIsGone, Known,
       spoolVars, readVars
<1>5. Counted'
  <2>1. \A e \in unsettled \union denied : announced[PairOf(e)] \in Nat
    BY RowsHavePairs DEF PipelineInd, Machine, Inv, TypeOK
  <2>2. \A n \in Nat : (n <= faults => n <= faults') /\ (n <= 1 + faults => n <= 1 + faults')
    <3>1. faults \in Nat /\ (faults' = faults \/ faults' = faults + 1)
      BY <1>1 DEF PipelineInd, Machine
    <3> QED
      BY <3>1
  <2>3. \A p \in Pairs : announced[p] \in Nat
    BY DEF PipelineInd, Machine
  <2>4. \A p : ~Shown(p) /\ ~Shown(p)'
    BY <1>1, <1>2, NothingShown DEF Shown
  <2> QED
    BY <1>1, <1>2, <2>1, <2>2, <2>3, <2>4 DEF PipelineInd, Owes, Counted
<1> QED
  BY <1>1, <1>2, <1>3, <1>4, <1>5 DEF PipelineInd, Owes, ReceivedIsCovered, Fresh

\* A permission that was given reopens what its absence suppressed, before any batch.
LEMMA BeginPollPreserves ==
  ASSUME PipelineInd, BeginPoll
  PROVE  PipelineInd'
<1>1. /\ stage = "idle" /\ stage' = "identity"
      /\ UNCHANGED <<spoolVars, readVars, batchVars, waiting, faults, announced>>
  BY DEF BeginPoll, GoTo
<1>2. /\ Inv' /\ UNCHANGED <<history, checkpoints, received, lost, pinned>>
      /\ unsettled \subseteq unsettled' /\ unsettled' \union denied' = unsettled \union denied
      /\ denied' \subseteq denied
  <2>1. CASE UNCHANGED storeVars
    BY <2>1, StoreUnchanged DEF PipelineInd, storeVars
  <2>2. CASE RequeuePermissionSuppressed
    BY <2>2, RequeuePreserves DEF PipelineInd, RequeuePermissionSuppressed, sourceVars, ghostVars
  <2> QED
    BY <2>1, <2>2 DEF BeginPoll
<1>3. /\ attempts' \in [Pairs -> 0..(MaxAttempts + 1)]
      /\ \A p \in Pairs : attempts'[p] = attempts[p] \/ attempts'[p] = 0
  BY DEF BeginPoll, PipelineInd, Machine
<1>4. Batch'
  BY <1>1, <1>2, BatchUnchanged
<1>5. Counted'
  <2>1. \A e \in unsettled \union denied : PairOf(e) \in Pairs
    BY RowsHavePairs DEF PipelineInd, Inv, TypeOK
  <2>2. \A p : ~Shown(p) /\ ~Shown(p)'
    BY <1>1, NothingShown DEF Shown, batchVars
  <2> QED
    BY <1>1, <1>2, <1>3, <2>1, <2>2 DEF PipelineInd, Owes, Counted
<1>6. Machine' /\ Snapshot' /\ LostIsGone'
  BY <1>1, <1>2, <1>3
     DEF PipelineInd, Machine, Snapshot, Snapshotting, LostIsGone, Known, spoolVars, readVars
<1> QED
  BY <1>1, <1>2, <1>3, <1>4, <1>5, <1>6 DEF PipelineInd, Owes, ReceivedIsCovered, Fresh

-------------------------------------------------------------------------------
(* The dispatch *)

LEMMA FixWindowPreserves ==
  ASSUME PipelineInd, FixWindow
  PROVE  PipelineInd'
<1>1. stage = "dispatch" /\ UNCHANGED <<spoolVars, scheduleVars, faults, announced>>
  BY DEF FixWindow
<1>2. CASE Fail
  BY <1>1, <1>2, EarlyFailPreserves
<1>3. CASE ~Fail
  <2>1. /\ window' = history /\ stage' = "collect"
        /\ UNCHANGED <<storeVars, readVars, eligible, outcomes>>
    BY <1>3 DEF FixWindow, GoTo
  <2>2. Inv' /\ Owes'
    BY <1>1, <2>1, StoreUnchanged, OwesUnchanged DEF PipelineInd
  <2>3. Batch'
    BY <1>1, <2>1 DEF PipelineInd, Batch, storeVars
  <2>4. Machine' /\ Snapshot' /\ LostIsGone'
    BY <1>1, <2>1 DEF PipelineInd, Machine, Snapshot, Snapshotting, LostIsGone, Known, spoolVars,
       readVars, scheduleVars, storeVars
  <2> QED
    BY <2>2, <2>3, <2>4 DEF PipelineInd
<1> QED
  BY <1>2, <1>3

LEMMA CollectPreserves ==
  ASSUME PipelineInd, Collect
  PROVE  PipelineInd'
<1>1. /\ stage = "collect" /\ stage' = "deliver"
      /\ eligible' = {e \in Page : NeedsOutcome(e)}
      /\ UNCHANGED <<storeVars, readVars, window, outcomes, contextVars>>
      /\ UNCHANGED <<spoolVars, scheduleVars, faults, announced>>
  BY DEF Collect, GoTo, NeedsOutcome
<1>2. Inv' /\ Owes'
  BY <1>1, StoreUnchanged, OwesUnchanged DEF PipelineInd
<1>3. Batch'
  <2>1. UNCHANGED <<history, unsettled, waiting, attempts, policy, window, outcomes>>
    BY <1>1 DEF storeVars, scheduleVars, contextVars
  <2>2. Page' = Page /\ Page \subseteq window
    BY <2>1 DEF Page, Due
  <2>3. \A e : NeedsOutcome(e)' <=> NeedsOutcome(e)
    BY <2>1 DEF NeedsOutcome, Exhausted, Decide
  <2>4. outcomes = << >>
    BY <1>1 DEF PipelineInd, Batch
  <2> QED
    BY <1>1, <2>1, <2>2, <2>3, <2>4 DEF PipelineInd, Batch
<1>4. Machine' /\ Snapshot' /\ LostIsGone'
  BY <1>1 DEF PipelineInd, Machine, Snapshot, Snapshotting, LostIsGone, Known, spoolVars,
     readVars, scheduleVars, storeVars
<1> QED
  BY <1>2, <1>3, <1>4 DEF PipelineInd

\* A batch is what is collected, all at once or one entry, while the window still has
\* all of it.
LEMMA BatchOnItsWay ==
  ASSUME PipelineInd, stage = "deliver", NEW batch \in Unnotified
  PROVE  /\ batch \subseteq eligible /\ eligible \subseteq Page
         /\ \A e \in batch : ~Shown(PairOf(e))
         /\ IF Cardinality(eligible) > MaxIndividual
            THEN batch = eligible /\ outcomes = << >>
            ELSE \E x \in eligible : batch = {x} /\ PairOf(x) \notin DOMAIN outcomes
<1>1. eligible \subseteq Page
  BY DEF PipelineInd, Batch
<1>2. CASE Cardinality(eligible) > MaxIndividual
  <2>1. batch = eligible /\ outcomes = << >>
    BY <1>2 DEF Unnotified
  <2> QED
    BY <1>1, <1>2, <2>1 DEF Shown
<1>3. CASE ~(Cardinality(eligible) > MaxIndividual)
  <2>1. PICK x \in eligible : batch = {x} /\ PairOf(x) \notin DOMAIN outcomes
    BY <1>3 DEF Unnotified
  <2> QED
    BY <1>1, <1>3, <2>1 DEF Shown
<1> QED
  BY <1>2, <1>3

\* What is shown was owed, so that it was shown no more often than there were faults.
LEMMA NotifyPreserves ==
  ASSUME PipelineInd, Notify
  PROVE  PipelineInd'
<1>1. PICK batch \in Unnotified, result \in NotifyResults :
        /\ outcomes' = [p \in {PairOf(e) : e \in batch} \union DOMAIN outcomes |->
                          IF p \in {PairOf(e) : e \in batch} THEN result ELSE outcomes[p]]
        /\ announced' = [p \in Pairs |->
                           IF p \in {PairOf(e) : e \in batch} /\ result = "ok"
                           THEN announced[p] + 1 ELSE announced[p]]
  BY DEF Notify
<1> DEFINE pairs == {PairOf(e) : e \in batch}
<1>2. /\ stage = "deliver"
      /\ UNCHANGED <<spoolVars, storeVars, stage, readVars, window, eligible, scheduleVars, policy,
                     faults>>
  BY DEF Notify, contextVars
<1>3. /\ batch \subseteq eligible /\ eligible \subseteq Page
      /\ \A e \in batch : ~Shown(PairOf(e))
      /\ IF Cardinality(eligible) > MaxIndividual
         THEN batch = eligible /\ outcomes = << >>
         ELSE \E x \in eligible : batch = {x} /\ PairOf(x) \notin DOMAIN outcomes
  BY <1>2, BatchOnItsWay
<1>4. /\ Page \subseteq unsettled /\ Page \subseteq history /\ unsettled \subseteq history
      /\ denied \subseteq history /\ denied \intersect Page = {} /\ waiting \intersect Page = {}
      /\ waiting \subseteq unsettled
  BY DEF PipelineInd, Inv, TypeOK, Machine, Page, Due
<1>5. UNCHANGED <<history, unsettled, denied, received, waiting, attempts, checkpoints>>
  BY <1>2 DEF storeVars, scheduleVars
<1>6. /\ \A e \in history : PairOf(e) \in Pairs /\ PairOf(e) \in received
      /\ \A d, e \in history : PairOf(d) = PairOf(e) => d = e
  BY RowsHavePairs DEF PipelineInd
<1>7. \A p \in pairs : p \in Pairs /\ p \in received
  BY <1>3, <1>4, <1>6
<1>8. \A e \in history : PairOf(e) \in pairs => e \in batch
  BY <1>3, <1>4, <1>6
<1>9. /\ DOMAIN outcomes' = pairs \union DOMAIN outcomes
      /\ \A p \in pairs : outcomes'[p] = result
      /\ \A p \in DOMAIN outcomes \ pairs : outcomes'[p] = outcomes[p]
      /\ \A p \in Pairs : announced'[p] = IF p \in pairs /\ result = "ok"
                                          THEN announced[p] + 1 ELSE announced[p]
  BY <1>1
<1>10. /\ \A p \in pairs : Shown(p)' <=> result = "ok"
       /\ \A p : p \notin pairs => (Shown(p)' <=> Shown(p))
  BY <1>9 DEF Shown
<1>11. announced' \in [Pairs -> Nat]
  BY <1>1 DEF PipelineInd, Machine
<1> HIDE DEF pairs
<1>12. Counted'
  <2>1. \A p \in pairs : announced[p] <= faults
    BY <1>3, <1>4 DEF PipelineInd, Owes, Counted, pairs
  <2>2. \A p \in Pairs : announced[p] \in Nat /\ announced[p] <= 1 + faults
    BY DEF PipelineInd, Machine, Owes, Counted
  <2>3. faults \in Nat
    BY DEF PipelineInd, Machine
  <2>4. \A p \in Pairs : announced'[p] <= 1 + faults'
    BY <1>2, <1>9, <2>1, <2>2, <2>3
  <2>5. ASSUME NEW e \in unsettled \union denied
        PROVE  /\ attempts'[PairOf(e)] <= MaxAttempts
               /\ ~Shown(PairOf(e))' => announced'[PairOf(e)] <= faults'
    <3>1. /\ attempts[PairOf(e)] <= MaxAttempts
          /\ ~Shown(PairOf(e)) => announced[PairOf(e)] <= faults
      BY DEF PipelineInd, Owes, Counted
    <3>2. PairOf(e) \in Pairs
      BY <1>4, <1>6
    <3>3. CASE PairOf(e) \in pairs
      BY <1>2, <1>5, <1>9, <1>10, <2>1, <3>1, <3>2, <3>3
    <3>4. CASE PairOf(e) \notin pairs
      BY <1>2, <1>5, <1>9, <1>10, <3>1, <3>2, <3>4
    <3> QED
      BY <3>3, <3>4
  <2>6. ASSUME NEW e \in denied \union waiting PROVE ~Shown(PairOf(e))'
    <3>1. e \notin batch /\ e \in history
      BY <1>3, <1>4
    <3>2. PairOf(e) \notin pairs
      BY <1>8, <3>1
    <3> QED
      BY <1>10, <3>2 DEF PipelineInd, Owes, Counted
  <2> QED
    BY <1>5, <2>4, <2>5, <2>6 DEF Counted
<1>13. ReceivedIsCovered' /\ Fresh'
  BY <1>5, <1>7, <1>9 DEF PipelineInd, Owes, ReceivedIsCovered, Fresh
<1>14. Batch'
  <2>1. Page' = Page
    BY <1>2, <1>5 DEF Page, Due
  <2>2. \A e : NeedsOutcome(e)' <=> NeedsOutcome(e)
    BY <1>2, <1>5 DEF NeedsOutcome, Exhausted, Decide
  <2>3. /\ DOMAIN outcomes' \subseteq {PairOf(e) : e \in eligible}
        /\ \A p \in DOMAIN outcomes' : outcomes'[p] \in NotifyResults
    BY <1>3, <1>9 DEF PipelineInd, Batch, pairs
  <2>4. Cardinality(eligible) > MaxIndividual =>
          /\ DOMAIN outcomes' = {PairOf(e) : e \in eligible}
          /\ \A p, q \in DOMAIN outcomes' : outcomes'[p] = outcomes'[q]
    BY <1>3, <1>9 DEF pairs
  <2>5. window \subseteq history /\ eligible \subseteq window
        /\ \A e \in Page : NeedsOutcome(e) <=> e \in eligible
    BY <1>2 DEF PipelineInd, Batch
  <2> QED
    BY <1>2, <1>3, <1>5, <2>1, <2>2, <2>3, <2>4, <2>5 DEF Batch
<1>15. Inv'
  BY <1>2, StoreUnchanged DEF PipelineInd
<1>16. Machine' /\ Snapshot' /\ LostIsGone'
  BY <1>2, <1>11 DEF PipelineInd, Machine, Snapshot, Snapshotting, LostIsGone, Known, spoolVars,
     readVars, scheduleVars, storeVars
<1> QED
  BY <1>12, <1>13, <1>14, <1>15, <1>16 DEF PipelineInd, Owes

\* How an entry leaves the window.  It stays owed, or a permission may reopen it, only
\* when it was not shown.
LEMMA EntryLeaves ==
  ASSUME PipelineInd, stage = "deliver", Unnotified = {}, NEW e \in Page, DrainEntry(e)
  PROVE  /\ \/ UNCHANGED attempts
            \/ attempts' = [attempts EXCEPT ![PairOf(e)] = @ + 1]
         /\ \/ /\ FinishOutbox(e) /\ UNCHANGED <<denied, waiting>>
            \/ /\ FinishOutbox(e) /\ denied' = denied \union {e} /\ UNCHANGED <<waiting, attempts>>
               /\ ~Shown(PairOf(e))
            \/ /\ waiting' = waiting \union {e} /\ UNCHANGED storeVars
               /\ ~Shown(PairOf(e))
               /\ UNCHANGED attempts \/ ~Exhausted(e)
<1>1. e \in window /\ e \in history /\ window \subseteq history /\ eligible \subseteq history
  BY DEF PipelineInd, Batch, Page
<1>2. CASE Exhausted(e)
  BY <1>2 DEF DrainEntry, Settle
<1>3. CASE ~Exhausted(e) /\ Decide(e) = "defer"
  <2>1. Defer(e)
    BY <1>3 DEF DrainEntry
  <2>2. e \notin eligible
    BY <1>3 DEF NeedsOutcome, PipelineInd, Batch
  <2>3. PairOf(e) \notin {PairOf(x) : x \in eligible}
    BY <1>1, <2>2, RowsHavePairs DEF PipelineInd
  <2>4. ~Shown(PairOf(e))
    BY <2>3 DEF Shown, PipelineInd, Batch
  <2> QED
    BY <2>1, <2>4 DEF Defer
<1>4. CASE ~Exhausted(e) /\ Decide(e) = "suppress"
  BY <1>4 DEF DrainEntry, Settle
<1>5. CASE ~Exhausted(e) /\ Decide(e) = "notify"
  <2>1. Finish(e)
    BY <1>5 DEF DrainEntry
  <2>2. PairOf(e) \in DOMAIN outcomes /\ OutcomeOf(e) = outcomes[PairOf(e)]
    BY <1>5, OutcomeIsOwn DEF NeedsOutcome
  <2>3. CASE OutcomeOf(e) = "ok"
    BY <2>1, <2>3 DEF Finish, Settle
  <2>4. CASE OutcomeOf(e) = "permission_denied"
    <3>1. ~Shown(PairOf(e))
      BY <2>2, <2>4 DEF Shown
    <3> QED
      BY <2>1, <2>4, <3>1 DEF Finish, Settle
  <2>5. CASE OutcomeOf(e) = "retryable"
    <3>1. ~Shown(PairOf(e))
      BY <2>2, <2>5 DEF Shown
    <3> QED
      BY <1>5, <2>1, <2>5, <3>1 DEF Finish, Retry
  <2> QED
    BY <2>1, <2>3, <2>4, <2>5 DEF Finish
<1>6. Decide(e) \in {"defer", "suppress", "notify"}
  BY DEF Decide
<1> QED
  BY <1>2, <1>3, <1>4, <1>5, <1>6

LEMMA DrainPreserves ==
  ASSUME PipelineInd, Drain
  PROVE  PipelineInd'
<1>1. PICK e \in Page : DrainEntry(e)
  BY DEF Drain
<1>2. /\ stage = "deliver" /\ Unnotified = {}
      /\ UNCHANGED <<spoolVars, stage, readVars, window, eligible, outcomes, policy, faults, announced>>
  BY DEF Drain, batchVars, contextVars
<1>3. /\ \/ UNCHANGED attempts
         \/ attempts' = [attempts EXCEPT ![PairOf(e)] = @ + 1]
      /\ \/ /\ FinishOutbox(e) /\ UNCHANGED <<denied, waiting>>
         \/ /\ FinishOutbox(e) /\ denied' = denied \union {e} /\ UNCHANGED <<waiting, attempts>>
            /\ ~Shown(PairOf(e))
         \/ /\ waiting' = waiting \union {e} /\ UNCHANGED storeVars
            /\ ~Shown(PairOf(e))
            /\ UNCHANGED attempts \/ ~Exhausted(e)
  BY <1>1, <1>2, EntryLeaves
<1>4. e \in unsettled /\ e \in history /\ e \notin waiting /\ e \in window
      /\ unsettled \subseteq history /\ denied \subseteq history /\ waiting \subseteq unsettled
  BY DEF PipelineInd, Inv, TypeOK, Machine, Page, Due
<1>5. /\ PairOf(e) \in Pairs /\ PairOf(e) \in received
      /\ \A d \in history : PairOf(d) = PairOf(e) => d = e
  BY <1>4, RowsHavePairs DEF PipelineInd
<1>6. /\ attempts \in [Pairs -> 0..(MaxAttempts + 1)] /\ attempts[PairOf(e)] \in 0..MaxAttempts
  <2>1. attempts \in [Pairs -> 0..(MaxAttempts + 1)]
    BY DEF PipelineInd, Machine
  <2>2. attempts[PairOf(e)] <= MaxAttempts
    BY <1>4 DEF PipelineInd, Owes, Counted
  <2> QED
    BY <1>5, <2>1, <2>2
<1>7. /\ Inv' /\ UNCHANGED <<history, checkpoints, received, lost, pinned>>
      /\ unsettled' \subseteq unsettled
      /\ \/ unsettled' = unsettled \ {e} /\ UNCHANGED waiting
         \/ unsettled' = unsettled /\ waiting' = waiting \union {e}
  <2>1. CASE FinishOutbox(e) /\ UNCHANGED waiting
    BY <1>4, <2>1, FinishOutboxPreserves DEF PipelineInd, FinishOutbox, sourceVars, ghostVars
  <2>2. CASE waiting' = waiting \union {e} /\ UNCHANGED storeVars
    BY <2>2, StoreUnchanged DEF PipelineInd, storeVars
  <2> QED
    BY <1>3, <2>1, <2>2
<1>8. /\ attempts' \in [Pairs -> 0..(MaxAttempts + 1)]
      /\ \A p \in Pairs : p # PairOf(e) => attempts'[p] = attempts[p]
  BY <1>3, <1>5, <1>6
<1>9. Machine' /\ Snapshot' /\ LostIsGone'
  <2>1. waiting' \subseteq unsettled'
    BY <1>4, <1>7
  <2> QED
    BY <1>2, <1>7, <1>8, <2>1
       DEF PipelineInd, Machine, Snapshot, Snapshotting, LostIsGone, Known, Behind, spoolVars, readVars
<1>10. ReceivedIsCovered' /\ Fresh'
  BY <1>2, <1>5, <1>7, <1>8 DEF PipelineInd, Owes, ReceivedIsCovered, Fresh
<1>11. \A p : Shown(p)' <=> Shown(p)
  BY <1>2 DEF Shown
<1>12. Counted'
  <2>1. \A p \in Pairs : announced'[p] <= 1 + faults'
    BY <1>2 DEF PipelineInd, Owes, Counted
  <2>2. ASSUME NEW d \in unsettled' \union denied'
        PROVE  /\ attempts'[PairOf(d)] <= MaxAttempts
               /\ ~Shown(PairOf(d))' => announced'[PairOf(d)] <= faults'
    <3>1. d \in unsettled \union denied
      BY <1>3, <1>4, <1>7 DEF storeVars, FinishOutbox
    <3>2. /\ attempts[PairOf(d)] <= MaxAttempts
          /\ ~Shown(PairOf(d))' => announced'[PairOf(d)] <= faults'
      BY <1>2, <1>11, <3>1 DEF PipelineInd, Owes, Counted
    <3>3. CASE d # e
      <4>1. PairOf(d) \in Pairs /\ PairOf(d) # PairOf(e)
        BY <1>4, <1>5, <3>1, <3>3, RowsHavePairs DEF PipelineInd
      <4> QED
        BY <1>8, <3>2, <4>1
    <3>4. CASE d = e
      <4>1. UNCHANGED attempts \/ ~Exhausted(e)
        <5>1. CASE FinishOutbox(e) /\ UNCHANGED denied
          <6>1. e \in denied
            BY <3>4, <5>1 DEF FinishOutbox
          <6> QED
            BY <1>4, <6>1 DEF PipelineInd, Inv, TypeOK
        <5> QED
          BY <1>3, <5>1
      <4>2. CASE UNCHANGED attempts
        BY <3>2, <4>2
      <4>3. CASE ~Exhausted(e)
        <5>1. attempts[PairOf(e)] < MaxAttempts
          BY <1>6, <4>3 DEF Exhausted
        <5>2. attempts'[PairOf(e)] \in {attempts[PairOf(e)], attempts[PairOf(e)] + 1}
          BY <1>3, <1>5, <1>6
        <5>3. attempts'[PairOf(e)] <= MaxAttempts
          BY <1>6, <5>1, <5>2
        <5> QED
          BY <3>2, <3>4, <5>3
      <4> QED
        BY <4>1, <4>2, <4>3
    <3> QED
      BY <3>3, <3>4
  <2>3. ASSUME NEW d \in denied' \union waiting' PROVE ~Shown(PairOf(d))'
    <3>1. CASE d \in denied \union waiting
      BY <1>11, <3>1 DEF PipelineInd, Owes, Counted
    <3>2. CASE d \notin denied \union waiting
      <4>1. d = e /\ ~Shown(PairOf(e))
        BY <1>3, <3>2 DEF storeVars
      <4> QED
        BY <1>11, <4>1
    <3> QED
      BY <3>1, <3>2
  <2> QED
    BY <2>1, <2>2, <2>3 DEF Counted
<1>13. Batch'
  <2>1. Page' = Page \ {e}
    BY <1>2, <1>4, <1>7 DEF Page, Due
  <2>2. Unnotified' = {}
    BY <1>2 DEF Unnotified
  <2>3. ASSUME NEW d \in Page' PROVE NeedsOutcome(d)' <=> d \in eligible'
    <3>1. d \in Page /\ d \in history /\ d # e
      BY <1>4, <2>1 DEF Page, Due
    <3>2. PairOf(d) # PairOf(e) /\ PairOf(d) \in Pairs
      BY <1>5, <3>1, RowsHavePairs DEF PipelineInd
    <3>3. attempts'[PairOf(d)] = attempts[PairOf(d)]
      BY <1>8, <3>2
    <3>4. NeedsOutcome(d)' <=> NeedsOutcome(d)
      BY <1>2, <3>3 DEF NeedsOutcome, Exhausted, Decide
    <3> QED
      BY <1>2, <3>1, <3>4 DEF PipelineInd, Batch
  <2> QED
    BY <1>2, <1>7, <2>2, <2>3 DEF PipelineInd, Batch
<1> QED
  BY <1>7, <1>9, <1>10, <1>12, <1>13 DEF PipelineInd, Owes

\* When the window is empty, what was shown is settled.
LEMMA DrainDonePreserves ==
  ASSUME PipelineInd, DrainDone
  PROVE  PipelineInd'
<1>1. /\ stage = "deliver" /\ Unnotified = {} /\ Fail
      /\ UNCHANGED <<spoolVars, scheduleVars, faults, announced>>
  BY DEF DrainDone
<1>2. Page = {}
  BY <1>1, BatchHolds DEF DrainDone, BatchIsComplete
<1>3. ASSUME NEW e \in unsettled \union denied, Shown(PairOf(e)) PROVE FALSE
  <2>1. e \in unsettled /\ e \notin waiting /\ e \in history
    BY <1>3 DEF PipelineInd, Owes, Counted, Inv, TypeOK
  <2>2. PICK x \in eligible : PairOf(x) = PairOf(e)
    BY <1>3 DEF Shown, PipelineInd, Batch
  <2>3. x \in window /\ x \in history
    BY DEF PipelineInd, Batch
  <2>4. x = e
    BY <2>1, <2>2, <2>3, RowsHavePairs DEF PipelineInd
  <2> QED
    BY <1>2, <2>1, <2>3, <2>4 DEF Page, Due
<1> QED
  BY <1>1, <1>3, FailPreserves

LEMMA InterruptPreserves ==
  ASSUME PipelineInd, Interrupt
  PROVE  PipelineInd'
<1>1. Fail /\ faults' = faults + 1 /\ UNCHANGED <<spoolVars, scheduleVars, announced>>
  BY DEF Interrupt
<1> QED
  BY <1>1, FailPreserves

-------------------------------------------------------------------------------
(* The specification *)

LEMMA StutterPreserves ==
  ASSUME PipelineInd, UNCHANGED pipelineVars
  PROVE  PipelineInd'
<1>1. UNCHANGED <<spoolVars, storeVars, stage, seen, page, window, eligible, outcomes, attempts,
                  waiting, policy, faults, announced>>
  BY DEF pipelineVars, readVars, batchVars, scheduleVars, contextVars
<1>2. Inv' /\ Owes'
  BY <1>1, StoreUnchanged, OwesUnchanged DEF PipelineInd, scheduleVars
<1>3. Machine' /\ Snapshot' /\ LostIsGone'
  BY <1>1 DEF PipelineInd, Machine, Snapshot, Snapshotting, LostIsGone, Known, Behind, spoolVars,
     storeVars
<1>4. Batch'
  BY <1>1 DEF PipelineInd, Batch, storeVars, Page, Due, NeedsOutcome, Exhausted, Decide, Unnotified
<1> QED
  BY <1>2, <1>3, <1>4 DEF PipelineInd

LEMMA StepPreserves == PipelineInd /\ [Step]_pipelineVars => PipelineInd'
<1> SUFFICES ASSUME PipelineInd, [Step]_pipelineVars PROVE PipelineInd'
  OBVIOUS
<1>1. CASE StoreEvent \/ PruneEvents \/ RegenerateIdentity
  BY <1>1, StoreEventPreserves, PruneEventsPreserves, RegenerateIdentityPreserves
<1>2. CASE RemoteIngest \/ TimePasses \/ ClockIsSetBack
  BY <1>2, RemoteIngestPreserves, ClockPreserves
<1>3. CASE IngestStep
  BY <1>3, ReadIdentityPreserves, ReadOldestPreserves, ReadNewestPreserves, RegisterLocalPreserves,
     PinLocalPreserves, RecordLostPreserves, ReadPageIdentityPreserves, ReadRowsPreserves,
     IngestRowPreserves DEF IngestStep
<1>4. CASE DispatchStep
  BY <1>4, FixWindowPreserves, CollectPreserves, NotifyPreserves, DrainPreserves,
     DrainDonePreserves DEF DispatchStep
<1>5. CASE BeginPoll \/ Interrupt
  BY <1>5, BeginPollPreserves, InterruptPreserves
<1>6. CASE UNCHANGED pipelineVars
  BY <1>6, StutterPreserves
<1> QED
  BY <1>1, <1>2, <1>3, <1>4, <1>5, <1>6 DEF Step

LEMMA IndHolds == PipelineSpec => []PipelineInd
BY BeginIsInd, StepPreserves, PTL DEF PipelineSpec

LEMMA IndGivesInv == PipelineInd => PipelineInv
<1> SUFFICES ASSUME PipelineInd PROVE PipelineInv
  OBVIOUS
<1>1. PipelineTypeOK
  BY DEF PipelineInd, Inv, Machine, Batch, PipelineTypeOK
<1>2. AnnouncedOnce
  BY DEF PipelineInd, Owes, Counted, AnnouncedOnce
<1>3. LocalLossIsReal
  BY SpoolFacts DEF PipelineInd, LostIsGone, LocalLossIsReal
<1> QED
  BY <1>1, <1>2, <1>3, BatchHolds DEF PipelineInv

\* However polls, hooks, SSH sources, faults and changes of the spool's identity
\* interleave: an event is shown once, and once more for every fault at most; no entry
\* is settled by the outcome of a batch it was not in; and the local reader writes off
\* nothing the spool still has (poll_local_pipeline, drain_outbox_window, ingest_spool).
THEOREM PipelineIsRight == PipelineSpec => []PipelineInv
BY IndHolds, IndGivesInv, PTL
===============================================================================
