----------------------------- MODULE SourceFleet -----------------------------
(***************************************************************************)
(* The remote sources of the desktop from their settings to their threads: *)
(* the commands that add, remove, reconnect and confirm a source           *)
(* (state.rs), the worker that keeps one thread per source (worker.rs,     *)
(* remote_worker.rs), the bounded channels on which the threads report,    *)
(* the probes for agents, and the end of it all (lib.rs).                  *)
(*                                                                         *)
(* The commands and one turn of the worker exclude each other (the lock of *)
(* DesktopState); the threads of sources and probes run beside both.  What *)
(* a thread does while it is connected is in RemoteDelivery.               *)
(***************************************************************************)
EXTENDS Integers, Sequences, FiniteSets

CONSTANTS
  Aliases,              \* host aliases
  Identities,           \* of the spools behind them
  Capacity,             \* UPDATE_CHANNEL_CAPACITY
  QuickHands,           \* whether a source may be added again before the worker has seen it go
  MaxGeneration, MaxAdds, MaxProbes, MaxMishaps \* bounds of the instance

ASSUME FleetAssumption ==
  /\ "none" \notin Identities
  /\ Capacity \in Nat \ {0} /\ QuickHands \in BOOLEAN
  /\ {MaxGeneration, MaxAdds, MaxProbes, MaxMishaps} \subseteq Nat

VARIABLES
  app,                  \* running, stopping or gone
  config,               \* settings: the reconnect_generation of each source, or Absent
  view,                 \* SourceView: its status and whether it asks for a confirmation
  epoch,                \* remote_connection_epochs
  offered,              \* pending_remote_identities
  rows,                 \* running agents of a source: the period they were probed in, or 0
  pinned,               \* the identity in the database
  worker,               \* where the worker is in its turn
  job,                  \* RemoteJob: the thread of each source
  updates,              \* what threads have reported
  probe, results,       \* the probes for agents and what they have found
  period,               \* ghost: how often a view has become connected
  afresh,               \* ghost: sources whose view was connected when another source
                        \* came or went and it was started afresh, until their epoch moves
  presented,            \* ghost: identities a source has presented since it was added
  adds, probes,
  mishaps               \* connections lost and settings not saved

settingVars == <<config, pinned>>
viewVars == <<view, epoch, offered, rows, period, afresh>>
threadVars == <<job, updates>>
probeVars == <<probe, results, probes>>
fleetVars == <<app, settingVars, viewVars, worker, threadVars, probeVars, presented,
               adds, mishaps>>

Absent == -1
NoView == [status |-> "none", asks |-> FALSE]
NoJob == [at |-> "none", generation |-> 0, stop |-> FALSE, finds |-> "none"]
NoProbe == [at |-> "none", epoch |-> 0, period |-> 0]

Configured(a) == config[a] # Absent
Listed(a) == view[a].status # "none"

Mishap == mishaps < MaxMishaps /\ mishaps' = mishaps + 1

\* try_send.
Sent(queue, message) == IF Len(queue) < Capacity THEN Append(queue, message) ELSE queue

Report(a, status, identity) == [alias |-> a, status |-> status, identity |-> identity]

-------------------------------------------------------------------------------
(* The thread of a source *)

JobAt(a, place) == job' = [job EXCEPT ![a].at = place]

OnlyJob ==
  UNCHANGED <<app, config, viewVars, worker, probeVars, adds>>

\* run_remote: from the start, or after a delay.
Dial(a) ==
  /\ job[a].at = "wait" /\ ~job[a].stop
  /\ JobAt(a, "dial")
  /\ updates' = Sent(updates, Report(a, "waiting", "none"))
  /\ UNCHANGED <<pinned, presented, mishaps>> /\ OnlyJob

\* bridge_once: the first identity is pinned, another one is refused.  Whatever spool is
\* behind the alias by now answers.
Handshake(a) ==
  /\ job[a].at = "dial" /\ ~job[a].stop
  /\ \E identity \in Identities :
       IF pinned[a] \in {"none", identity}
       THEN /\ pinned' = [pinned EXCEPT ![a] = identity]
            /\ JobAt(a, "connected")
            /\ updates' = Sent(updates, Report(a, "connected", "none"))
            /\ UNCHANGED presented
       ELSE /\ job' = [job EXCEPT ![a].at = "report", ![a].finds = identity]
            /\ presented' = [presented EXCEPT ![a] = @ \union {identity}]
            /\ UNCHANGED <<pinned, updates>>
  /\ UNCHANGED mishaps /\ OnlyJob

\* A connection that may be tried again, or one that needs the user.
Drop(a) ==
  /\ job[a].at \in {"dial", "connected"}
  /\ Mishap
  /\ \/ /\ JobAt(a, "wait")
        /\ updates' = Sent(updates, Report(a, "waiting", "none"))
     \/ JobAt(a, "report") /\ UNCHANGED updates
  /\ UNCHANGED <<pinned, presented>> /\ OnlyJob

\* send_required_update.
Require(a) ==
  /\ job[a].at = "report" /\ ~job[a].stop
  /\ Len(updates) < Capacity
  /\ updates' = Append(updates, Report(a, "error", job[a].finds))
  /\ JobAt(a, "parked")
  /\ UNCHANGED <<pinned, presented, mishaps>> /\ OnlyJob

\* Faulty variant: what is required is sent before anything else is looked at.
Heeds_NotReporting(place) == place \notin {"none", "report", "ended"}

\* Where a thread looks at its stop flag.
Heeds(place) == place \notin {"none", "ended"}

EndJob(a) ==
  /\ job[a].stop /\ Heeds(job[a].at)
  /\ JobAt(a, "ended")
  /\ UNCHANGED <<pinned, updates, presented, mishaps>> /\ OnlyJob

JobStep(a) == Dial(a) \/ Handshake(a) \/ Require(a) \/ EndJob(a)

\* probe_remote_agents finds agents, or fails, or is stopped.
ProbeEnds(a) ==
  /\ probe[a].at = "running"
  /\ probe' = [probe EXCEPT ![a].at = "ended"]
  /\ \/ results' = Sent(results, [alias |-> a, epoch |-> probe[a].epoch, period |-> probe[a].period])
     \/ UNCHANGED results
  /\ UNCHANGED <<app, settingVars, viewVars, worker, threadVars, probes, presented,
                 adds, mishaps>>

-------------------------------------------------------------------------------
(* A turn of the worker, under the lock *)

OnlyWorker == UNCHANGED <<app, settingVars, presented, adds, mishaps>>

\* The worker has the lock, or takes it for its next turn unless it was told to stop.
AtSync == worker = "sync" \/ (worker = "idle" /\ app = "running")

\* A thread whose source was removed or reconnected, or that has ended.
Outdated(a) == ~Configured(a) \/ job[a].generation # config[a] \/ job[a].at = "ended"

ToStop == {a \in Aliases : job[a].at # "none" /\ Outdated(a)}

\* stop_and_join, one after the other.
StopJob(a) ==
  /\ AtSync
  /\ a \in ToStop
  /\ worker' = "sync"
  /\ IF job[a].at = "ended"
     THEN job' = [job EXCEPT ![a] = NoJob]
     ELSE job' = [job EXCEPT ![a].stop = TRUE]
  /\ \A b \in Aliases \ {a} : job[b].stop => job[b].at = "ended"
  /\ job' # job
  /\ UNCHANGED <<viewVars, updates, probeVars>> /\ OnlyWorker

\* The threads that are missing are started, and probes of the sources shown as connected.
StartAll ==
  /\ AtSync
  /\ ToStop = {}
  /\ worker' = "drain"
  /\ job' = [a \in Aliases |->
               IF Configured(a) /\ job[a].at = "none"
               THEN [NoJob EXCEPT !.at = "wait", !.generation = config[a]]
               ELSE job[a]]
  /\ LET free == {a \in Aliases : probe[a].at # "running"}
         due  == {a \in free : view[a].status = "connected" /\ job'[a].at # "none"}
     IN  \E started \in {{}, IF probes < MaxProbes THEN due ELSE {}} :
           /\ probe' = [a \in Aliases |->
                          IF a \in started
                          THEN [at |-> "running", epoch |-> epoch[a], period |-> period[a]]
                          ELSE IF a \in free THEN NoProbe ELSE probe[a]]
           /\ probes' = IF started = {} THEN probes ELSE probes + 1
  /\ UNCHANGED <<viewVars, updates, results>> /\ OnlyWorker

\* Leaving connected forgets the agents and makes the probes under way worthless.
SetStatus(a, status, asks) ==
  LET was == view[a].status
      left == was = "connected" /\ status # "connected"
  IN  /\ view' = IF was = "none" THEN view ELSE [view EXCEPT ![a] = [status |-> status, asks |-> asks]]
      /\ epoch' = IF left THEN [epoch EXCEPT ![a] = @ + 1] ELSE epoch
      /\ afresh' = IF left THEN afresh \ {a} ELSE afresh
      /\ rows' = IF was # "none" /\ status # "connected" THEN [rows EXCEPT ![a] = 0] ELSE rows
      /\ period' = IF was \in {"waiting", "error"} /\ status = "connected"
                   THEN [period EXCEPT ![a] = @ + 1] ELSE period

\* set_remote_status, or require_remote_identity_confirmation.
Drain ==
  /\ worker = "drain"
  /\ updates # << >>
  /\ LET u == Head(updates) IN
       /\ SetStatus(u.alias, u.status, view[u.alias].asks \/ u.identity # "none")
       /\ offered' = IF u.identity = "none" THEN offered ELSE [offered EXCEPT ![u.alias] = u.identity]
  /\ updates' = Tail(updates)
  /\ UNCHANGED <<worker, job, probeVars>> /\ OnlyWorker

\* Faulty variant: agents are shown for whatever connection is there now.
Welcome_Connected(r) == view[r.alias].status = "connected"

Welcome(r) == view[r.alias].status = "connected" /\ epoch[r.alias] = r.epoch

\* update_remote_agents.
TakeAgents ==
  /\ worker = "agents" \/ (worker = "drain" /\ updates = << >>)
  /\ results # << >>
  /\ worker' = "agents"
  /\ LET r == Head(results) IN
       rows' = IF Welcome(r) THEN [rows EXCEPT ![r.alias] = r.period] ELSE rows
  /\ results' = Tail(results)
  /\ UNCHANGED <<view, epoch, offered, period, afresh, threadVars, probe, probes>> /\ OnlyWorker

PollEnds ==
  /\ worker = "agents" \/ (worker = "drain" /\ updates = << >>)
  /\ results = << >>
  /\ worker' = "idle"
  /\ UNCHANGED <<viewVars, threadVars, probeVars>> /\ OnlyWorker

\* The fleet is dropped: each thread is stopped and joined, then the probes.
StopAll(a) ==
  /\ app = "stopping" /\ worker = "idle"
  /\ job[a].at \notin {"none", "ended"} /\ ~job[a].stop
  /\ \A b \in Aliases : job[b].stop => job[b].at = "ended"
  /\ job' = [job EXCEPT ![a].stop = TRUE]
  /\ UNCHANGED <<worker, viewVars, updates, probeVars>> /\ OnlyWorker

Leave ==
  /\ app = "stopping" /\ worker = "idle"
  /\ \A a \in Aliases : job[a].at \in {"none", "ended"} /\ probe[a].at # "running"
  /\ app' = "gone"
  /\ UNCHANGED <<settingVars, viewVars, worker, threadVars, probeVars, presented,
                 adds, mishaps>>

WorkerStep ==
  \/ (\E a \in Aliases : StopJob(a)) \/ StartAll
  \/ Drain \/ TakeAgents \/ PollEnds
  \/ (\E a \in Aliases : StopAll(a)) \/ Leave

-------------------------------------------------------------------------------
(* The commands, which wait for the lock *)

Unlocked == app = "running" /\ worker = "idle"

OnlyCommand == UNCHANGED <<app, worker, threadVars, probeVars>>

\* persist: whether the settings could be saved.
Persists(saved) == IF saved THEN UNCHANGED mishaps ELSE Mishap

\* A source that was not heard of yet.
Fresh(a) == [status |-> "waiting", asks |-> FALSE]

\* sync_remote_source_views starts every view afresh.
Views(sources) == [a \in Aliases |-> IF a \in sources THEN Fresh(a) ELSE NoView]

Sources == {a \in Aliases : Configured(a)}
Connected == {a \in Aliases : view[a].status = "connected"}

\* add_remote_source; when the settings cannot be saved the source stays in memory, unlisted.
Add(a) ==
  /\ Unlocked
  /\ ~Configured(a)
  /\ adds < MaxAdds
  /\ QuickHands \/ (job[a].at = "none" /\ \A i \in DOMAIN updates : updates[i].alias # a)
  /\ config' = [config EXCEPT ![a] = 0]
  /\ epoch' = [epoch EXCEPT ![a] = @ + 1]
  /\ presented' = [presented EXCEPT ![a] = {}]
  /\ adds' = adds + 1
  /\ \E saved \in BOOLEAN :
       /\ Persists(saved)
       /\ view' = IF saved THEN Views(Sources \union {a}) ELSE view
       /\ afresh' = (IF saved THEN afresh \union Connected ELSE afresh) \ {a}
  /\ UNCHANGED <<pinned, offered, rows, period>> /\ OnlyCommand

\* remove_remote_source; when it fails everything is as it was.
RemoveSource(a) ==
  /\ Unlocked
  /\ Configured(a) /\ Listed(a)
  /\ config' = [config EXCEPT ![a] = Absent]
  /\ pinned' = [pinned EXCEPT ![a] = "none"]
  /\ epoch' = [epoch EXCEPT ![a] = @ + 1]
  /\ rows' = [rows EXCEPT ![a] = 0]
  /\ view' = Views(Sources \ {a})
  /\ afresh' = (afresh \union Connected) \ {a}
  /\ UNCHANGED <<offered, period, presented, adds, mishaps>> /\ OnlyCommand

NextGeneration(a) ==
  /\ config[a] < MaxGeneration
  /\ config' = [config EXCEPT ![a] = @ + 1]

\* reconnect_remote_source.
Reconnect(a) ==
  /\ Unlocked
  /\ Configured(a) /\ Listed(a)
  /\ NextGeneration(a)
  /\ \E saved \in BOOLEAN :
       /\ Persists(saved)
       /\ IF saved THEN SetStatus(a, "waiting", view[a].asks) ELSE UNCHANGED <<view, epoch, rows, period, afresh>>
  /\ UNCHANGED <<pinned, offered, presented, adds>> /\ OnlyCommand

\* reconnect_all_remote_sources, from the tray: not the ones that ask for a confirmation.
ReconnectAll ==
  /\ Unlocked
  /\ LET chosen == {a \in Sources : ~view[a].asks}
         listed == {a \in chosen : Listed(a)}
     IN  /\ chosen # {} /\ \A a \in chosen : config[a] < MaxGeneration
         /\ config' = [a \in Aliases |-> IF a \in chosen THEN config[a] + 1 ELSE config[a]]
         /\ \E saved \in BOOLEAN :
              /\ Persists(saved)
              /\ LET told == IF saved THEN listed ELSE {} IN
                   /\ view' = [a \in Aliases |-> IF a \in told THEN Fresh(a) ELSE view[a]]
                   /\ epoch' = [a \in Aliases |->
                                  IF a \in told /\ view[a].status = "connected"
                                  THEN epoch[a] + 1 ELSE epoch[a]]
                   /\ afresh' = afresh \ (told \intersect Connected)
                   /\ rows' = [a \in Aliases |-> IF a \in told THEN 0 ELSE rows[a]]
  /\ UNCHANGED <<pinned, offered, period, presented, adds>> /\ OnlyCommand

\* confirm_remote_identity, which the view asks for: the identity is forgotten, replaced
\* in the database, and the source reconnected; each of the last two may fail.
Confirm(a) ==
  /\ Unlocked
  /\ view[a].asks /\ offered[a] # "none"
  /\ offered' = [offered EXCEPT ![a] = "none"]
  /\ \/ /\ Mishap
        /\ UNCHANGED <<settingVars, view, epoch, rows, period, afresh>>
     \/ /\ pinned' = [pinned EXCEPT ![a] = offered[a]]
        /\ NextGeneration(a)
        /\ \E saved \in BOOLEAN :
             /\ Persists(saved)
             /\ IF saved THEN SetStatus(a, "waiting", FALSE) ELSE UNCHANGED <<view, epoch, rows, period, afresh>>
  /\ UNCHANGED <<presented, adds>> /\ OnlyCommand

\* shutdown: the main thread takes no command any more.
Stop ==
  /\ app = "running"
  /\ app' = "stopping"
  /\ UNCHANGED <<settingVars, viewVars, worker, threadVars, probeVars, presented,
                 adds, mishaps>>

-------------------------------------------------------------------------------

InitFleet ==
  /\ app = "running"
  /\ config = [a \in Aliases |-> Absent] /\ view = [a \in Aliases |-> NoView]
  /\ epoch = [a \in Aliases |-> -1] /\ offered = [a \in Aliases |-> "none"]
  /\ rows = [a \in Aliases |-> 0] /\ pinned = [a \in Aliases |-> "none"]
  /\ worker = "idle" /\ job = [a \in Aliases |-> NoJob] /\ updates = << >>
  /\ probe = [a \in Aliases |-> NoProbe] /\ results = << >>
  /\ period = [a \in Aliases |-> 0] /\ afresh = {} /\ presented = [a \in Aliases |-> {}]
  /\ adds = 0 /\ probes = 0 /\ mishaps = 0

Command ==
  \/ \E a \in Aliases : Add(a) \/ RemoveSource(a) \/ Reconnect(a) \/ Confirm(a)
  \/ ReconnectAll \/ Stop

NextFleet ==
  \/ WorkerStep \/ Command
  \/ \E a \in Aliases : JobStep(a) \/ Drop(a) \/ ProbeEnds(a)

Fleet == InitFleet /\ [][NextFleet]_fleetVars

\* Threads run; ssh answers, ends or times out.  Nothing is assumed of the user.
FleetIsFair ==
  /\ WF_fleetVars(WorkerStep)
  /\ \A a \in Aliases : WF_fleetVars(JobStep(a)) /\ WF_fleetVars(ProbeEnds(a))

FairFleet == Fleet /\ FleetIsFair

-------------------------------------------------------------------------------

\* The values of the variables; only a listed source has agents, and the worker waits for
\* one thread at a time.
FleetTypeOK ==
  /\ app \in {"running", "stopping", "gone"}
  /\ worker \in {"idle", "sync", "drain", "agents"}
  /\ \A a \in Aliases :
       /\ config[a] \in {Absent} \union 0..MaxGeneration
       /\ view[a] \in [status : {"none", "waiting", "connected", "error"}, asks : BOOLEAN]
       /\ offered[a] \in Identities \union {"none"} /\ pinned[a] \in Identities \union {"none"}
       /\ job[a].at \in {"none", "wait", "dial", "connected", "report", "parked", "ended"}
       /\ probe[a].at \in {"none", "running", "ended"}
       /\ Listed(a) => Configured(a)
       /\ rows[a] # 0 => Listed(a)
  /\ Len(updates) <= Capacity /\ Len(results) <= Capacity
  /\ Cardinality({a \in Aliases : job[a].stop /\ job[a].at # "ended"}) <= 1

\* The agents shown of a source were probed since it was last shown as connected: what a
\* slow probe says of an earlier connection is not shown (state.rs:348, docs/mvp-design.md:594).
\* A source whose view was started afresh because another one came or went is excepted
\* until its epoch moves.
AgentsBelongToConnection ==
  \A a \in Aliases \ afresh :
    rows[a] # 0 => view[a].status = "connected" /\ rows[a] = period[a]

\* The same without an exception, as the design document has it (docs/mvp-design.md:594).
\* This fails: the views started afresh keep their agents, and their epoch.
AgentsAreOfConnection ==
  \A a \in Aliases : rows[a] # 0 => view[a].status = "connected" /\ rows[a] = period[a]

\* An identity takes the place of another only if the source has presented it since it was
\* added, whatever is left of an earlier source of that alias (state.rs:575).
ConfirmIsCurrent ==
  [][\A a \in Aliases :
       pinned[a] # "none" /\ pinned'[a] \notin {"none", pinned[a]} => pinned'[a] \in presented[a]]_fleetVars

\* In the end the threads are the ones the settings ask for, and a thread that waits for
\* the user has said so, however full the channel was (remote_worker.rs:102, remote_worker.rs:667).
FleetSettles ==
  <>[](app = "running" => \A a \in Aliases :
         /\ Configured(a) <=> job[a].at # "none"
         /\ Configured(a) => job[a].generation = config[a]
         /\ job[a].at = "parked" /\ Listed(a) =>
              view[a].status = "error" /\ (job[a].finds # "none" => view[a].asks))

\* The application ends: no thread waits for room in a channel that nobody empties, nor the
\* worker for it (lib.rs:223, remote_worker.rs:672).
ShutdownEnds == <>[](app # "stopping")

\* What is shown and offered of a source belongs to what it is connected to.
ViewsAreCurrent == [](FleetTypeOK /\ AgentsBelongToConnection) /\ ConfirmIsCurrent

\* Both: the threads follow the settings, and end.
FleetEnds == FleetSettles /\ ShutdownEnds
===============================================================================
