----------------------------- MODULE LocalPipeline -----------------------------
(***************************************************************************)
(* One poll of the desktop (AppService::poll_local_pipeline and            *)
(* crates/aizu-core/src/pipeline.rs): it takes in what the local spool     *)
(* holds and then decides about every notification that is owed and due,   *)
(* over the tables of DesktopStore.                                        *)
(*                                                                         *)
(* A poll holds the lock of AppService from its first step to its last, so *)
(* neither a command of the user nor the retention of the history comes in *)
(* between.  Hooks that write the spool, its retention and regeneration,   *)
(* and the threads of SSH sources that write the same tables do.           *)
(*                                                                         *)
(* now is read once in a poll: which entries are due stays as it is until  *)
(* the poll is over.                                                       *)
(***************************************************************************)
EXTENDS DesktopStore

CONSTANTS
  Local, Remote,        \* the two settings
  RemoteId,             \* the identity of the SSH source; the others are the spool's
  MaxRemote,            \* bounds the events of the SSH source
  PageSize,             \* INGEST_PAGE_SIZE
  MaxAttempts,          \* MAX_NOTIFICATION_ATTEMPTS
  MaxIndividual,        \* above it aggregate_backlog_count makes a summary
  Urgent,               \* pairs of questions that bypass the quiet hours
  MaxRegenerated,       \* bounds the events of a spool whose identity changes
  MaxFaults             \* bounds crashes, failing calls, clocks set back and
                        \* changes of the spool's identity

ASSUME PipelineAssumption ==
  /\ Local # Remote /\ Keys = {Local, Remote}
  /\ RemoteId \in SourceIds
  /\ SourceIds \X (1..MaxSequence) \subseteq EventIds /\ Bodies # {}
  /\ PageSize \in Nat \ {0} /\ MaxAttempts \in Nat \ {0} /\ MaxIndividual \in Nat
  /\ {MaxRemote, MaxFaults} \subseteq Nat /\ MaxRegenerated \in 0..MaxSequence

Pairs == SourceIds \X (1..MaxSequence)

VARIABLES
  sourceId, highWatermark, stored, retired,  \* the spool, as in SpoolLog
  stage,                \* where the poll is, or "idle"
  seen,                 \* the identity and snapshot read last
  page, pageFull,       \* rows read and not yet taken in; was the page full?
  window,               \* the rows up to high_watermark
  eligible,             \* what the collection counted
  outcomes,             \* how each notification, or the summary, ended
  determined,           \* has the user answered the system? as this poll read it
  policy,               \* what decide makes of an event in this poll
  attempts,             \* attempt_count
  waiting,              \* entries whose next_attempt_at is not reached
  faults,
  announced             \* ghost: how often an event was shown

spoolVars == <<sourceId, highWatermark, stored, retired>>
readVars == <<seen, page, pageFull>>
batchVars == <<window, eligible, outcomes>>
scheduleVars == <<attempts, waiting>>
contextVars == <<determined, policy>>
pipelineVars == <<spoolVars, storeVars, stage, readVars, batchVars, scheduleVars,
                  contextVars, faults, announced>>

PairOf(e) == <<e.source, e.sequence>>

EventOf(s, n) ==
  [source |-> s, sequence |-> n, id |-> <<s, n>>, body |-> CHOOSE b \in Bodies : TRUE]

-------------------------------------------------------------------------------
(* Around the poll.  Steps of others happen at any time; one between two steps *)
(* of the poll that do not look at what it changes is the same as one later,   *)
(* and is taken then.                                                          *)

Dispatching == stage \in {"dispatch", "collect", "deliver"}

Source == INSTANCE SpoolLog WITH SourceIds <- SourceIds \ {RemoteId}, backup <- SourceIds \X (1..MaxSequence)

OnlySpool ==
  UNCHANGED <<storeVars, stage, readVars, batchVars, scheduleVars, contextVars, faults, announced>>

StoreEvent ==
  /\ ~Dispatching
  /\ highWatermark < (IF retired = {} THEN MaxSequence ELSE MaxRegenerated)
  /\ Source!Append
  /\ OnlySpool

\* Any rows: the retention goes by clocks, which may have been set back.
PruneEvents ==
  /\ ~Dispatching
  /\ Source!Prune
  /\ stored' # stored
  /\ OnlySpool

RegenerateIdentity ==
  /\ ~Dispatching
  /\ highWatermark <= MaxRegenerated
  /\ faults < MaxFaults
  /\ faults' = faults + 1
  /\ Source!ChangeIdentity
  /\ UNCHANGED <<storeVars, stage, readVars, batchVars, scheduleVars, contextVars, announced>>

\* The consumer of the SSH source takes in its next event, at any time.
RemoteIngest ==
  /\ stage = "idle" \/ Dispatching
  /\ cursor[Remote] < MaxRemote
  /\ IngestEvent(Remote, EventOf(RemoteId, cursor[Remote] + 1))
  /\ UNCHANGED <<spoolVars, stage, readVars, batchVars, scheduleVars, contextVars, faults,
                 announced>>

OnlySchedule ==
  UNCHANGED <<spoolVars, storeVars, stage, readVars, batchVars, attempts, contextVars, announced>>

\* Long enough for every retry.
TimePasses ==
  /\ stage = "idle"
  /\ waiting # {}
  /\ waiting' = {}
  /\ UNCHANGED faults
  /\ OnlySchedule

ClockIsSetBack ==
  /\ stage = "idle"
  /\ faults < MaxFaults
  /\ faults' = faults + 1
  /\ waiting # unsettled
  /\ waiting' = unsettled
  /\ OnlySchedule

-------------------------------------------------------------------------------
(* The poll *)

GoTo(next) == stage' = next

NothingSeen == [source |-> RemoteId, latest |-> 0, oldest |-> 0]

\* The poll is over: nothing of it is kept but what the tables hold.
EndPoll ==
  /\ stage' = "idle"
  /\ determined' = TRUE
  /\ policy' = "notify"
  /\ seen' = NothingSeen
  /\ page' = {}
  /\ pageFull' = FALSE
  /\ window' = {}
  /\ eligible' = {}
  /\ outcomes' = << >>

\* `?`: the error is shown in the view, and the next poll starts again.
Fail == EndPoll /\ UNCHANGED storeVars

\* The permission is read; one that was given reopens what its absence suppressed.
BeginPoll ==
  /\ stage = "idle"
  /\ determined' \in BOOLEAN
  /\ \/ UNCHANGED <<storeVars, attempts>>
     \/ /\ determined'
        /\ RequeuePermissionSuppressed
        /\ attempts' = [p \in Pairs |-> IF \E e \in denied : PairOf(e) = p
                                        THEN 0 ELSE attempts[p]]
  /\ GoTo("identity")
  /\ UNCHANGED <<spoolVars, readVars, batchVars, policy, waiting, faults, announced>>

OnlyIngest == UNCHANGED <<spoolVars, batchVars, scheduleVars, contextVars, faults, announced>>

\* The three SELECTs of Spool::snapshot.
ReadIdentity ==
  /\ stage = "identity"
  /\ seen' = [source |-> sourceId, latest |-> highWatermark, oldest |-> 0]
  /\ GoTo("oldest")
  /\ UNCHANGED <<storeVars, page, pageFull>>
  /\ OnlyIngest

ReadOldest ==
  /\ stage = "oldest"
  /\ seen' = [seen EXCEPT !.oldest = IF stored = {} THEN 0 ELSE Min(stored)]
  /\ GoTo("newest")
  /\ UNCHANGED <<storeVars, page, pageFull>>
  /\ OnlyIngest

ReadNewest ==
  /\ stage = "newest"
  /\ IF \E n \in stored : n > seen.latest
     THEN Fail
     ELSE GoTo("register") /\ UNCHANGED <<storeVars, readVars, batchVars, contextVars>>
  /\ UNCHANGED <<spoolVars, scheduleVars, faults, announced>>

RegisterLocal ==
  /\ stage = "register"
  /\ IF Local \in registered THEN UNCHANGED storeVars ELSE RegisterSource(Local)
  /\ GoTo("pin")
  /\ UNCHANGED <<readVars>>
  /\ OnlyIngest

\* pin_source: the local spool keeps the identity it had.
PinLocal ==
  /\ stage = "pin"
  /\ CASE pinned[Local] = NoSource /\ ~OwnedByAnother(Local, seen.source) ->
            /\ PinSource(Local, seen.source)
            /\ GoTo("gap")
            /\ UNCHANGED <<readVars, batchVars, contextVars>>
       [] pinned[Local] = seen.source ->
            GoTo("gap") /\ UNCHANGED <<storeVars, readVars, batchVars, contextVars>>
       [] OTHER -> Fail
  /\ UNCHANGED <<spoolVars, scheduleVars, faults, announced>>

\* Faulty variant: an empty spool says nothing.
LostThrough_FromRows ==
  IF seen.oldest # 0 /\ cursor[Local] < seen.oldest - 1 THEN seen.oldest - 1 ELSE cursor[Local]

\* What was pruned behind the cursor, as the snapshot has it.
LostThrough ==
  CASE seen.oldest # 0 /\ cursor[Local] < seen.oldest - 1 -> seen.oldest - 1
    [] seen.oldest = 0 /\ cursor[Local] < seen.latest -> seen.latest
    [] OTHER -> cursor[Local]

\* To the next page.
ReadOn ==
  /\ GoTo("page")
  /\ seen' = NothingSeen /\ pageFull' = FALSE
  /\ UNCHANGED <<page, batchVars, contextVars>>

\* SourceRewind, or the gap in front of the first row.
RecordLost ==
  /\ stage = "gap"
  /\ CASE cursor[Local] > seen.latest -> Fail
       [] cursor[Local] <= seen.latest /\ LostThrough = cursor[Local] ->
            ReadOn /\ UNCHANGED storeVars
       [] OTHER ->
            RecordGap(Local, cursor[Local], LostThrough) /\ ReadOn
  /\ UNCHANGED <<spoolVars, scheduleVars, faults, announced>>

\* The two SELECTs of Spool::events_after.
ReadPageIdentity ==
  /\ stage = "page"
  /\ seen' = [seen EXCEPT !.source = sourceId, !.latest = highWatermark]
  /\ GoTo("rows")
  /\ UNCHANGED <<storeVars, page, pageFull>>
  /\ OnlyIngest

ReadRows ==
  /\ stage = "rows"
  /\ LET behind == {n \in stored : n > cursor[Local]}
         rows == {n \in behind : Cardinality({m \in behind : m < n}) < PageSize}
     IN  IF rows # {} /\ (sourceId # seen.source \/ \E n \in rows : n > seen.latest)
         THEN Fail
         ELSE /\ page' = rows
              /\ pageFull' = (Cardinality(rows) = PageSize)
              /\ seen' = IF rows = {} THEN NothingSeen ELSE seen
              /\ GoTo(IF rows = {} THEN "dispatch" ELSE "ingest")
              /\ UNCHANGED <<storeVars, batchVars, contextVars>>
  /\ UNCHANGED <<spoolVars, scheduleVars, faults, announced>>

\* ingest_event for the next row of the page.
IngestRow ==
  /\ stage = "ingest"
  /\ LET e == EventOf(seen.source, Min(page))
         left == page \ {Min(page)}
     IN  IF IngestResult(Local, e) = "inserted"
         THEN /\ IngestEvent(Local, e)
              /\ page' = left
              /\ IF left # {}
                 THEN UNCHANGED <<stage, seen, pageFull>>
                 ELSE /\ GoTo(IF pageFull THEN "page" ELSE "dispatch")
                      /\ seen' = NothingSeen /\ pageFull' = FALSE
              /\ UNCHANGED <<batchVars, contextVars>>
         ELSE Fail
  /\ UNCHANGED <<spoolVars, scheduleVars, faults, announced>>

IngestStep ==
  ReadIdentity \/ ReadOldest \/ ReadNewest \/ RegisterLocal \/ PinLocal \/ RecordLost
    \/ ReadPageIdentity \/ ReadRows \/ IngestRow

-------------------------------------------------------------------------------
(* dispatch_outbox *)

Due == unsettled \ waiting

\* pending_outbox_page_at: due entries up to the watermark.
Page == Due \intersect window

\* NotificationPolicy::decide, as far as the dispatcher tells decisions apart.
Decide(e) ==
  CASE policy = "paused" -> "suppress"
    [] policy = "quiet" /\ PairOf(e) \notin Urgent -> "defer"
    [] OTHER -> "notify"

Exhausted(e) == attempts[PairOf(e)] >= MaxAttempts

\* notification_policy and pending_outbox_high_watermark_at: nothing is due, or
\* the window is fixed.
FixWindow ==
  /\ stage = "dispatch"
  /\ IF determined /\ Due # {}
     THEN /\ window' = history
          /\ policy' \in {"notify", "paused", "quiet"}
          /\ GoTo("collect")
          /\ UNCHANGED <<storeVars, readVars, eligible, outcomes, determined>>
     ELSE Fail
  /\ UNCHANGED <<spoolVars, scheduleVars, faults, announced>>

\* The pages of the window, which nobody else changes.
Collect ==
  /\ stage = "collect"
  /\ eligible' = {e \in Page : ~Exhausted(e) /\ Decide(e) = "notify"}
  /\ GoTo("deliver")
  /\ UNCHANGED <<storeVars, readVars, window, outcomes, contextVars>>
  /\ UNCHANGED <<spoolVars, scheduleVars, faults, announced>>

\* aggregate_backlog_count: what is given to the notifier at once.
Unnotified ==
  IF Cardinality(eligible) > MaxIndividual
  THEN IF outcomes = << >> THEN {eligible} ELSE {}
  ELSE {{e} : e \in {x \in eligible : PairOf(x) \notin DOMAIN outcomes}}

\* PipelineNotifier::notify asks for the permission again: shown, a failure, or
\* no permission.
NotifyResults == {"ok", "retryable", "permission_denied"}

Notify ==
  /\ stage = "deliver"
  /\ \E batch \in Unnotified, result \in NotifyResults :
       LET pairs == {PairOf(e) : e \in batch}
       IN  /\ outcomes' = [p \in pairs \union DOMAIN outcomes |->
                             IF p \in pairs THEN result ELSE outcomes[p]]
           /\ announced' = [p \in Pairs |->
                              IF p \in pairs /\ result = "ok" THEN announced[p] + 1 ELSE announced[p]]
  /\ UNCHANGED <<spoolVars, storeVars, stage, readVars, window, eligible,
                 scheduleVars, contextVars, faults>>

\* Faulty variant: whatever settles an entry, a permission given later reopens it.
Settle_AsDenied(e, isDenied) ==
  /\ FinishOutbox(e)
  /\ denied' = denied \union {e}
  /\ UNCHANGED waiting

\* finish_outbox with an outcome that settles the entry.
Settle(e, isDenied) ==
  /\ FinishOutbox(e)
  /\ denied' = IF isDenied THEN denied \union {e} ELSE denied
  /\ UNCHANGED waiting

\* finish_outbox with FailedRetryable: one attempt more, later.
Retry(e) ==
  /\ attempts' = [attempts EXCEPT ![PairOf(e)] = @ + 1]
  /\ waiting' = waiting \union {e}
  /\ UNCHANGED storeVars

\* defer_outbox: later, without an attempt.
Defer(e) ==
  /\ waiting' = waiting \union {e}
  /\ UNCHANGED <<storeVars, attempts>>

\* The outcome an entry is finished with: of the summary, or of its own
\* notification; IncompleteBatch where there is none.
OutcomeOf(e) ==
  IF Cardinality(eligible) > MaxIndividual
  THEN outcomes[CHOOSE p \in DOMAIN outcomes : TRUE]
  ELSE IF PairOf(e) \in DOMAIN outcomes THEN outcomes[PairOf(e)] ELSE "incomplete"

\* finish_batch_outcome.
Finish(e) ==
  CASE OutcomeOf(e) = "ok" -> Settle(e, FALSE) /\ UNCHANGED attempts
    [] OutcomeOf(e) = "permission_denied" -> Settle(e, TRUE) /\ UNCHANGED attempts
    [] OutcomeOf(e) = "retryable" -> Retry(e)
    [] OTHER -> FALSE

\* Faulty variant: an entry that used up its attempts is passed over.
DrainEntry_KeepsExhausted(e) ==
  CASE Exhausted(e) -> Defer(e)
    [] ~Exhausted(e) /\ Decide(e) = "defer" -> Defer(e)
    [] ~Exhausted(e) /\ Decide(e) = "suppress" -> Settle(e, FALSE) /\ UNCHANGED attempts
    [] OTHER -> Finish(e)

\* One entry of drain_outbox_window.
DrainEntry(e) ==
  CASE Exhausted(e) ->
         /\ Settle(e, FALSE)
         /\ attempts' = [attempts EXCEPT ![PairOf(e)] = @ + 1]
    [] ~Exhausted(e) /\ Decide(e) = "defer" -> Defer(e)
    [] ~Exhausted(e) /\ Decide(e) = "suppress" -> Settle(e, FALSE) /\ UNCHANGED attempts
    [] OTHER -> Finish(e)

NeedsOutcome(e) == ~Exhausted(e) /\ Decide(e) = "notify"

Drain ==
  /\ stage = "deliver" /\ Unnotified = {}
  /\ \E e \in Page : DrainEntry(e)
  /\ UNCHANGED <<spoolVars, stage, readVars, batchVars, contextVars, faults, announced>>

\* The window is empty, or a batch is found incomplete.
DrainDone ==
  /\ stage = "deliver" /\ Unnotified = {}
  /\ Page = {} \/ \E e \in Page : NeedsOutcome(e) /\ OutcomeOf(e) = "incomplete"
  /\ Fail
  /\ UNCHANGED <<spoolVars, scheduleVars, faults, announced>>

DispatchStep == FixWindow \/ Collect \/ Notify \/ Drain \/ DrainDone

\* The desktop ends, or a call of the poll fails, between any two steps.
Interrupt ==
  /\ stage # "idle"
  /\ faults < MaxFaults
  /\ faults' = faults + 1
  /\ Fail
  /\ UNCHANGED <<spoolVars, scheduleVars, announced>>

-------------------------------------------------------------------------------

\* A desktop that serves one SSH source and has not yet met its local spool.
Begin ==
  /\ registered = {Remote}
  /\ pinned = [k \in Keys |-> IF k = Remote THEN RemoteId ELSE NoSource]
  /\ cursor = [k \in Keys |-> 0]
  /\ history = {} /\ unsettled = {} /\ denied = {} /\ gaps = {} /\ tombstones = {}
  /\ checkpoints = [s \in SourceIds |-> 0]
  /\ received = {} /\ lost = {}
  /\ sourceId \in SourceIds \ {RemoteId}
  /\ highWatermark = 0 /\ stored = {} /\ retired = {}
  /\ stage = "idle"
  /\ seen = NothingSeen
  /\ page = {} /\ pageFull = FALSE
  /\ window = {} /\ eligible = {} /\ outcomes = << >>
  /\ determined = TRUE
  /\ policy = "notify"
  /\ attempts = [p \in Pairs |-> 0]
  /\ waiting = {}
  /\ faults = 0
  /\ announced = [p \in Pairs |-> 0]

PollStep == BeginPoll \/ IngestStep \/ DispatchStep

Step ==
  \/ StoreEvent \/ PruneEvents \/ RegenerateIdentity
  \/ RemoteIngest
  \/ TimePasses \/ ClockIsSetBack
  \/ BeginPoll
  \/ IngestStep
  \/ DispatchStep
  \/ Interrupt

PipelineSpec == Begin /\ [][Step]_pipelineVars

\* The worker polls again and again, and between two polls time passes.
Fairness ==
  /\ WF_pipelineVars(PollStep)
  /\ SF_pipelineVars(TimePasses)

FairPipeline == PipelineSpec /\ Fairness

-------------------------------------------------------------------------------
(* Properties *)

PipelineTypeOK ==
  /\ TypeOK
  /\ stored \subseteq 1..highWatermark
  /\ waiting \subseteq unsettled
  /\ attempts \in [Pairs -> 0..(MaxAttempts + 1)]
  /\ eligible \subseteq window
  /\ DOMAIN outcomes \subseteq {PairOf(e) : e \in eligible}

\* An event is shown once, and once more only when the desktop ended or a call
\* failed between the notification and the mark of its entry: through retries,
\* summaries, quiet hours, permissions taken and given back, and events of SSH
\* sources that arrive while a batch is on its way (dispatch_outbox,
\* requeue_permission_suppressed).
AnnouncedOnce == \A p \in Pairs : announced[p] <= 1 + faults

\* No entry is finished with the outcome of a batch it was not counted in: each
\* entry of the window the drain still sees was collected, and each outcome is
\* there (drain_outbox_window, IncompleteBatch).
BatchIsComplete ==
  stage = "deliver" /\ Unnotified = {} =>
    \A e \in Page : NeedsOutcome(e) => e \in eligible /\ OutcomeOf(e) # "incomplete"

\* The local reader writes off only what the spool no longer has (ingest_spool).
LocalLossIsReal == \A n \in stored : <<sourceId, n>> \notin lost

\* The identity of the spool is not the pinned one: pin_source refuses every poll.
IdentityRefused == pinned[Local] \notin {NoSource, sourceId}

\* What was pruned ahead of the cursor and behind a row that is kept: no gap tells of it.
Unexplained ==
  {n \in 1..highWatermark : n > cursor[Local] /\ n \notin stored /\ \E m \in stored : m < n}

\* A row behind a hole is no successor of the cursor: ingest_event refuses every poll.
HoleRefused == \E n \in Unexplained, m \in stored : m > n

\* What can be owed: the notification of the event n of a setting, which keeps its identity.
Owable == {o \in Keys \X (1..MaxSequence) : o[1] = Remote => o[2] <= MaxRemote}

IsOwed(o) ==
  \E e \in unsettled : e.sequence = o[2] /\ (e.source = RemoteId <=> o[1] = Remote)

\* A notification that is owed, of the local spool or of an SSH source, is decided: shown,
\* suppressed, or given up after its attempts - or it meets another poll in quiet hours, or
\* one before the user answered the system.  All of them wait for the local spool, since
\* poll_local_pipeline returns the error of ingest_spool before it comes to dispatch_outbox
\* (state.rs:206, :231): none need be decided while the identity of the spool is another one
\* than that it is pinned to, or its rows have a hole.
OwedIsDecided ==
  \A o \in Owable :
    IsOwed(o) ~>
      \/ ~IsOwed(o)
      \/ policy = "quiet"
      \/ ~determined
      \/ IdentityRefused \/ HoleRefused

\* What docs/mvp-design.md 499 says, that another worker sends what the outbox holds, would
\* have the notifications of an SSH source decided whatever the local spool is like.  It does
\* not hold (MCPipeline.cfg): one poll does both, and what it cannot take in stops it.
RemoteIsDecided ==
  \A o \in {x \in Owable : x[1] = Remote} :
    IsOwed(o) ~>
      \/ ~IsOwed(o)
      \/ policy = "quiet"
      \/ ~determined

\* Every event of the local spool reaches the history or is recorded as lost, as
\* docs/mvp-design.md 9.4 says of the local reader - unless the spool's identity was
\* replaced, or it was pruned behind a row that is kept (pipeline.rs:68).
LocalIsAccounted ==
  []<>(\/ \A n \in 1..highWatermark : <<sourceId, n>> \in received \union lost
       \/ IdentityRefused
       \/ Unexplained # {})

\* All of them: what the turns of the worker do to the events and the notifications
\* they take in.
PipelineInv == PipelineTypeOK /\ AnnouncedOnce /\ BatchIsComplete /\ LocalLossIsReal
===============================================================================
