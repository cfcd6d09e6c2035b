---------------------------- MODULE OutboxSchedule ----------------------------
(***************************************************************************)
(* The life of one entry of the outbox on the clock of the desktop: when it *)
(* is tried, put off or given up (the policy of notification.rs and the     *)
(* times that desktop.rs writes).  LocalPipeline has the order of the steps *)
(* and many entries; this module has the time.                              *)
(*                                                                          *)
(* The unit is a minute.  The event carries a stamp of the clock of its     *)
(* source, which may be off.                                                *)
(***************************************************************************)
EXTENDS Integers, Sequences

CONSTANTS
  MaxTime,              \* bounds the clock of the desktop
  DayLength,            \* 1440
  RetryDelays,          \* the delays of notification_retry_delay
  MaxTries,             \* MAX_NOTIFICATION_ATTEMPTS
  QuietDelay,           \* how far defer_outbox puts an entry off
  MaxCompletionAge,     \* NotificationPolicy::max_completion_age
  SkewThreshold,        \* CLOCK_SKEW_THRESHOLD
  Offsets               \* what a source's clock may be off by

ASSUME ScheduleAssumption ==
  /\ MaxTime \in Nat /\ DayLength \in Nat \ {0}
  /\ RetryDelays \in Seq(Nat) /\ Len(RetryDelays) > 0
  /\ MaxTries \in Nat \ {0} /\ QuietDelay \in Nat \ {0}
  /\ MaxCompletionAge \in Nat /\ SkewThreshold \in Nat
  /\ Offsets \subseteq Int

VARIABLES
  now,                  \* the desktop's clock
  kind,                 \* "completed" or "question"
  occurredAt,           \* what the source's clock said when it happened, at time 0
  receivedAt,           \* received_at of the desktop
  quiet,                \* the quiet hours
  entry,                \* state, attempt_count and next_attempt_at of the entry
  tries                 \* ghost: when it was given to the notifier since it was queued

eventVars == <<kind, occurredAt, receivedAt>>
scheduleVars == <<now, eventVars, quiet, entry, tries>>

Minutes == 0..(DayLength - 1)
QuietHours == [start : Minutes, end : Minutes, bypass : BOOLEAN]

Open == {"pending", "failed_retryable"}

\* QuietHours::contains.
InQuietHours(q, minute) ==
  /\ q.start # q.end
  /\ IF q.start < q.end
     THEN q.start <= minute /\ minute < q.end
     ELSE q.start <= minute \/ minute < q.end

Difference(a, b) == IF a < b THEN b - a ELSE a - b

\* Faulty variant: only a clock that is behind is mistrusted.
IsClockSkewed_Behind(occurred, received) == received - occurred > SkewThreshold

\* is_clock_skewed.
IsClockSkewed(occurred, received) == Difference(occurred, received) > SkewThreshold

Completed == kind = "completed"

TooOld ==
  /\ Completed
  /\ now - (IF IsClockSkewed(occurredAt, receivedAt) THEN receivedAt ELSE occurredAt)
       > MaxCompletionAge

Quiet == InQuietHours(quiet, now % DayLength) /\ ~(kind = "question" /\ quiet.bypass)

\* NotificationPolicy::decide; muted stands for paused, a kind that is switched
\* off, and an approval that was shown as a banner.
Decide(muted) ==
  CASE muted -> "suppress"
    [] ~muted /\ Quiet -> "defer"
    [] ~muted /\ ~Quiet /\ TooOld -> "expire"
    [] OTHER -> "notify"

\* notification_retry_delay: the last delay serves every later failure.
RetryDelay(attempts) ==
  RetryDelays[IF attempts < Len(RetryDelays) THEN attempts + 1 ELSE Len(RetryDelays)]

-------------------------------------------------------------------------------
Queued(at) == [state |-> "pending", attempts |-> 0, next |-> at]

InitSchedule ==
  /\ now = 0
  /\ kind \in {"completed", "question"}
  /\ occurredAt \in Offsets
  /\ receivedAt = 0
  /\ quiet \in QuietHours
  /\ entry = [state |-> "unknown", attempts |-> 0, next |-> 0]
  /\ tries = << >>

Tick ==
  /\ now < MaxTime
  /\ now' = now + 1
  /\ UNCHANGED <<eventVars, quiet, entry, tries>>

\* ingest_event: at once, or when a source that was away is back.
Receive ==
  /\ entry.state = "unknown"
  /\ receivedAt' = now
  /\ entry' = Queued(now)
  /\ UNCHANGED <<now, kind, occurredAt, quiet, tries>>

Due == entry.state \in Open /\ entry.next <= now

Settled(state) == [entry EXCEPT !.state = state, !.next = now]

\* finish_outbox with FailedRetryable: the delay is that of the old count.
Retried ==
  [state |-> "failed_retryable",
   attempts |-> entry.attempts + 1,
   next |-> now + RetryDelay(entry.attempts)]

\* The entry's turn in drain_outbox_window.
Poll ==
  /\ Due
  /\ UNCHANGED <<now, eventVars, quiet>>
  /\ \E muted \in BOOLEAN :
       CASE entry.attempts >= MaxTries ->
              entry' = Settled("failed_terminal") /\ UNCHANGED tries
         [] entry.attempts < MaxTries /\ Decide(muted) = "suppress" ->
              entry' = Settled("suppressed") /\ UNCHANGED tries
         [] entry.attempts < MaxTries /\ Decide(muted) = "expire" ->
              entry' = Settled("expired") /\ UNCHANGED tries
         [] entry.attempts < MaxTries /\ Decide(muted) = "defer" ->
              entry' = [entry EXCEPT !.next = now + QuietDelay] /\ UNCHANGED tries
         [] OTHER ->
              /\ tries' = Append(tries, now)
              /\ entry' \in {Settled("delivered"), Settled("permission_denied"), Retried}

\* requeue_permission_suppressed.
Requeue ==
  /\ entry.state = "permission_denied"
  /\ entry' = Queued(now)
  /\ tries' = << >>
  /\ UNCHANGED <<now, eventVars, quiet>>

NextSchedule == Tick \/ Receive \/ Poll \/ Requeue

Schedule == InitSchedule /\ [][NextSchedule]_scheduleVars

-------------------------------------------------------------------------------

\* A notifier that keeps failing is asked at most MaxTries times, and each time
\* only after the delay that belongs to the failures before
\* (notification_retry_delay, MAX_NOTIFICATION_ATTEMPTS).
RetriesKeepTheirDistance ==
  /\ Len(tries) <= MaxTries
  /\ \A i \in 2..Len(tries) :
       LET failed == IF i - 1 < Len(RetryDelays) THEN i - 1 ELSE Len(RetryDelays)
       IN  tries[i] - tries[i - 1] >= RetryDelays[failed]

\* Whatever the source's clock says, a completion is announced until it has been
\* here for as long as it may be old, and not after it: the clock moves the limit
\* by no more than the difference that is still trusted (decide, is_clock_skewed).
AgeIsMeasuredHere ==
  [][kind = "completed" =>
       /\ tries' # tries /\ tries' # << >> =>
            now - receivedAt <= MaxCompletionAge + SkewThreshold
       /\ entry'.state = "expired" /\ entry.state # "expired" =>
            now - receivedAt > MaxCompletionAge - SkewThreshold]_scheduleVars

\* The minutes from start up to end, around midnight.
QuietMinutes(q) == {(q.start + k) % DayLength : k \in 0..(((q.end - q.start) % DayLength) - 1)}

\* In the quiet hours nothing is announced but a question that may, and outside
\* of them nothing waits for longer than one turn (decide, defer_outbox).
QuietHoursAreSilent ==
  [][/\ tries' # tries /\ tries' # << >> =>
          now % DayLength \notin QuietMinutes(quiet) \/ (kind = "question" /\ quiet.bypass)
     /\ entry.state = "pending" /\ entry.next < entry'.next /\ entry'.state = "pending" =>
          now % DayLength \in QuietMinutes(quiet) /\ entry'.next = now + QuietDelay]_scheduleVars

\* docs/mvp-design.md, section 12.3: a completion that is too old when a source
\* is back is not announced any more.
BacklogExpires ==
  [][kind = "completed" /\ tries' # tries /\ tries' # << >> =>
       now <= MaxCompletionAge + SkewThreshold]_scheduleVars

\* All three: when a notification is announced, and how often.
ScheduleIsKept == []RetriesKeepTheirDistance /\ AgeIsMeasuredHere /\ QuietHoursAreSilent
===============================================================================
