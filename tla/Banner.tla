------------------------------- MODULE Banner -------------------------------
(***************************************************************************)
(* The banners of the desktop (apps/desktop/src-tauri/src/banner.rs) as    *)
(* its threads change and present them: locks and atomics are taken one by *)
(* one, and the window belongs to the main thread.                         *)
(*                                                                         *)
(* The counter `generation` is compared for equality alone, by the one     *)
(* presentation under way: overtaken says that it moved since that one     *)
(* read it.  The generation of pending_sound is set anew by whatever moves *)
(* the counter, under the lock, so a sound that is pending is current.     *)
(***************************************************************************)
EXTENDS BannerBoard

CONSTANTS
  Threads,              \* that show and dismiss banners and activate terminals
  Worker,               \* the thread that asks for a presentation every 250 ms
  Main,                 \* the main thread
  Approvals,            \* the ids that are requests
  MaxAttempts,          \* MAX_PRESENTATION_ATTEMPTS
  MaxShows, MaxFailures, MaxClaims, MaxRedraws  \* bound what the others do

ASSUME BannerAssumption ==
  /\ Worker \notin Threads /\ Main \notin Threads /\ Main # Worker
  /\ "none" \notin Threads \union {Worker, Main}
  /\ Approvals \subseteq Ids
  /\ MaxAttempts \in Nat \ {0, 1}
  /\ MaxShows \in Nat /\ MaxClaims \in Nat
  /\ Versions = 1..MaxShows

NoVersion == 0          \* nothing is claimed, or no sound is pending

VARIABLES
  lock,                 \* who holds the lock of the queue, or "none"
  at,                   \* where each thread is
  claims,               \* activation_claims: the token of each id, or 0
  claimed,              \* what a thread activates: [token, banner]
  nextToken,
  sound,                \* the version whose sound is pending, or NoVersion
  attempts,             \* retry.attempts
  backingOff,           \* retry.next_attempt_at is set and not yet reached
  dirty, scheduled,
  overtaken,
  task,                 \* a presentation the main thread has been given
  succeeded,            \* how the presentation under way went
  shows, failures, redraws,  \* counts, for the bounds
  played,               \* ghost: how often each version's sound was heard
  away,                 \* ghost: the versions taken off by a dismissal or an activation
  refusal               \* ghost: what moved the counter last was a refused push, and no
                        \* presentation has begun since

stateVars == <<claims, sound, attempts, backingOff, dirty>>
claimVars == <<claimed, nextToken>>
flightVars == <<overtaken, task, succeeded>>
boundVars == <<shows, failures, redraws>>
ghostVars == <<played, away, refusal>>
bannerVars == <<boardVars, lock, at, stateVars, claimVars, scheduled, flightVars, boundVars,
                ghostVars>>

Everyone == Threads \union {Worker, Main}

GoTo(t, place) == at' = [at EXCEPT ![t] = place]

Free == lock = "none"

OnBoard(id) == CHOOSE b \in ToSet(queue) : b.id = id

-------------------------------------------------------------------------------
(* Changing the queue: everything but dirty is changed at once under the lock; *)
(* dirty, which others read without it, comes after.                           *)

\* The counter moves, the backoff is forgotten.
Moved ==
  /\ overtaken' = TRUE
  /\ attempts' = 0
  /\ backingOff' = FALSE

\* Faulty variant: a banner inherits the claim on its predecessor.
ClaimsAfter_Inherited(q, id) == [i \in Ids |-> IF i \in IdsOf(q) THEN claims[i] ELSE 0]

\* The claims when a banner of the id has been put on the queue q.
ClaimsAfter(q, id) == [i \in Ids |-> IF i \in IdsOf(q) /\ i # id THEN claims[i] ELSE 0]

\* push, up to its last line.  A refused one has moved the counter and replaced the sound,
\* and does not ask for a presentation.
Push(t) ==
  /\ at[t] = "idle" /\ t # Main
  /\ Free
  /\ shows < MaxShows
  /\ shows' = shows + 1
  /\ \E id \in Ids :
       LET b == [id |-> id, approval |-> id \in Approvals, version |-> shows + 1]
       IN  /\ sound' = b.version
           /\ refusal' = Refused(queue, b)
           /\ IF Refused(queue, b)
              THEN UNCHANGED <<queue, claims, lock, at>>
              ELSE /\ queue' = Put(queue, b)
                   /\ claims' = ClaimsAfter(queue', id)
                   /\ lock' = t
                   /\ GoTo(t, "dirty")
  /\ Moved
  /\ UNCHANGED <<drawn, window, dirty, claimVars, scheduled, task, succeeded, failures, redraws,
                 played, away>>

\* The last lines of push and of remove_banner, and request_present after them.
MarkDirty(t) ==
  /\ at[t] = "dirty"
  /\ dirty' = TRUE
  /\ lock' = "none"
  /\ GoTo(t, "request")
  /\ UNCHANGED <<boardVars, claims, sound, attempts, backingOff, claimVars, scheduled, flightVars,
                 boundVars, ghostVars>>

\* The sound that is still pending when the version v has gone.
SoundWithout(v) == IF sound = v THEN NoVersion ELSE sound

\* remove_banner, up to its last line.
RemoveBanner(t, id) ==
  IF id \in IdsOf(queue)
  THEN /\ queue' = Without(queue, id)
       /\ sound' = SoundWithout(OnBoard(id).version)
       /\ away' = away \union {OnBoard(id).version}
       /\ refusal' = FALSE
       /\ Moved
       /\ lock' = t
       /\ GoTo(t, "dirty")
  ELSE /\ GoTo(t, "request")
       /\ UNCHANGED <<queue, sound, away, refusal, overtaken, attempts, backingOff, lock>>

\* dismiss.
DismissBanner(t, id) ==
  /\ at[t] = "idle" /\ t # Worker
  /\ id \in IdsOf(queue)          \* the others change nothing
  /\ Free
  /\ RemoveBanner(t, id)
  /\ claims' = [claims EXCEPT ![id] = 0]
  /\ UNCHANGED <<drawn, window, dirty, claimVars, scheduled, task, succeeded, boundVars, played>>

\* update_text_size, update_display and update_approval_centering.
Redraw ==
  /\ at[Main] = "idle"
  /\ Free
  /\ queue # << >> /\ redraws < MaxRedraws
  /\ redraws' = redraws + 1
  /\ refusal' = FALSE
  /\ Moved
  /\ lock' = Main
  /\ GoTo(Main, "dirty")
  /\ UNCHANGED <<boardVars, claims, sound, dirty, claimVars, scheduled, task, succeeded, shows,
                 failures, played, away>>

-------------------------------------------------------------------------------
(* activate_banner *)

NoClaim == [token |-> 0, banner |-> [id |-> "none", approval |-> FALSE, version |-> NoVersion]]

\* Only a banner that can return to a terminal, which a request never can.
ClaimActivation(t, id) ==
  /\ at[t] = "idle" /\ t \in Threads
  /\ Free
  /\ id \in IdsOf(queue) \ Approvals
  /\ claims[id] = 0
  /\ nextToken < MaxClaims
  /\ nextToken' = nextToken + 1
  /\ claims' = [claims EXCEPT ![id] = nextToken + 1]
  /\ claimed' = [claimed EXCEPT ![t] = [token |-> nextToken + 1, banner |-> OnBoard(id)]]
  /\ GoTo(t, "activating")
  /\ UNCHANGED <<boardVars, lock, sound, attempts, backingOff, dirty, scheduled, flightVars,
                 boundVars, ghostVars>>

\* The claim is still the one its thread made.
IsCurrent(t) == claims[claimed[t].banner.id] = claimed[t].token

\* cancel_activation: the terminal was not reached.
CancelActivation(t) ==
  /\ at[t] = "activating"
  /\ Free
  /\ claims' = IF IsCurrent(t) THEN [claims EXCEPT ![claimed[t].banner.id] = 0] ELSE claims
  /\ claimed' = [claimed EXCEPT ![t] = NoClaim]
  /\ GoTo(t, "idle")
  /\ UNCHANGED <<boardVars, lock, sound, attempts, backingOff, dirty, nextToken, scheduled,
                 flightVars, boundVars, ghostVars>>

\* complete_activation.
CompleteActivation(t) ==
  /\ at[t] = "activating"
  /\ Free
  /\ LET id == claimed[t].banner.id
     IN  IF IsCurrent(t)
         THEN /\ claims' = [claims EXCEPT ![id] = 0]
              /\ RemoveBanner(t, id)
         ELSE /\ GoTo(t, IF id \in IdsOf(queue) THEN "idle" ELSE "request")
              /\ UNCHANGED <<queue, sound, away, refusal, overtaken, attempts, backingOff, lock,
                             claims>>
  /\ claimed' = [claimed EXCEPT ![t] = NoClaim]
  /\ UNCHANGED <<drawn, window, dirty, nextToken, scheduled, task, succeeded, boundVars, played>>

-------------------------------------------------------------------------------
(* request_present, by anyone *)

OnlyRequest ==
  UNCHANGED <<boardVars, lock, claims, sound, attempts, backingOff, claimVars, succeeded, boundVars,
              played, away>>

\* The worker's own request, and the main thread's after a presentation.
Tick ==
  /\ at[Worker] = "idle"
  /\ GoTo(Worker, "request")
  /\ UNCHANGED <<dirty, scheduled, overtaken, refusal, task>>
  /\ OnlyRequest

\* begin_presentation: only one presentation at a time.
Schedule(t) ==
  /\ at[t] = "request"
  /\ scheduled' = TRUE
  /\ GoTo(t, IF scheduled THEN "idle" ELSE "scheduled")
  /\ UNCHANGED <<dirty, overtaken, refusal, task>>
  /\ OnlyRequest

\* Faulty variant: a presentation that must wait is forgotten.
StillDirty_Forgotten == FALSE

\* What dirty.swap(false) leaves: it is not reached before the retry is due.
StillDirty == dirty /\ backingOff

CheckDirty(t) ==
  /\ at[t] = "scheduled"
  /\ Free
  /\ dirty' = StillDirty
  /\ GoTo(t, IF dirty /\ ~backingOff THEN "begin" ELSE "release")
  /\ UNCHANGED <<scheduled, overtaken, refusal, task>>
  /\ OnlyRequest

Release(t) ==
  /\ at[t] = "release"
  /\ scheduled' = FALSE
  /\ GoTo(t, "idle")
  /\ UNCHANGED <<dirty, overtaken, refusal, task>>
  /\ OnlyRequest

\* The generation is read and the main thread gets the presentation.
Begin(t) ==
  /\ at[t] = "begin"
  /\ overtaken' = FALSE
  /\ refusal' = FALSE
  /\ task' = TRUE
  /\ GoTo(t, "idle")
  /\ UNCHANGED <<dirty, scheduled>>
  /\ OnlyRequest

-------------------------------------------------------------------------------
(* present and finish_presentation, on the main thread *)

OnlyFlight ==
  UNCHANGED <<queue, lock, claims, claimVars, overtaken, refusal, shows, redraws, away>>

\* Faulty variant: the request for an approval is shown among the others.
ToShow_All == queue

\* What a presentation would show now.
ToShow == Visible(queue)

\* Nothing is shown when a later presentation will be; and with nothing to show the
\* sound is dropped before the window is hidden.
Snapshot ==
  /\ at[Main] = "idle" /\ task
  /\ Free
  /\ task' = FALSE
  /\ IF overtaken
     THEN /\ succeeded' = TRUE
          /\ GoTo(Main, "finish")
          /\ UNCHANGED <<drawn, sound>>
     ELSE /\ drawn' = ToShow
          /\ sound' = IF drawn' = << >> THEN NoVersion ELSE sound
          /\ GoTo(Main, "present")
          /\ UNCHANGED succeeded
  /\ UNCHANGED <<window, attempts, backingOff, dirty, scheduled, failures, played>>
  /\ OnlyFlight

\* The window is placed, shown and told; each call of the window system may fail,
\* the last ones when the window shows the banners already.
PresentWindow ==
  /\ at[Main] = "present"
  /\ \/ /\ window' = drawn
        /\ succeeded' = TRUE
        /\ GoTo(Main, IF drawn = << >> THEN "finish" ELSE "sound")
        /\ UNCHANGED failures
     \/ /\ failures < MaxFailures
        /\ failures' = failures + 1
        /\ window' \in {window, drawn}
        /\ succeeded' = FALSE
        /\ GoTo(Main, "finish")
  /\ UNCHANGED <<drawn, sound, attempts, backingOff, dirty, scheduled, task, played>>
  /\ OnlyFlight

\* take_pending_sound and play_sound.
TakeSound ==
  /\ at[Main] = "sound"
  /\ Free
  /\ IF ~overtaken /\ sound # NoVersion
     THEN /\ sound' = NoVersion
          /\ played' = [played EXCEPT ![sound] = @ + 1]
     ELSE UNCHANGED <<sound, played>>
  /\ GoTo(Main, "finish")
  /\ UNCHANGED <<drawn, window, attempts, backingOff, dirty, scheduled, task, succeeded, failures>>
  /\ OnlyFlight

\* finish_presentation reads the generation without a lock.
CheckCurrent ==
  /\ at[Main] = "finish"
  /\ GoTo(Main, IF overtaken THEN "finished" ELSE "settle")
  /\ UNCHANGED <<drawn, window, sound, attempts, backingOff, dirty, scheduled, task, succeeded,
                 failures, played>>
  /\ OnlyFlight

\* A presentation that failed is due again after a while, or given up with its sound,
\* unless that sound is of a later generation.
Settle ==
  /\ at[Main] = "settle"
  /\ Free
  /\ GoTo(Main, "finished")
  /\ LET again == attempts + 1 < MaxAttempts
     IN  IF succeeded
         THEN attempts' = 0 /\ backingOff' = FALSE /\ UNCHANGED <<sound, dirty>>
         ELSE /\ attempts' = attempts + 1
              /\ backingOff' = again
              /\ dirty' = (dirty \/ again)
              /\ sound' = IF again \/ overtaken THEN sound ELSE NoVersion
  /\ UNCHANGED <<drawn, window, scheduled, task, succeeded, failures, played>>
  /\ OnlyFlight

Finished ==
  /\ at[Main] = "finished"
  /\ scheduled' = FALSE
  /\ succeeded' = FALSE
  /\ GoTo(Main, "request")
  /\ UNCHANGED <<drawn, window, sound, attempts, backingOff, dirty, task, failures, played>>
  /\ OnlyFlight

\* retry_delay passes.
BackoffEnds ==
  /\ backingOff
  /\ Free
  /\ backingOff' = FALSE
  /\ UNCHANGED <<boardVars, lock, at, claims, sound, attempts, dirty, claimVars, scheduled,
                 flightVars, boundVars, ghostVars>>

-------------------------------------------------------------------------------

Init ==
  /\ BoardInit
  /\ lock = "none"
  /\ at = [t \in Everyone |-> "idle"]
  /\ claims = [id \in Ids |-> 0] /\ claimed = [t \in Threads |-> NoClaim] /\ nextToken = 0
  /\ sound = NoVersion
  /\ attempts = 0 /\ backingOff = FALSE
  /\ dirty = FALSE /\ scheduled = FALSE
  /\ overtaken = FALSE /\ task = FALSE /\ succeeded = FALSE
  /\ shows = 0 /\ failures = 0 /\ redraws = 0
  /\ played = [v \in Versions |-> 0] /\ away = {} /\ refusal = FALSE

\* What a thread that has begun does next.
Proceed(t) ==
  \/ MarkDirty(t)
  \/ Schedule(t) \/ CheckDirty(t) \/ Release(t) \/ Begin(t)

MainPresents == Snapshot \/ PresentWindow \/ TakeSound \/ CheckCurrent \/ Settle \/ Finished

Next ==
  \/ \E t \in Everyone : Push(t) \/ Proceed(t)
  \/ \E t \in Everyone, id \in Ids : DismissBanner(t, id)
  \/ \E t \in Threads, id \in Ids : ClaimActivation(t, id)
  \/ \E t \in Threads : CancelActivation(t) \/ CompleteActivation(t)
  \/ Redraw
  \/ Tick
  \/ MainPresents
  \/ BackoffEnds

Spec == Init /\ [][Next]_bannerVars

\* A thread that began goes on, the worker keeps its interval, the main thread serves
\* what it was given and the clock runs.  Nobody has to show, dismiss or activate.
Fairness ==
  /\ \A t \in Everyone : WF_bannerVars(Proceed(t))
  /\ WF_bannerVars(Tick)
  /\ WF_bannerVars(MainPresents)
  /\ WF_bannerVars(BackoffEnds)

FairSpec == Spec /\ Fairness

-------------------------------------------------------------------------------

Places == {"idle", "dirty", "request", "scheduled", "begin", "release", "activating", "present",
           "sound", "finish", "settle", "finished"}

\* Who has presentation_scheduled to give back.
Presenting == {t \in Everyone : at[t] \in {"scheduled", "begin", "release", "present", "sound",
                                          "finish", "settle", "finished"}}

\* The values of the variables; the queue holds an id once, one request and MaxPassive other
\* banners at most (banner.rs:144-168); only what is on the queue is being activated; and
\* presentation_scheduled is held by exactly one presentation (banner.rs:432, :477).
BannerTypeOK ==
  /\ \A q \in {queue, drawn, window} : q \in Seq(Banner)
  /\ Cardinality(IdsOf(queue)) = Len(queue)
  /\ Cardinality({i \in DOMAIN queue : Passive(queue[i])}) <= MaxPassive
  /\ Cardinality({b \in ToSet(queue) : b.approval}) <= 1
  /\ lock \in Everyone \union {"none"}
  /\ at \in [Everyone -> Places]
  /\ claims \in [Ids -> 0..MaxClaims] /\ nextToken \in 0..MaxClaims
  /\ \A id \in Ids : claims[id] # 0 => id \in IdsOf(queue)
  /\ sound \in Versions \union {NoVersion}
  /\ attempts \in 0..MaxAttempts
  /\ backingOff \in BOOLEAN /\ dirty \in BOOLEAN
  /\ overtaken \in BOOLEAN /\ succeeded \in BOOLEAN /\ task \in BOOLEAN
  /\ Cardinality(Presenting) + (IF task THEN 1 ELSE 0) = (IF scheduled THEN 1 ELSE 0)
  /\ played \in [Versions -> Nat] /\ away \subseteq Versions /\ refusal \in BOOLEAN

\* The sound of a notification is heard once at most, however often its presentation is
\* superseded or retried, and not when the user has dismissed it (banner.rs:203-210, :480).
SoundIsOwn ==
  /\ \A v \in Versions : played[v] <= 1
  /\ sound # NoVersion => sound \notin away /\ played[sound] = 0

\* The activation of a terminal that ends late takes away the banner it was asked for
\* and never the one that has taken its place since (banner.rs:283).
ActivationIsCurrent ==
  [][\A t \in Threads :
       at[t] = "activating" /\ queue' # queue /\ at'[t] # "activating"
         => claimed[t].banner \in ToSet(queue)]_bannerVars

\* Whatever the order in which threads ask for it, the window ends up showing what is to
\* be seen: no request is lost for good between dirty, presentation_scheduled and the backoff
\* (banner.rs:431-478).  There are two exceptions.  The presentation was given up; or the last
\* thing that happened to the queue was a request for an approval that another one kept out:
\* push moves the generation before it refuses and leaves dirty alone (banner.rs:142-163), so
\* that a presentation already asked for draws nothing and none comes after it, until the
\* first request is dismissed or anything else changes the queue.
WindowFollows == <>[](window = Visible(queue) \/ attempts = MaxAttempts \/ refusal)

\* The second exception is one: this does not hold.
WindowFollowsRefusals == <>[](window = Visible(queue) \/ attempts = MaxAttempts)

\* All three: what a banner owns is its own.
BannerIsOwn == [](BannerTypeOK /\ SoundIsOwn) /\ ActivationIsCurrent
===============================================================================
