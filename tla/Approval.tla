------------------------------ MODULE Approval ------------------------------
(***************************************************************************)
(* The approval of a command from the desktop: the hook of an agent that   *)
(* asks (crates/aizu-cli: approval_client.rs, main.rs), the broker and its *)
(* handlers (approval_broker.rs), the commands of the main thread          *)
(* (commands.rs) and the banners, taken as BannerBoard promises them.      *)
(*                                                                         *)
(* Each hook makes one request, whose banner has an id of its own.  Times  *)
(* are compared, not counted: 45 s for a decision, 48 s for an answer; a   *)
(* request whose banner was shown over 3 s after the hook connected is     *)
(* late, and its hook may give up while it still can be decided.           *)
(***************************************************************************)
EXTENDS BannerBoard

CONSTANTS
  Hooks,                \* the ids of requests and of their banners
  MaxHandlers,          \* MAX_CONNECTION_HANDLERS
  MayBeLate             \* whether a request may be late

ASSUME ApprovalAssumption ==
  /\ Ids = Hooks /\ "none" \notin Hooks
  /\ Versions = {1}
  /\ MaxHandlers \in Nat \ {0}
  /\ MayBeLate \in BOOLEAN

VARIABLES
  app,                  \* running, stopping or gone
  enabled,              \* command_approvals_enabled
  main, todo,           \* what the main thread is about, the banners it has to dismiss
  page,                 \* the request the web view shows, or "none"
  pending, marks,       \* ApprovalRegistry: the one request, and who has shown it
  handler,              \* where the thread of each request is
  channel,              \* what was sent to it
  reply,                \* what it is about to write
  late,
  hook,                 \* where each hook is
  told,                 \* what it heard; once done, what it printed and marked its event with
  decided,              \* ghost: what the user was told is decided, until the hook is done
  seen                  \* ghost: who has shown the request, until then

brokerVars == <<pending, marks, handler, channel, reply, late>>
hookVars == <<hook, told>>
mainVars == <<main, todo, page>>
ghostVars == <<decided, seen>>
approvalVars == <<boardVars, app, enabled, mainVars, brokerVars, hookVars, ghostVars>>

Answer == [decision : {"allow", "deny", "none"}, presented : BOOLEAN]

Unavailable(presented) == [decision |-> "none", presented |-> presented]

Presented == marks = {"window", "page"}

Active(h) == handler[h] \notin {"none", "done"}

RequestBanner(h) == [id |-> h, approval |-> TRUE, version |-> 1]

HandlerGoesTo(h, place) == handler' = [handler EXCEPT ![h] = place]

Hears(h, answer) ==
  /\ hook' = [hook EXCEPT ![h] = "told"]
  /\ told' = [told EXCEPT ![h] = answer]

\* Faulty variant: the setting is read before cancel_all can find the request.
After_SettingsFirst(place) ==
  CASE place = "accept" -> "settings" [] place = "settings" -> "register" [] place = "register" -> "show"

\* The order of the steps of handle_connection.
After(place) ==
  CASE place = "accept" -> "register" [] place = "register" -> "settings" [] place = "settings" -> "show"

-------------------------------------------------------------------------------
(* The hook *)

Connect(h) ==
  /\ hook[h] = "idle"
  /\ hook' = [hook EXCEPT ![h] = "asked"]
  /\ UNCHANGED <<boardVars, app, enabled, mainVars, brokerVars, told, ghostVars>>

\* The listener accepts, reads and validates, or drops what is too much, beside connections
\* that ask nothing; it may be about to accept when it is told to stop.
Accept(h) ==
  /\ app # "gone"
  /\ hook[h] = "asked" /\ handler[h] = "none"
  /\ \E others \in 0..MaxHandlers :
       IF Cardinality({g \in Hooks : Active(g)}) + others >= MaxHandlers
       THEN Hears(h, Unavailable(FALSE)) /\ UNCHANGED handler
       ELSE HandlerGoesTo(h, After("accept")) /\ UNCHANGED hookVars
  /\ UNCHANGED <<boardVars, app, enabled, mainVars, pending, marks, channel, reply, late, ghostVars>>

\* Nobody listens, or the connection ends without an answer.
Lost(h) ==
  /\ app = "gone"
  /\ hook[h] = "asked"
  /\ Hears(h, Unavailable(FALSE))
  /\ UNCHANGED <<boardVars, app, enabled, mainVars, brokerVars, ghostVars>>

\* APPROVAL_WAIT_TIMEOUT.
GiveUp(h) ==
  /\ hook[h] = "asked"
  /\ late[h] \/ handler[h] \in {"cleanup", "reply"}
  /\ Hears(h, Unavailable(FALSE))
  /\ UNCHANGED <<boardVars, app, enabled, mainVars, brokerVars, ghostVars>>

\* run_hook_command: the event is stored before the decision is printed, and neither is
\* done when it cannot be.
Persist(h) ==
  /\ hook[h] = "told"
  /\ hook' = [hook EXCEPT ![h] = "done"]
  /\ \E heard \in {told[h], Unavailable(FALSE)} : told' = [told EXCEPT ![h] = heard]
  /\ decided' = [decided EXCEPT ![h] = "none"]
  /\ seen' = [seen EXCEPT ![h] = {}]
  /\ UNCHANGED <<boardVars, app, enabled, mainVars, brokerVars>>

-------------------------------------------------------------------------------
(* handle_connection *)

Replies(h, answer) ==
  /\ reply' = [reply EXCEPT ![h] = answer]
  /\ HandlerGoesTo(h, "reply")

\* expire.
Expired(h) ==
  /\ pending' = IF pending = h THEN "none" ELSE pending
  /\ marks' = IF pending = h THEN {} ELSE marks

OnlyHandler == UNCHANGED <<drawn, window, app, enabled, mainVars, decided, seen>>

\* register: one request at a time.
Register(h) ==
  /\ handler[h] = "register"
  /\ IF pending = "none"
     THEN /\ pending' = h /\ marks' = {}
          /\ HandlerGoesTo(h, After("register"))
          /\ UNCHANGED reply
     ELSE Replies(h, Unavailable(FALSE)) /\ UNCHANGED <<pending, marks>>
  /\ UNCHANGED <<queue, channel, late, hookVars>> /\ OnlyHandler

ReadSettings(h) ==
  /\ handler[h] = "settings"
  /\ IF enabled
     THEN HandlerGoesTo(h, After("settings")) /\ UNCHANGED <<pending, marks, reply>>
     ELSE Replies(h, Unavailable(FALSE)) /\ Expired(h)
  /\ UNCHANGED <<queue, channel, late, hookVars>> /\ OnlyHandler

\* banner::show, refused while the banner of another request is still there.
ShowRequest(h) ==
  /\ handler[h] = "show"
  /\ IF Refused(queue, RequestBanner(h))
     THEN Replies(h, Unavailable(FALSE)) /\ Expired(h) /\ UNCHANGED <<queue, late>>
     ELSE /\ queue' = Put(queue, RequestBanner(h))
          /\ \E l \in {FALSE, MayBeLate} : late' = [late EXCEPT ![h] = l]
          /\ HandlerGoesTo(h, "waiting")
          /\ UNCHANGED <<pending, marks, reply>>
  /\ UNCHANGED <<channel, hookVars>> /\ OnlyHandler

TakeAnswer(h) ==
  /\ handler[h] = "waiting"
  /\ channel[h] # {}
  /\ reply' = [reply EXCEPT ![h] = CHOOSE answer \in channel[h] : TRUE]
  /\ HandlerGoesTo(h, "cleanup")
  /\ UNCHANGED <<queue, pending, marks, channel, late, hookVars>> /\ OnlyHandler

\* Faulty variant: only the end of the application ends the wait.
WaitEnds_OnStop == app = "stopping"

\* DECISION_TIMEOUT may have passed, or the application stops.
WaitEnds == TRUE

EndWait(h) ==
  /\ handler[h] = "waiting"
  /\ WaitEnds
  /\ HandlerGoesTo(h, "expire")
  /\ UNCHANGED <<queue, pending, marks, channel, reply, late, hookVars>> /\ OnlyHandler

\* expiry_response.
Expire(h) ==
  /\ handler[h] = "expire"
  /\ reply' = [reply EXCEPT ![h] = Unavailable(pending = h /\ Presented)]
  /\ Expired(h)
  /\ HandlerGoesTo(h, "cleanup")
  /\ UNCHANGED <<queue, channel, late, hookVars>> /\ OnlyHandler

\* What the handler leaves of the queue.
QueueAfter(h) == Without(queue, h)

\* registry.expire and banner::dismiss.
Cleanup(h) ==
  /\ handler[h] = "cleanup"
  /\ Expired(h)
  /\ queue' = QueueAfter(h)
  /\ channel' = [channel EXCEPT ![h] = {}]
  /\ HandlerGoesTo(h, "reply")
  /\ UNCHANGED <<reply, late, hookVars>> /\ OnlyHandler

\* write_response, to a hook that may have gone.
WriteResponse(h) ==
  /\ handler[h] = "reply"
  /\ HandlerGoesTo(h, "done")
  /\ IF hook[h] = "asked" THEN Hears(h, reply[h]) ELSE UNCHANGED hookVars
  /\ reply' = [reply EXCEPT ![h] = Unavailable(FALSE)]
  /\ UNCHANGED <<queue, pending, marks, channel, late>> /\ OnlyHandler

HandlerStep(h) ==
  \/ Register(h) \/ ReadSettings(h) \/ ShowRequest(h)
  \/ TakeAnswer(h) \/ EndWait(h) \/ Expire(h) \/ Cleanup(h) \/ WriteResponse(h)

-------------------------------------------------------------------------------
(* The main thread: what it presents, and the commands of the web views *)

MainIdle == app = "running" /\ main = "idle"

\* A presentation takes its snapshot.
DrawBoard ==
  /\ MainIdle
  /\ drawn # Visible(queue)
  /\ Draw
  /\ main' = "present"
  /\ UNCHANGED <<app, enabled, todo, page, brokerVars, hookVars, ghostVars>>

\* mark_window_shown and mark_frontend_rendered.
MarkShown(ids, who) == IF pending \in ids THEN marks \union {who} ELSE marks

See(ids, who) ==
  seen' = [h \in Hooks |-> IF h \in ids /\ hook[h] # "done" THEN seen[h] \union {who} ELSE seen[h]]

\* The window is shown.
PresentBoard ==
  /\ app = "running" /\ main = "present"
  /\ Present
  /\ marks' = MarkShown(IdsOf(drawn), "window")
  /\ See(IdsOf(drawn), "window")
  /\ main' = "idle"
  /\ UNCHANGED <<app, enabled, todo, page, pending, handler, channel, reply, late, hookVars, decided>>

\* get_banners, by the web view.
Fetch ==
  /\ MainIdle
  /\ LET asked == IdsOf(Visible(queue))
     IN  page' = IF asked = {} THEN "none" ELSE CHOOSE h \in asked : TRUE
  /\ page' # page
  /\ UNCHANGED <<boardVars, app, enabled, main, todo, brokerVars, hookVars, ghostVars>>

\* acknowledge_banner_approval, once the page is rendered.
Acknowledge ==
  /\ MainIdle
  /\ page \in IdsOf(queue)
  /\ marks' = MarkShown({page}, "page")
  /\ See({page}, "page")
  /\ UNCHANGED <<boardVars, app, enabled, mainVars, pending, handler, channel, reply, late, hookVars,
                 decided>>

\* Faulty variant: a request is decided by what the web view alone has shown.
Completes_Unseen(h) == pending = h

\* complete takes a request that both have shown, once.
Completes(h) == pending = h /\ Presented

\* decide_banner_approval, up to the dismissal; otherwise the user is told it is too late.
DecideApproval(decision) ==
  /\ MainIdle
  /\ page # "none" /\ window # << >>
  /\ Completes(page)
  /\ channel' = [channel EXCEPT ![page] = {[decision |-> decision, presented |-> TRUE]}]
  /\ decided' = [decided EXCEPT ![page] = decision]
  /\ pending' = "none" /\ marks' = {}
  /\ main' = "dismiss" /\ todo' = {page}
  /\ UNCHANGED <<boardVars, app, enabled, page, handler, reply, late, hookVars, seen>>

\* update_preferences saves first.
SetApprovals(on) ==
  /\ MainIdle
  /\ enabled # on
  /\ enabled' = on
  /\ main' = IF on THEN "idle" ELSE "cancel"
  /\ UNCHANGED <<boardVars, app, todo, page, brokerVars, hookVars, ghostVars>>

\* shutdown: the stop flag.
Stop ==
  /\ MainIdle
  /\ app' = "stopping"
  /\ main' = "cancel"
  /\ UNCHANGED <<boardVars, enabled, todo, page, brokerVars, hookVars, ghostVars>>

\* cancel_all, for the one or the other.
CancelAll ==
  /\ app # "gone" /\ main = "cancel"
  /\ pending' = "none" /\ marks' = {}
  /\ channel' = IF pending = "none" THEN channel
                ELSE [channel EXCEPT ![pending] = {Unavailable(Presented)}]
  /\ todo' = IF app = "running" THEN {pending} \ {"none"} ELSE {}
  /\ main' = IF app = "running" THEN "dismiss" ELSE "join"
  /\ UNCHANGED <<boardVars, app, enabled, page, handler, reply, late, hookVars, ghostVars>>

\* banner::dismiss, for each.
DismissNext ==
  /\ app = "running" /\ main = "dismiss"
  /\ IF todo = {}
     THEN main' = "idle" /\ UNCHANGED <<queue, todo>>
     ELSE \E id \in todo :
            /\ queue' = Without(queue, id)
            /\ todo' = todo \ {id}
            /\ UNCHANGED main
  /\ UNCHANGED <<drawn, window, app, enabled, page, brokerVars, hookVars, ghostVars>>

\* With the process go its threads, its sockets and its windows.
Gone ==
  /\ app' = "gone"
  /\ queue' = << >> /\ drawn' = << >> /\ window' = << >>
  /\ main' = "idle" /\ todo' = {} /\ page' = "none"
  /\ pending' = "none" /\ marks' = {}
  /\ handler' = [h \in Hooks |-> "done"]
  /\ channel' = [h \in Hooks |-> {}]
  /\ reply' = [h \in Hooks |-> Unavailable(FALSE)]
  /\ UNCHANGED <<enabled, late, hookVars, ghostVars>>

\* shutdown has joined the listener and every handler.
Exit == app = "stopping" /\ main = "join" /\ (\A h \in Hooks : ~Active(h)) /\ Gone

Crash == app # "gone" /\ Gone

-------------------------------------------------------------------------------

Init ==
  /\ BoardInit
  /\ app = "running" /\ enabled \in BOOLEAN
  /\ main = "idle" /\ todo = {} /\ page = "none"
  /\ pending = "none" /\ marks = {}
  /\ handler = [h \in Hooks |-> "none"] /\ channel = [h \in Hooks |-> {}]
  /\ reply = [h \in Hooks |-> Unavailable(FALSE)] /\ late = [h \in Hooks |-> FALSE]
  /\ hook = [h \in Hooks |-> "idle"] /\ told = [h \in Hooks |-> Unavailable(FALSE)]
  /\ decided = [h \in Hooks |-> "none"] /\ seen = [h \in Hooks |-> {}]

\* What a request does of itself: its handler, and its hook with what it has heard.
GoesOn(h) == Accept(h) \/ HandlerStep(h) \/ Lost(h) \/ Persist(h)

MainStep == PresentBoard \/ CancelAll \/ DismissNext \/ Exit

Next ==
  \/ \E h \in Hooks : Connect(h) \/ GiveUp(h) \/ GoesOn(h)
  \/ MainStep
  \/ DrawBoard \/ Fetch \/ Acknowledge
  \/ \E decision \in {"allow", "deny"} : DecideApproval(decision)
  \/ \E on \in BOOLEAN : SetApprovals(on)
  \/ Stop \/ Crash

Spec == Init /\ [][Next]_approvalVars

\* Threads and hooks that run go on.  Nothing is assumed of the user, of the web view, of
\* the presentations or of the patience of the hooks.
Fairness ==
  /\ \A h \in Hooks : WF_approvalVars(GoesOn(h))
  /\ WF_approvalVars(MainStep)

FairSpec == Spec /\ Fairness

-------------------------------------------------------------------------------

Decidable(h) == pending = h /\ Presented

\* The values of the variables; whoever is waiting in the registry has a handler at work.
ApprovalTypeOK ==
  /\ queue \in Seq(Banner) /\ drawn \in Seq(Banner) /\ window \in Seq(Banner)
  /\ app \in {"running", "stopping", "gone"} /\ enabled \in BOOLEAN
  /\ main \in {"idle", "present", "cancel", "dismiss", "join"} /\ todo \subseteq Hooks
  /\ page \in Hooks \union {"none"}
  /\ pending \in Hooks \union {"none"} /\ marks \subseteq {"window", "page"}
  /\ handler \in [Hooks -> {"none", "register", "settings", "show", "waiting", "expire",
                            "cleanup", "reply", "done"}]
  /\ reply \in [Hooks -> Answer] /\ told \in [Hooks -> Answer]
  /\ late \in [Hooks -> BOOLEAN]
  /\ hook \in [Hooks -> {"idle", "asked", "told", "done"}]
  /\ decided \in [Hooks -> {"allow", "deny", "none"}]
  /\ channel \in [Hooks -> SUBSET Answer] /\ seen \in [Hooks -> SUBSET {"window", "page"}]
  /\ pending # "none" => handler[pending] \in {"settings", "show", "waiting", "expire"}

\* A request that is over leaves no banner behind, whoever cancelled it and however that
\* raced with its presentation (approval_broker.rs:338).
NoOrphan == \A h \in Hooks : handler[h] = "done" => h \notin IdsOf(queue)

\* After the command that turns approvals off no request can be decided, the ones that
\* were on their way included (commands.rs:411, approval_broker.rs:292).
OffIsOff == ~enabled /\ main = "idle" => \A h \in Hooks : ~Decidable(h)

\* A hook is told that its request was presented, and marks its event so that it is not
\* announced again, only if the window and the web view have both shown that request (approval_broker.rs:42, main.rs:576).
PresentedIsSeen == \A h \in Hooks : hook[h] = "told" /\ told[h].presented => seen[h] = {"window", "page"}

\* A hook that asks gets an answer, whatever becomes of the request: in the end, as each
\* asks once, none is left waiting.
AskedIsAnswered == <>[](\A h \in Hooks : hook[h] \in {"idle", "done"})

\* Where a request can be answered, or has been.
Surface(h) ==
  CASE hook[h] = "done" /\ Decidable(h) -> "both"
    [] hook[h] = "done" /\ ~Decidable(h) ->
         IF told[h].decision = "none" THEN "terminal" ELSE told[h].decision
    [] hook[h] # "done" /\ Decidable(h) -> "dialog"
    [] hook[h] # "done" /\ decided[h] = "allow" -> "allowed"
    [] hook[h] # "done" /\ decided[h] = "deny" -> "denied"
    [] OTHER -> IF handler[h] \in {"cleanup", "reply", "done"} \/ channel[h] # {}
                THEN "withdrawn" ELSE "agent"

Contract == INSTANCE ApprovalContract
  WITH Requests <- Hooks, surface <- [h \in Hooks |-> Surface(h)]

\* A request is never actionable in the dialog and in the terminal at once, is offered once,
\* and allow or deny is what the user decided while it was offered.
OneSurface == Contract!ContractSpec

\* All of them: what is left of a request that was cancelled, switched off, or shown.
ApprovalInv == ApprovalTypeOK /\ NoOrphan /\ OffIsOff /\ PresentedIsSeen
===============================================================================
