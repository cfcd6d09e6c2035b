---------------------------- MODULE SystemNotices ----------------------------
(***************************************************************************)
(* Notifications of the operating system and what a click on one of them   *)
(* opens (apps/desktop/src-tauri/src/notifier.rs, on macOS).               *)
(*                                                                         *)
(* A notice is shown under a 32-bit hash of its event; one that is sent    *)
(* again, or that has the same hash, replaces it on the screen.  What a    *)
(* click opens is kept in a registry of bounded size.  Notices are sent    *)
(* under the lock of AppService, so one at a time; the operating system    *)
(* calls back at any time.                                                 *)
(***************************************************************************)
EXTENDS Integers, Sequences, FiniteSets, Functions

CONSTANTS
  Identifiers,          \* hashes of notices
  Activations,          \* what a click may open
  Nothing,              \* no activation
  MaxActivations,       \* MAX_SYSTEM_ACTIVATIONS
  MaxTokens             \* bounds next_token

ASSUME NoticesAssumption ==
  /\ Nothing \notin Activations \union Identifiers
  /\ MaxActivations \in Nat \ {0} /\ MaxTokens \in Nat

VARIABLES
  callback,             \* "none", "starting", "waiting" (retry_after), "installed"
  entries, order,       \* SystemActivationRegistry
  nextToken,
  sending,              \* the notice between replace and the answer of send
  shown                 \* on the screen: the activation it was sent with

registryVars == <<entries, order, nextToken>>
noticeVars == <<callback, registryVars, sending, shown>>

Idle == [id |-> Nothing, act |-> Nothing, token |-> 0]

InitNotices ==
  /\ callback \in {"none", "installed"}
  /\ entries = << >> /\ order = << >> /\ nextToken = 0
  /\ sending = Idle
  /\ shown = << >>

-------------------------------------------------------------------------------
(* The registry *)

\* retain: what ord has at the places, in order.
Retained(ord, places) ==
  [n \in 1..Cardinality(places) |->
     ord[CHOOSE i \in places : Cardinality({j \in places : j <= i}) = n]]

Forgotten(ord, id) == Retained(ord, {i \in DOMAIN ord : ord[i][1] # id})

Lacking(map, id) == Restrict(map, DOMAIN map \ {id})

With(map, id, value) == [i \in DOMAIN map \union {id} |-> IF i = id THEN value ELSE map[i]]

\* Faulty variant: the place in the order is kept.
Replaced_KeepsOrder(id, act) ==
  /\ nextToken' = nextToken + 1
  /\ order' = Append(order, <<id, nextToken + 1>>)
  /\ entries' = With(Lacking(entries, id), id, [token |-> nextToken + 1, act |-> act])

\* SystemActivationRegistry::replace: what the notice had goes, and for a new
\* activation the oldest make room.
Replaced(id, act) ==
  LET kept == Forgotten(order, id)
      excess == IF Len(kept) < MaxActivations THEN 0 ELSE Len(kept) - MaxActivations + 1
      oldest == {kept[i][1] : i \in 1..excess}
  IN  IF act = Nothing
      THEN /\ entries' = Lacking(entries, id)
           /\ order' = kept
           /\ UNCHANGED nextToken
      ELSE /\ nextToken' = nextToken + 1
           /\ order' = Append(SubSeq(kept, excess + 1, Len(kept)), <<id, nextToken + 1>>)
           /\ entries' = With(Restrict(entries, DOMAIN entries \ (oldest \union {id})), id,
                              [token |-> nextToken + 1, act |-> act])

\* SystemActivationRegistry::remove_if.
RemovedIf(id, token) ==
  IF id \in DOMAIN entries /\ entries[id].token = token
  THEN /\ entries' = Lacking(entries, id)
       /\ order' = Retained(order, {i \in DOMAIN order : order[i] # <<id, token>>})
  ELSE UNCHANGED <<entries, order>>

\* SystemActivationRegistry::take.
Taken(id) ==
  /\ entries' = Lacking(entries, id)
  /\ order' = Forgotten(order, id)

-------------------------------------------------------------------------------
(* The callback that opens things *)

\* request_response_handler: one attempt at a time, and not too soon.
BeginRetry ==
  /\ callback = "none" /\ sending = Idle
  /\ callback' = "starting"
  /\ UNCHANGED <<registryVars, sending, shown>>

\* initialize_system_response_handler and finish_retry, on the main thread.
FinishRetry ==
  /\ callback = "starting"
  /\ callback' \in {"installed", "waiting"}
  /\ UNCHANGED <<registryVars, sending, shown>>

RetryIsDue ==
  /\ callback = "waiting"
  /\ callback' = "none"
  /\ UNCHANGED <<registryVars, sending, shown>>

-------------------------------------------------------------------------------
(* Notices *)

\* system_response_registry and replace: a notice with an activation waits for
\* the callback; one without is sent without.
BeginSend ==
  /\ sending = Idle
  /\ nextToken < MaxTokens
  /\ \E id \in Identifiers, act \in Activations \union {Nothing} :
       /\ act # Nothing => callback = "installed"
       /\ IF callback = "installed"
          THEN Replaced(id, act)
          ELSE UNCHANGED registryVars
       /\ sending' = [id |-> id, act |-> act, token |-> nextToken']
  /\ UNCHANGED <<callback, shown>>

\* send: the operating system has it, in place of one with the same identifier.
Sent ==
  /\ sending # Idle
  /\ shown' = With(shown, sending.id, sending.act)
  /\ sending' = Idle
  /\ UNCHANGED <<callback, registryVars>>

\* send fails, and what was registered for it goes.
SendFails ==
  /\ sending # Idle
  /\ IF sending.act # Nothing
     THEN RemovedIf(sending.id, sending.token)
     ELSE UNCHANGED <<entries, order>>
  /\ sending' = Idle
  /\ UNCHANGED <<callback, nextToken, shown>>

\* take_system_response: a click opens the activation, and any answer of the user
\* uses it up.
Respond ==
  /\ callback = "installed"
  /\ \E id \in DOMAIN shown :
       /\ Taken(id)
       /\ shown' = Lacking(shown, id)
  /\ UNCHANGED <<callback, nextToken, sending>>

\* It goes without a word to the application.
Vanish ==
  /\ \E id \in DOMAIN shown : shown' = Lacking(shown, id)
  /\ UNCHANGED <<callback, registryVars, sending>>

NextNotices ==
  BeginRetry \/ FinishRetry \/ RetryIsDue \/ BeginSend \/ Sent \/ SendFails \/ Respond \/ Vanish

Notices == InitNotices /\ [][NextNotices]_noticeVars

-------------------------------------------------------------------------------

\* The order has each entry of the registry once, with its token, oldest first,
\* and there are no more than MaxActivations; while nothing is being sent, every
\* entry belongs to the notice that is on the screen, or was, under its
\* identifier, so that no click opens what another notice was sent with
\* (SystemActivationRegistry, show_system_notification).
ClicksAreOwn ==
  /\ \A i, j \in 1..Len(order) : i < j => order[i][1] # order[j][1] /\ order[i][2] < order[j][2]
  /\ {order[i] : i \in 1..Len(order)} = {<<id, entries[id].token>> : id \in DOMAIN entries}
  /\ Cardinality(DOMAIN entries) <= MaxActivations
  /\ \A id \in DOMAIN entries :
       id \in DOMAIN shown /\ id # sending.id => shown[id] = entries[id].act
===============================================================================
