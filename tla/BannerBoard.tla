----------------------------- MODULE BannerBoard -----------------------------
(***************************************************************************)
(* What the banners of the desktop promise: a queue that anyone changes,   *)
(* and a window that the main thread now and then makes show what was      *)
(* visible of it.  Banner is shown to implement it, and Approval is built  *)
(* over it.                                                                *)
(*                                                                         *)
(* A banner is [id, approval, version]: a notification of the same id      *)
(* takes the place of the one before it, as another version.               *)
(***************************************************************************)
EXTENDS Integers, Sequences, FiniteSets, SequencesExt, FiniteSetsExt

CONSTANTS
  Ids,                  \* of notifications and requests for an approval
  Versions,
  MaxPassive            \* MAX_VISIBLE_PASSIVE_BANNERS

ASSUME BoardAssumption == MaxPassive \in Nat \ {0}

Banner == [id : Ids, approval : BOOLEAN, version : Versions]

VARIABLES
  queue,                \* BannerState::banners
  drawn,                \* what the main thread is about to show
  window                \* what the window shows; << >> is hidden

boardVars == <<queue, drawn, window>>

Passive(b) == ~b.approval

IdsOf(q) == {b.id : b \in ToSet(q)}

\* A second request for an approval is refused.
Refused(q, b) ==
  b.approval /\ b.id \notin IdsOf(q) /\ \E c \in ToSet(q) : c.approval

\* The place of the banner that makes room, or 0.
Evicted(q, b) ==
  LET passive == {i \in DOMAIN q : Passive(q[i])}
  IN  IF Passive(b) /\ Cardinality(passive) >= MaxPassive THEN Min(passive) ELSE 0

\* The queue with b in the place of its predecessor, or at the end.
Put(q, b) ==
  CASE b.id \in IdsOf(q) -> [i \in DOMAIN q |-> IF q[i].id = b.id THEN b ELSE q[i]]
    [] b.id \notin IdsOf(q) /\ Evicted(q, b) = 0 -> Append(q, b)
    [] OTHER -> Append(RemoveAt(q, Evicted(q, b)), b)

\* What q has at the places, in order.
At(q, places) ==
  [n \in 1..Cardinality(places) |->
     q[CHOOSE i \in places : Cardinality({j \in places : j <= i}) = n]]

Without(q, id) == At(q, {i \in DOMAIN q : q[i].id # id})

\* visible_notifications: a request alone, or every banner.
Visible(q) ==
  IF \E b \in ToSet(q) : b.approval
  THEN At(q, {i \in DOMAIN q : q[i].approval})
  ELSE q

-------------------------------------------------------------------------------

BoardInit == queue = << >> /\ drawn = << >> /\ window = << >>

Show(b) ==
  /\ ~Refused(queue, b)
  /\ queue' = Put(queue, b)
  /\ UNCHANGED <<drawn, window>>

Dismiss(id) ==
  /\ id \in IdsOf(queue)
  /\ queue' = Without(queue, id)
  /\ UNCHANGED <<drawn, window>>

Draw == drawn' = Visible(queue) /\ UNCHANGED <<queue, window>>

Present == window' = drawn /\ UNCHANGED <<queue, drawn>>

BoardNext ==
  \/ \E b \in Banner : Show(b)
  \/ \E id \in Ids : Dismiss(id)
  \/ Draw
  \/ Present

BoardSpec == BoardInit /\ [][BoardNext]_boardVars
===============================================================================
