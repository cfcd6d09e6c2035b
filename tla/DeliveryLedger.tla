---------------------------- MODULE DeliveryLedger ----------------------------
(***************************************************************************)
(* What the desktop promises about the events of every source identity it  *)
(* has met: it goes through their sequence numbers once and in order, and  *)
(* accounts for each of them as an event it has received or as one that    *)
(* was lost at the source; it owes a decision about a notification for     *)
(* every event it received, until that decision is made.  No setting, no   *)
(* retention and no cleared history ever takes any of it back.             *)
(* DesktopStore implements it.                                             *)
(***************************************************************************)
EXTENDS Naturals

CONSTANTS
  SourceIds,            \* the identities a source can have
  MaxSequence           \* the last sequence of any of them

VARIABLES
  position,             \* per identity: how far the desktop has got
  received,             \* the <<identity, sequence>> pairs taken in
  lost,                 \* the pairs recorded as lost
  owed                  \* the received pairs whose notification is undecided

ledgerVars == <<position, received, lost, owed>>

Init ==
  /\ position = [s \in SourceIds |-> 0]
  /\ received = {}
  /\ lost = {}
  /\ owed = {}

Receive(s) ==
  LET next == <<s, position[s] + 1>>
  IN  /\ position' = [position EXCEPT ![s] = @ + 1]
      /\ received' = received \union {next}
      /\ owed' = owed \union {next}
      /\ UNCHANGED lost

Lose(s, n) ==
  /\ n > position[s]
  /\ position' = [position EXCEPT ![s] = n]
  /\ lost' = lost \union {<<s, m>> : m \in (position[s] + 1)..n}
  /\ UNCHANGED <<received, owed>>

Settle ==
  /\ \E pair \in owed : owed' = owed \ {pair}
  /\ UNCHANGED <<position, received, lost>>

\* A decision is taken back, and made again later.
Reopen ==
  /\ \E pairs \in SUBSET (received \ owed) : owed' = owed \union pairs
  /\ UNCHANGED <<position, received, lost>>

Next ==
  \/ \E s \in SourceIds : Receive(s) \/ \E n \in 0..MaxSequence : Lose(s, n)
  \/ Settle
  \/ Reopen

Spec == Init /\ [][Next]_ledgerVars
===============================================================================
