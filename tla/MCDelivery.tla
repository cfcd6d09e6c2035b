------------------------------ MODULE MCDelivery ------------------------------
(* Small instances of RemoteDelivery for TLC: one setting, one id per event. *)
EXTENDS RemoteDelivery

CONSTANTS k1, idA, idB, b1

MCEventIds == SourceIds \X (1..MaxSequence)

\* The identities are alike: the spool may as well begin with this one.
MCBegin == Begin /\ sourceId = idA

MCSpec == MCBegin /\ [][Step]_vars /\ Fairness
===============================================================================
