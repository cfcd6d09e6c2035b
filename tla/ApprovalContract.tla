--------------------------- MODULE ApprovalContract ---------------------------
(***************************************************************************)
(* What an approval promises: a request can be answered in one place at a  *)
(* time, the dialog of the desktop or the terminal of the agent, and the   *)
(* agent hears allow or deny only when the user said so in the dialog.     *)
(*                                                                         *)
(*   agent  -->  dialog  -->  allowed, denied  -->  allow, deny            *)
(*     |           |                 |                                     *)
(*     +-----------+--> withdrawn ---+------------>  terminal              *)
(***************************************************************************)
CONSTANT Requests

VARIABLE surface        \* where each request is

ContractInit == surface = [r \in Requests |-> "agent"]

Becomes(r, place) == surface' = [surface EXCEPT ![r] = place]

\* One request at a time is in the dialog, and once only.
Offer(r) ==
  /\ surface[r] = "agent"
  /\ \A other \in Requests : surface[other] # "dialog"
  /\ Becomes(r, "dialog")

Decide(r) ==
  /\ surface[r] = "dialog"
  /\ \E answer \in {"allowed", "denied"} : Becomes(r, answer)

\* One request, or all of them when the desktop stops.
Withdraw(rs) ==
  /\ \A r \in rs : surface[r] \in {"agent", "dialog"}
  /\ surface' = [r \in Requests |-> IF r \in rs THEN "withdrawn" ELSE surface[r]]

\* The agent hears what was decided, or nothing at all when it came too late.
Tell(r) ==
  \/ surface[r] = "allowed" /\ Becomes(r, "allow")
  \/ surface[r] = "denied" /\ Becomes(r, "deny")
  \/ surface[r] \in {"agent", "withdrawn", "allowed", "denied"} /\ Becomes(r, "terminal")

ContractNext ==
  \/ \E r \in Requests : Offer(r) \/ Decide(r) \/ Tell(r)
  \/ \E rs \in SUBSET Requests : Withdraw(rs)

ContractSpec == ContractInit /\ [][ContractNext]_surface
===============================================================================
