------------------------------- MODULE MCBanner -------------------------------
(* A small instance of Banner for TLC: two requests, of which one is refused while *)
(* the other is on the queue, and two other banners, of which one evicts the other. *)
EXTENDS Banner

CONSTANT First      \* an id of each kind

\* The ids of a kind differ in nothing: the first banner has one of First.
FirstIsFirst == shows = 0 => IdsOf(queue') \subseteq First

MCSpec == Init /\ [][Next /\ FirstIsFirst]_bannerVars /\ Fairness
===============================================================================
