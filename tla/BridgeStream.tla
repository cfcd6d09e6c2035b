----------------------------- MODULE BridgeStream -----------------------------
(***************************************************************************)
(* The frames of one bridge connection and the validator its consumer runs *)
(* over them (crates/aizu-core/src/protocol.rs, BridgeStreamValidator).    *)
(* Only what the validator decides by is kept of a frame: an error keeps   *)
(* its code, a heartbeat nothing.  Sequence 0 and required = 0 stand for   *)
(* None.                                                                   *)
(***************************************************************************)
EXTENDS Integers, Sequences

CONSTANT NoSource       \* no identity is pinned or announced yet

Hello(s, oldest, latest) ==
  [type |-> "hello", source |-> s, oldest |-> oldest, latest |-> latest]

EventFrame(s, n) == [type |-> "event", source |-> s, sequence |-> n]

GapFrame(after, through) == [type |-> "gap", after |-> after, through |-> through]

ErrorFrame(code) == [type |-> "error", code |-> code]

Heartbeat == [type |-> "heartbeat"]

-------------------------------------------------------------------------------
(* The validator *)

\* BridgeStreamValidator::new.
NewStream(after, pin) ==
  [phase |-> "awaiting_hello", pinned |-> pin, source |-> NoSource,
   cursor |-> after, required |-> 0]

\* validate_frame.
ValidFrame(f) ==
  CASE f.type = "hello" -> f.oldest # 0 => f.oldest <= f.latest
    [] f.type = "event" -> f.sequence > 0
    [] f.type = "gap" -> f.through > f.after
    [] OTHER -> TRUE

\* The end of the gap that must follow the hello, if one must.
RequiredGap(after, hello) ==
  CASE hello.oldest # 0 /\ after < hello.oldest - 1 -> hello.oldest - 1
    [] hello.oldest = 0 /\ after < hello.latest -> hello.latest
    [] OTHER -> 0

\* accept_before_hello.
VerdictBeforeHello(st, f) ==
  CASE f.type = "error" -> "accepted"
    [] f.type = "hello" ->
         IF st.pinned \in {NoSource, f.source} THEN "accepted" ELSE "identity_mismatch"
    [] OTHER -> "refused"

\* accept_active.
VerdictActive(st, f) ==
  CASE f.type \in {"error", "heartbeat"} -> "accepted"
    [] f.type = "hello" -> "refused"
    [] f.type = "event" ->
         IF st.required # 0 THEN "refused"
         ELSE IF f.source # st.source THEN "identity_mismatch"
         ELSE IF f.sequence = st.cursor + 1 THEN "accepted" ELSE "refused"
    [] f.type = "gap" ->
         IF f.after = st.cursor /\ st.required \in {0, f.through}
         THEN "accepted" ELSE "refused"

\* accept: how the validator takes a frame.
Verdict(st, f) ==
  CASE ~ValidFrame(f) -> "refused"
    [] ValidFrame(f) /\ st.phase = "awaiting_hello" -> VerdictBeforeHello(st, f)
    [] ValidFrame(f) /\ st.phase = "active" -> VerdictActive(st, f)
    [] OTHER -> "refused"

\* The validator after a frame it accepts.
Accepted(st, f) ==
  CASE f.type = "hello" -> [st EXCEPT !.phase = "active", !.source = f.source,
                                      !.required = RequiredGap(st.cursor, f)]
    [] f.type = "event" -> [st EXCEPT !.cursor = f.sequence]
    [] f.type = "gap" -> [st EXCEPT !.cursor = f.through, !.required = 0]
    [] f.type = "error" -> [st EXCEPT !.phase = "terminal"]
    [] f.type = "heartbeat" -> st
===============================================================================
