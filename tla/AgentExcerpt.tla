----------------------------- MODULE AgentExcerpt -----------------------------
(***************************************************************************)
(* The text of an agent that a notification may show: safe_agent_excerpt of *)
(* adapter.rs masks values and paths in it, twice.  The hook does it before *)
(* the event is recorded, and the desktop again before the text is shown    *)
(* (trusted_adapter_body of notification.rs, map_history_item of state.rs). *)
(*                                                                          *)
(* A text is a sequence of lines that are not empty, and a line a sequence  *)
(* of tokens.  A token is a key, a separator and a value, each of which may *)
(* be missing; key and value are one of a few classes, one for each that    *)
(* the code tells apart.  How it recognises a class, the canonical view     *)
(* without invisible characters, escaped spaces, blank lines and the limit  *)
(* of 240 characters are not modelled.                                      *)
(***************************************************************************)
EXTENDS Integers, Sequences, FiniteSetsExt, SequencesExt

CONSTANT Alphabets      \* the texts to look at: [tokens, shapes], the lengths of the
                        \* lines of a text

VARIABLES
  text,                 \* of the agent
  once, twice           \* what is recorded, and what is shown; << >> at first

excerptVars == <<text, once, twice>>

Tok(key, sep, val) == [key |-> key, sep |-> sep, val |-> val]
Value(val) == Tok("none", FALSE, val)
Masked == Value("masked")               \* [redacted]

(* The classes *)

\* A token that is a key alone has no value.
Token ==
  {t \in [key : STRING, sep : BOOLEAN, val : STRING] : t.key # "none" /\ ~t.sep => t.val = "none"}

ASSUME AlphabetsAssumption ==
  \A a \in Alphabets : a.tokens \subseteq Token /\ a.shapes \subseteq Seq(Nat \ {0})

Alone(t) == t.key # "none" /\ ~t.sep
LeadingSep(t) == t.key = "none" /\ t.sep
OnlySep(t) == LeadingSep(t) /\ t.val = "none"
Plain(t) == t.key = "none" /\ ~t.sep

\* "api" stands for the first word of a label of two, "key" for its second.
SensitiveKey(key) == key \in {"password", "token"}
ExplicitLabel(key) == key \in {"bearer", "token", "blob"}
Scheme(key) == key \in {"bearer", "token"}
Filler(t) == Plain(t) /\ t.val = "is"

Credential(val) == val \in {"ghp_1", "payload"}
SecretCandidate(val) == Credential(val) \/ val = "abc123"
HoldsMask(val) == val \in {"masked", "bearer-masked"}

PrivatePath(val) == val \in {"path", "path-end", "path.ext"}
Uri(val) == val \in {"uri", "uri-of-user", "uri-with-secret", "uri-of-user-with-secret",
                     "uri-of-masked", "uri-of-masked-with-secret"}
HasSlash(val) == PrivatePath(val) \/ Uri(val) \/ val = "file-path"
Suffixed(val) == val \in {"path-end", "word-end"} \/ HoldsMask(val)

\* sensitive_label: one token, or the two of a label.
Label(tokens) ==
  \/ Len(tokens) = 1 /\ SensitiveKey(tokens[1].key) /\ tokens[1].val = "none"
  \/ Len(tokens) = 2 /\ tokens[1] = Value("api") /\ tokens[2] = Value("key")

-------------------------------------------------------------------------------
(* What a token becomes.  The state is what is awaited, and the fillers so far. *)

Calm == [awaits |-> "nothing", fillers |-> 0]
Await(what) == [awaits |-> what, fillers |-> 0]
Tail1 == Await("end-of-line")

Miss == [hit |-> FALSE]
Hit(t, state) == [hit |-> TRUE, out |-> t, state |-> state]

MaxFillers == 2

AfterFiller(t, state) ==
  IF state.fillers < MaxFillers
  THEN Hit(t, [state EXCEPT !.fillers = @ + 1])
  ELSE Hit(Masked, Tail1)

\* redact_expected_explicit_value: whatever comes after "bearer" and the like.
ExpectedExplicit(t, state, more) ==
  CASE state.awaits # "explicit-value" -> Miss
    [] state.awaits = "explicit-value" /\ OnlySep(t) -> Hit(t, state)
    [] state.awaits = "explicit-value" /\ LeadingSep(t) /\ ~OnlySep(t) ->
         Hit([t EXCEPT !.val = "masked"], Calm)
    [] state.awaits = "explicit-value" /\ more /\ Filler(t) -> AfterFiller(t, state)
    [] OTHER -> Hit(Masked, Calm)

\* redact_expected_delimiter: a key at the end of a line counts if the next line
\* starts with a separator.
Delimited(t, state) ==
  CASE state.awaits \notin {"delimiter", "assignment-delimiter"} -> state
    [] state.awaits = "delimiter" /\ LeadingSep(t) -> Await("value")
    [] state.awaits = "assignment-delimiter" /\ LeadingSep(t) -> Await("assigned-value")
    [] OTHER -> Calm

\* The rest of a line is left out if the end of a value cannot be told.
AfterValue(assigned, val) == IF assigned /\ ~SecretCandidate(val) THEN Tail1 ELSE Calm

\* redact_expected_secret.
ExpectedSecret(t, state, more) ==
  LET assigned == state.awaits = "assigned-value"
  IN  CASE state.awaits \notin {"value", "assigned-value"} -> Miss
        [] state.awaits \in {"value", "assigned-value"} ->
             CASE OnlySep(t) -> Hit(t, state)
               [] Alone(t) /\ Scheme(t.key) -> Hit(t, IF assigned THEN Await("value") ELSE state)
               [] ~assigned /\ more /\ Filler(t) -> AfterFiller(t, state)
               [] HoldsMask(t.val) -> Hit(t, Calm)
               [] LeadingSep(t) /\ t.val = "bearer" -> Hit(t, state)
               [] LeadingSep(t) /\ t.val \notin {"none", "bearer"} /\ ~HoldsMask(t.val) ->
                    Hit([t EXCEPT !.val = "masked"], AfterValue(assigned, t.val))
               [] OTHER -> Hit(Masked, AfterValue(assigned, IF Plain(t) THEN t.val ELSE "word"))

\* Faulty variant: a value that is masked already is taken for an unclear one.
KeyValue_Again(t) ==
  CASE ~(SensitiveKey(t.key) /\ t.sep) -> Miss
    [] SensitiveKey(t.key) /\ t.sep /\ t.val = "none" -> Hit(t, Await("assigned-value"))
    [] SensitiveKey(t.key) /\ t.sep /\ ExplicitLabel(t.key) /\ t.val = "bearer" -> Hit(t, Await("value"))
    [] OTHER -> Hit([t EXCEPT !.val = "masked"], AfterValue(~ExplicitLabel(t.key), t.val))

\* redact_key_value.
KeyValue(t) ==
  CASE ~(SensitiveKey(t.key) /\ t.sep) -> Miss
    [] SensitiveKey(t.key) /\ t.sep /\ t.val = "none" -> Hit(t, Await("assigned-value"))
    [] SensitiveKey(t.key) /\ t.sep /\ ExplicitLabel(t.key) /\ t.val = "bearer" -> Hit(t, Await("value"))
    [] OTHER -> Hit([t EXCEPT !.val = "masked"],
                    AfterValue(~ExplicitLabel(t.key) /\ ~HoldsMask(t.val), t.val))

\* redact_explicit_context.
ExplicitContext(t) ==
  CASE ~ExplicitLabel(t.key) -> Miss
    [] ExplicitLabel(t.key) /\ t.val = "none" -> Hit(t, Await("explicit-value"))
    [] OTHER -> Hit([t EXCEPT !.val = "masked"], Calm)

\* redact_authorization_header.
AuthorizationHeader(t) ==
  CASE ~(t.key = "authorization" /\ t.sep) -> Miss
    [] t.key = "authorization" /\ t.sep /\ t.val \in {"none", "bearer"} -> Hit(t, Await("value"))
    [] t.key = "authorization" /\ t.sep /\ t.val \in {"bearer-word", "bearer-masked"} ->
         Hit([t EXCEPT !.val = "bearer-masked"], Calm)
    [] OTHER -> Hit([t EXCEPT !.val = "masked"], Calm)

\* redact_file_url, redact_url_userinfo and redact_uri_secrets, in this order.
UriMasked ==
  [val \in {"file-path", "uri-of-user", "uri-of-user-with-secret", "uri-with-secret",
            "uri-of-masked-with-secret"} |->
     CASE val = "file-path" -> "file-masked"
       [] val = "uri-of-user" -> "uri-of-masked"
       [] val = "uri-of-user-with-secret" -> "uri-of-masked-with-secret"
       [] OTHER -> "masked-uri"]

UriToken(t) ==
  IF Plain(t) /\ t.val \in DOMAIN UriMasked THEN Hit(Value(UriMasked[t.val]), Calm) ELSE Miss

\* The first of some results that is a hit.
FirstHit(results) ==
  LET hits == {n \in 1..Len(results) : results[n].hit}
  IN  IF hits = {} THEN Miss ELSE results[Min(hits)]

\* redact_expected_explicit_value and redact_direct_token.
DirectToken(t, state, more) ==
  FirstHit(<<ExpectedExplicit(t, state, more),
             ExpectedSecret(t, Delimited(t, state), more),
             KeyValue(t), ExplicitContext(t), AuthorizationHeader(t), UriToken(t)>>)

-------------------------------------------------------------------------------
(* What a line becomes.  A result has the tokens, the state, and the next index. *)

Go(tokens, state, next) == [hit |-> TRUE, out |-> tokens, state |-> state, next |-> next]

Tokens(line, i, j) == SubSeq(line, i, j)
NextLeads(line, i) == i < Len(line) /\ LeadingSep(line[i + 1])

\* How far a path goes on: tokens with a slash, up to one with punctuation.
PathEnd(line, i) ==
  LET goesOn(j) == HasSlash(line[j].val) \/ Suffixed(line[j].val)
      ends == {j \in i..Len(line) :
                 /\ \A k \in (i + 1)..j : goesOn(k)
                 /\ \A k \in (i + 1)..(j - 1) : ~Suffixed(line[k].val)}
  IN  Max(ends)

\* consume_path_continuation.
Path(line, i) ==
  LET last == PathEnd(line, i)
      unclear == last = i /\ i < Len(line) /\ line[i].val = "path"
  IN  Go(<<Value(IF Suffixed(line[last].val) THEN "masked-path-end" ELSE "masked-path")>>,
         IF unclear THEN Tail1 ELSE Calm, last + 1)

LabelLengths(line, i) == {n \in 1..4 : i + n - 1 <= Len(line) /\ Label(Tokens(line, i, i + n - 1))}

\* The first token after at most MaxFillers fillers; a filler is none at the end.
Candidate(line, i) ==
  LET reach == {j \in i..(i + MaxFillers) :
                  \A k \in i..(j - 1) : k < Len(line) /\ Filler(line[k])}
  IN  Max(reach)

\* redact_contextual_phrase.
ContextualPhrase(line, i) ==
  IF LabelLengths(line, i) = {} THEN Miss
  ELSE LET n == Max(LabelLengths(line, i))
           j == Candidate(line, i + n)
       IN  CASE j = i + n + MaxFillers /\ j < Len(line) /\ Filler(line[j]) ->
                  Go(Append(Tokens(line, i, j - 1), Masked), Calm, Len(line) + 1)
             [] j > Len(line) -> Miss
             [] j <= Len(line) /\ n = 1 /\ j = i + n /\ ~(Plain(line[j]) /\ SecretCandidate(line[j].val)) -> Miss
             [] OTHER ->
                  Go(Append(Tokens(line, i, j - 1), IF HoldsMask(line[j].val) THEN line[j] ELSE Masked),
                     Calm, j + 1)

\* A key at the end of a line, which the next one may go on with.
KeyAtEnd(line, i) ==
  CASE ~(i = Len(line) /\ Alone(line[i])) -> Miss
    [] i = Len(line) /\ Alone(line[i]) /\ line[i].key = "authorization" ->
         Go(<<line[i]>>, Await("delimiter"), i + 1)
    [] i = Len(line) /\ Alone(line[i]) /\ SensitiveKey(line[i].key) ->
         Go(<<line[i]>>, Await("assignment-delimiter"), i + 1)
    [] OTHER -> Miss

\* One turn of redact_line, at the i-th token.
RedactAt(line, i, state) ==
  LET t == line[i]
      direct == DirectToken(t, state, i < Len(line))
      keep == Go(<<t>>, Delimited(t, state), i + 1)
  IN  CASE state.awaits = "end-of-line" -> Go(<< >>, state, i + 1)
        [] state.awaits # "end-of-line" /\ direct.hit -> Go(<<direct.out>>, direct.state, i + 1)
        [] OTHER ->
             CASE Alone(t) /\ t.key = "authorization" /\ NextLeads(line, i) -> [keep EXCEPT !.state = Await("value")]
               [] Uri(t.val) -> keep
               [] PrivatePath(t.val) -> Path(line, i)
               [] Plain(t) /\ Credential(t.val) -> [keep EXCEPT !.out = <<Masked>>]
               [] Alone(t) /\ SensitiveKey(t.key) /\ NextLeads(line, i) -> [keep EXCEPT !.state = Await("assigned-value")]
               [] OTHER -> FirstHit(<<ContextualPhrase(line, i), KeyAtEnd(line, i), keep>>)

\* redact_line: what is awaited lasts over the end of the line, but not the tail.
Line(line, state) ==
  LET after[i \in 0..Len(line)] ==
        IF i = 0 THEN Go(<< >>, state, 1)
        ELSE LET acc == after[i - 1]
                 step == RedactAt(line, i, acc.state)
             IN  IF i < acc.next THEN acc ELSE [step EXCEPT !.out = acc.out \o @]
      done == after[Len(line)]
  IN  [out |-> done.out, state |-> IF done.state = Tail1 THEN Calm ELSE done.state]

-------------------------------------------------------------------------------
(* What a text becomes *)

\* Tokens with a quoted phrase as their value, after a key or a label.
AfterLabel(line, i) ==
  \/ line[i].key # "none" /\ line[i].sep /\ (SensitiveKey(line[i].key) \/ line[i].key = "authorization")
  \/ LET before == {j \in 0..(i - 1) : \A k \in (j + 1)..(i - 1) : Filler(line[k])}
         j == Min(before)
     IN  /\ Plain(line[i])
         /\ \/ i - 1 - j > MaxFillers
            \/ \E n \in 1..4 : j - n >= 0 /\ Label(Tokens(line, j - n + 1, j))
            \/ j = i - 1 /\ j > 0 /\ line[j].key = "authorization" /\ line[j].sep /\ line[j].val = "none"
            \/ j = i - 1 /\ j > 1 /\ OnlySep(line[j]) /\ Alone(line[j - 1])
               /\ (SensitiveKey(line[j - 1].key) \/ line[j - 1].key = "authorization")

\* redact_quoted_sensitive_spans, for a phrase whose key is on its line.
Unquoted(line) ==
  [i \in 1..Len(line) |->
     CASE line[i].val = "quoted" /\ AfterLabel(line, i) -> [line[i] EXCEPT !.val = "masked"]
       [] line[i].val = "quoted-path" -> [line[i] EXCEPT !.val = "masked-path"]
       [] OTHER -> line[i]]

Has(line, val) == \E i \in 1..Len(line) : line[i].val = val
PlaceOf(line, val) == CHOOSE i \in 1..Len(line) : line[i].val = val /\ \A k \in 1..(i - 1) : line[k].val # val

\* One turn of redact_sensitive: inside a private key nothing is shown, and in a
\* certificate its payload is.
Block(acc, line) ==
  LET whole == Line(line, acc.state)
      head == Line(SubSeq(line, 1, PlaceOf(line, "begin-key") - 1), acc.state)
      show(redacted, block) ==
        [lines |-> Append(acc.lines, redacted.out), state |-> redacted.state, block |-> block]
  IN  CASE acc.block = "private-key" ->
             [acc EXCEPT !.block = IF Has(line, "end-key") THEN "none" ELSE @]
        [] acc.block # "private-key" /\ Has(line, "begin-key") ->
             show([head EXCEPT !.out = Append(@, Value("masked-key"))],
                  IF Has(line, "end-key") THEN "none" ELSE "private-key")
        [] acc.block = "certificate" /\ ~Has(line, "begin-key") ->
             IF line = <<Value("payload")>>
             THEN show([out |-> line, state |-> acc.state], "certificate")
             ELSE show(whole, IF Has(line, "end-certificate") THEN "none" ELSE "certificate")
        [] OTHER ->
             show(whole, IF Has(line, "begin-certificate") /\ ~Has(line, "end-certificate")
                         THEN "certificate" ELSE "none")

WithoutEmpty(lines) ==
  LET places == {n \in 1..Len(lines) : lines[n] # << >>}
  IN  [n \in 1..Cardinality(places) |->
         lines[CHOOSE i \in places : Cardinality({j \in places : j <= i}) = n]]

\* safe_agent_excerpt; a line of which nothing is left is an empty one.
Excerpt(lines) ==
  LET after[n \in 0..Len(lines)] ==
        IF n = 0 THEN [lines |-> << >>, state |-> Calm, block |-> "none"]
        ELSE Block(after[n - 1], Unquoted(lines[n]))
  IN  WithoutEmpty(after[Len(lines)].lines)

-------------------------------------------------------------------------------

Cells(shape) == UNION {{n} \X (1..shape[n]) : n \in DOMAIN shape}

InitExcerpt ==
  /\ \E a \in Alphabets : \E shape \in a.shapes : \E token \in [Cells(shape) -> a.tokens] :
       text = [n \in DOMAIN shape |-> [i \in 1..shape[n] |-> token[<<n, i>>]]]
  /\ once = << >> /\ twice = << >>

\* assistant_message and permission_description, in the hook.
RecordExcerpt == once = << >> /\ once' = Excerpt(text) /\ UNCHANGED <<text, twice>>

\* trusted_adapter_body and map_history_item, in the desktop.
ShowExcerpt == once # << >> /\ twice = << >> /\ twice' = Excerpt(once) /\ UNCHANGED <<text, once>>

NextExcerpt == RecordExcerpt \/ ShowExcerpt

Excerpts == InitExcerpt /\ [][NextExcerpt]_excerptVars

-------------------------------------------------------------------------------

\* Marks that a second look may change: one that says more than [redacted], a URI of
\* which only the user was masked, a payload whose certificate lost its first line.
Unstable == {"masked-key", "uri-of-masked-with-secret", "payload"}

\* What was masked is left alone when it is looked at again, and hides nothing of the
\* text behind it: what is shown is what was recorded (safe_agent_excerpt).  The
\* exceptions are the unstable marks, and tokens on the lines behind one: where it was
\* awaited as a value it is taken for it, and a "bearer" further on may be masked then.
ShownAsRecorded ==
  twice # << >> =>
    /\ Len(twice) = Len(once)
    /\ \A n \in 1..Len(once) :
         /\ Len(twice[n]) = Len(once[n])
         /\ \A i \in 1..Len(once[n]) :
              \/ twice[n][i] = once[n][i]
              \/ once[n][i].val \in Unstable
              \/ /\ twice[n][i].val = "masked"
                 /\ \E m \in 1..(n - 1) : \E k \in 1..Len(once[m]) : once[m][k].val \in Unstable

\* Words that are neither keys nor values, separators among them.
Prose(t) == (Plain(t) /\ t.val \in {"word", "word-end", "is", "abc123", "uri"}) \/ (LeadingSep(t) /\ t.val \in {"none", "word"})

KeyWord(t) == Alone(t) /\ t.key \in {"password", "authorization"}

\* A text that only names a key, as the last word of a line, and does not go on with
\* a separator, is kept as it is, with what it says later (redact_line,
\* redact_expected_delimiter).
ProseIsKept ==
  /\ once # << >>
  /\ \A n \in 1..Len(text) : \A i \in 1..Len(text[n]) :
       Prose(text[n][i]) \/ (i = Len(text[n]) /\ KeyWord(text[n][i]))
  /\ \A n \in 2..Len(text) : KeyWord(Last(text[n - 1])) => ~LeadingSep(text[n][1])
  => once = text

\* Both: what masking does to a text that was masked, and to one with nothing to mask.
ExcerptIsRight == ShownAsRecorded /\ ProseIsKept
===============================================================================
