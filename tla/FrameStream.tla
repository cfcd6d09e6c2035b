----------------------------- MODULE FrameStream -----------------------------
(***************************************************************************)
(* From the bytes that ssh delivers, in pieces of any size, to frames:     *)
(* FrameDecoder and parse_frame_line of protocol.rs, and push_stdout and   *)
(* finish_stdout of remote.rs.  A byte is LF, CR or another one; a frame is *)
(* the line it came in.  What a frame says is the matter of BridgeStream.  *)
(***************************************************************************)
EXTENDS Integers, Sequences, FiniteSetsExt

CONSTANTS
  MaxFrameBytes,        \* MAX_FRAME_BYTES
  MaxBytes,             \* bounds the stream
  MaxPiece              \* bounds what one read returns

ASSUME FrameAssumption ==
  MaxFrameBytes \in Nat \ {0} /\ MaxBytes \in Nat /\ MaxPiece \in Nat \ {0}

VARIABLES
  bytes,                \* ghost: all that was read
  decoder,              \* buffer, accepted lines, and whether the stream was refused
  ended                 \* what finish_stdout said

frameVars == <<bytes, decoder, ended>>

LF == "LF"
CR == "CR"
Byte == {LF, CR, "x"}

InitFrames ==
  /\ bytes = << >>
  /\ decoder = [buffer |-> << >>, accepted |-> << >>, refused |-> FALSE]
  /\ ended = "no"

\* The line without its LF and a CR before it (parse_frame_line).
Stripped(line) ==
  IF line # << >> /\ line[Len(line)] = CR THEN SubSeq(line, 1, Len(line) - 1) ELSE line

\* parse_frame_line, for a line that holds a frame when it has no line break.
Parses(line) ==
  LET frame == Stripped(line)
  IN  Len(frame) \in 1..MaxFrameBytes /\ CR \notin {frame[i] : i \in 1..Len(frame)}

\* The limit, before the end of the line is there: one byte more may be the CR.
TooLong(buffer) ==
  Len(buffer) > MaxFrameBytes /\ ~(Len(buffer) = MaxFrameBytes + 1 /\ buffer[Len(buffer)] = CR)

\* FrameDecoder::push of one byte, and accept_frame.
PushByte(d, byte) ==
  LET buffer == Append(d.buffer, byte)
  IN  CASE d.refused -> d
        [] ~d.refused /\ byte = LF /\ Parses(d.buffer) ->
             [d EXCEPT !.buffer = << >>, !.accepted = Append(@, Stripped(d.buffer))]
        [] ~d.refused /\ byte = LF /\ ~Parses(d.buffer) ->
             [d EXCEPT !.buffer = << >>, !.refused = TRUE]
        [] OTHER -> [d EXCEPT !.buffer = buffer, !.refused = TooLong(buffer)]

\* Faulty variant: the whole piece is decoded before its first frame is accepted.
PushStdout_Whole(d, piece) ==
  LET after[n \in 0..Len(piece)] ==
        IF n = 0 THEN d ELSE PushByte(after[n - 1], piece[n])
      last == after[Len(piece)]
  IN  IF last.refused THEN [last EXCEPT !.accepted = d.accepted] ELSE last

\* push_stdout: byte by byte, each frame is accepted before the next byte is read.
PushStdout(d, piece) ==
  LET after[n \in 0..Len(piece)] ==
        IF n = 0 THEN d ELSE PushByte(after[n - 1], piece[n])
  IN  after[Len(piece)]

ReadPiece ==
  /\ ended = "no" /\ ~decoder.refused
  /\ \E n \in 1..MaxPiece : \E piece \in [1..n -> Byte] :
       /\ Len(bytes) + n <= MaxBytes
       /\ bytes' = bytes \o piece
       /\ decoder' = PushStdout(decoder, piece)
  /\ UNCHANGED ended

\* finish_stdout: the bytes of an unfinished line are an error.
Finish ==
  /\ ended = "no" /\ ~decoder.refused
  /\ ended' = IF decoder.buffer = << >> THEN "at a boundary" ELSE "unterminated"
  /\ UNCHANGED <<bytes, decoder>>

NextFrames == ReadPiece \/ Finish

Frames == InitFrames /\ [][NextFrames]_frameVars

-------------------------------------------------------------------------------
(* What the bytes bs say, whatever the pieces *)

LineEnds(bs) == {0} \union {i \in 1..Len(bs) : bs[i] = LF}

\* A line is between two neighbouring ends.
Lines(bs) ==
  {l \in LineEnds(bs) \X LineEnds(bs) :
     l[1] < l[2] /\ ~\E k \in LineEnds(bs) : l[1] < k /\ k < l[2]}

Content(bs, l) == SubSeq(bs, l[1] + 1, l[2] - 1)

\* The bytes behind the last line.
Unfinished(bs) == SubSeq(bs, Max(LineEnds(bs)) + 1, Len(bs))

\* A line that no frame may come in: empty, too long, or with a CR inside.
Bad(line) ==
  \/ Stripped(line) = << >> \/ Len(Stripped(line)) > MaxFrameBytes
  \/ \E i \in 1..Len(Stripped(line)) : line[i] = CR

\* The lines before the first bad one, and the place of a line among them.
GoodLines(bs) ==
  {l \in Lines(bs) : \A k \in Lines(bs) : k[2] <= l[2] => ~Bad(Content(bs, k))}

Place(bs, l) == Cardinality({k \in GoodLines(bs) : k[2] <= l[2]})

\* What a decoder has to make of them: every line before the first bad one is accepted,
\* in order, and only those, and the stream is refused if there is a bad line, or the
\* unfinished one is too long already.
IsDecoded(bs, d) ==
  /\ Len(d.accepted) = Cardinality(GoodLines(bs))
  /\ \A l \in GoodLines(bs) : d.accepted[Place(bs, l)] = Stripped(Content(bs, l))
  /\ d.refused <=>
       GoodLines(bs) # Lines(bs) \/ Len(Stripped(Unfinished(bs))) > MaxFrameBytes

\* However the bytes were cut into pieces, what was accepted and refused is what all of
\* them say, and their end is in order exactly after a line (push_stdout,
\* FrameDecoder::push, finish_stdout).
PiecesDoNotMatter ==
  /\ IsDecoded(bytes, decoder)
  /\ ended = "at a boundary" => Unfinished(bytes) = << >>
  /\ ended = "unterminated" => Unfinished(bytes) # << >>
===============================================================================
