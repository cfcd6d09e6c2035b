------------------------------ MODULE MCDesktop ------------------------------
(***************************************************************************)
(* Small instances for TLC of what the desktop keeps and shows: its store,  *)
(* how many rows a retention batch prunes, the opening and upgrade of a     *)
(* database file, the schedule of one notification in the outbox, the       *)
(* status of an agent, the text of an agent, the notices of the operating   *)
(* system, and the views sent to the window.  They share no state, so a     *)
(* behaviour follows one of them and leaves the others alone.               *)
(***************************************************************************)
EXTENDS DesktopStore, RetentionLoop, StoreOpening, OutboxSchedule,
        AgentStatus, AgentExcerpt, SystemNotices, ViewFeed

CONSTANTS k1, k2, idA, idB, e1, e2, b1

VARIABLE part

MCRetryDelays == <<1, 2, 3>>
MCOffsets == {-3, 9}

\* Every class of token in short texts, a few in longer ones, blocks of
\* lines, and what is awaited behind a block.
MCMany ==
  {Value(v) : v \in {"word", "is", "abc123", "ghp_1", "path", "path-end", "path.ext", "word-end",
                     "quoted", "api", "key", "uri-of-user-with-secret", "begin-key",
                     "end-key", "masked"}}
  \union {Tok(key, sep, "none") : key \in {"password", "token", "authorization"}, sep \in BOOLEAN}
  \union {Tok("password", TRUE, "word"), Tok("password", TRUE, "abc123"),
          Tok("token", TRUE, "bearer"), Tok("authorization", TRUE, "bearer-word"),
          Tok("bearer", FALSE, "none"), Tok("bearer", TRUE, "word")}
  \union {Tok("none", TRUE, val) : val \in {"none", "word", "bearer"}}

MCFew ==
  {Value("word"), Value("is"), Value("abc123"), Tok("password", FALSE, "none"),
   Tok("none", TRUE, "none"), Tok("bearer", FALSE, "none")}

MCBlocks ==
  {Value(v) : v \in {"word", "begin-key", "end-key", "begin-certificate", "payload",
                     "end-certificate"}} \union {Tok("password", TRUE, "none")}

MCBehind ==
  {Value("begin-key"), Value("end-key"), Tok("password", TRUE, "none"),
   Tok("bearer", FALSE, "none"), Tok("none", TRUE, "bearer")}

MCAlphabets ==
  {[tokens |-> MCMany, shapes |-> {<<3>>, <<1, 2>>, <<2, 1>>}],
   [tokens |-> MCFew, shapes |-> {<<5>>, <<2, 3>>, <<3, 2>>}],
   [tokens |-> MCBlocks, shapes |-> {<<1, 1, 1, 1>>, <<1, 2, 1>>}],
   [tokens |-> MCBehind, shapes |-> {<<1, 2, 2>>}]}

storeOnly == <<registered, pinned, cursor, history, unsettled, denied, gaps, tombstones,
               checkpoints, received, lost>>
shownVars == <<statusVars, excerptVars, noticeVars, feedVars>>

MCInit ==
  /\ part \in {"store", "retention", "opening", "schedule", "status", "text", "notices",
             "feed"}
  /\ Init
  /\ InitOpening /\ (part # "opening" => which = "spool" /\ database.version = 0)
  /\ InitSchedule
  /\ part # "schedule" =>
       kind = "question" /\ occurredAt = 9 /\ quiet = [start |-> 0, end |-> 0, bypass |-> FALSE]
  /\ IF part = "retention" THEN InitTable
     ELSE /\ rows = {} /\ cutoff = 0 /\ table = rows
          /\ remainingEvents = 0 /\ remainingBytes = 0 /\ deleted = 0
          /\ more = FALSE /\ batch = "none"
  /\ InitStatus
  /\ IF part = "text" THEN InitExcerpt ELSE text = << >> /\ once = << >> /\ twice = << >>
  /\ InitNotices /\ (part # "notices" => callback = "none")
  /\ InitFeed

MCNext ==
  /\ UNCHANGED part
  /\ \/ /\ part = "store" /\ Next
        /\ UNCHANGED <<tableVars, openingVars, scheduleVars, shownVars>>
     \/ /\ part = "retention" /\ NextBatch
        /\ UNCHANGED <<storeOnly, openingVars, scheduleVars, shownVars>>
     \/ /\ part = "opening" /\ NextOpening
        /\ UNCHANGED <<storeOnly, tableVars, scheduleVars, shownVars>>
     \/ /\ part = "schedule" /\ NextSchedule
        /\ UNCHANGED <<storeOnly, tableVars, openingVars, shownVars>>
     \/ /\ UNCHANGED <<storeOnly, tableVars, openingVars, scheduleVars>>
        /\ \/ part = "status" /\ NextStatus /\ UNCHANGED <<excerptVars, noticeVars, feedVars>>
           \/ part = "text" /\ NextExcerpt /\ UNCHANGED <<statusVars, noticeVars, feedVars>>
           \/ part = "notices" /\ NextNotices /\ UNCHANGED <<statusVars, excerptVars, feedVars>>
           \/ part = "feed" /\ NextFeed /\ UNCHANGED <<statusVars, excerptVars, noticeVars>>

MCSpec == MCInit /\ [][MCNext]_<<part, storeOnly, tableVars, openingVars, scheduleVars, shownVars>>
===============================================================================
