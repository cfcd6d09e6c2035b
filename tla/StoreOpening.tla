----------------------------- MODULE StoreOpening -----------------------------
(***************************************************************************)
(* How a database file comes to be one: the spool, which hooks, bridges and *)
(* the desktop open whenever they like (Spool::open of spool.rs), and the   *)
(* store of the desktop, which one instance of the application opens        *)
(* (DesktopState::open of desktop.rs).                                      *)
(*                                                                          *)
(* An exclusive transaction creates or upgrades the schema, so a crash      *)
(* leaves the file as it was before it or as it is after it.  Before it, the *)
(* journal mode is set, which SQLite refuses at once while another          *)
(* connection has the file.  Of the store's content the module keeps the    *)
(* sequences that it has for one source.                                    *)
(***************************************************************************)
EXTENDS Integers, FiniteSets

CONSTANTS
  Openers,              \* processes
  StoreOpener,          \* the one that opens the store of the desktop
  LastEvent,            \* bounds the sequences in an old store
  MaxCrashes            \* bounds the crashes

Nobody == "nobody"
Nameless == "nameless"

\* An identity that a process draws is one.
ASSUME OpeningAssumption ==
  /\ StoreOpener \in Openers /\ Nameless \notin Openers
  /\ LastEvent \in Nat /\ MaxCrashes \in Nat

VARIABLES
  which,                \* "spool" or "store"
  database,             \* version of the schema, journal mode, identity, content
  before,               \* ghost: the file that was there at first
  holder,               \* who is in a transaction
  at,                   \* where each opener is
  outside,              \* the version that it read outside of the transaction
  has,                  \* ghost: the identity that it found when it had opened
  crashed               \* ghost: how many crashes there were

openingVars == <<which, database, before, holder, at, outside, has, crashed>>

\* DATABASE_SCHEMA_VERSION and DESKTOP_DATABASE_SCHEMA_VERSION.
Latest == IF which = "spool" THEN 1 ELSE 4

Known == 1..LastEvent

Empty == [events |-> {}, tombstones |-> {}, dated |-> {}, gaps |-> {}, cursor |-> 0, checkpoint |-> 0]

\* What an older or newer build may have left: no tombstones before the third
\* version, no checkpoint and no dates before the fourth.
OldContents(version) ==
  IF version \in 1..3
  THEN {[events |-> e, tombstones |-> t, dated |-> {}, gaps |-> g, cursor |-> c, checkpoint |-> 0] :
          e \in SUBSET Known, t \in SUBSET (IF version = 3 THEN Known ELSE {}),
          g \in SUBSET Known, c \in 0..LastEvent}
  ELSE {[events |-> e, tombstones |-> {}, dated |-> {}, gaps |-> {},
         cursor |-> LastEvent, checkpoint |-> LastEvent] : e \in SUBSET Known}

Files ==
  {[version |-> v, wal |-> w, identity |-> Nameless, content |-> c] :
     v \in {0}, w \in {FALSE}, c \in {Empty}}
  \union
  (IF which = "spool"
   THEN {[version |-> 2, wal |-> w, identity |-> "earlier", content |-> Empty] : w \in BOOLEAN}
   ELSE UNION {{[version |-> v, wal |-> TRUE, identity |-> Nameless, content |-> c] :
                  c \in OldContents(v)} : v \in 1..5})

InitOpening ==
  /\ which \in {"spool", "store"}
  /\ database \in Files
  /\ before = database
  /\ holder = Nobody
  /\ at = [o \in Openers |-> "start"]
  /\ outside = [o \in Openers |-> 0]
  /\ has = [o \in Openers |-> Nameless]
  /\ crashed = 0

GoesTo(o, place) == at' = [at EXCEPT ![o] = place]

-------------------------------------------------------------------------------
(* Before the transaction *)

\* reject_newer_database: the spool is not touched when a newer build made it.
\* The store is configured first.
CheckNewer(o) ==
  /\ at[o] = "start"
  /\ which = "spool" \/ o = StoreOpener
  /\ outside' = [outside EXCEPT ![o] = database.version]
  /\ GoesTo(o, IF which = "spool" /\ database.version > Latest THEN "too new" ELSE "checked")
  /\ UNCHANGED <<which, database, before, holder, has, crashed>>

\* configure_database and configure_connection: WAL, unless it is set; it may be
\* refused while another process has the file, and then initialize starts again.
SetWal(o) ==
  /\ at[o] = "checked"
  /\ \/ /\ database.wal \/ holder = Nobody
        /\ database' = [database EXCEPT !.wal = TRUE]
        /\ GoesTo(o, "configured")
     \/ /\ ~database.wal /\ \E p \in Openers \ {o} : at[p] \notin {"start", "too new", "gave up"}
        /\ GoesTo(o, "busy")
        /\ UNCHANGED database
  /\ UNCHANGED <<which, before, holder, outside, has, crashed>>

\* transaction_with_behavior(Exclusive): it waits for the others, for a while.
BeginExclusive(o) ==
  /\ at[o] = "configured"
  /\ \/ holder = Nobody /\ holder' = o /\ GoesTo(o, "exclusive")
     \/ holder # Nobody /\ GoesTo(o, "busy") /\ UNCHANGED holder
  /\ UNCHANGED <<which, database, before, outside, has, crashed>>

\* initialize: again after BUSY_RETRY_INTERVAL, or the deadline has passed.
Busy(o) ==
  /\ at[o] = "busy"
  /\ GoesTo(o, "start") \/ GoesTo(o, "gave up")
  /\ UNCHANGED <<which, database, before, holder, outside, has, crashed>>

-------------------------------------------------------------------------------
(* The transaction *)

\* apply_migration_v1 to apply_migration_v4: the second adds a column to the
\* outbox, the third the tombstones' table; the fourth dates the tombstones and
\* finds the highest sequence known of the source.
Migrated(version, content) ==
  IF version # 4 THEN content
  ELSE LET known == content.events \union content.tombstones \union content.gaps \union {content.cursor}
       IN  [content EXCEPT !.dated = content.tombstones,
                           !.checkpoint = CHOOSE n \in known : \A k \in known : k <= n]

\* One after the other, from the version that is in the file.
Upgraded(content, version) ==
  LET step[v \in version..Latest] ==
        IF v = version THEN content ELSE Migrated(v, step[v - 1])
  IN  step[Latest]

\* ensure_source_identity: the first one to come draws an identity.
Identity(o) == IF which = "spool" /\ database.identity = Nameless THEN o ELSE database.identity

\* Faulty variant: the version is the one that was read before.
Transact_OldVersion(o) ==
  /\ at[o] = "exclusive"
  /\ holder' = Nobody
  /\ IF outside[o] > Latest \/ outside[o] < database.version
     THEN GoesTo(o, IF outside[o] > Latest THEN "too new" ELSE "failed") /\ UNCHANGED <<database, has>>
     ELSE /\ database' = [version |-> Latest, wal |-> database.wal, identity |-> Identity(o),
                          content |-> Upgraded(database.content, database.version)]
          /\ has' = [has EXCEPT ![o] = Identity(o)]
          /\ GoesTo(o, "opened")
  /\ UNCHANGED <<which, before, outside, crashed>>

\* The rest of initialize_once, and of initialize: the version is read again.
Transact(o) ==
  /\ at[o] = "exclusive"
  /\ holder' = Nobody
  /\ IF database.version > Latest
     THEN GoesTo(o, "too new") /\ UNCHANGED <<database, has>>
     ELSE /\ database' = [version |-> Latest, wal |-> database.wal, identity |-> Identity(o),
                          content |-> Upgraded(database.content, database.version)]
          /\ has' = [has EXCEPT ![o] = Identity(o)]
          /\ GoesTo(o, "opened")
  /\ UNCHANGED <<which, before, outside, crashed>>

\* A process dies and another one starts in its place; what it had not committed
\* is undone.
OpenerDies(o) ==
  /\ crashed < MaxCrashes /\ at[o] # "start"
  /\ crashed' = crashed + 1
  /\ holder' = IF holder = o THEN Nobody ELSE holder
  /\ GoesTo(o, "start")
  /\ has' = [has EXCEPT ![o] = Nameless]
  /\ UNCHANGED <<which, database, before, outside>>

NextOpening ==
  \E o \in Openers :
    CheckNewer(o) \/ SetWal(o) \/ BeginExclusive(o) \/ Busy(o) \/ Transact(o) \/ OpenerDies(o)

Opening == InitOpening /\ [][NextOpening]_openingVars

-------------------------------------------------------------------------------

\* Any number of processes may open the spool for the first time at once: each
\* ends with the spool, under the one identity, unless it waited too long; a file
\* that a newer build made is refused (Spool::initialize).
OpenersAgree ==
  \A o \in Openers :
    /\ at[o] # "failed"
    /\ at[o] = "too new" => before.version > Latest
    /\ at[o] = "opened" => database.version = Latest /\ database.wal /\ has[o] = database.identity

\* A store is either as the older build left it, or upgraded whole: what it knew of
\* the source's sequences is still known, and none is above the position below
\* which events are not taken as new (initialize, apply_migration_v4).
UpgradeIsWhole ==
  /\ before.version > Latest => database.version = before.version
  /\ database.version = before.version => database.content = before.content
  /\ which = "store" /\ database.version # before.version =>
       /\ database.version = Latest
       /\ database.content.events = before.content.events
       /\ database.content.tombstones = before.content.tombstones
       /\ database.content.dated = before.content.tombstones
       /\ \A n \in before.content.events \union before.content.tombstones
                     \union before.content.gaps \union {before.content.cursor} :
            n <= database.content.checkpoint
       /\ database.content.checkpoint <= LastEvent

\* Both: what an opening leaves, of the spool and of the store.
OpeningIsWhole == OpenersAgree /\ UpgradeIsWhole
===============================================================================
