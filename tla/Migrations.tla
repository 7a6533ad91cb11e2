----------------------------- MODULE Migrations -----------------------------
(***************************************************************************)
(* The four migrations of db/migrations and the processes that run them    *)
(* when they open the database (open in db, lib.rs).  Each migration is    *)
(* one transaction, which ends by recording its version.  Between two      *)
(* migrations the servers of that time used the tables; their code is gone *)
(* and they add here whatever rows the schema of their version accepts.    *)
(*                                                                         *)
(* A row is known by the columns that are not NULL.  logs[c] counts the    *)
(* Review log rows of Card c.                                              *)
(***************************************************************************)
EXTENDS Naturals

CONSTANTS None, DeckIds, CardIds, UserIds, Openers, MaxLogs

VARIABLES
    version,   \* the last migration that is recorded, 0 in a new file
    decks,     \* decks[d]: the owner, "nobody" before version 4, None: no row
    cards,     \* cards[c]: the row of Card c, None when there is none
    logs,      \* logs[c]: how many Reviews of Card c are in the log
    pc,        \* closed, migrating, up, failed, or blocked by a CHECK
    applied    \* applied[o]: the version opener o has found or made

tables == <<decks, cards, logs>>
vars == <<version, tables, pc, applied>>

Latest == 4
Memory == {"stability", "difficulty"}
Dates == {"due", "last_review"}
Columns == Memory \cup Dates \cup {"learning_step"}
Phases == {"new", "learning", "review", "relearning"}

Row == [deck : DeckIds, phase : Phases \cup {None}, given : SUBSET Columns]

ASSUME MigrationsAssumption ==
    /\ MaxLogs \in Nat
    /\ None \notin Row \cup Phases \cup UserIds \cup {"nobody"}

(* The CHECK constraints of 0003. *)
PhaseColumns == [new |-> {}, learning |-> Dates \cup {"learning_step"},
                 review |-> Memory \cup Dates, relearning |-> Columns]

(* What the CHECKs of a version accept; 0001 has none for a Card. *)
Accepts(v, row) ==
    /\ v = 2 => row.given \in {{}, Memory \cup Dates}
    /\ v >= 3 => row.given = PhaseColumns[row.phase]

Rows(v) == {row \in Row :
    /\ (row.phase = None) = (v < 3)
    /\ v < 3 => "learning_step" \notin row.given
    /\ Accepts(v, row)}

TypeOK ==
    /\ version \in 0..Latest
    /\ decks \in [DeckIds -> UserIds \cup {"nobody", None}]
    /\ cards \in [CardIds -> Rows(version) \cup {None}]
    /\ logs \in [CardIds -> 0..MaxLogs]
    /\ pc \in [Openers -> {"closed", "migrating", "up", "failed", "blocked"}]
    /\ applied \in [Openers -> 0..Latest]

NoDecks == [d \in DeckIds |-> None]
NoCards == [c \in CardIds |-> None]
NoLogs == [c \in CardIds |-> 0]

Init ==
    /\ version = 0
    /\ decks = NoDecks /\ cards = NoCards /\ logs = NoLogs
    /\ pc = [o \in Openers |-> "closed"]
    /\ applied = [o \in Openers |-> 0]

-----------------------------------------------------------------------------
(* The servers of the present version. *)
Used == version > 0 /\ UNCHANGED <<version, pc, applied>>

AddDeck(d) ==
    /\ Used /\ decks[d] = None
    /\ \E u \in IF version < 4 THEN {"nobody"} ELSE UserIds :
          decks' = [decks EXCEPT ![d] = u]
    /\ UNCHANGED <<cards, logs>>

WriteCard(c) ==
    /\ Used
    /\ \E row \in Rows(version) :
          /\ decks[row.deck] # None
          /\ cards' = [cards EXCEPT ![c] = row]
    /\ UNCHANGED <<decks, logs>>

AddLog(c) ==
    /\ Used /\ cards[c] # None /\ logs[c] < MaxLogs
    /\ logs' = [logs EXCEPT ![c] = @ + 1]
    /\ UNCHANGED <<decks, cards>>

-----------------------------------------------------------------------------
(* The migrations, as what they make of the Cards, and of the rest.        *)
(* Mutant: 'relearning' for a Card with memory, which the CHECKs accept    *)
(* with a learning step.                                                   *)
Backfill_Relearns(row) ==
    [row EXCEPT !.phase = IF "stability" \in row.given THEN "relearning" ELSE "new",
                !.given = IF "stability" \in @ THEN Columns ELSE @]

(* Mutant: the default of the column. *)
Backfill_AllNew(row) == [row EXCEPT !.phase = "new"]

(* CASE WHEN stability IS NULL THEN 'new' ELSE 'review' END, NULL *)
Backfill(row) ==
    [row EXCEPT !.phase = IF "stability" \in row.given THEN "review" ELSE "new"]

Converted(v) ==
    [c \in CardIds |-> IF v = 3 /\ cards[c] # None THEN Backfill(cards[c]) ELSE cards[c]]

(* DROP TABLE first deletes the rows, and with foreign keys on this        *)
(* deletes the rows that refer to them.                                    *)
RebuildCards(v) ==
    /\ cards' = Converted(v)
    /\ logs' = NoLogs
    /\ UNCHANGED decks

(* Mutant: foreign keys are off while DELETE FROM decks runs. *)
WipeDecks_NoCascade ==
    /\ decks' = NoDecks
    /\ UNCHANGED <<cards, logs>>

(* DELETE FROM decks, and the new table decks. *)
WipeDecks ==
    /\ decks' = NoDecks /\ cards' = NoCards /\ logs' = NoLogs

Migrate(v) ==
    \/ v = 1 /\ UNCHANGED tables
    \/ v \in {2, 3} /\ RebuildCards(v)
    \/ v = 4 /\ WipeDecks

(* Mutant: cards_new without CHECKs. *)
Copies_Anything(v) == v \in 1..Latest

(* The copy into cards_new fails when a CHECK rejects a row. *)
Copies(v) ==
    v \in {2, 3} => \A c \in CardIds : cards[c] # None => Accepts(v, Converted(v)[c])

-----------------------------------------------------------------------------
(* MIGRATOR.run reads which migrations are applied, and applies the rest.  *)
Enter(o, state) == pc' = [pc EXCEPT ![o] = state]

List(o) ==
    /\ pc[o] = "closed"
    /\ applied' = [applied EXCEPT ![o] = version]
    /\ Enter(o, "migrating")
    /\ UNCHANGED <<version, tables>>

(* The row in _sqlx_migrations has the version as its key: a migration     *)
(* that another process has applied since fails and is rolled back.        *)
(* Mutant: the version is recorded without looking.                        *)
Apply_Again(o) ==
    /\ pc[o] = "migrating" /\ applied[o] < Latest
    /\ LET v == applied[o] + 1 IN
          IF ~Copies(v)
          THEN Enter(o, "blocked") /\ UNCHANGED <<version, tables, applied>>
          ELSE /\ Migrate(v)
               /\ version' = IF v > version THEN v ELSE version
               /\ applied' = [applied EXCEPT ![o] = v]
               /\ UNCHANGED pc

Apply(o) ==
    /\ pc[o] = "migrating" /\ applied[o] < Latest
    /\ LET v == applied[o] + 1 IN
          CASE applied[o] # version ->
                  Enter(o, "failed") /\ UNCHANGED <<version, tables, applied>>
            [] applied[o] = version /\ ~Copies(v) ->
                  Enter(o, "blocked") /\ UNCHANGED <<version, tables, applied>>
            [] OTHER ->
                  /\ Migrate(v)
                  /\ version' = v
                  /\ applied' = [applied EXCEPT ![o] = v]
                  /\ UNCHANGED pc

Serve(o) ==
    /\ pc[o] = "migrating" /\ applied[o] = Latest
    /\ Enter(o, "up")
    /\ UNCHANGED <<version, tables, applied>>

(* A process ends, at any time; a migration under way is rolled back. *)
Stop(o) ==
    /\ pc[o] # "closed"
    /\ Enter(o, "closed")
    /\ UNCHANGED <<version, tables, applied>>

Next ==
    \/ \E d \in DeckIds : AddDeck(d)
    \/ \E c \in CardIds : WriteCard(c) \/ AddLog(c)
    \/ \E o \in Openers : List(o) \/ Apply(o) \/ Serve(o) \/ Stop(o)

Spec == Init /\ [][Next]_vars

-----------------------------------------------------------------------------
(* No migration leaves a row whose parent is gone. *)
ForeignKeys ==
    \A c \in CardIds :
        /\ logs[c] > 0 => cards[c] # None
        /\ cards[c] # None => decks[cards[c].deck] # None

(* 0002 and 0003 keep every Card, in its Deck and with its schedule, and a *)
(* Card with memory is in Review afterwards, one without is New.           *)
CardsKept ==
    [][version' \in {2, 3} /\ version' # version =>
          /\ decks' = decks
          /\ \A c \in CardIds :
                /\ (cards[c] = None) = (cards'[c] = None)
                /\ cards[c] # None =>
                      /\ cards'[c].deck = cards[c].deck
                      /\ cards'[c].given = cards[c].given
                      /\ version' = 3 => (cards'[c].phase = "review")
                                            = ("stability" \in cards[c].given)]_vars

(* Rows that the CHECKs of a version accept can be migrated: only a Card   *)
(* of version 1 with part of a schedule keeps the server from starting.    *)
OnlyPartialRowsBlock ==
    [][\A o \in Openers : pc[o] # "blocked" /\ pc'[o] = "blocked" =>
          /\ version = 1
          /\ \E c \in CardIds : cards[c] # None /\ ~Accepts(2, cards[c])]_vars

(* Each migration takes effect once, whoever else opens the database: what *)
(* Users have made since version 4 is not wiped by a process that found an *)
(* older version.                                                          *)
MigratesOnce ==
    [][applied' # applied /\ tables' # tables => version' = version + 1]_vars

(* 0002 says that the foreign key of the Review log is checked when        *)
(* `cards` exists again, and SPEC-v1.2 that the log is unchanged: the      *)
(* rebuilt Cards keep their logs.                                          *)
LogsKept == [][version' \in {2, 3} /\ version' # version => logs' = logs]_vars
=============================================================================
