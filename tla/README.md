# Flashcards: a TLA+ model

A verification project for the flashcards server in `src/`: a Rust web
application (axum, sqlx on SQLite) in which Users study Decks of Cards that FSRS
schedules.  The modules here model what the server does to its database when
requests overlap, get lost or arrive late, and what the scheduling policy does to
a Card over any sequence of Reviews.  TLC checks small instances; TLAPS proves
the core for all.

Contents

1. The system and its parts
2. The modules
3. The runs
4. What disagrees with the documents
5. What is proved
6. What is not modelled, and the plan

## 1. The system and its parts

The workspace has four crates.  `domain` holds the policy and the use cases,
written against the trait `Store`; `db` implements `Store` with SQL statements on
a pool of five connections; `web` turns HTTP requests into use cases; `flashcards`
is the process.  There is no state in memory apart from the cache of asset
hashes: every handler is a sequence of awaited `Store` calls, each of which is one
or more SQL statements, so that requests interleave at every call.  Only
`persist_review` (crates/db/src/lib.rs) opens a transaction.  The tests of the use
cases run on a second `Store`, maps behind a mutex (`domain::fake_store`).

| Part | State | Operations | What is hard | What makes it correct |
|---|---|---|---|---|
| Scheduling policy (domain: lib, phase, rating, schedule) | one Card: phase, learning step, FSRS memory, due, last review | `apply_rating` | four phases, two step tables, first review and lapses, clamped steps and elapsed days | the row satisfies the schema's CHECKs, is due after the Review, never loses memory |
| Cards and Reviews (db: lib, store, users; domain: use_cases) | tables `cards`, `review_logs` | create, edit, delete, rate | overlapping transactions, lock upgrades, deletion under a rating, lost requests and lost answers, crashes | Card and log change together, no lost update, an answer tells what was recorded, no deadlock, every request ends |
| Study queue and home (domain: queue, home; web: study) | none of its own; reads both tables in several statements | next Card, summary | stale pages, several tabs, local midnight, torn reads, late commits | daily cap, order of introduction, a due Card keeps its place; home, Deck and Study page agree |
| Users and Sessions (domain: user_use_cases; db: users; web: session, auth) | tables `users`, `sessions` | bootstrap, login, resolve, logout, change, create, disable, delete, reset | check and act are separate statements everywhere | whom the gate answers, a wipe is complete, no Session is used after the idle limit, one admin |
| Decks and ownership (db: users; web: decks, cards) | tables `users`, `decks`, `cards` | create, rename, delete, every Card operation through its Deck, the pages | owner checked in one statement, row changed by id in the next; pages in several statements; cascades | nobody reaches another User's rows, and a request acts as if at one instant |
| Asset hashes (web: assets) | a map from path to (mtime, hash) behind a mutex | `hashed_href_in` | mtime and bytes read at different moments, outside the lock | a page never names a hash of other bytes for good |
| In-memory Store (domain: fake_store) | a map per table and the next ids | every method of `Store` | cascades and counters by hand, no SQL to check against | it answers as the Store on SQLite does |
| Interval labels (domain: interval; web: study, cards) | none | `humanize_due_delta`, `card_list_due_label` | changes of unit, days against months | a longer wait never gets a shorter label |
| Schema (db/migrations) | the tables, the recorded version | four migrations | backfilled phases, tables dropped and renamed under foreign keys, two processes that open the file | old rows satisfy the new CHECKs, nothing is lost or done twice |
| Routing, errors, configuration, build info, templates, hashing | none | | | not modelled |

How they interact: a handler of `web` first resolves the Session (`require_auth`),
then calls one use case.  `rate` reads the Card, applies the Rating to that copy
and hands the result to `commit_review`, which checks the owner and calls
`persist_review`; that reads the Card again inside its transaction and applies the
Rating anew, so the first result is only used for its id, rating and instant.  The
Study page reads Cards and first Reviews in two statements, and shows the first
Card of `select_study_queue`; rating it does not look at the queue again.

The list `hazards` in `PROJECT.json` names each hard behaviour with its line and
the properties that would catch it going wrong.

## 2. The modules

    Scheduler         apply_rating as a pure operator          + Scheduler_proofs
      ReviewLog       the two tables, atomic operations
        Reviews       the SQL statements and SQLite's locks,   + Reviews_proofs
                      implements ReviewLog
      Queue           which Cards a Deck offers, home counts
      Interval        the labels of due times
        Study         pages and clocks; extends ReviewLog,     + Study_proofs, which is
                      Queue and Interval                         about ReviewLog and
                                                                 Interval as well
      Rows            a Card as a row of `cards`
      StoreApi        answers and input checks; extends Queue
        MemStore      the Store of the tests, call by call
        SqlStore      the Store on SQLite, call by call
          Stores      the same calls to both             + Stores_proofs
    Ownership         what the owner-scoped Store promises
      Spaces          its SQL statements and the pages,        + Spaces_proofs
                      implements Ownership
    Accounts          Users and Sessions, one Store call       + Accounts_proofs
                      per step
    AssetCache        the hashes of static files               + AssetCache_proofs
    Migrations        the four schema versions                 + Migrations_proofs
    MC*               instances for TLC

**Scheduler** translates `Card::apply_rating`, `apply_step_rating`,
`apply_review_rating`, `graduate` and `schedule`.  Texts are one opaque value;
FSRS is a constant function from (memory, elapsed days, grade) to (memory,
interval), of which only the ranges are assumed.  Its errors (memory that is not a
number) cannot arise from memory it has returned and are left out.  `CardWF` is
the CHECK constraints of migration 0003.  `CurrentStep` keeps the clamp of a
stored step that is beyond its table.  `Replay` is what a list of Reviews, one after
another, makes of a New Card; it is not code but what the log is for.

**ReviewLog** is the abstract specification: what `Store` promises.  Its variables
are the two tables; `Create`, `Edit`, `Rate` and `Delete` are atomic.  An operation
that fails leaves the tables alone and is a stutter.  Insertion order of the log is
kept because `now` comes from the request and need not grow along it.
`LogExplainsCard` says that each stored row is the `Replay` of its log.

**Reviews** is the implementation.  Every request has a program counter that names
the statement it runs next; the header of the module lists the values.  One action
is one SQL statement or one commit:

| Action | Code |
|---|---|
| `Arrive` | a handler in web/study.rs or web/cards.rs fixes its inputs and `Utc::now()` |
| `GetCard` | `domain::rate`: `get_card`, `apply_rating` on the copy |
| `CheckOwned` | `get_owned_card` before every write |
| `Begin`, `SelectFresh`, `UpdateCard`, `InsertLog`, `CommitReview` | `persist_review`, `write_review_on` |
| `Acquire`, `Statement`, `CommitStatement` | the autocommit INSERT, UPDATE and DELETE |
| `Answer` | `after_rate`, `after_change`: the page is read, the client hears of the write |
| `Abandon` | a timeout, or a client that goes away; sqlx rolls the transaction back, a committed write stays |
| `Crash` | the process stops; SQLite rolls the journal back |

SQLite is external and modelled from its use: rollback journal, DEFERRED
transactions (`pool.begin()`), so SHARED from the first SELECT, RESERVED with the
first write, PENDING and EXCLUSIVE at the commit.  A transaction that holds SHARED
and cannot get RESERVED fails at once, because waiting could not help; a statement
that holds nothing waits.  The locks are functions of the program counters.  `MayGo`
is what the next statement of a request waits for (a connection, SHARED, RESERVED, or
that no other request holds SHARED) and the common guard of the actions that serve
it; `UnderWay` says that there is a next statement.  The commit and the answer are two
steps: a request lost between them has written, and nobody was told.  `ExactlyOnce`
says what each outcome tells of the log: success that the Review has a row of its own,
404 and busy that it has none, and no answer that it has one or none.
Ownership is fixed here: one User, one Deck that stays.

**Study** puts browser tabs and a clock on the tables of ReviewLog.  A tab opens a
page (`asked` is the `now` of the request), reads the Cards, reads the first
Reviews, shows the head of the queue, and rates it whenever it likes; the Review
carries the instant at which the rating was sent and is committed later.  A second
tab, deletions, new Cards and the clock interleave with all of it.  `LocalOffset`
makes local days differ from UTC days.  `IntroducedThat(day)` are the Cards whose first
Review lies on a day; `DailyCap` counts them, and so does `CapWithinTabs`.  `Ahead(queue, c)`
are the Cards that a queue has before Card c; `NobodyPushesIn` is an action property on them:
while a Card is due and not rated, no step puts another in front of it.  The tables
change by ReviewLog's atomic operations, which is what Reviews was shown to implement.

**Queue** and **Interval** are pure: `select_study_queue` and `summarize_home` on
one Deck's inputs; `humanize_due_delta`, `card_list_due_label` and the labels of
the four buttons, as unit and count (wording is left out).  `PagesAgree` of Study
joins them: on one state of the tables the home page, the Deck page and the Study
page tell the same about the Deck.

**Rows** is the conversion between a Card and its row: phases in lower case, memory
in two columns, instants cut to milliseconds (`Grain`), the CHECKs of migration
0003 and the four errors of `card_from_row`.  The column of an instant is TEXT that no
CHECK looks at; `Illegible` stands for any that `parse_utc` turns away.

**Stores** makes one call after another to **MemStore** (`fake_store.rs`) and to
**SqlStore** (the statements of `db`, with their foreign keys, cascades, counters and
columns) and compares: the answers of each call (`dispute` holds them when they
differ), the tables, and all reads after it.  Every operator of the two Stores
takes the state and returns the state it leaves and its answer.  `FromDb` is the
conversion of database errors.  The domain's use cases are tested on the one Store
and run on the other, so what those tests show is worth what this comparison
holds.  It holds up to one case: of a Card that is rated in the last fraction of a
millisecond of a day since its last Review, whose instant SQLite has cut, the program
counts one day more than the tests' Store and asks FSRS another question.  `DaysDiffer`
is that case and `apart` remembers that it came up; the properties speak of the time
before.

**Accounts** models every use case of `user_use_cases.rs` and the Session gate.
Each `Store` call is a step of its own; any request may be lost after any call.
A password stands for its hash.  The bootstrap creates `BootstrapName`, the
constant of its only caller, seed_ci_admin.rs:13.  A request that has no Session, or
whose cookie leads to none that is live, is answered by `Implicit`: as the first
active User (`implicit_or_gate`).  The clock moves between any two calls (`Tick`); `asked` is
the `now` of a request, taken when it arrives at the gate or, for a login, after the
first look at the Users, and written when the Session is opened or touched, however
late.  Whether a Session is expired (`IsIdleExpired`) follows from the two.  `version`
counts the writes to a User's password and disabled flag, `uses` collects the instants
at which a Session was used, and `mark`, `late` and `issued` remember what a request
saw; they are history and no step depends on them, except that ids in `issued` are not
given out again (AUTOINCREMENT, random Session ids).

**Ownership** and **Spaces** are a second pair of promise and implementation, about
who may do what.  In Ownership each request of a User takes effect, or is refused,
at one instant, judged by the owners of that instant, and rows go together with
the rows that refer to them.  In Spaces a write is what `users.rs` makes of it:
`require_user`, a look-up through the owner (`get_owned_deck`, `get_owned_card`),
then a statement that names the row by id alone (`UPDATE cards ... WHERE id = ?`)
and returns the Deck for the page that follows.  The page reads its Deck, sometimes
twice, and its Cards in statements of their own.  `Outcome` is the refinement
mapping: a change takes effect with its write, whatever becomes of its page, and a
page is granted by the last look-up that can refuse it.  Three facts carry it: the
owner of a row never changes, ids are never given out twice (AUTOINCREMENT,
`usedCards`), and a statement that finds no row reports "not found".  The User is
looked up before every SELECT of a Deck or Card; that is merged with the SELECT,
because a User who is gone has no Decks.  A rating is one step here, which is what
Reviews shows.  `delete_user` is the administrator's request.

**AssetCache** is `hashed_href_in`: the modification time, the look-up under the
lock, the bytes, the insertion under the lock, with the file replaced or removed
in between.  `during` is history: what the file was since a render began.  Every
version of the file has a time of its own; versions within one tick of the file
system's clock, or a restored time, would break both properties and are excluded
in `Deploy`.

**Migrations** has the tables, the recorded version, and processes that open the
file (`MIGRATOR.run`: list what is applied, then one transaction per migration,
which records its version under a unique key).  A row is the set of its columns
that are not NULL.  The code of earlier servers is gone; they may add any row that
the schema of their version accepts.  `DROP TABLE` first deletes the rows, with
the cascades of the foreign keys, as SQLite documents and as an experiment with
the scripts confirms.

## 3. The runs

| Run | Bounds | What it shows |
|---|---|---|
| `review_log` | 1 Card, 2 texts, 3 instants (0, 11, 2900 minutes), 4 Reviews | the properties of the atomic tables (their types are a part of `StudyTypeOK`, in `study`); four Reviews reach every phase and every step of both tables, again after a lapse |
| `reviews` | 3 requests of any kind, 1 Card, 2 texts, 2 instants, 2 connections, grade Good | the safety of the concurrent Store, what its answers tell, that it implements ReviewLog, and that every request ends although connections and locks run out |
| `stores` | 2 Users, each with a Session and a Deck, and 3 Cards, one rated; 3 calls that change something, in any order with any calls that do not; 3 instants, a millisecond is 2 | the Store of the tests and the Store on SQLite give the same answers, tables and reads until they come apart |
| `study` | 3 Cards, 2 tabs, cap 1, 3 instants around local midnight, 3 Reviews, 2 grades, 1 Card deleted; page loads of any length | the cap and by how much it can be exceeded, order of introduction, the place of due Cards, agreement of home, Deck and Study page |
| `accounts` | 2 requests of any kind at 3 instants, idle limit 1; or 3 of login, resolve, disable and reset at the first instant, or of login and resolve at any; 3 User ids, 2 names, 2 passwords, 2 Sessions | whom the gate answers, Default Decks, the admin; what a wipe and the idle limit guarantee when they overlap with logins and resolves |
| `spaces` | 2 requests of any kind, or 3 that edit, delete or create Cards; 2 Users, 3 Deck ids, 4 Card ids, 1 or 2 Decks and a Card at the start | the statements implement atomic owner-scoped operations; pages; cascades |
| `asset_cache` | 3 renders, any number of times, 3 modification times, 2 contents | pages name current bytes, stale hashes stay harmless |
| `migrations` | 1 Deck, 2 Cards, 1 log row each, 2 processes | which rows migrate, what is kept, each migration once |
| `slots`, `dead_cookie`, `seeding`, `migration_logs` | the smallest that show them | the disagreements of section 4 |

Why the bounds are enough to be interesting.  Rows of different Cards never meet
in one statement, so one contended Card carries `reviews`; SQLite's locks are per
database and meet there as well.  Three requests are the fewest with a writer, a
reader that blocks its commit and a third party (two raters and a deletion, for
example).  The FSRS stand-in of the instances depends on memory, grade and days,
so that two different histories give different rows; `LogExplainsCard` replays the
log and would see any Review lost, doubled or computed from a stale row.  In
`study`, 779 lies on one local day, 785 and 1500 on the next, while UTC's day changes
between 785 and 1500 only: cap 1 with three Cards makes a second introduction a
violation.  Fewer instants or one tab would not reach stale pages.  A load begun on the
one day ends after the other tab has introduced a Card on the next, and its own Card is
rated then: two Cards of one day are introduced, and the bound of `CapWithinTabs`, fewer
than cap plus tabs, is met exactly; a third Card stands ready to break it.  `PromptCap`
holds the behaviours in which no load lasted over midnight (`prompt`) to the cap itself.
A Card rated Hard at 779 is due by 785 and another one, rated then, falls due after it
by 1500, so that the later one could push in; one rated Easy at 785 is due at 1500 to the
minute, where `<=` and `<` differ.
In `spaces` two requests suffice for one to
change what the other has looked up; the id of a Card needs three: a deletion, and
a creation that would get the id again, both between the look-up and the statement
of the first.  One id more than the requests can use keeps AUTOINCREMENT from
running out.  In `asset_cache` three renders can each hold an entry of another
version, or one hit what the second stored while the third overwrites it.  In
`migrations` two Cards put a complete and a partial row side by side.
In `accounts` three requests on Sessions give a disable, a login that overlaps it and a
resolve that arrives later.  With the idle limit 1 a Session of instant 0 that was not
used at 1 has expired at 2: of two resolves one comes at 1 and touches late, the other
comes at 2 and finds it expired, before or after; the third is what arrives next.
In `stores` three changes from a populated state reach what needs a history: a row
deleted and its id asked for again, a User whose Decks, Cards, log rows and
Sessions must all go, a second and a third Review, each before and after local
midnight.  Two instants lie half a millisecond past the millisecond, and between the first
and the second a day less that half passes, so that the Stores do come apart.

Each bound is a conjunct of the instance's specification and named there:
`Bounded` (Reviews and deletions), `MaxChanges` (calls), `TwoGrades`, `MCRequests` (grades and texts),
`OfKinds`, `FewOrOfKinds`, `FewOrOnCards` (requests), `MCInit`, `PopulatedInit`, `Populated`
(the rows at the start of Reviews, Spaces and Stores).  The sets of requests, tabs,
names, passwords and Session ids are symmetric in the runs that say SYMMETRY; the run
with a liveness property uses none.

`CHECK_DEADLOCK FALSE` stands where the system stops by itself: each request of
the instance is sent once, and when all have ended nothing is left to do.  In
`reviews` a real deadlock would violate `NobodyStuck` at once, and `EveryRequestEnds`.

**Assumptions of the passing runs.**  The cap itself is promised only if no page load
lasts over local midnight: `next_study_card` takes `now` before it reads, so a load that
spans midnight counts the day before and offers a New Card for which the new day may
have no room.  `PromptCap` says so with the history variable `prompt`; without the
condition each tab but one can exceed the cap by one Card a day (`CapWithinTabs`),
because its next page counts the new day.  Both count the Cards that are still there
(section 4, `slots`).  `AnsweredAsOwner` speaks of a Session that is in the table, for the
same reason (section 4, `dead_cookie`).  The wall clock of Study, Accounts and Stores
does not go back; ReviewLog and Reviews take instants in any order.

`stores` compares the two Stores as one client sees them: calls one after the other,
by a User who exists (the gate has just looked him up), at instants of any precision.
Session ids are numbered; the code draws them at random.  Outside these conditions the
two differ, and the difference is the code's: for a User who was deleted meanwhile
`MemStore` creates a Deck without an owner and names another error for a rename;
its `commit_review` writes the Card it was given, where `persist_review` rates the
stored one; after Reviews out of order it takes the first by position, not by
instant.  What the SQL side does then is the subject of Reviews, Spaces and Study.

**Fairness.** `EveryRequestEnds` assumes weak fairness of `Serve(r)` for each
request: tokio polls every task that can run and SQLite answers a statement whose
lock is free.  Nothing is assumed of `Abandon` and `Crash`: no timeout is needed to
make progress.  No other property needs fairness.

## 4. What disagrees with the documents

Each is a run with `expect: violation`; the finding in `PROJECT.json` quotes the
document.

- `migration_logs`: migrations 0002 and 0003 drop `cards` with foreign keys on, and
  the cascade empties the Review log; the comment of 0002 and SPEC-v1.2 expect it
  to stay.  (0004 then wipes all study data on purpose, so that only an upgrade
  that stopped at an intermediate version shows it.)
- `seeding`: a request lost between `create_user` and `create_deck` leaves a User
  without a Default Deck, and bootstrap cannot be repeated.
- `slots`: the cap counts log rows that exist, and a Card takes its log rows along.  Who
  rates a New Card and deletes it is offered another one the same day; SPEC-v1.2 and
  CONTEXT.md say that a first Rating always consumes a slot.  Accordingly `PromptCap`,
  `CapWithinTabs` and the theorems on the cap are about the Cards that are still there.
- `dead_cookie`: whoever shows a cookie whose Session was deleted or has expired is
  answered as the first active User, as is whoever shows none.  The comment of
  `implicit_or_gate` speaks of the missing cookie only, and SPEC-v1.3 asks for a valid
  Session.

## 5. What is proved

For all values of the constants that satisfy the named assumptions: any step tables
and any FSRS (`TimesAssumption`, `StepsAssumption`, `FsrsAssumption`), any numbers of
Cards, instants and requests (`CardAssumption`, `RequestAssumption`), any pool of at least
one connection (`PoolAssumption`; only `NeverDeadlocked` needs it).
For the other components: any cap and any offset of the local time
(`QueueAssumption`), any minute (`MinuteAssumption`), any finite number of tabs, at least
one (`TabsAssumption`; only `CapOverMidnight` needs it), and any finite number of Card
ids (`StudyAssumption`, `NoneIsNoView`), any number of Users,
Sessions and requests, any instants and idle limit (`AccountsAssumption`, `NoneIsNoRow`), of Users, Decks, Cards and
requests (`SpacesAssumption`, `NoneIsNoRow`), any millisecond and any memory of
integers (`RowsAssumption`), any usernames, hashes, names and texts in calls to the two
Stores (`CallsAssumption`, `NoneIsNoRow`) at instants of any precision, any
number of renders, contents and times (`NoneIsNoValue`), any rows and processes
(`MigrationsAssumption`).  Card ids are finite in Study because the queue is a sequence of Cards; no other theorem needs it.

**Scheduler_proofs.**  `ApplyRatingCorrect`: a Rating takes a well-formed Card to a
well-formed one that is not New, due no earlier than now, reviewed now, and keeps
memory once it has some.  One lemma per function of the code.  The lemmas on `Replay`
say when a function that starts with a New Card and takes one Review per step is the
replay of a log: two such functions agree, because they cannot have a first place
where they differ, which stands in for an induction; and that texts do not matter to
a schedule.

**Study_proofs** has four layers.

- Labels: `LabelOrder` and `ListOrder`.  The tests of `humanize_due_delta` are ordered from
  the shortest unit, and each count is a division, which is monotone; the changes
  of unit at 30 and 365 days (12 months, then 1 year) are covered by it.
- Tables (ReviewLog): `TablesInv` is the conjunction of the type invariant and a
  statement per Card (`CardInv`) that joins `CardWF`, the agreement with the log,
  where memory came from and when it is due.  The parts are inductive only
  together: that an Easy from New gives a row the CHECKs accept needs `CardWF` of
  the row before, and `CardMatchesLog` needs to know that a rated Card is not New.
  It gives `TypeCorrect`, `TablesConsistent`, `RowsFitSchema`, `LogsMatch` and the
  action property `LearnedIsKept`.  `HistoryExplainsCards`, that each row is the replay
  of its log, looks like an induction over the log, but the induction runs along the
  behaviour: `ReplayInv` carries a whole replay for each Card, which a Rating prolongs
  by one step and an edit of the text leaves alone.
- Queue: what `SelectStudyQueue` returns (`QueueOrder`, `QueueMeetsHome`): the due Cards,
  each once, by due time and id, then the oldest New Cards by id, as many as there
  are or as the cap has room for.  That a finite
  set can be listed in order (`SortExists`) is shown by a smallest subset that cannot,
  because induction over data is not available.  With the labels it gives
  `PagesAlwaysAgree`, which needs nothing of the sessions: the pages agree on any
  tables that `TablesInv` allows.
  `DueKeepsItsPlace` describes what stands before a due Card without the sequence
  (`AheadIs`: the Cards that fell due earlier, or at once and with a smaller id) and goes
  through what a step can make of a row (`RowSteps`): a Rating leaves a Card that is due
  no earlier than the instant it took.
- Sessions: `StudyInv` says what a page may still rely on while the tables change
  (`Evolves`) between its statements.  The Cards a page has read (`ViewFits`) are gone or
  at least as reviewed as they were, and an id it did not see is not used later by an
  older Card, since ids are given out in order and never again.  So the Card it shows
  (`OfferFits`) was due, or each older one has been reviewed: that gives `OrderInv` and
  `IntroducedInOrder`.  `CapInv` counts.  `Intro(day)` are the stored Cards whose first
  Review lies on that day.  A page that shows a New Card found room on its day, and
  the later days were still empty (`RoomToShow`); when the rating is sent, the instant
  of the Review fixes the day, and from then on that day has room for this very Card,
  or counts it already (`RoomToRate`).  Two tabs cannot fill the last slot with different Cards: each offers
  a New Card only when all older ones were introduced by its own day (`OfferDays`), so
  that of two pages the one with the younger Card waits for the other.  A late commit
  may move a first Review to an earlier day; `RateIntro` and `CapFitsRate` follow that.  `CapIsKept` is
  proved of `PromptSpec`, where no load lasts over local midnight: without that it
  is false.  `CapOverMidnight` is about all behaviours.  A tab is late for a day
  (`Late`) when it may still introduce a Card on it that was offered without counting
  it: its load began before, or its page shows a New Card of an earlier day.
  `TabsInv` says that the Cards introduced on a day and the tabs late for it
  are together fewer than cap plus tabs, or that nothing is introduced on it yet.  Once
  the day has its first Card no tab becomes late for it, since a load that begins then
  counts it; each introduction without room uses up the lateness of its tab; and the tab
  that introduces the first Card is not late any more itself.

**Reviews_proofs.**  `IInv == RequestsInv /\ TablesInv /\ IdsInv`.  `RequestsInv` says for
each program counter what the request knows: from `upgrade` on the row it holds is
the stored one (from `insert` on: its Rating of it).  This is inductive because a
commit needs `MayCommit`, which excludes every other request that holds SHARED, and
these are just the requests that rely on what they have read.  `IdsInv` says that an
id belongs to one INSERT, so that a create never overwrites.  It gives `TypeCorrect`,
`NothingLost`, `ReviewsSafe` (`NoLostUpdate`, `RowsWellFormed`, `NoOrphanLog`) and
`Implements`: each commit is the abstract operation of the same name and every other
step a stutter.  `HistorySurvives` carries the replay of the log over to the concurrent
Store.  `OnceInv` assigns the rows of a stored Card's log to requests (`From`), each to one of
its own that was answered with success or lost, and every success has its row; an id
whose INSERT is still to be committed has no rating answered.  A commit appends a row
and assigns it to its request; a loss leaves the assignment as it is, whether there is
a row or not.  That is `RecordedOnce`.  `BusyHasReason` needs none of this: a request becomes busy only
next to one that holds the write lock, and from there on that one commits or is lost.
`NeverDeadlocked` proves `NobodyStuck` for any pool and any number of requests: at most one
request holds the write lock (`OneWriter`); if it waits to commit, then for requests
that hold SHARED, and these can all go on, if only to be told that the database is
busy; if nobody waits to commit, whoever holds a connection and no lock can read, or
the holder of the write lock can write; and if no connection is in use, one is free.

**Spaces_proofs.**  What a request has looked up may be gone by its next statement, but
it can never belong to somebody else: the id of a row was given out (`IdsInv`), is not
given out again, and the row under it is deleted or keeps its owner (`Evolves`).
`Fits` says so of each request by its next statement: a write past its look-up names
a row that is its User's or gone (`Checked`), a page names a Deck that is (`PageFits`).
`FitsStable` carries that over every step of another request.  It gives `TypeCorrect`,
`ForeignKeysHold`, `NotFoundIsGone` and the action property `OwnRows`.  `Implements` maps
each request to its `Outcome`: the steps before the deciding one stutter, a write
is the abstract change, a look-up that finds nothing the abstract refusal, and
the last look-up of a page, which can find the Deck gone, the abstract grant.

**Accounts_proofs** has every property of the run.  The invariant says of each request,
by its kind and next call, what it may still rely on: ids it names were given
out before (`Known`), the User it has found (`Found`), that no User disabled before it
came is let in (`KeptOut`), that the Session it read is that User's or gone (`Shown`),
and what its write leaves behind (`Written`); beside it stands `AdminInv` (an active
admin of the bootstrap's name and no other).  These are facts about rows that other requests may change between two
calls; they survive because a row changes in a few ways only, collected in
`Evolves`: an admin flag never, a disabled flag never back, a version never down,
and a new row only under a fresh id.  `FitsStable` draws that conclusion once, and
the lemmas of the single actions add what their own request has learned.  The count
of admins can never exceed one, which is why the guard before a disable or a
delete protects the admin although it is a statement of its own.  `IdleSessionsDie`
has an invariant of its own, `IdleInv`: up to each of its uses a Session was never unused
for longer than the limit (`Covers`), and a request that has found it live may rely on
that for the instant it took, however late it writes.  A late touch can set
`last_used_at` back and can revive a Session that another request has found expired, but
only from an instant at which it was live.

**Stores_proofs** proves that the Store the use cases are tested on and the Store they
run on cannot be told apart, for any sequence of calls and any number of rows, until a
Rating falls into the case `apart`.  It
starts with one row: `AcceptedIsReadable` says that of the four errors of `card_from_row`
the CHECKs leave one, the instant whose text is illegible, and `RoundTrip` that a Card
survives the way through its row.  Then come instants: cutting to the millisecond turns
the order of two instants not around (`RoundingKeepsOrder`), but it may add a day to those
elapsed.  A Rating for which it does not gives the same row from a Card that was read
back as from the Card itself (`RatingAlike`, `RatedRow`), which is what lets
`persist_review` rate its own copy.  A Rating for which it does sets `apart`, and nothing
is claimed from there on.

Until then (`IInv == ~apart => Together`) `Together` joins `Agree`, the tables field by field,
with `MemOk`, which is about the maps alone.  `Agree` is not inductive without it:

- the cascades of SQLite follow the foreign keys, the `retain`s of `MemStore` the owners
  and the Decks; they delete the same rows only when no row is left behind by what it
  belongs to (`SessionsOk`, `DecksOk`, `CardsOk`, `LogOk`; `CascadeAgrees`);
- a look-up by username takes the User with the least id in the one, whichever row
  SQLite finds in the other: that needs unique names (`UsersOk`);
- a row fits the CHECKs, so that no write is refused, because the Card is well-formed
  (`CardOk`);
- the first Review of a Card is the first entry for the one and the least instant for
  the other: the log is ordered by its instants (`LogOk`).

Each of the calls has a lemma (`CreateUserAgrees` to `RateAgrees`) that takes `MemOk` and `Agree`
to the states the call leaves and shows that the answers match; `UserCallKeeps`,
`DeckCallKeeps` and `CardCallKeeps` put them together.  A log without some Cards
(`Remaining`) is the listing of the positions that stay, in order: two logs whose entries
match at each position leave logs that match (`RemainingStored`), which needs no
induction.  `SameAnswers` and `SameTables` are parts of `IInv`; `SameReads` holds in every
state that satisfies it.

**AssetCache_proofs.**  `TypeCorrect`, `CacheIsHonest` and `HrefIsCurrent`.  The invariant is
about entries (t, h), stored ones and those a render is about to store.  An entry may
be wrong, its bytes newer than its time; but then the file has left time t for
good, and each render that can still hit the entry began before it did, so that
the bytes came during that render.

**Migrations_proofs.**  `TypeCorrect`, `ForeignKeysHold`, `UpgradesWork` (the backfill
fits every row the CHECKs of 0002 accept, so only a Card of version 1 with part
of a schedule stops a migration), `AppliedOnce` and `CardsStay`.

Before each proof TLC checked the invariant (`StudyInv`, `OrderInv`, `CapInv`, the
`IInv` of the other modules) on the instance of the component's run.

Every invariant and action property of the passing runs is a theorem (`PromptCap` as
`CapIsKept`, of the specification with the condition instead of the history).  Only
model-checked is liveness (`EveryRequestEnds`), which is out of the
prover's reach; `NobodyStuck` is what is proved towards the first.  What `Fsrs` computes
is a constant and is not proved about.

## 6. What is not modelled, and the plan

Left out for good: routing, error pages, templates and escaping, configuration,
build info and the about page, Argon2, `main`, the deployment and the end-to-end
scripts: no state, or libraries.

Also left out: the ids that AUTOINCREMENT would give after a table was rebuilt, and
the indexes (Migrations); the page shown again after an empty field, the drafts of
forms, the reveal of an answer and the answer to an unknown rating (Spaces, Study);
the texts that the validation of usernames and passwords turns away, which reach no
Store call.

What a change of the model should look at next, in order:

1. **Home**: the torn read of the home page over several Decks, joined with Study.
