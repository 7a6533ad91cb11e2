------------------------------- MODULE Reviews -------------------------------
(***************************************************************************)
(* The card and review operations of the db crate as the web server runs   *)
(* them: requests are served concurrently, every Store call is one or more *)
(* SQL statements, and only persist_review opens a transaction.            *)
(*                                                                         *)
(* A request's progress is its pc:                                         *)
(*   idle      not received yet                                            *)
(*   get       domain::rate is about to read the Card (get_card)           *)
(*   owned     the Store is about to check that the User owns the Card     *)
(*   begin     persist_review waits for a pooled connection                *)
(*   select    in the transaction, before the Card is read again           *)
(*   upgrade   the Card is read, the UPDATE of it is next                  *)
(*   insert    the Card is updated, the INSERT of the log row is next      *)
(*   acquire   an autocommit write waits for a pooled connection           *)
(*   statement an autocommit write waits for SQLite's write lock           *)
(*   commit    the write waits until no other connection is reading        *)
(*   answer    the write is committed, the page of the answer is next      *)
(* and then done, or refused (404), busy (SQLITE_BUSY, 500) or lost (a     *)
(* timeout, a dropped connection, a crash of the server).                  *)
(*                                                                         *)
(* SQLite's locks follow from the pc.  The database is in its default      *)
(* rollback-journal mode and a transaction starts DEFERRED: the SELECT     *)
(* takes SHARED and keeps it, the first write upgrades to RESERVED, and    *)
(* the commit takes PENDING, which stops new readers, and then EXCLUSIVE.  *)
(* A connection that holds SHARED and cannot have RESERVED fails at once,  *)
(* without the busy timeout; one that holds nothing waits for it.          *)
(***************************************************************************)
EXTENDS Scheduler, FiniteSets

CONSTANTS
    CardIds,        \* ids of the AUTOINCREMENT column of `cards`
    Requests,       \* the HTTP requests, each of which is sent once
    MaxConnections  \* size of the connection pool, 5 in the code

VARIABLES
    cards,  \* the committed rows of `cards`, None when there is no row
    log,    \* the committed rows of `review_logs`, per Card
    used,   \* the ids that were given to a Card, or to one being created
    req,    \* req[r]: what request r asks for, None before it arrives
    row,    \* row[r]: the copy of the Card that request r holds
    pc      \* pc[r]: how far request r is

vars == <<cards, log, used, req, row, pc>>

LogEntry == [rated_at : Times, rating : Ratings]

RateRequests == [kind : {"rate"}, card : CardIds, rating : Ratings, now : Times]
TextRequests == [kind : {"create", "edit"}, card : CardIds, text : Texts]
DeleteRequests == [kind : {"delete"}, card : CardIds]
Request == RateRequests \cup TextRequests \cup DeleteRequests

ASSUME RequestAssumption == None \notin Request
(* sqlx's max_connections; db's connect asks for five. *)
ASSUME PoolAssumption == MaxConnections \in Nat \ {0}

Final == {"done", "refused", "busy", "lost"}
InTransaction == {"begin", "select", "upgrade", "insert"}   \* of a rating
InStatement == {"acquire", "statement"}                     \* of the others
Steps == {"idle", "get", "owned", "commit", "answer"}
            \cup InTransaction \cup InStatement \cup Final

Rates(r) == req[r] # None /\ req[r].kind = "rate"

(* A request has a copy of its Card from get_card on, and in the           *)
(* transaction the copy it reads there.                                    *)
HoldsRow(r) == Rates(r) /\ pc[r] \in {"owned", "begin", "upgrade", "insert", "commit"}

TypeOK ==
    /\ cards \in [CardIds -> Card \cup {None}]
    /\ log \in [CardIds -> Seq(LogEntry)]
    /\ used \subseteq CardIds
    /\ req \in [Requests -> Request \cup {None}]
    /\ row \in [Requests -> Card \cup {None}]
    /\ pc \in [Requests -> Steps]
    /\ \A r \in Requests :
          /\ (req[r] = None) <=> (pc[r] = "idle")
          /\ pc[r] \in InTransaction \cup {"get"} => Rates(r)
          /\ pc[r] \in InStatement => ~Rates(r)
          /\ HoldsRow(r) => row[r] # None

-----------------------------------------------------------------------------
(* The locks of SQLite and the connections of the pool. *)
Shared(r)   == pc[r] \in {"upgrade", "insert", "commit"}
Reserved(r) == pc[r] \in {"insert", "commit"}
Pending(r)  == pc[r] = "commit"

MayRead      == \A q \in Requests : ~Pending(q)
MayWrite(r)  == \A q \in Requests \ {r} : ~Reserved(q)
MayCommit(r) == \A q \in Requests \ {r} : ~Shared(q)

Connected == {r \in Requests :
                pc[r] \in {"select", "upgrade", "insert", "statement", "commit"}}
ConnectionFree == Cardinality(Connected) < MaxConnections

(* What a request waits for, at each of its steps.  In a transaction only  *)
(* the SELECT and the COMMIT wait: the UPDATE has a lock to upgrade and    *)
(* fails instead.  Mutant: it waits for the write lock, too.               *)
MayGo_UpgradeWaits(r) ==
    /\ pc[r] \in {"get", "owned", "select", "statement", "answer"} => MayRead
    /\ pc[r] \in {"get", "owned", "begin", "acquire", "answer"} => ConnectionFree
    /\ pc[r] \in {"statement", "upgrade"} => MayWrite(r)
    /\ pc[r] = "commit" => MayCommit(r)

MayGo(r) ==
    /\ pc[r] \in {"get", "owned", "select", "statement", "answer"} => MayRead
    /\ pc[r] \in {"get", "owned", "begin", "acquire", "answer"} => ConnectionFree
    /\ pc[r] = "statement" => MayWrite(r)
    /\ pc[r] = "commit" => MayCommit(r)

UnderWay(r) == pc[r] \notin Final \cup {"idle"}

Goto(r, step) == pc' = [pc EXCEPT ![r] = step]

-----------------------------------------------------------------------------
Init ==
    /\ cards \in [CardIds -> {NewCard(t) : t \in Texts} \cup {None}]
    /\ log = [c \in CardIds |-> <<>>]
    /\ used = {c \in CardIds : cards[c] # None}
    /\ req = [r \in Requests |-> None]
    /\ row = [r \in Requests |-> None]
    /\ pc = [r \in Requests |-> "idle"]

(* A request arrives.  A handler fixes the instant of a Review, Utc::now() *)
(* of a wall clock, before it waits for anything, so that instants need    *)
(* not grow in the order of the commits.  An INSERT will be given an id    *)
(* that no Card ever had; taking it here renames ids only.                 *)
Arrive(r) ==
    /\ pc[r] = "idle"
    /\ \E q \in Request :
          /\ q.kind = "create" => q.card \notin used
          /\ q.kind # "create" => q.card \in used
          /\ req' = [req EXCEPT ![r] = q]
          /\ used' = used \cup {q.card}
          /\ Goto(r, CASE q.kind = "rate" -> "get"
                       [] q.kind = "create" -> "acquire"
                       [] OTHER -> "owned")
    /\ UNCHANGED <<cards, log, row>>

(* domain::rate: get_card, and the Rating applied to the copy it returns.  *)
(* commit_review is handed the result but takes only its id from it.       *)
GetCard(r) ==
    /\ pc[r] = "get" /\ MayGo(r)
    /\ LET stored == cards[req[r].card] IN
          IF stored = None
          THEN Goto(r, "refused") /\ UNCHANGED row
          ELSE /\ row' = [row EXCEPT ![r] =
                             ApplyRating(stored, req[r].rating, req[r].now)]
               /\ Goto(r, "owned")
    /\ UNCHANGED <<cards, log, used, req>>

(* The get_owned_card of commit_review, update_owned_card and              *)
(* delete_owned_card, a statement of its own.                              *)
CheckOwned(r) ==
    /\ pc[r] = "owned" /\ MayGo(r)
    /\ Goto(r, IF cards[req[r].card] = None THEN "refused"
               ELSE IF Rates(r) THEN "begin" ELSE "acquire")
    /\ UNCHANGED <<cards, log, used, req, row>>

-----------------------------------------------------------------------------
(* persist_review, the one transaction. *)
Begin(r) ==
    /\ pc[r] = "begin" /\ MayGo(r)
    /\ Goto(r, "select")
    /\ UNCHANGED <<cards, log, used, req, row>>

(* Mutants: a missing row is not an error; the transaction goes on with    *)
(* the copy domain::rate had read.                                         *)
SelectFresh_Unchecked(r) ==
    /\ pc[r] = "select" /\ MayGo(r)
    /\ row' = [row EXCEPT ![r] = cards[req[r].card]]
    /\ Goto(r, "upgrade")
    /\ UNCHANGED <<cards, log, used, req>>

SelectFresh_KeepsCopy(r) ==
    /\ pc[r] = "select" /\ MayGo(r)
    /\ Goto(r, IF cards[req[r].card] = None THEN "refused" ELSE "upgrade")
    /\ UNCHANGED <<cards, log, used, req, row>>

SelectFresh(r) ==
    /\ pc[r] = "select" /\ MayGo(r)
    /\ LET fresh == cards[req[r].card] IN
          IF fresh = None
          THEN Goto(r, "refused") /\ UNCHANGED row
          ELSE /\ row' = [row EXCEPT ![r] = fresh]
               /\ Goto(r, "upgrade")
    /\ UNCHANGED <<cards, log, used, req>>

(* Mutants: SQLITE_BUSY is taken for success; a transaction gives way to   *)
(* any other that reads; it waits for the write lock while it reads.       *)
UpdateCard_SwallowsBusy(r) ==
    /\ pc[r] = "upgrade" /\ MayGo(r)
    /\ IF MayWrite(r)
       THEN /\ row' = [row EXCEPT ![r] = ApplyRating(@, req[r].rating, req[r].now)]
            /\ Goto(r, "insert")
       ELSE Goto(r, "done") /\ UNCHANGED row
    /\ UNCHANGED <<cards, log, used, req>>

UpdateCard_GivesWay(r) ==
    /\ pc[r] = "upgrade" /\ MayGo(r)
    /\ IF MayCommit(r)
       THEN /\ row' = [row EXCEPT ![r] = ApplyRating(@, req[r].rating, req[r].now)]
            /\ Goto(r, "insert")
       ELSE Goto(r, "busy") /\ UNCHANGED row
    /\ UNCHANGED <<cards, log, used, req>>

UpdateCard_Waits(r) ==
    /\ pc[r] = "upgrade" /\ MayGo(r)
    /\ MayWrite(r)
    /\ row' = [row EXCEPT ![r] = ApplyRating(@, req[r].rating, req[r].now)]
    /\ Goto(r, "insert")
    /\ UNCHANGED <<cards, log, used, req>>

UpdateCard(r) ==
    /\ pc[r] = "upgrade" /\ MayGo(r)
    /\ IF MayWrite(r)
       THEN /\ row' = [row EXCEPT ![r] = ApplyRating(@, req[r].rating, req[r].now)]
            /\ Goto(r, "insert")
       ELSE Goto(r, "busy") /\ UNCHANGED row
    /\ UNCHANGED <<cards, log, used, req>>

(* Mutant: without a transaction the UPDATE is committed on its own. *)
InsertLog_Autocommits(r) ==
    /\ pc[r] = "insert" /\ MayGo(r)
    /\ cards' = [cards EXCEPT ![req[r].card] = row[r]]
    /\ Goto(r, "commit")
    /\ UNCHANGED <<log, used, req, row>>

InsertLog(r) ==
    /\ pc[r] = "insert" /\ MayGo(r)
    /\ Goto(r, "commit")
    /\ UNCHANGED <<cards, log, used, req, row>>

(* The UPDATE named the schedule's columns only. *)
WithSchedule(stored, updated) == [updated EXCEPT !.text = stored.text]

CommitReview(r) ==
    /\ pc[r] = "commit" /\ Rates(r) /\ MayGo(r)
    /\ LET c == req[r].card IN
          /\ cards' = [cards EXCEPT ![c] = WithSchedule(@, row[r])]
          /\ log' = [log EXCEPT ![c] =
                        Append(@, [rated_at |-> req[r].now, rating |-> req[r].rating])]
    /\ Goto(r, "answer")
    /\ UNCHANGED <<used, req, row>>

-----------------------------------------------------------------------------
(* The autocommit writes: INSERT, UPDATE ... RETURNING and DELETE ...      *)
(* RETURNING.  A statement that matches no row is CardNotFound.            *)
Acquire(r) ==
    /\ pc[r] = "acquire" /\ MayGo(r)
    /\ Goto(r, "statement")
    /\ UNCHANGED <<cards, log, used, req, row>>

Statement(r) ==
    /\ pc[r] = "statement" /\ MayGo(r)
    /\ Goto(r, IF req[r].kind # "create" /\ cards[req[r].card] = None
               THEN "refused" ELSE "commit")
    /\ UNCHANGED <<cards, log, used, req, row>>

CommitStatement(r) ==
    /\ pc[r] = "commit" /\ ~Rates(r) /\ MayGo(r)
    /\ LET c == req[r].card IN
          \/ /\ req[r].kind = "create"
             /\ cards' = [cards EXCEPT ![c] = NewCard(req[r].text)]
             /\ UNCHANGED log
          \/ /\ req[r].kind = "edit"
             /\ cards' = [cards EXCEPT ![c].text = req[r].text]
             /\ UNCHANGED log
          \/ /\ req[r].kind = "delete"
             /\ cards' = [cards EXCEPT ![c] = None]
             /\ log' = [log EXCEPT ![c] = <<>>]
    /\ Goto(r, "answer")
    /\ UNCHANGED <<used, req, row>>

-----------------------------------------------------------------------------
(* after_rate and after_change read the page that answers a request, in    *)
(* statements of their own.  A request that is to be redirected reads      *)
(* nothing and need not wait; what can be lost here is the same.           *)
Answer(r) ==
    /\ pc[r] = "answer" /\ MayGo(r)
    /\ Goto(r, "done")
    /\ UNCHANGED <<cards, log, used, req, row>>

-----------------------------------------------------------------------------
(* One request ends early: the busy timeout or the pool's acquire timeout  *)
(* fires, or its client goes away and the handler is dropped.  A dropped   *)
(* Transaction rolls back; a write that is committed stays, although the   *)
(* client never hears of it.                                               *)
Abandon(r) ==
    /\ UnderWay(r)
    /\ Goto(r, "lost")
    /\ UNCHANGED <<cards, log, used, req, row>>

(* The server stops.  SQLite rolls a hot journal back at the next open, so *)
(* that the committed rows are what the next process finds.                *)
Crash ==
    /\ \E r \in Requests : UnderWay(r)
    /\ pc' = [r \in Requests |-> IF UnderWay(r) THEN "lost" ELSE pc[r]]
    /\ UNCHANGED <<cards, log, used, req, row>>

Serve(r) ==
    \/ GetCard(r) \/ CheckOwned(r)
    \/ Begin(r) \/ SelectFresh(r) \/ UpdateCard(r) \/ InsertLog(r) \/ CommitReview(r)
    \/ Acquire(r) \/ Statement(r) \/ CommitStatement(r) \/ Answer(r)

Next ==
    \/ \E r \in Requests : Arrive(r) \/ Serve(r) \/ Abandon(r)
    \/ Crash

Spec == Init /\ [][Next]_vars

(* tokio polls every task that can run, SQLite answers every statement     *)
(* whose lock is free; no timeout is relied on.                            *)
Fairness == \A r \in Requests : WF_vars(Serve(r))

FairSpec == Spec /\ Fairness

-----------------------------------------------------------------------------
(* The heart of persist_review: the Card a transaction has read is still   *)
(* the stored one when it writes, and what it is about to store is the     *)
(* Rating applied to that Card and not to the copy domain::rate had read.  *)
NoLostUpdate ==
    \A r \in Requests :
        LET stored == cards[req[r].card] IN
        /\ pc[r] = "upgrade" => stored # None /\ row[r] = stored
        /\ (pc[r] \in {"insert", "commit"} /\ Rates(r)) =>
              /\ stored # None
              /\ row[r] = ApplyRating(stored, req[r].rating, req[r].now)

(* Every committed row, and every row an open transaction has written,     *)
(* satisfies the CHECK constraints of the schema.                          *)
RowsWellFormed ==
    /\ \A c \in CardIds : cards[c] # None => CardWF(cards[c])
    /\ \A r \in Requests : HoldsRow(r) => CardWF(row[r])

(* A deleted Card leaves no log row behind, whatever was in flight. *)
NoOrphanLog ==
    \A c \in CardIds : cards[c] = None => log[c] = <<>>

Answered(c) == {r \in Requests : pc[r] \in {"answer", "done"} /\ Rates(r) /\ req[r].card = c}
Lost(c)     == {r \in Requests : pc[r] = "lost" /\ Rates(r) /\ req[r].card = c}

LogRow(r) == [rated_at |-> req[r].now, rating |-> req[r].rating]

(* What a client may conclude from the answer to a rating.  Each row of a  *)
(* Card's log is the Review of another request (from), one that was        *)
(* answered with success or lost; success means that there is such a row,  *)
(* 404 and SQLITE_BUSY that there is none, and no answer one or none.      *)
ExactlyOnce ==
    \A c \in CardIds :
        cards[c] # None =>
            \E from \in [1..Len(log[c]) -> Answered(c) \cup Lost(c)] :
                /\ \A i, j \in DOMAIN from : from[i] = from[j] => i = j
                /\ Answered(c) \subseteq {from[i] : i \in DOMAIN from}
                /\ \A i \in DOMAIN from : log[c][i] = LogRow(from[i])

(* SQLITE_BUSY is only ever the price of another request's progress: of    *)
(* the requests that compete, one holds the write lock or got through,     *)
(* unless it was lost.                                                     *)
BusyHasWinner ==
    \A r \in Requests :
        pc[r] = "busy" =>
            \E q \in Requests \ {r} :
                pc[q] \in {"insert", "commit", "answer", "done", "lost"}

(* The locks and the pool never deadlock: as long as a request is under    *)
(* way, one of them waits for nothing.  A commit waits for readers that    *)
(* wait for the write lock; a full pool is held by requests that may be    *)
(* among those that wait.                                                  *)
NobodyStuck ==
    (\E r \in Requests : UnderWay(r)) => \E q \in Requests : UnderWay(q) /\ MayGo(q)

(* Every request is answered without help from a timeout: readers, the     *)
(* transactions that upgrade and the writers that wait never form a cycle, *)
(* and a full pool always drains.                                          *)
EveryRequestEnds ==
    \A r \in Requests : pc[r] # "idle" ~> pc[r] \in Final

(* The Store implements the atomic tables of ReviewLog. *)
Abstract == INSTANCE ReviewLog
Refinement == Abstract!Spec
=============================================================================
