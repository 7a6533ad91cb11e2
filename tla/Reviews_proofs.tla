---------------------------- MODULE Reviews_proofs ----------------------------
(***************************************************************************)
(* Any number of requests, Cards and connections: no Review is computed    *)
(* from a stale Card, and the Store implements ReviewLog.                  *)
(***************************************************************************)
EXTENDS Reviews, Scheduler_proofs, FiniteSetTheorems

(* What holds of one request, given what it asks for (q), the row it holds *)
(* (w), its pc (p) and the stored Cards.                                   *)
RequestInv(q, w, p, stored) ==
    /\ q \in Request \cup {None} /\ w \in Card \cup {None} /\ p \in Steps
    /\ (q = None) <=> (p = "idle")
    /\ q # None =>
          /\ p \in InTransaction \cup {"get"} => q.kind = "rate"
          /\ p \in InStatement => q.kind # "rate"
          /\ p = "owned" => q.kind # "create"
          /\ (q.kind = "rate" /\ p \in {"owned", "begin", "upgrade", "insert", "commit"})
                => w \in Card /\ CardWF(w)
          /\ p = "upgrade" => stored[q.card] # None /\ w = stored[q.card]
          /\ (p \in {"insert", "commit"} /\ q.kind = "rate") =>
                stored[q.card] # None /\ w = ApplyRating(stored[q.card], q.rating, q.now)
          /\ (p = "commit" /\ q.kind \in {"edit", "delete"}) => stored[q.card] # None
          /\ (p \in {"acquire", "statement", "commit"} /\ q.kind = "create") =>
                stored[q.card] = None

RequestsInv ==
    /\ req \in [Requests -> Request \cup {None}]
    /\ row \in [Requests -> Card \cup {None}]
    /\ pc \in [Requests -> Steps]
    /\ \A r \in Requests : RequestInv(req[r], row[r], pc[r], cards)

TablesInv ==
    /\ cards \in [CardIds -> Card \cup {None}]
    /\ log \in [CardIds -> Seq(LogEntry)]
    /\ \A c \in CardIds : /\ cards[c] # None => CardWF(cards[c])
                          /\ cards[c] = None => log[c] = <<>>

(* An id belongs to at most one INSERT. *)
IdsInv ==
    /\ used \subseteq CardIds
    /\ \A c \in CardIds : cards[c] # None => c \in used
    /\ \A r \in Requests : req[r] # None => req[r].card \in used
    /\ \A r, q \in Requests :
          (r # q /\ req[r] # None /\ req[q] # None
             /\ req[r].kind = "create" /\ req[q].kind = "create")
          => req[r].card # req[q].card

IInv == RequestsInv /\ TablesInv /\ IdsInv

-----------------------------------------------------------------------------
LEMMA RequestFields ==
    ASSUME NEW q \in Request
    PROVE  /\ q # None /\ q.card \in CardIds
           /\ q.kind \in {"rate", "create", "edit", "delete"}
           /\ q.kind = "rate" => q.rating \in Ratings /\ q.now \in Times
           /\ q.kind \in {"create", "edit"} => q.text \in Texts
<1>1. q # None
  BY RequestAssumption
<1>2. CASE q \in RateRequests
  BY <1>1, <1>2 DEF RateRequests
<1>3. CASE q \in TextRequests
  BY <1>1, <1>3 DEF TextRequests
<1>4. CASE q \in DeleteRequests
  BY <1>1, <1>4 DEF DeleteRequests
<1> QED
  BY <1>2, <1>3, <1>4 DEF Request

(* The invariant gives the properties the runs check. *)
LEMMA IInvImplies == IInv => TypeOK /\ NoLostUpdate /\ RowsWellFormed /\ NoOrphanLog
<1> SUFFICES ASSUME IInv PROVE TypeOK /\ NoLostUpdate /\ RowsWellFormed /\ NoOrphanLog
  OBVIOUS
<1>1. ASSUME NEW r \in Requests
      PROVE  /\ (req[r] = None) <=> (pc[r] = "idle")
             /\ pc[r] \in InTransaction \cup {"get"} => Rates(r)
             /\ pc[r] \in InStatement => ~Rates(r)
             /\ HoldsRow(r) => row[r] # None /\ CardWF(row[r])
             /\ pc[r] = "upgrade" =>
                   cards[req[r].card] # None /\ row[r] = cards[req[r].card]
             /\ (pc[r] \in {"insert", "commit"} /\ Rates(r)) =>
                   /\ cards[req[r].card] # None
                   /\ row[r] = ApplyRating(cards[req[r].card], req[r].rating, req[r].now)
  <2>1. RequestInv(req[r], row[r], pc[r], cards)
    BY DEF IInv, RequestsInv
  <2>2. "idle" \notin InTransaction \cup InStatement \cup {"get", "upgrade"}
    BY DEF InTransaction, InStatement
  <2> QED
    BY <2>1, <2>2, CardAssumption DEF RequestInv, Rates, HoldsRow
<1>2. TypeOK
  BY <1>1 DEF IInv, RequestsInv, TablesInv, IdsInv, TypeOK
<1>3. NoLostUpdate
  BY <1>1 DEF NoLostUpdate
<1>4. RowsWellFormed /\ NoOrphanLog
  BY <1>1 DEF IInv, TablesInv, RowsWellFormed, NoOrphanLog
<1> QED
  BY <1>2, <1>3, <1>4

LEMMA InitIInv == Init => IInv
<1> SUFFICES ASSUME Init PROVE IInv
  OBVIOUS
<1>1. ASSUME NEW t \in Texts
      PROVE  NewCard(t) \in Card /\ CardWF(NewCard(t))
  BY DEF NewCard, Card, CardWF, Phases
<1>2. \A c \in CardIds : cards[c] \in Card \cup {None} /\ (cards[c] # None => CardWF(cards[c]))
  BY <1>1 DEF Init
<1>3. TablesInv
  BY <1>2 DEF Init, TablesInv
<1>4. RequestInv(None, None, "idle", cards)
  BY DEF RequestInv, Steps, InTransaction, InStatement
<1>5. RequestsInv
  BY <1>4 DEF Init, RequestsInv, Steps
<1>6. IdsInv
  BY DEF Init, IdsInv
<1> QED
  BY <1>3, <1>5, <1>6 DEF IInv

-----------------------------------------------------------------------------
(* A step of one request that commits nothing: the others do not notice. *)
LEMMA QuietStep ==
    ASSUME IInv, UNCHANGED <<cards, log, used, req>>,
           NEW r \in Requests, NEW w, NEW p,
           row' = [row EXCEPT ![r] = w], pc' = [pc EXCEPT ![r] = p],
           RequestInv(req[r], w, p, cards)
    PROVE  IInv'
<1>1. w \in Card \cup {None} /\ p \in Steps
  BY DEF RequestInv
<1>2. ASSUME NEW q \in Requests PROVE RequestInv(req[q], row'[q], pc'[q], cards)
  BY DEF IInv, RequestsInv
<1>3. RequestsInv'
  BY <1>1, <1>2 DEF IInv, RequestsInv
<1> QED
  BY <1>3 DEF IInv, TablesInv, IdsInv

(* A request that ended, or has only its answer left, keeps nothing that   *)
(* the others could disturb.                                               *)
LEMMA FinalInv ==
    ASSUME NEW q \in Request, NEW w \in Card \cup {None},
           NEW p \in Final \cup {"answer"}, NEW stored
    PROVE  RequestInv(q, w, p, stored)
<1>1. p \in Steps /\ p # "idle"
  BY DEF Final, Steps
<1>2. /\ p \notin InTransaction \cup InStatement
      /\ p \notin {"get", "owned", "begin", "upgrade", "insert", "commit",
                   "acquire", "statement"}
  BY DEF Final, InTransaction, InStatement
<1> QED
  BY <1>1, <1>2, RequestAssumption DEF RequestInv

(* The commit of a write.  No other connection reads meanwhile, so that no *)
(* other transaction holds a copy of the row that changes.                 *)
LEMMA CommitStep ==
    ASSUME IInv, NEW r \in Requests, pc[r] = "commit", MayCommit(r),
           NEW new \in Card \cup {None}, NEW entries \in Seq(LogEntry),
           new # None => CardWF(new), new = None => entries = <<>>,
           cards' = [cards EXCEPT ![req[r].card] = new],
           log' = [log EXCEPT ![req[r].card] = entries],
           pc' = [pc EXCEPT ![r] = "answer"], UNCHANGED <<used, req, row>>
    PROVE  IInv'
<1> DEFINE c == req[r].card
<1>1. RequestInv(req[r], row[r], "commit", cards)
  BY DEF IInv, RequestsInv
<1>2. req[r] \in Request /\ c \in CardIds /\ req[r] # None
  BY <1>1, RequestFields DEF RequestInv
<1>3. /\ cards \in [CardIds -> Card \cup {None}]
      /\ log \in [CardIds -> Seq(LogEntry)]
      /\ pc \in [Requests -> Steps]
      /\ req \in [Requests -> Request \cup {None}]
      /\ row \in [Requests -> Card \cup {None}]
  BY DEF IInv, RequestsInv, TablesInv
<1>4. TablesInv'
  BY <1>2, <1>3 DEF IInv, TablesInv
<1>5. IdsInv'
  <2>1. c \in used
    BY <1>2 DEF IInv, IdsInv
  <2> QED
    BY <1>2, <1>3, <2>1 DEF IInv, IdsInv
<1>6. ASSUME NEW q \in Requests PROVE RequestInv(req[q], row[q], pc'[q], cards')
  <2>1. CASE q = r
    BY <1>2, <1>3, <2>1, FinalInv
  <2>2. CASE q # r
    <3>1. pc'[q] = pc[q] /\ RequestInv(req[q], row[q], pc[q], cards)
      BY <1>3, <2>2 DEF IInv, RequestsInv
    <3>2. pc[q] \notin {"upgrade", "insert", "commit"}
      BY <2>2 DEF MayCommit, Shared
    <3>3. ASSUME req[q] # None, req[q].kind = "create",
                 pc[q] \in {"acquire", "statement"}
          PROVE  cards'[req[q].card] = None
      <4>1. cards[req[q].card] = None /\ req[q].card \in CardIds
        BY <1>3, <3>1, <3>3, RequestFields DEF RequestInv
      <4>2. req[q].card # c
        <5>1. CASE req[r].kind = "create"
          BY <1>2, <2>2, <3>3, <5>1 DEF IInv, IdsInv
        <5>2. CASE req[r].kind # "create"
          <6>1. cards[c] # None
            BY <1>1, <1>2, <5>2, RequestFields DEF RequestInv
          <6> QED
            BY <4>1, <6>1
        <5> QED
          BY <5>1, <5>2
      <4> QED
        BY <1>3, <4>1, <4>2
    <3> QED
      BY <3>1, <3>2, <3>3 DEF RequestInv
  <2> QED
    BY <2>1, <2>2
<1>7. RequestsInv'
  <2>1. pc' \in [Requests -> Steps]
    BY <1>3 DEF Steps, Final
  <2>2. cards' \in [CardIds -> Card \cup {None}]
    BY <1>4 DEF TablesInv
  <2> QED
    BY <1>3, <1>6, <2>1 DEF RequestsInv
<1> QED
  BY <1>4, <1>5, <1>7 DEF IInv

-----------------------------------------------------------------------------
LEMMA ArriveInv == ASSUME IInv, NEW r \in Requests, Arrive(r) PROVE IInv'
<1>1. PICK q \in Request :
         /\ q.kind = "create" => q.card \notin used
         /\ q.kind # "create" => q.card \in used
         /\ req' = [req EXCEPT ![r] = q]
         /\ used' = used \cup {q.card}
         /\ pc' = [pc EXCEPT ![r] = CASE q.kind = "rate" -> "get"
                                    [] q.kind = "create" -> "acquire"
                                    [] OTHER -> "owned"]
  BY DEF Arrive, Goto
<1> DEFINE p == CASE q.kind = "rate" -> "get"
                  [] q.kind = "create" -> "acquire"
                  [] OTHER -> "owned"
<1>2. /\ pc[r] = "idle" /\ UNCHANGED <<cards, log, row>>
      /\ req[r] = None
  BY DEF Arrive, IInv, RequestsInv, RequestInv
<1>3. /\ req \in [Requests -> Request \cup {None}]
      /\ row \in [Requests -> Card \cup {None}]
      /\ pc \in [Requests -> Steps]
      /\ cards \in [CardIds -> Card \cup {None}]
  BY DEF IInv, RequestsInv, TablesInv
<1>4. q # None /\ q.card \in CardIds /\ q.kind \in {"rate", "create", "edit", "delete"}
  BY RequestFields
<1>5. q.kind = "create" => cards[q.card] = None
  BY <1>1, <1>4 DEF IInv, IdsInv
<1>6. /\ p \in {"get", "acquire", "owned"}
      /\ p = "get" <=> q.kind = "rate"
      /\ p = "acquire" <=> q.kind = "create"
  BY <1>4
<1>7. RequestInv(q, row[r], p, cards)
  <2>1. p \in Steps /\ p # "idle"
    BY <1>6 DEF Steps, InStatement
  <2>2. p \notin InTransaction /\ (p \in InStatement => p = "acquire")
    BY <1>6 DEF InTransaction, InStatement
  <2>3. row[r] \in Card \cup {None}
    BY <1>3
  <2> HIDE DEF p
  <2>4. q.kind = "rate" => p = "get"
    BY <1>6
  <2> QED
    BY <1>4, <1>5, <1>6, <2>1, <2>2, <2>3, <2>4 DEF RequestInv
<1>8. RequestsInv'
  <2>1. p \in Steps
    BY <1>7 DEF RequestInv
  <2>2. pc' = [pc EXCEPT ![r] = p] /\ req' = [req EXCEPT ![r] = q]
    BY <1>1
  <2> HIDE DEF p
  <2>3. ASSUME NEW s \in Requests PROVE RequestInv(req'[s], row[s], pc'[s], cards)
    BY <1>3, <1>7, <2>2 DEF IInv, RequestsInv
  <2> QED
    BY <1>2, <1>3, <2>1, <2>2, <2>3 DEF RequestsInv
<1>9. TablesInv'
  BY <1>2 DEF IInv, TablesInv
<1>10. IdsInv'
  <2>1. \A s \in Requests : req'[s] = IF s = r THEN q ELSE req[s]
    BY <1>1, <1>3
  <2> QED
    BY <1>1, <1>2, <1>4, <2>1 DEF IInv, IdsInv
<1> QED
  BY <1>8, <1>9, <1>10 DEF IInv

LEMMA GetCardInv == ASSUME IInv, NEW r \in Requests, GetCard(r) PROVE IInv'
<1> DEFINE q == req[r]  stored == cards[q.card]
<1>1. /\ RequestInv(q, row[r], "get", cards) /\ row \in [Requests -> Card \cup {None}]
      /\ cards \in [CardIds -> Card \cup {None}]
  BY DEF GetCard, IInv, RequestsInv, TablesInv
<1>2. q \in Request /\ q.kind = "rate" /\ q.card \in CardIds
        /\ q.rating \in Ratings /\ q.now \in Times
  BY <1>1, RequestFields DEF RequestInv, Steps
<1>3. CASE stored = None
  <2>1. /\ pc' = [pc EXCEPT ![r] = "refused"] /\ row' = [row EXCEPT ![r] = row[r]]
        /\ UNCHANGED <<cards, log, used, req>>
    BY <1>1, <1>3 DEF GetCard, Goto
  <2>2. RequestInv(q, row[r], "refused", cards)
    BY <1>1, <1>2, FinalInv DEF Final
  <2> QED
    BY <2>1, <2>2, QuietStep
<1>4. CASE stored # None
  <2> DEFINE rated == ApplyRating(stored, q.rating, q.now)
  <2>1. /\ pc' = [pc EXCEPT ![r] = "owned"] /\ row' = [row EXCEPT ![r] = rated]
        /\ UNCHANGED <<cards, log, used, req>>
    BY <1>4 DEF GetCard, Goto
  <2>2. stored \in Card /\ CardWF(stored)
    BY <1>1, <1>2, <1>4 DEF IInv, TablesInv
  <2>3. rated \in Card /\ CardWF(rated)
    BY <1>2, <2>2, ApplyRatingCorrect DEF RatedCard
  <2>4. RequestInv(q, rated, "owned", cards)
    BY <1>2, <2>3, RequestAssumption DEF RequestInv, Steps, InTransaction, InStatement
  <2> QED
    BY <2>1, <2>4, QuietStep
<1> QED
  BY <1>3, <1>4

(* The steps that move the pc and nothing else. *)
LEMMA PcStep ==
    ASSUME IInv, NEW r \in Requests, NEW p, Goto(r, p),
           UNCHANGED <<cards, log, used, req, row>>,
           RequestInv(req[r], row[r], p, cards)
    PROVE  IInv'
<1>1. row' = [row EXCEPT ![r] = row[r]]
  BY DEF IInv, RequestsInv
<1> QED
  BY <1>1, QuietStep DEF Goto

LEMMA CheckOwnedInv == ASSUME IInv, NEW r \in Requests, CheckOwned(r) PROVE IInv'
<1> DEFINE q == req[r]
<1>1. RequestInv(q, row[r], "owned", cards)
  BY DEF CheckOwned, IInv, RequestsInv
<1>2. q \in Request /\ q.kind \in {"rate", "edit", "delete"}
  BY <1>1, RequestFields DEF RequestInv, Steps
<1>3. ASSUME NEW p \in {"refused", "begin", "acquire"},
             p = "begin" => q.kind = "rate", p = "acquire" => q.kind # "rate"
      PROVE  RequestInv(q, row[r], p, cards)
  BY <1>1, <1>2, <1>3
     DEF RequestInv, Steps, InTransaction, InStatement, Final
<1>4. PICK p \in {"refused", "begin", "acquire"} :
         /\ Goto(r, p)
         /\ p = "begin" => q.kind = "rate"
         /\ p = "acquire" => q.kind # "rate"
  <2>1. Rates(r) <=> q.kind = "rate"
    BY <1>2, RequestFields DEF Rates
  <2> QED
    BY <2>1 DEF CheckOwned
<1> QED
  BY <1>3, <1>4, PcStep DEF CheckOwned

LEMMA BeginInv == ASSUME IInv, NEW r \in Requests, Begin(r) PROVE IInv'
<1>1. RequestInv(req[r], row[r], "begin", cards)
  BY DEF Begin, IInv, RequestsInv
<1>2. RequestInv(req[r], row[r], "select", cards)
  BY <1>1 DEF RequestInv, Steps, InTransaction, InStatement
<1> QED
  BY <1>2, PcStep DEF Begin

LEMMA SelectFreshInv == ASSUME IInv, NEW r \in Requests, SelectFresh(r) PROVE IInv'
<1> DEFINE q == req[r]  fresh == cards[q.card]
<1>1. /\ RequestInv(q, row[r], "select", cards) /\ row \in [Requests -> Card \cup {None}]
      /\ cards \in [CardIds -> Card \cup {None}]
  BY DEF SelectFresh, IInv, RequestsInv, TablesInv
<1>2. q \in Request /\ q # None /\ q.kind = "rate" /\ q.card \in CardIds
  BY <1>1, RequestFields DEF RequestInv, InTransaction
<1>3. CASE fresh = None
  <2>1. Goto(r, "refused") /\ UNCHANGED <<cards, log, used, req, row>>
    BY <1>3 DEF SelectFresh
  <2>2. RequestInv(q, row[r], "refused", cards)
    BY <1>1, <1>2, FinalInv DEF Final
  <2> QED
    BY <2>1, <2>2, PcStep
<1>4. CASE fresh # None
  <2>1. /\ pc' = [pc EXCEPT ![r] = "upgrade"] /\ row' = [row EXCEPT ![r] = fresh]
        /\ UNCHANGED <<cards, log, used, req>>
    BY <1>4 DEF SelectFresh, Goto
  <2>2. fresh \in Card /\ CardWF(fresh)
    BY <1>1, <1>2, <1>4 DEF IInv, TablesInv
  <2>3. RequestInv(q, fresh, "upgrade", cards)
    BY <1>2, <1>4, <2>2 DEF RequestInv, Steps, InTransaction, InStatement
  <2> QED
    BY <2>1, <2>3, QuietStep
<1> QED
  BY <1>3, <1>4

LEMMA UpdateCardInv == ASSUME IInv, NEW r \in Requests, UpdateCard(r) PROVE IInv'
<1> DEFINE q == req[r]  updated == ApplyRating(row[r], q.rating, q.now)
<1>1. /\ RequestInv(q, row[r], "upgrade", cards) /\ row \in [Requests -> Card \cup {None}]
  BY DEF UpdateCard, IInv, RequestsInv
<1>2. /\ q \in Request /\ q # None /\ q.kind = "rate"
      /\ q.rating \in Ratings /\ q.now \in Times
      /\ row[r] \in Card /\ CardWF(row[r])
      /\ cards[q.card] # None /\ row[r] = cards[q.card]
  BY <1>1, RequestFields DEF RequestInv, InTransaction
<1>3. CASE MayWrite(r)
  <2>1. /\ pc' = [pc EXCEPT ![r] = "insert"] /\ row' = [row EXCEPT ![r] = updated]
        /\ UNCHANGED <<cards, log, used, req>>
    BY <1>1, <1>3 DEF UpdateCard, Goto
  <2>2. updated \in Card /\ CardWF(updated)
    BY <1>2, ApplyRatingCorrect DEF RatedCard
  <2>3. RequestInv(q, updated, "insert", cards)
    BY <1>2, <2>2 DEF RequestInv, Steps, InTransaction, InStatement
  <2> QED
    BY <2>1, <2>3, QuietStep
<1>4. CASE ~MayWrite(r)
  <2>1. Goto(r, "busy") /\ UNCHANGED <<cards, log, used, req, row>>
    BY <1>4 DEF UpdateCard
  <2>2. RequestInv(q, row[r], "busy", cards)
    BY <1>1, <1>2, FinalInv DEF Final
  <2> QED
    BY <2>1, <2>2, PcStep
<1> QED
  BY <1>3, <1>4

LEMMA InsertLogInv == ASSUME IInv, NEW r \in Requests, InsertLog(r) PROVE IInv'
<1>1. RequestInv(req[r], row[r], "insert", cards)
  BY DEF InsertLog, IInv, RequestsInv
<1>2. RequestInv(req[r], row[r], "commit", cards)
  BY <1>1 DEF RequestInv, Steps, InTransaction, InStatement
<1> QED
  BY <1>2, PcStep DEF InsertLog

(* Because no text of the row can have changed, writing the schedule's     *)
(* columns writes the row the transaction has computed.                    *)
LEMMA CommitReviewStep ==
    ASSUME IInv, NEW r \in Requests, CommitReview(r)
    PROVE  LET c == req[r].card IN
           /\ req[r] \in Request /\ c \in CardIds
           /\ req[r].rating \in Ratings /\ req[r].now \in Times
           /\ cards[c] \in Card /\ CardWF(row[r]) /\ row[r] \in Card
           /\ row[r] = ApplyRating(cards[c], req[r].rating, req[r].now)
           /\ cards' = [cards EXCEPT ![c] = row[r]]
<1> DEFINE q == req[r]  c == q.card
<1>1. RequestInv(q, row[r], "commit", cards) /\ cards \in [CardIds -> Card \cup {None}]
  BY DEF CommitReview, IInv, RequestsInv, TablesInv
<1>2. /\ q \in Request /\ q.kind = "rate" /\ c \in CardIds
      /\ q.rating \in Ratings /\ q.now \in Times
  BY <1>1, RequestFields DEF RequestInv, CommitReview, Rates
<1>3. /\ cards[c] \in Card /\ CardWF(cards[c])
      /\ row[r] \in Card /\ CardWF(row[r])
      /\ row[r] = ApplyRating(cards[c], q.rating, q.now)
  BY <1>1, <1>2, RequestAssumption DEF RequestInv, IInv, TablesInv
<1>4. row[r].text = cards[c].text
  BY <1>2, <1>3, ApplyRatingCorrect DEF RatedCard
<1>5. WithSchedule(cards[c], row[r]) = row[r]
  BY <1>3, <1>4 DEF WithSchedule, Card
<1> QED
  BY <1>1, <1>2, <1>3, <1>5 DEF CommitReview

LEMMA CommitReviewInv == ASSUME IInv, NEW r \in Requests, CommitReview(r) PROVE IInv'
<1> DEFINE entry == [rated_at |-> req[r].now, rating |-> req[r].rating]
           c == req[r].card
<1>1. /\ c \in CardIds /\ row[r] \in Card /\ CardWF(row[r])
      /\ cards' = [cards EXCEPT ![c] = row[r]] /\ entry \in LogEntry
  BY CommitReviewStep DEF LogEntry
<1>2. log \in [CardIds -> Seq(LogEntry)]
  BY DEF IInv, TablesInv
<1>3. Append(log[c], entry) \in Seq(LogEntry)
  BY <1>1, <1>2
<1>4. log' = [log EXCEPT ![c] = Append(log[c], entry)]
  BY <1>1, <1>2 DEF CommitReview
<1>5. row[r] # None
  BY <1>1, CardAssumption
<1>6. /\ pc[r] = "commit" /\ MayCommit(r)
      /\ pc' = [pc EXCEPT ![r] = "answer"] /\ UNCHANGED <<used, req, row>>
  BY DEF CommitReview, MayGo, Goto
<1> HIDE DEF entry
<1> QED
  BY <1>1, <1>3, <1>4, <1>5, <1>6, CommitStep

LEMMA AcquireInv == ASSUME IInv, NEW r \in Requests, Acquire(r) PROVE IInv'
<1>1. RequestInv(req[r], row[r], "acquire", cards)
  BY DEF Acquire, IInv, RequestsInv
<1>2. RequestInv(req[r], row[r], "statement", cards)
  BY <1>1 DEF RequestInv, Steps, InTransaction, InStatement
<1> QED
  BY <1>2, PcStep DEF Acquire

LEMMA StatementInv == ASSUME IInv, NEW r \in Requests, Statement(r) PROVE IInv'
<1> DEFINE q == req[r]
<1>1. RequestInv(q, row[r], "statement", cards)
  BY DEF Statement, IInv, RequestsInv
<1>2. q \in Request /\ q # None /\ q.kind \in {"create", "edit", "delete"}
  BY <1>1, RequestFields DEF RequestInv, Steps, InStatement
<1>3. CASE q.kind # "create" /\ cards[q.card] = None
  <2>1. Goto(r, "refused")
    BY <1>3 DEF Statement
  <2>2. RequestInv(q, row[r], "refused", cards)
    BY <1>1, <1>2, FinalInv DEF Final, RequestInv
  <2> QED
    BY <2>1, <2>2, PcStep DEF Statement
<1>4. CASE ~(q.kind # "create" /\ cards[q.card] = None)
  <2>1. Goto(r, "commit")
    BY <1>4 DEF Statement
  <2>2. RequestInv(q, row[r], "commit", cards)
    BY <1>1, <1>2, <1>4 DEF RequestInv, Steps, InTransaction, InStatement
  <2> QED
    BY <2>1, <2>2, PcStep DEF Statement
<1> QED
  BY <1>3, <1>4

(* What an autocommit write stores, and that its row is there (or, for an  *)
(* INSERT, is not there) when it is committed.                             *)
LEMMA CommitStatementStep ==
    ASSUME IInv, NEW r \in Requests, CommitStatement(r)
    PROVE  LET c == req[r].card IN
           /\ c \in CardIds
           /\ \/ /\ cards[c] = None /\ log[c] = <<>>
                 /\ \E t \in Texts : cards' = [cards EXCEPT ![c] = NewCard(t)]
                 /\ log' = log
              \/ /\ cards[c] # None
                 /\ \E t \in Texts : cards' = [cards EXCEPT ![c].text = t]
                 /\ log' = log
              \/ /\ cards[c] # None
                 /\ cards' = [cards EXCEPT ![c] = None]
                 /\ log' = [log EXCEPT ![c] = <<>>]
<1> DEFINE q == req[r]  c == q.card
<1>1. RequestInv(q, row[r], "commit", cards)
  BY DEF CommitStatement, IInv, RequestsInv
<1>2. /\ q \in Request /\ q # None /\ c \in CardIds
      /\ q.kind \in {"create", "edit"} => q.text \in Texts
      /\ q.kind = "create" => cards[c] = None
      /\ q.kind \in {"edit", "delete"} => cards[c] # None
  BY <1>1, RequestFields DEF RequestInv
<1>3. cards[c] = None => log[c] = <<>>
  BY <1>2 DEF IInv, TablesInv
<1>4. CASE /\ q.kind = "create"
           /\ cards' = [cards EXCEPT ![c] = NewCard(q.text)] /\ log' = log
  BY <1>2, <1>3, <1>4
<1>5. CASE /\ q.kind = "edit"
           /\ cards' = [cards EXCEPT ![c].text = q.text] /\ log' = log
  BY <1>2, <1>5
<1>6. CASE /\ q.kind = "delete"
           /\ cards' = [cards EXCEPT ![c] = None] /\ log' = [log EXCEPT ![c] = <<>>]
  BY <1>2, <1>6
<1> QED
  BY <1>2, <1>4, <1>5, <1>6 DEF CommitStatement

LEMMA CommitStatementInv ==
    ASSUME IInv, NEW r \in Requests, CommitStatement(r) PROVE IInv'
<1> DEFINE c == req[r].card
<1>1. /\ pc[r] = "commit" /\ MayCommit(r)
      /\ pc' = [pc EXCEPT ![r] = "answer"] /\ UNCHANGED <<used, req, row>>
  BY DEF CommitStatement, MayGo, Goto
<1>2. /\ cards \in [CardIds -> Card \cup {None}]
      /\ log \in [CardIds -> Seq(LogEntry)]
      /\ c \in CardIds
  BY CommitStatementStep DEF IInv, TablesInv
<1>3. ASSUME cards[c] = None, log[c] = <<>>, log' = log,
             NEW t \in Texts, cards' = [cards EXCEPT ![c] = NewCard(t)]
      PROVE  IInv'
  <2>1. NewCard(t) \in Card /\ CardWF(NewCard(t)) /\ NewCard(t) # None
    BY CardAssumption DEF NewCard, Card, CardWF, Phases
  <2>2. log' = [log EXCEPT ![c] = <<>>] /\ <<>> \in Seq(LogEntry)
    BY <1>2, <1>3
  <2> QED
    BY <1>1, <1>3, <2>1, <2>2, CommitStep
<1>4. ASSUME cards[c] # None, log' = log,
             NEW t \in Texts, cards' = [cards EXCEPT ![c].text = t]
      PROVE  IInv'
  <2> DEFINE card == cards[c]
             edited == [card EXCEPT !.text = t]
  <2>1. card \in Card /\ CardWF(card)
    BY <1>2, <1>4 DEF IInv, TablesInv
  <2>2. cards' = [cards EXCEPT ![c] = edited]
    BY <1>4
  <2>3. log' = [log EXCEPT ![c] = log[c]] /\ log[c] \in Seq(LogEntry)
    BY <1>2, <1>4
  <2> HIDE DEF card
  <2>4. edited \in Card /\ CardWF(edited)
    BY <2>1 DEF Card, CardWF
  <2> HIDE DEF edited
  <2>5. edited # None
    BY <2>4, CardAssumption
  <2> QED
    BY <1>1, <2>2, <2>3, <2>4, <2>5, CommitStep
<1>5. ASSUME cards' = [cards EXCEPT ![c] = None], log' = [log EXCEPT ![c] = <<>>]
      PROVE  IInv'
  <2>1. <<>> \in Seq(LogEntry)
    OBVIOUS
  <2> QED
    BY <1>1, <1>5, <2>1, CommitStep
<1> QED
  BY <1>3, <1>4, <1>5, CommitStatementStep

LEMMA AnswerInv == ASSUME IInv, NEW r \in Requests, Answer(r) PROVE IInv'
<1>1. RequestInv(req[r], row[r], "answer", cards)
  BY DEF Answer, IInv, RequestsInv
<1>2. RequestInv(req[r], row[r], "done", cards)
  BY <1>1, FinalInv DEF RequestInv, Final
<1> QED
  BY <1>2, PcStep DEF Answer

LEMMA AbandonInv == ASSUME IInv, NEW r \in Requests, Abandon(r) PROVE IInv'
<1>1. RequestInv(req[r], row[r], pc[r], cards) /\ pc[r] # "idle"
  BY DEF Abandon, UnderWay, IInv, RequestsInv
<1>2. RequestInv(req[r], row[r], "lost", cards)
  BY <1>1, FinalInv DEF RequestInv, Final
<1> QED
  BY <1>2, PcStep DEF Abandon

LEMMA CrashInv == ASSUME IInv, Crash PROVE IInv'
<1>1. pc \in [Requests -> Steps] /\ UNCHANGED <<cards, log, used, req, row>>
  BY DEF Crash, IInv, RequestsInv
<1>2. ASSUME NEW r \in Requests PROVE RequestInv(req[r], row[r], pc'[r], cards)
  <2>1. RequestInv(req[r], row[r], pc[r], cards)
    BY DEF IInv, RequestsInv
  <2>2. CASE pc[r] \in Final \cup {"idle"}
    BY <2>1, <2>2 DEF Crash, UnderWay
  <2>3. CASE pc[r] \notin Final \cup {"idle"}
    <3>1. pc'[r] = "lost" /\ "lost" \in Final
      BY <2>3 DEF Crash, UnderWay, Final
    <3> QED
      BY <2>1, <2>3, <3>1, FinalInv DEF RequestInv
  <2> QED
    BY <2>2, <2>3
<1>3. pc' \in [Requests -> Steps]
  BY <1>1 DEF Crash, Steps, Final
<1>4. RequestsInv'
  BY <1>1, <1>2, <1>3 DEF IInv, RequestsInv
<1> QED
  BY <1>1, <1>4 DEF IInv, TablesInv, IdsInv

LEMMA NextIInv == IInv /\ [Next]_vars => IInv'
<1> SUFFICES ASSUME IInv, [Next]_vars PROVE IInv'
  OBVIOUS
<1>1. ASSUME NEW r \in Requests, Serve(r) PROVE IInv'
  BY <1>1, GetCardInv, CheckOwnedInv, BeginInv, SelectFreshInv, UpdateCardInv,
     InsertLogInv, CommitReviewInv, AcquireInv, StatementInv, CommitStatementInv,
     AnswerInv DEF Serve
<1>2. CASE UNCHANGED vars
  BY <1>2 DEF vars, IInv, RequestsInv, TablesInv, IdsInv
<1> QED
  BY <1>1, <1>2, ArriveInv, AbandonInv, CrashInv DEF Next

-----------------------------------------------------------------------------
(* Every variable has its type at every step of every request. *)
THEOREM TypeCorrect == Spec => []TypeOK
BY InitIInv, NextIInv, IInvImplies, PTL DEF Spec

(* However requests interleave, fail or crash, a transaction rates the     *)
(* Card that is stored when it commits, stores a row the schema accepts,   *)
(* and no deleted Card keeps a Review log.                                 *)
THEOREM ReviewsSafe == Spec => [](NoLostUpdate /\ RowsWellFormed /\ NoOrphanLog)
BY InitIInv, NextIInv, IInvImplies, PTL DEF Spec

(* persist_review never writes over a Review it has not seen. *)
THEOREM NothingLost == Spec => []NoLostUpdate
BY ReviewsSafe, PTL

(* ReviewLog's scheduler is the one of Reviews. *)
LEMMA SameScheduler ==
    /\ Abstract!Ratings = Ratings
    /\ \A t : Abstract!NewCard(t) = NewCard(t)
    /\ \A card, rating, now :
          Abstract!ApplyRating(card, rating, now) = ApplyRating(card, rating, now)
<1>1. Abstract!Ratings = Ratings /\ \A t : Abstract!NewCard(t) = NewCard(t)
  BY DEF Ratings, Abstract!Ratings, NewCard, Abstract!NewCard
<1>2. \A memory, last, rating, now :
         Abstract!Schedule(memory, last, rating, now) = Schedule(memory, last, rating, now)
  BY DEF Schedule, Abstract!Schedule, ElapsedDays, Abstract!ElapsedDays
<1>3. \A card, rating, now :
         Abstract!Graduate(card, rating, now) = Graduate(card, rating, now)
  BY <1>2 DEF Graduate, Abstract!Graduate
<1>4. \A card, steps : Abstract!CurrentStep(card, steps) = CurrentStep(card, steps)
  BY DEF CurrentStep, Abstract!CurrentStep
<1>5. \A card, rating, now, steps, stay :
         Abstract!ApplyStepRating(card, rating, now, steps, stay)
           = ApplyStepRating(card, rating, now, steps, stay)
  <2> SUFFICES ASSUME NEW card, NEW rating, NEW now, NEW steps, NEW stay
               PROVE  Abstract!ApplyStepRating(card, rating, now, steps, stay)
                        = ApplyStepRating(card, rating, now, steps, stay)
    OBVIOUS
  <2>1. /\ Abstract!CurrentStep(card, steps) = CurrentStep(card, steps)
        /\ Abstract!Graduate(card, rating, now) = Graduate(card, rating, now)
    BY <1>3, <1>4
  <2> QED
    BY <2>1 DEF ApplyStepRating, Abstract!ApplyStepRating
<1>6. \A card, rating, now :
         Abstract!ApplyReviewRating(card, rating, now) = ApplyReviewRating(card, rating, now)
  BY <1>2 DEF ApplyReviewRating, Abstract!ApplyReviewRating
<1>7. \A card, rating, now :
         Abstract!ApplyRating(card, rating, now) = ApplyRating(card, rating, now)
  BY <1>5, <1>6 DEF ApplyRating, Abstract!ApplyRating
<1> QED
  BY <1>1, <1>7

(* The Store implements ReviewLog: a commit is one atomic step on the two  *)
(* tables, and nothing else changes them.                                  *)
THEOREM Implements == Spec => Refinement
<1>1. Init => Abstract!Init
  BY SameScheduler DEF Init, Abstract!Init
<1>2. ASSUME IInv, [Next]_vars PROVE [Abstract!Next]_(Abstract!vars)
  <2>1. ASSUME NEW r \in Requests, CommitReview(r) PROVE Abstract!Next
    <3> DEFINE c == req[r].card
    <3>1. /\ c \in CardIds /\ req[r].rating \in Ratings /\ req[r].now \in Times
          /\ cards[c] # None
          /\ cards' = [cards EXCEPT ![c] =
                          ApplyRating(cards[c], req[r].rating, req[r].now)]
      BY <1>2, <2>1, CommitReviewStep, CardAssumption
    <3>2. Abstract!Rate(c, req[r].rating, req[r].now)
      BY <2>1, <3>1, SameScheduler DEF CommitReview, Abstract!Rate
    <3> QED
      BY <3>1, <3>2, SameScheduler DEF Abstract!Next
  <2>2. ASSUME NEW r \in Requests, CommitStatement(r) PROVE Abstract!Next
    <3> DEFINE c == req[r].card
    <3>1. c \in CardIds /\ (Abstract!Create(c) \/ Abstract!Edit(c) \/ Abstract!Delete(c))
      BY <1>2, <2>2, CommitStatementStep, SameScheduler
         DEF Abstract!Create, Abstract!Edit, Abstract!Delete
    <3> QED
      BY <3>1 DEF Abstract!Next
  <2>3. CASE UNCHANGED <<cards, log>>
    BY <2>3 DEF Abstract!vars
  <2> QED
    BY <1>2, <2>1, <2>2, <2>3
       DEF Next, vars, Serve, Arrive, GetCard, CheckOwned, Begin, SelectFresh,
           UpdateCard, InsertLog, Acquire, Statement, Answer, Abandon, Crash
<1> QED
  BY <1>1, <1>2, InitIInv, NextIInv, PTL DEF Spec, Refinement, Abstract!Spec

-----------------------------------------------------------------------------
(* The rows of a log, each from a request of its own.  An id whose INSERT  *)
(* is not committed has no answered rating: IdsInv keeps it from any other *)
(* INSERT, and a rating needs the stored row.                              *)
From(c, entries, from) ==
    /\ from \in [1..Len(entries) -> Answered(c) \cup Lost(c)]
    /\ \A i, j \in 1..Len(entries) : from[i] = from[j] => i = j
    /\ \A r \in Answered(c) : \E i \in 1..Len(entries) : from[i] = r
    /\ \A i \in 1..Len(entries) : entries[i] = LogRow(from[i])

OnceInv ==
    /\ \A c \in CardIds : cards[c] # None => \E from : From(c, log[c], from)
    /\ \A r \in Requests :
          (pc[r] \in {"acquire", "statement", "commit"} /\ req[r].kind = "create") =>
              Answered(req[r].card) = {}

LEMMA OnceImplies == OnceInv => ExactlyOnce
<1> SUFFICES ASSUME OnceInv, NEW c \in CardIds, cards[c] # None
             PROVE  \E from \in [1..Len(log[c]) -> Answered(c) \cup Lost(c)] :
                       /\ \A i, j \in DOMAIN from : from[i] = from[j] => i = j
                       /\ Answered(c) \subseteq {from[i] : i \in DOMAIN from}
                       /\ \A i \in DOMAIN from : log[c][i] = LogRow(from[i])
  BY DEF ExactlyOnce
<1>1. PICK from : From(c, log[c], from)
  BY DEF OnceInv
<1>2. DOMAIN from = 1..Len(log[c])
  BY <1>1 DEF From
<1>3. Answered(c) \subseteq {from[i] : i \in DOMAIN from}
  BY <1>1, <1>2 DEF From
<1> QED
  BY <1>1, <1>2, <1>3 DEF From

(* An empty log, when no rating of the Card was answered. *)
LEMMA EmptyFrom ==
    ASSUME NEW c, Answered(c) = {}
    PROVE  \E from : From(c, <<>>, from)
<1> DEFINE from == [i \in 1..0 |-> {}]
<1>1. Len(<<>>) = 0 /\ 1..0 = {}
  OBVIOUS
<1>2. from \in [1..Len(<<>>) -> Answered(c) \cup Lost(c)]
  BY <1>1
<1>3. From(c, <<>>, from)
  BY <1>1, <1>2 DEF From
<1> QED
  BY <1>3

LEMMA InitOnceInv == Init => OnceInv
<1> SUFFICES ASSUME Init PROVE OnceInv
  OBVIOUS
<1>1. \A c \in CardIds : Answered(c) = {} /\ log[c] = <<>>
  BY DEF Init, Answered
<1>2. \A r \in Requests : pc[r] = "idle"
  BY DEF Init
<1> QED
  BY <1>1, <1>2, EmptyFrom DEF OnceInv

(* What a step keeps that answers no rating and touches no log of a Card   *)
(* that stays: who was answered stays so or is lost, who was lost stays so *)
(* and neither asks for anything else.                                     *)
Kept(c) ==
    /\ Answered(c)' \subseteq Answered(c)
    /\ (Answered(c) \cup Lost(c)) \subseteq (Answered(c) \cup Lost(c))'
    /\ \A r \in Answered(c) \cup Lost(c) : LogRow(r)' = LogRow(r)

LEMMA FromStable ==
    ASSUME NEW c, NEW entries \in Seq(LogEntry), NEW from, From(c, entries, from), Kept(c)
    PROVE  /\ from \in [1..Len(entries) -> (Answered(c) \cup Lost(c))']
           /\ \A i, j \in 1..Len(entries) : from[i] = from[j] => i = j
           /\ \A r \in Answered(c)' : \E i \in 1..Len(entries) : from[i] = r
           /\ \A i \in 1..Len(entries) : entries[i] = LogRow(from[i])'
<1>1. from \in [1..Len(entries) -> (Answered(c) \cup Lost(c))']
  BY DEF From, Kept
<1>2. \A i \in 1..Len(entries) : from[i] \in Answered(c) \cup Lost(c)
  BY DEF From
<1>3. ASSUME NEW i \in 1..Len(entries) PROVE entries[i] = LogRow(from[i])'
  <2>1. PICK r \in Answered(c) \cup Lost(c) : from[i] = r
    BY <1>2
  <2>2. LogRow(r)' = LogRow(r) /\ entries[i] = LogRow(r)
    BY <2>1 DEF From, Kept
  <2> QED
    BY <2>1, <2>2 DEF LogRow
<1> QED
  BY <1>1, <1>3 DEF From, Kept

(* A create goes on to its next statement, or commits a new Card. *)
LEMMA OnceStable ==
    ASSUME IInv, OnceInv, UNCHANGED req,
           \A c \in CardIds : Kept(c),
           \A c \in CardIds : cards'[c] # None =>
              /\ log'[c] = log[c]
              /\ cards[c] = None => log[c] = <<>> /\ Answered(c) = {},
           \A r \in Requests : pc'[r] \in {"acquire", "statement", "commit"} =>
              \/ pc[r] \in {"acquire", "statement", "commit"}
              \/ req[r].kind # "create"
    PROVE  OnceInv'
<1>1. \A r \in Requests : req[r] # None => req[r].card \in CardIds
  BY DEF IInv, IdsInv
<1>2. ASSUME NEW c \in CardIds, cards'[c] # None
      PROVE  \E from : From(c, log[c], from)'
  <2>1. PICK from : From(c, log[c], from)
    <3>1. CASE cards[c] # None
      BY <3>1 DEF OnceInv
    <3>2. CASE cards[c] = None
      BY <1>2, <3>2, EmptyFrom
    <3> QED
      BY <3>1, <3>2
  <2>2. log[c] \in Seq(LogEntry) /\ log'[c] = log[c]
    BY <1>2 DEF IInv, TablesInv
  <2>3. Kept(c)
    OBVIOUS
  <2>4. From(c, log[c], from)'
    BY <2>1, <2>2, <2>3, FromStable DEF From
  <2> QED
    BY <2>4
<1>3. ASSUME NEW r \in Requests, pc'[r] \in {"acquire", "statement", "commit"},
             req[r].kind = "create"
      PROVE  Answered(req[r].card)' = {}
  <2>1. pc[r] \in {"acquire", "statement", "commit"}
    BY <1>3
  <2>2. req[r] # None
    BY <2>1 DEF IInv, RequestsInv, RequestInv
  <2>3. PICK c \in CardIds : c = req[r].card /\ Answered(c) = {}
    BY <1>1, <1>3, <2>1, <2>2 DEF OnceInv
  <2>4. Answered(c)' = {}
    BY <2>3 DEF Kept
  <2> QED
    BY <2>3, <2>4 DEF Answered
<1> QED
  BY <1>2, <1>3 DEF OnceInv

LEMMA QuietOnce ==
    ASSUME IInv, OnceInv, UNCHANGED <<cards, log, req>>,
           NEW r \in Requests, NEW p, Goto(r, p), pc[r] \notin {"done", "lost"},
           p \in {"answer", "done"} => pc[r] = "answer",
           pc[r] = "answer" => p \in {"answer", "done", "lost"},
           p \in {"acquire", "statement", "commit"} =>
              pc[r] \in {"acquire", "statement", "commit"} \/ req[r].kind # "create"
    PROVE  OnceInv'
<1>1. pc' = [pc EXCEPT ![r] = p] /\ pc \in [Requests -> Steps]
  BY DEF Goto, IInv, RequestsInv
<1>2. \A c \in CardIds : Kept(c)
  BY <1>1 DEF Kept, Answered, Lost, LogRow, Rates
<1> QED
  BY <1>1, <1>2, OnceStable

LEMMA ArriveOnce == ASSUME IInv, OnceInv, NEW r \in Requests, Arrive(r) PROVE OnceInv'
<1>1. PICK q \in Request :
         /\ q.kind = "create" => q.card \notin used
         /\ req' = [req EXCEPT ![r] = q]
         /\ pc' = [pc EXCEPT ![r] = CASE q.kind = "rate" -> "get"
                                    [] q.kind = "create" -> "acquire"
                                    [] OTHER -> "owned"]
  BY DEF Arrive, Goto
<1> DEFINE p == CASE q.kind = "rate" -> "get"
                  [] q.kind = "create" -> "acquire"
                  [] OTHER -> "owned"
<1>2. /\ pc[r] = "idle" /\ req[r] = None /\ UNCHANGED <<cards, log>>
      /\ pc \in [Requests -> Steps] /\ req \in [Requests -> Request \cup {None}]
  BY DEF Arrive, IInv, RequestsInv, RequestInv
<1>3. q.card \in CardIds /\ q.kind \in {"rate", "create", "edit", "delete"}
  BY RequestFields
<1>4. p \in {"get", "acquire", "owned"} /\ (p = "acquire" <=> q.kind = "create")
  BY <1>3
<1> HIDE DEF p
<1>5. pc' = [pc EXCEPT ![r] = p]
  BY <1>1 DEF p
<1>6. ASSUME NEW c \in CardIds PROVE Kept(c) /\ Answered(c)' = Answered(c)
  <2>1. \A s \in Requests : pc[s] \in {"answer", "done", "lost"} =>
           s # r /\ pc'[s] = pc[s] /\ req'[s] = req[s]
    BY <1>1, <1>2, <1>5
  <2>2. \A s \in Requests : pc'[s] \in {"answer", "done", "lost"} =>
           s # r /\ pc'[s] = pc[s] /\ req'[s] = req[s]
    BY <1>1, <1>2, <1>4, <1>5
  <2> QED
    BY <2>1, <2>2 DEF Kept, Answered, Lost, LogRow, Rates
<1>7. ASSUME q.kind = "create" PROVE Answered(q.card) = {}
  BY <1>1, <1>7 DEF Answered, Rates, IInv, IdsInv
<1>8. ASSUME NEW s \in Requests, pc'[s] \in {"acquire", "statement", "commit"},
             req'[s].kind = "create"
      PROVE  req'[s].card \in CardIds /\ Answered(req'[s].card) = {}
  <2>1. CASE s = r
    BY <1>1, <1>2, <1>3, <1>7, <1>8, <2>1
  <2>2. CASE s # r
    <3>1. pc[s] = pc'[s] /\ req[s] = req'[s] /\ req[s] # None
      BY <1>1, <1>2, <1>5, <1>8, <2>2 DEF IInv, RequestsInv, RequestInv
    <3> QED
      BY <1>2, <1>8, <3>1, RequestFields DEF OnceInv
  <2> QED
    BY <2>1, <2>2
<1>9. ASSUME NEW s \in Requests, pc'[s] \in {"acquire", "statement", "commit"},
             req'[s].kind = "create"
      PROVE  Answered(req[s].card)' = {}
  <2>1. PICK c \in CardIds : c = req'[s].card /\ Answered(c) = {}
    BY <1>8, <1>9
  <2>2. Answered(c)' = {}
    BY <1>6, <2>1
  <2> QED
    BY <2>1, <2>2 DEF Answered
<1>10. ASSUME NEW c \in CardIds, cards'[c] # None
       PROVE  \E from : From(c, log[c], from)'
  <2>1. PICK from : From(c, log[c], from)
    BY <1>2, <1>10 DEF OnceInv
  <2>2. log[c] \in Seq(LogEntry) /\ log'[c] = log[c]
    BY <1>2 DEF IInv, TablesInv
  <2>3. From(c, log[c], from)'
    BY <1>6, <2>1, <2>2, FromStable DEF From
  <2> QED
    BY <2>3
<1> QED
  BY <1>9, <1>10 DEF OnceInv

(* The row a rating adds to the log is its own. *)
LEMMA CommitReviewOnce ==
    ASSUME IInv, OnceInv, NEW r \in Requests, CommitReview(r) PROVE OnceInv'
<1>1. PICK c \in CardIds :
         /\ c = req[r].card /\ cards[c] \in Card
         /\ cards' = [cards EXCEPT ![c] = row[r]]
  BY CommitReviewStep
<1>2. /\ pc[r] = "commit" /\ Rates(r) /\ UNCHANGED req
      /\ pc' = [pc EXCEPT ![r] = "answer"]
      /\ log' = [log EXCEPT ![c] = Append(log[c], LogRow(r))]
  BY <1>1 DEF CommitReview, Goto, LogRow
<1>3. /\ pc \in [Requests -> Steps] /\ log \in [CardIds -> Seq(LogEntry)]
      /\ cards \in [CardIds -> Card \cup {None}]
  BY DEF IInv, RequestsInv, TablesInv
<1>4. /\ Answered(c)' = Answered(c) \cup {r} /\ Lost(c)' = Lost(c)
      /\ r \notin Answered(c) \cup Lost(c)
  BY <1>1, <1>2, <1>3 DEF Answered, Lost, Rates
<1>5. /\ \A d \in CardIds \ {c} : Kept(d) /\ Answered(d)' = Answered(d)
      /\ \A s : LogRow(s)' = LogRow(s)
  BY <1>1, <1>2, <1>3 DEF Kept, Answered, Lost, LogRow, Rates
<1>6. cards[c] # None
  BY <1>1, CardAssumption
<1>7. \E from : From(c, log[c], from)'
  <2>1. PICK n, old : n = Len(log[c]) /\ From(c, log[c], old)
    BY <1>1, <1>6 DEF OnceInv
  <2> DEFINE entry == LogRow(r)
  <2>2. /\ n \in Nat /\ Len(log'[c]) = n + 1 /\ log'[c][n + 1] = entry
        /\ \A i \in 1..n : log'[c][i] = log[c][i]
    <3>1. log[c] \in Seq(LogEntry) /\ log'[c] = Append(log[c], entry)
      BY <1>1, <1>2, <1>3
    <3> HIDE DEF entry
    <3> QED
      BY <2>1, <3>1
  <2>3. /\ old \in [1..n -> Answered(c) \cup Lost(c)]
        /\ \A i, j \in 1..n : old[i] = old[j] => i = j
        /\ \A s \in Answered(c) : \E i \in 1..n : old[i] = s
        /\ \A i \in 1..n : log[c][i] = LogRow(old[i])
    BY <2>1 DEF From
  <2> HIDE DEF entry
  <2>4. /\ \A i \in 1..(n + 1) : i = n + 1 \/ i \in 1..n
        /\ \A i \in 1..n : i \in 1..(n + 1) /\ i # n + 1
        /\ n + 1 \in 1..(n + 1)
    BY <2>2
  <2>5. PICK from : /\ from \in [1..(n + 1) -> Answered(c) \cup Lost(c) \cup {r}]
                    /\ from[n + 1] = r
                    /\ \A i \in 1..n : from[i] = old[i]
    <3> DEFINE extended == [i \in 1..(n + 1) |-> IF i = n + 1 THEN r ELSE old[i]]
    <3>1. extended \in [1..(n + 1) -> Answered(c) \cup Lost(c) \cup {r}]
      BY <2>3, <2>4
    <3>2. extended[n + 1] = r /\ \A i \in 1..n : extended[i] = old[i]
      BY <2>4
    <3> HIDE DEF extended
    <3> QED
      BY <3>1, <3>2
  <2>6. from \in [1..(n + 1) -> Answered(c)' \cup Lost(c)']
    BY <1>4, <2>5
  <2>7. \A i, j \in 1..(n + 1) : from[i] = from[j] => i = j
    <3>1. \A i \in 1..n : old[i] # r
      BY <1>4, <2>3
    <3> QED
      BY <2>3, <2>4, <2>5, <3>1
  <2>8. \A s \in Answered(c)' : \E i \in 1..(n + 1) : from[i] = s
    BY <1>4, <2>3, <2>4, <2>5
  <2>9. \A i \in 1..(n + 1) : log'[c][i] = LogRow(from[i])
    BY <2>2, <2>3, <2>4, <2>5 DEF entry
  <2>10. \A i \in 1..(n + 1) : log'[c][i] = LogRow(from[i])'
    BY <1>2, <2>9 DEF LogRow
  <2>11. from \in [1..(n + 1) -> (Answered(c) \cup Lost(c))']
    BY <2>6
  <2>12. From(c, log[c], from)'
    BY <2>2, <2>7, <2>8, <2>10, <2>11 DEF From
  <2> QED
    BY <2>12
<1>8. ASSUME NEW d \in CardIds, cards'[d] # None
      PROVE  \E from : From(d, log[d], from)'
  <2>1. CASE d = c
    BY <1>7, <2>1
  <2>2. CASE d # c
    <3>1. PICK from : From(d, log[d], from)
      BY <1>1, <1>3, <1>8, <2>2 DEF OnceInv
    <3>2. log[d] \in Seq(LogEntry) /\ log'[d] = log[d]
      BY <1>2, <1>3, <2>2
    <3>3. From(d, log[d], from)'
      BY <1>5, <2>2, <3>1, <3>2, FromStable DEF From
    <3> QED
      BY <3>3
  <2> QED
    BY <2>1, <2>2
<1>9. ASSUME NEW s \in Requests, pc'[s] \in {"acquire", "statement", "commit"},
             req[s].kind = "create"
      PROVE  Answered(req[s].card)' = {}
  <2>1. s # r /\ pc[s] \in {"acquire", "statement", "commit"}
    BY <1>2, <1>3, <1>9
  <2>2. /\ RequestInv(req[s], row[s], pc[s], cards)
        /\ req \in [Requests -> Request \cup {None}]
    BY DEF IInv, RequestsInv
  <2>3. req[s].card \in CardIds /\ cards[req[s].card] = None
    BY <1>9, <2>1, <2>2, RequestFields DEF RequestInv
  <2>4. PICK d \in CardIds : d = req[s].card
    BY <2>3
  <2>5. d # c /\ Answered(d) = {}
    BY <1>6, <1>9, <2>1, <2>3, <2>4 DEF OnceInv
  <2>6. Answered(d)' = {}
    BY <1>5, <2>5
  <2> QED
    BY <1>2, <2>4, <2>6 DEF Answered
<1> QED
  BY <1>2, <1>8, <1>9 DEF OnceInv

LEMMA CommitStatementOnce ==
    ASSUME IInv, OnceInv, NEW r \in Requests, CommitStatement(r) PROVE OnceInv'
<1> DEFINE c == req[r].card
<1>1. /\ pc[r] = "commit" /\ ~Rates(r) /\ UNCHANGED req
      /\ pc' = [pc EXCEPT ![r] = "answer"] /\ pc \in [Requests -> Steps]
      /\ cards \in [CardIds -> Card \cup {None}] /\ log \in [CardIds -> Seq(LogEntry)]
  BY DEF CommitStatement, Goto, IInv, RequestsInv, TablesInv
<1>2. \A d \in CardIds : Kept(d)
  BY <1>1 DEF Kept, Answered, Lost, LogRow, Rates
<1>3. c \in CardIds /\ (cards[c] = None => log[c] = <<>> /\ Answered(c) = {})
  <2>1. RequestInv(req[r], row[r], "commit", cards) /\ c \in CardIds
    BY <1>1, CommitStatementStep DEF IInv, RequestsInv
  <2>2. req[r] \in Request /\ req[r].kind \in {"create", "edit", "delete"}
    BY <1>1, <2>1, RequestFields DEF RequestInv, Rates
  <2>3. ASSUME cards[c] = None PROVE req[r].kind = "create"
    BY <2>1, <2>2, <2>3, RequestAssumption DEF RequestInv
  <2> QED
    BY <1>1, <2>1, <2>3 DEF OnceInv, IInv, TablesInv
<1>4. ASSUME NEW d \in CardIds, cards'[d] # None
      PROVE  /\ log'[d] = log[d]
             /\ cards[d] = None => log[d] = <<>> /\ Answered(d) = {}
  <2>1. \/ log' = log /\ \A e \in CardIds \ {c} : cards'[e] = cards[e]
        \/ /\ cards' = [cards EXCEPT ![c] = None]
           /\ log' = [log EXCEPT ![c] = <<>>]
    BY <1>1, CommitStatementStep
  <2> HIDE DEF c
  <2>2. log'[d] = log[d]
    BY <1>1, <1>3, <1>4, <2>1
  <2>3. CASE d = c
    BY <1>3, <2>2, <2>3
  <2>4. CASE d # c
    BY <1>1, <1>3, <1>4, <2>1, <2>2, <2>4
  <2> QED
    BY <2>3, <2>4
<1>5. \A s \in Requests : pc'[s] \in {"acquire", "statement", "commit"} =>
         pc[s] \in {"acquire", "statement", "commit"}
  BY <1>1
<1> QED
  BY <1>1, <1>2, <1>4, <1>5, OnceStable

LEMMA NextOnceInv == IInv /\ OnceInv /\ [Next]_vars => OnceInv'
<1> SUFFICES ASSUME IInv, OnceInv, [Next]_vars PROVE OnceInv'
  OBVIOUS
<1>1. ASSUME NEW r \in Requests, Serve(r) PROVE OnceInv'
  <2>1. RequestInv(req[r], row[r], pc[r], cards)
    BY DEF IInv, RequestsInv
  <2>2. CASE GetCard(r)
    BY <2>2, QuietOnce DEF GetCard
  <2>3. CASE CheckOwned(r)
    <3>1. req[r].kind # "create"
      BY <2>1, <2>3 DEF CheckOwned, RequestInv
    <3> QED
      BY <2>3, <3>1, QuietOnce DEF CheckOwned
  <2>4. CASE Begin(r)
    BY <2>4, QuietOnce DEF Begin
  <2>5. CASE SelectFresh(r)
    BY <2>5, QuietOnce DEF SelectFresh
  <2>6. CASE UpdateCard(r)
    BY <2>6, QuietOnce DEF UpdateCard
  <2>7. CASE InsertLog(r)
    <3>1. req[r].kind # "create"
      BY <2>1, <2>7 DEF InsertLog, RequestInv, InTransaction
    <3> QED
      BY <2>7, <3>1, QuietOnce DEF InsertLog
  <2>8. CASE Acquire(r)
    BY <2>8, QuietOnce DEF Acquire
  <2>9. CASE Statement(r)
    BY <2>9, QuietOnce DEF Statement
  <2>10. CASE Answer(r)
    BY <2>10, QuietOnce DEF Answer
  <2> QED
    BY <1>1, <2>2, <2>3, <2>4, <2>5, <2>6, <2>7, <2>8, <2>9, <2>10,
       CommitReviewOnce, CommitStatementOnce DEF Serve
<1>2. ASSUME NEW r \in Requests, Abandon(r) PROVE OnceInv'
  BY <1>2, QuietOnce DEF Abandon, UnderWay, Final
<1>3. CASE Crash
  <2>1. UNCHANGED <<cards, log, req>> /\ pc \in [Requests -> Steps]
        /\ \A r \in Requests : pc'[r] = pc[r] \/ (pc[r] # "done" /\ pc'[r] = "lost")
    BY <1>3 DEF Crash, UnderWay, Final, IInv, RequestsInv
  <2>2. \A c \in CardIds : Kept(c)
    BY <2>1 DEF Kept, Answered, Lost, LogRow, Rates
  <2> QED
    BY <2>1, <2>2, OnceStable
<1>4. CASE UNCHANGED vars
  <2>1. UNCHANGED <<cards, log, req, pc>>
    BY <1>4 DEF vars
  <2>2. \A c \in CardIds : Kept(c)
    BY <2>1 DEF Kept, Answered, Lost, LogRow, Rates
  <2> QED
    BY <2>1, <2>2, OnceStable
<1> QED
  BY <1>1, <1>2, <1>3, <1>4, ArriveOnce DEF Next

(* However requests interleave, fail or are lost, the rows of a Card's log *)
(* are the Reviews of as many requests: all that were answered with        *)
(* success, and besides them only some of those that were lost.            *)
THEOREM RecordedOnce == Spec => []ExactlyOnce
BY OnceImplies, InitIInv, NextIInv, InitOnceInv, NextOnceInv, PTL DEF Spec

(* A transaction that found the database busy met another one with the     *)
(* write lock; that one keeps the lock until it is through or lost.        *)
THEOREM BusyHasReason == Spec => []BusyHasWinner
<1> DEFINE Won == {"insert", "commit", "answer", "done", "lost"}
<1>1. Init => BusyHasWinner
  BY DEF Init, BusyHasWinner
<1>2. ASSUME IInv, BusyHasWinner, [Next]_vars PROVE BusyHasWinner'
  <2>1. pc \in [Requests -> Steps]
    BY <1>2 DEF IInv, RequestsInv
  <2>2. \A q \in Requests : pc[q] \in Won => pc'[q] \in Won
    BY <1>2, <2>1 DEF Next, vars, Arrive, Serve, GetCard, CheckOwned, Begin, SelectFresh,
       UpdateCard, InsertLog, CommitReview, Acquire, Statement, CommitStatement, Answer, Abandon,
       Crash, Goto, Final
  <2>3. ASSUME NEW r \in Requests, pc'[r] = "busy", pc[r] # "busy"
        PROVE  \E q \in Requests \ {r} : pc[q] \in Won
    <3>1. UpdateCard(r)
      BY <1>2, <2>1, <2>3 DEF Next, vars, Arrive, Serve, GetCard, CheckOwned, Begin,
         SelectFresh, UpdateCard, InsertLog, CommitReview, Acquire, Statement,
         CommitStatement, Answer, Abandon, Crash, Goto, Final
    <3>2. ~MayWrite(r)
      BY <2>1, <2>3, <3>1 DEF UpdateCard, Goto
    <3> QED
      BY <3>2 DEF MayWrite, Reserved
  <2> QED
    BY <1>2, <2>2, <2>3 DEF BusyHasWinner
<1> QED
  BY <1>1, <1>2, InitIInv, NextIInv, PTL DEF Spec
-----------------------------------------------------------------------------
(* SQLite's write lock has one holder; that is all NobodyStuck needs. *)
OneWriter == \A r, q \in Requests : Reserved(r) /\ Reserved(q) => r = q

LEMMA WriterStep ==
    ASSUME pc \in [Requests -> Steps], OneWriter, NEW r \in Requests, NEW p,
           p \in {"insert", "commit"} => Reserved(r) \/ MayWrite(r),
           pc' = [pc EXCEPT ![r] = p]
    PROVE  OneWriter'
<1>1. ASSUME NEW q \in Requests, pc'[q] \in {"insert", "commit"}, q # r
      PROVE  Reserved(q)
  BY <1>1 DEF Reserved
<1>2. ASSUME pc'[r] \in {"insert", "commit"}
      PROVE  \A q \in Requests \ {r} : ~Reserved(q)
  BY <1>2 DEF MayWrite, OneWriter
<1> QED
  BY <1>1, <1>2 DEF OneWriter, Reserved

LEMMA NextOneWriter == IInv /\ OneWriter /\ [Next]_vars => OneWriter'
<1> SUFFICES ASSUME IInv, OneWriter, [Next]_vars PROVE OneWriter'
  OBVIOUS
<1>1. pc \in [Requests -> Steps]
  BY DEF IInv, RequestsInv
<1>2. ASSUME NEW r \in Requests, Arrive(r) \/ Serve(r) \/ Abandon(r) PROVE OneWriter'
  <2>1. PICK p : /\ pc' = [pc EXCEPT ![r] = p]
                 /\ p \in {"insert", "commit"} => Reserved(r) \/ MayWrite(r)
    <3>1. CASE Arrive(r)
      BY <3>1 DEF Arrive, Goto
    <3>2. CASE Serve(r)
      BY <3>2 DEF Serve, GetCard, CheckOwned, Begin, SelectFresh, UpdateCard, InsertLog,
         CommitReview, Acquire, Statement, CommitStatement, Answer, Goto, MayGo, Reserved
    <3>3. CASE Abandon(r)
      <4>1. pc' = [pc EXCEPT ![r] = "lost"]
        BY <3>3 DEF Abandon, Goto
      <4>2. "lost" \notin {"insert", "commit"}
        OBVIOUS
      <4> QED
        BY <4>1, <4>2
    <3> QED
      BY <1>2, <3>1, <3>2, <3>3
  <2> QED
    BY <1>1, <2>1, WriterStep
<1>3. CASE Crash
  BY <1>1, <1>3 DEF Crash, OneWriter, Reserved, UnderWay, Final
<1>4. CASE UNCHANGED vars
  BY <1>4 DEF vars, OneWriter, Reserved
<1> QED
  BY <1>2, <1>3, <1>4 DEF Next

(* Whom a request waits for may go, or waits for another that may.         *)
LEMMA SomeoneMayGo == IInv /\ OneWriter => NobodyStuck
<1> SUFFICES ASSUME IInv, OneWriter, NEW r \in Requests, UnderWay(r)
             PROVE  \E q \in Requests : UnderWay(q) /\ MayGo(q)
  BY DEF NobodyStuck
<1>1. /\ pc \in [Requests -> Steps]
      /\ \A q \in Requests : pc[q] \in {"select", "upgrade", "insert", "statement", "commit"}
                               => UnderWay(q)
  BY DEF IInv, RequestsInv, UnderWay, Final
<1>2. ASSUME NEW q \in Requests, pc[q] \in {"upgrade", "insert"}
      PROVE  UnderWay(q) /\ MayGo(q)
  BY <1>1, <1>2 DEF MayGo
<1>3. ASSUME NEW q \in Requests, Pending(q)
      PROVE  \E s \in Requests : UnderWay(s) /\ MayGo(s)
  <2>1. CASE MayCommit(q)
    BY <1>1, <1>3, <2>1 DEF MayGo, Pending
  <2>2. CASE ~MayCommit(q)
    <3>1. PICK s \in Requests \ {q} : Shared(s)
      BY <2>2 DEF MayCommit
    <3>2. pc[s] \in {"upgrade", "insert"}
      BY <1>3, <3>1 DEF Shared, Pending, OneWriter, Reserved
    <3> QED
      BY <1>2, <3>2
  <2> QED
    BY <2>1, <2>2
<1>4. ASSUME MayRead, NEW q \in Requests, pc[q] = "select"
      PROVE  UnderWay(q) /\ MayGo(q)
  BY <1>1, <1>4 DEF MayGo
<1>5. ASSUME MayRead, \A s \in Requests : pc[s] # "insert",
             NEW q \in Requests, pc[q] = "statement"
      PROVE  UnderWay(q) /\ MayGo(q)
  BY <1>1, <1>5 DEF MayGo, MayRead, MayWrite, Reserved, Pending
<1>6. ASSUME MayRead, Connected = {} PROVE MayGo(r)
  <2>1. ConnectionFree
    BY <1>6, FS_EmptySet, PoolAssumption DEF ConnectionFree
  <2> QED
    BY <1>6, <2>1 DEF MayGo, Connected
<1>7. CASE MayRead
  BY <1>2, <1>4, <1>5, <1>6, <1>7 DEF Connected, MayRead, Pending
<1>8. CASE ~MayRead
  BY <1>3, <1>8 DEF MayRead
<1> QED
  BY <1>7, <1>8

(* Neither SQLite's locks nor the pool of connections deadlock, for any    *)
(* number of requests and connections: as long as a request is under way,  *)
(* one of them has nothing to wait for.                                    *)
THEOREM NeverDeadlocked == Spec => []NobodyStuck
<1>1. Init => OneWriter
  BY DEF Init, OneWriter, Reserved
<1> QED
  BY <1>1, InitIInv, NextIInv, NextOneWriter, SomeoneMayGo, PTL DEF Spec
-----------------------------------------------------------------------------
(* What every stored row keeps under concurrency: a replay of its log ends *)
(* with it.                                                                *)
ReplayInv == \A c \in CardIds : cards[c] # None => Explained(cards[c], log[c])

LEMMA NextReplayInv == IInv /\ ReplayInv /\ [Next]_vars => ReplayInv'
<1> SUFFICES ASSUME IInv, ReplayInv, [Next]_vars, NEW c \in CardIds, cards'[c] # None
             PROVE  Explained(cards'[c], log'[c])
  BY DEF ReplayInv
<1>1. /\ cards \in [CardIds -> Card \cup {None}]
      /\ log \in [CardIds -> Seq(LogEntry)]
      /\ cards[c] # None => Explained(cards[c], log[c])
  BY DEF IInv, TablesInv, ReplayInv
<1>2. CASE cards'[c] = cards[c] /\ log'[c] = log[c]
  BY <1>1, <1>2
<1>3. ASSUME NEW r \in Requests, CommitReview(r) PROVE Explained(cards'[c], log'[c])
  <2> DEFINE d == req[r].card  rating == req[r].rating  now == req[r].now
  <2>1. /\ d \in CardIds /\ rating \in Ratings /\ now \in Times
        /\ cards[d] \in Card
        /\ cards' = [cards EXCEPT ![d] = ApplyRating(cards[d], rating, now)]
    BY <1>3, CommitReviewStep
  <2>2. log' = [log EXCEPT ![d] = Append(@, [rated_at |-> now, rating |-> rating])]
    BY <1>3 DEF CommitReview
  <2> HIDE DEF d, rating, now
  <2>3. CASE d = c
    <3>1. /\ cards'[c] = ApplyRating(cards[c], rating, now)
          /\ log'[c] = Append(log[c], [rated_at |-> now, rating |-> rating])
      BY <1>1, <2>1, <2>2, <2>3
    <3>2. /\ log[c] \in Seq(LogEntry) /\ Explained(cards[c], log[c])
          /\ [rated_at |-> now, rating |-> rating] \in LogEntry
      BY <1>1, <2>1, <2>3, CardAssumption DEF LogEntry
    <3> QED
      BY <2>1, <3>1, <3>2, RatedIsExplained
  <2>4. CASE d # c
    BY <1>1, <1>2, <2>1, <2>2, <2>4
  <2> QED
    BY <2>3, <2>4
<1>4. ASSUME NEW r \in Requests, CommitStatement(r) PROVE Explained(cards'[c], log'[c])
  <2> DEFINE d == req[r].card
  <2>1. /\ d \in CardIds
        /\ \/ /\ cards[d] = None /\ log[d] = <<>>
              /\ \E t \in Texts : cards' = [cards EXCEPT ![d] = NewCard(t)]
              /\ log' = log
           \/ /\ cards[d] # None
              /\ \E t \in Texts : cards' = [cards EXCEPT ![d].text = t]
              /\ log' = log
           \/ /\ cards' = [cards EXCEPT ![d] = None]
              /\ log' = [log EXCEPT ![d] = <<>>]
    BY <1>4, CommitStatementStep
  <2> HIDE DEF d
  <2>2. CASE d # c
    BY <1>1, <1>2, <2>1, <2>2
  <2>3. ASSUME d = c, NEW t \in Texts, log[c] = <<>>, log' = log,
               cards' = [cards EXCEPT ![c] = NewCard(t)]
        PROVE  Explained(cards'[c], log'[c])
    BY <1>1, <2>3, NewIsExplained
  <2>4. ASSUME d = c, NEW t \in Texts, cards[c] # None, log' = log,
               cards' = [cards EXCEPT ![c].text = t]
        PROVE  Explained(cards'[c], log'[c])
    <3>1. cards'[c] = [cards[c] EXCEPT !.text = t]
      BY <1>1, <2>4
    <3>2. /\ Explained(cards[c], log[c]) /\ log[c] \in Seq(LogEntry)
          /\ LogEntry \subseteq [rated_at : Times, rating : Ratings]
      BY <1>1, <2>4 DEF LogEntry
    <3> QED
      BY <2>4, <3>1, <3>2, EditedIsExplained
  <2>5. CASE d = c
    BY <1>1, <2>1, <2>3, <2>4, <2>5
  <2> QED
    BY <2>2, <2>5
<1>5. CASE UNCHANGED <<cards, log>>
  BY <1>1, <1>2, <1>5
<1> QED
  BY <1>3, <1>4, <1>5
     DEF Next, vars, Serve, Arrive, GetCard, CheckOwned, Begin, SelectFresh,
         UpdateCard, InsertLog, Acquire, Statement, Answer, Abandon, Crash

(* However requests interleave, fail or crash, the stored row of a Card is *)
(* what its Review log makes of a new Card.                                *)
THEOREM HistorySurvives ==
    Spec => [](\A c \in CardIds : cards[c] # None => cards[c] = Replay(log[c], cards[c].text))
<1>1. Init => ReplayInv
  <2> SUFFICES ASSUME Init, NEW c \in CardIds, cards[c] # None
               PROVE  Explained(cards[c], log[c])
    BY DEF ReplayInv
  <2>1. log[c] = <<>> /\ \E t \in Texts : cards[c] = NewCard(t)
    BY DEF Init
  <2> QED
    BY <2>1, NewIsExplained
<1>2. ASSUME IInv, ReplayInv, NEW c \in CardIds, cards[c] # None
      PROVE  cards[c] = Replay(log[c], cards[c].text)
  <2>1. log[c] \in Seq(LogEntry) /\ Explained(cards[c], log[c])
    BY <1>2 DEF IInv, TablesInv, ReplayInv
  <2> QED
    BY <2>1, ExplainedIsReplay
<1>3. IInv /\ ReplayInv =>
        \A c \in CardIds : cards[c] # None => cards[c] = Replay(log[c], cards[c].text)
  BY <1>2
<1> QED
  BY <1>1, <1>3, InitIInv, NextIInv, NextReplayInv, PTL DEF Spec
=============================================================================
