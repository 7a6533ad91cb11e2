----------------------------- MODULE Study_proofs -----------------------------
(***************************************************************************)
(* Proofs about Study and the modules it joins, for any step tables, FSRS, *)
(* cap, offset, minute, and any number of Cards, Reviews, instants and     *)
(* tabs:                                                                   *)
(*   - the labels of Interval keep the order of what they describe;        *)
(*   - the tables of ReviewLog stay consistent with each other;            *)
(*   - sessions introduce New Cards oldest first and within the daily cap, *)
(*     nothing pushes in front of a due Card, and the pages agree about a  *)
(*     Deck.                                                               *)
(***************************************************************************)
EXTENDS Study, Scheduler_proofs, FiniteSetTheorems

-----------------------------------------------------------------------------
(* Interval.  The units are tried from the shortest to the longest, and    *)
(* each test that a delta passes is passed by every shorter delta: that is *)
(* all the argument.                                                       *)

(* Division by a positive number keeps the order. *)
LEMMA DivMonotone ==
    ASSUME NEW m \in Nat \ {0}, NEW a \in Int, NEW b \in Int, a <= b
    PROVE  a \div m \in Int /\ b \div m \in Int /\ a \div m <= b \div m
<1> DEFINE q == a \div m
           r == b \div m
<1>1. q \in Int /\ r \in Int
  OBVIOUS
<1>2. m * q <= a /\ a < m * q + m
  OBVIOUS
<1>3. m * r <= b /\ b < m * r + m
  OBVIOUS
<1>4. m * q < m * (r + 1)
  <2>1. m * (r + 1) = m * r + m
    BY <1>1
  <2> QED
    BY <1>1, <1>2, <1>3, <2>1
<1> HIDE DEF q, r
<1>5. q < r + 1
  <2>1. SUFFICES ASSUME q >= r + 1 PROVE FALSE
    BY <1>1
  <2>2. m * q >= m * (r + 1)
    BY <1>1, <2>1
  <2>3. m * q \in Int /\ m * (r + 1) \in Int
    BY <1>1
  <2> QED
    BY <1>4, <2>2, <2>3
<1>6. q <= r
  BY <1>1, <1>5
<1> QED
  BY <1>1, <1>6 DEF q, r

LEMMA UnitsPositive == Hour \in Nat \ {0} /\ Day \in Nat \ {0}
BY MinuteAssumption DEF Hour, Day

-----------------------------------------------------------------------------
(* humanize_due_delta: of two deltas the longer never gets the shorter     *)
(* label, across every change of unit.                                     *)
THEOREM LabelOrder ==
    \A d, e \in Int : d <= e => NotLonger(HumanizeDueDelta(d), HumanizeDueDelta(e))
<1> SUFFICES ASSUME NEW d \in Int, NEW e \in Int, d <= e
             PROVE  NotLonger(HumanizeDueDelta(d), HumanizeDueDelta(e))
  OBVIOUS
<1> DEFINE Shorter(x, y) == x \in Int /\ y \in Int /\ x <= y
<1>1. Shorter(d \div Minute, e \div Minute)
  BY DivMonotone, MinuteAssumption
<1>2. Shorter(d \div Hour, e \div Hour)
  BY DivMonotone, UnitsPositive
<1>3. Shorter(d \div Day, e \div Day)
  BY DivMonotone, UnitsPositive
<1>4. Shorter((d \div Day) \div 30, (e \div Day) \div 30)
  BY <1>3, DivMonotone
<1>5. Shorter((d \div Day) \div 365, (e \div Day) \div 365)
  BY <1>3, DivMonotone
<1> DEFINE dm == d \div Minute
           em == e \div Minute
           dh == d \div Hour
           eh == e \div Hour
           dd == d \div Day
           ed == e \div Day
           do == dd \div 30
           eo == ed \div 30
           dy == dd \div 365
           ey == ed \div 365
<1>6. Minute \in Int
  BY MinuteAssumption
<1>7. HumanizeDueDelta(d) =
        IF d < Minute    THEN <<1, 0>>
        ELSE IF dm < 60  THEN <<1, dm>>
        ELSE IF dh < 24  THEN <<2, dh>>
        ELSE IF dd < 30  THEN <<3, dd>>
        ELSE IF dd < 365 THEN <<4, do>>
        ELSE                  <<5, dy>>
  BY DEF HumanizeDueDelta
<1>8. HumanizeDueDelta(e) =
        IF e < Minute    THEN <<1, 0>>
        ELSE IF em < 60  THEN <<1, em>>
        ELSE IF eh < 24  THEN <<2, eh>>
        ELSE IF ed < 30  THEN <<3, ed>>
        ELSE IF ed < 365 THEN <<4, eo>>
        ELSE                  <<5, ey>>
  BY DEF HumanizeDueDelta
<1>9. e >= Minute => em >= 0
  <2>1. SUFFICES ASSUME e >= Minute PROVE Minute \div Minute <= em
    BY <1>1, MinuteAssumption
  <2> QED
    BY <1>6, <2>1, DivMonotone, MinuteAssumption
<1> HIDE DEF dm, em, dh, eh, dd, ed, do, eo, dy, ey
<1> QED
  BY <1>1, <1>2, <1>3, <1>4, <1>5, <1>6, <1>7, <1>8, <1>9
  DEF NotLonger, dm, em, dh, eh, dd, ed, do, eo, dy, ey

(* card_list_due_label: of two Cards of a Deck that are not New, the one   *)
(* that is due earlier is never labelled as due later, and "due now" is    *)
(* said of exactly the Cards that are due.                                 *)
THEOREM ListOrder ==
    ASSUME NEW p \in Phases \ {"New"}, NEW q \in Phases \ {"New"},
           NEW due \in Nat, NEW later \in Nat, due <= later, NEW now \in Nat
    PROVE  /\ NotLonger(CardListDueLabel(p, due, now), CardListDueLabel(q, later, now))
           /\ CardListDueLabel(p, due, now) = <<0, 0>> <=> due <= now
<1> DEFINE Unit(delta) == HumanizeDueDelta(delta)[1]
<1>1. due # None /\ later # None
  BY TimesAssumption
<1>2. /\ CardListDueLabel(p, due, now)
            = IF due <= now THEN <<0, 0>> ELSE HumanizeDueDelta(due - now)
      /\ CardListDueLabel(q, later, now)
            = IF later <= now THEN <<0, 0>> ELSE HumanizeDueDelta(later - now)
  BY <1>1 DEF CardListDueLabel
<1>3. \A delta \in Int : Unit(delta) \in 1..5
  BY DEF HumanizeDueDelta
<1>4. CASE later <= now
  BY <1>2, <1>4 DEF NotLonger
<1>5. CASE due <= now /\ ~(later <= now)
  <2>1. Unit(later - now) > 0
    BY <1>3
  <2> QED
    BY <1>2, <1>5, <2>1 DEF NotLonger
<1>6. CASE ~(due <= now) /\ ~(later <= now)
  <2>1. due - now \in Int /\ later - now \in Int /\ due - now <= later - now
    OBVIOUS
  <2>2. NotLonger(HumanizeDueDelta(due - now), HumanizeDueDelta(later - now))
    BY <2>1, LabelOrder
  <2>3. Unit(due - now) > 0
    BY <1>3, <2>1
  <2>4. HumanizeDueDelta(due - now) # <<0, 0>>
    BY <2>3
  <2> QED
    BY <1>2, <1>6, <2>2, <2>4
<1> QED
  BY <1>4, <1>5, <1>6
-----------------------------------------------------------------------------
(* The tables. *)

(* The conjunction is inductive: CardMatchesLog needs RowsWellFormed (a    *)
(* rated Card is never New), and MemoryWasEarned and DueAfterReview need   *)
(* both.                                                                   *)
TablesInv ==
    /\ TypeOK
    /\ RowsWellFormed
    /\ CardMatchesLog
    /\ MemoryWasEarned
    /\ DueAfterReview

(* The invariant of one Card and its log; TablesInv is this of every Card. *)
CardInv(card, entries) ==
    /\ card \in Card \cup {None}
    /\ entries \in Seq(LogEntry)
    /\ card = None => entries = <<>>
    /\ card # None =>
          /\ CardWF(card)
          /\ (card.phase = "New") = (entries = <<>>)
          /\ entries # <<>> => card.last_review = entries[Len(entries)].rated_at
          /\ card.memory # None =>
                \E i \in DOMAIN entries : entries[i].rating \in {"Good", "Easy"}
          /\ card.due # None => card.due >= card.last_review

LEMMA TablesInvPerCard ==
    TablesInv <=> /\ cards \in [CardIds -> Card \cup {None}]
             /\ log \in [CardIds -> Seq(LogEntry)]
             /\ \A c \in CardIds : CardInv(cards[c], log[c])
BY DEF TablesInv, CardInv, TypeOK, RowsWellFormed, CardMatchesLog, MemoryWasEarned,
       DueAfterReview

(* A new Card with an empty log, and no Card at all. *)
LEMMA FreshCardInv ==
    /\ \A t \in Texts : NewCard(t) \in Card /\ CardInv(NewCard(t), <<>>)
    /\ CardInv(None, <<>>)
<1>1. ASSUME NEW t \in Texts
      PROVE  NewCard(t) \in Card /\ CardInv(NewCard(t), <<>>)
  <2>1. NewCard(t) \in Card
    BY DEF NewCard, Card, Phases
  <2>2. CardWF(NewCard(t))
    BY DEF NewCard, CardWF
  <2>3. /\ NewCard(t).phase = "New" /\ NewCard(t).memory = None
        /\ NewCard(t).due = None
    BY DEF NewCard
  <2>4. <<>> \in Seq(LogEntry)
    OBVIOUS
  <2> QED
    BY <2>1, <2>2, <2>3, <2>4, CardAssumption DEF CardInv
<1>2. CardInv(None, <<>>)
  BY DEF CardInv
<1> QED
  BY <1>1, <1>2

(* A Review keeps a Card and its log consistent. *)
LEMMA RateCardInv ==
    ASSUME NEW card \in Card, NEW entries, CardInv(card, entries),
           NEW rating \in Ratings, NEW now \in Times
    PROVE  LET rated == ApplyRating(card, rating, now)
           IN  /\ RatedCard(card, rating, now, rated)
               /\ CardInv(rated, Append(entries, [rated_at |-> now, rating |-> rating]))
<1> DEFINE rated == ApplyRating(card, rating, now)
           entry == [rated_at |-> now, rating |-> rating]
           after == Append(entries, entry)
<1>1. card # None
  BY CardAssumption
<1>2. RatedCard(card, rating, now, rated)
  BY <1>1, ApplyRatingCorrect DEF CardInv
<1>3. entries \in Seq(LogEntry) /\ entry \in LogEntry /\ entry.rated_at = now
        /\ entry.rating = rating
  BY DEF CardInv, LogEntry
<1> HIDE DEF rated, entry
<1>4. /\ after \in Seq(LogEntry) /\ after # <<>>
      /\ Len(after) = Len(entries) + 1 /\ after[Len(after)] = entry
      /\ Len(after) \in DOMAIN after
      /\ \A i \in DOMAIN entries : i \in DOMAIN after /\ after[i] = entries[i]
  BY <1>3
<1> HIDE DEF after
<1>5. rated.memory # None =>
        \E i \in DOMAIN after : after[i].rating \in {"Good", "Easy"}
  <2>1. CASE card.memory = None
    BY <1>2, <1>3, <1>4, <2>1 DEF RatedCard
  <2>2. CASE card.memory # None
    BY <1>1, <1>4, <2>2 DEF CardInv
  <2> QED
    BY <2>1, <2>2
<1>6. rated \in Card /\ rated # None
  BY <1>2, CardAssumption DEF RatedCard
<1> QED
  BY <1>2, <1>3, <1>4, <1>5, <1>6 DEF CardInv, RatedCard, rated, after, entry

-----------------------------------------------------------------------------
LEMMA InitTablesInv == Init => TablesInv
<1> SUFFICES ASSUME Init PROVE TablesInv
  OBVIOUS
<1>1. /\ cards \in [CardIds -> {NewCard(t) : t \in Texts} \cup {None}]
      /\ log = [c \in CardIds |-> <<>>]
  BY DEF Init
<1>2. \A c \in CardIds : cards[c] \in Card \cup {None} /\ CardInv(cards[c], log[c])
  BY <1>1, FreshCardInv
<1>3. cards \in [CardIds -> Card \cup {None}] /\ log \in [CardIds -> Seq(LogEntry)]
  BY <1>1, <1>2
<1> QED
  BY <1>2, <1>3, TablesInvPerCard

(* Every operation touches one Card; it is enough to look at that one. *)
LEMMA OneCardStep ==
    ASSUME TablesInv, NEW c \in CardIds, NEW card, NEW entries, CardInv(card, entries),
           cards' = [cards EXCEPT ![c] = card],
           log' = [log EXCEPT ![c] = entries]
    PROVE  TablesInv'
<1>1. card \in Card \cup {None} /\ entries \in Seq(LogEntry)
  BY DEF CardInv
<1>2. /\ cards \in [CardIds -> Card \cup {None}]
      /\ log \in [CardIds -> Seq(LogEntry)]
      /\ \A d \in CardIds : CardInv(cards[d], log[d])
  BY TablesInvPerCard
<1>3. /\ cards' \in [CardIds -> Card \cup {None}]
      /\ log' \in [CardIds -> Seq(LogEntry)]
  BY <1>1, <1>2
<1>4. ASSUME NEW d \in CardIds PROVE CardInv(cards'[d], log'[d])
  <2>1. CASE d = c
    BY <1>2, <2>1
  <2>2. CASE d # c
    <3>1. cards'[d] = cards[d] /\ log'[d] = log[d]
      BY <1>2, <2>2
    <3> QED
      BY <1>2, <3>1
  <2> QED
    BY <2>1, <2>2
<1>5. (cards \in [CardIds -> Card \cup {None}]
       /\ log \in [CardIds -> Seq(LogEntry)]
       /\ \A d \in CardIds : CardInv(cards[d], log[d]))' => TablesInv'
  BY DEF TablesInv, CardInv, TypeOK, RowsWellFormed, CardMatchesLog,
     MemoryWasEarned, DueAfterReview
<1> QED
  BY <1>3, <1>4, <1>5

LEMMA NextTablesInv == TablesInv /\ [Next]_vars => TablesInv'
<1> SUFFICES ASSUME TablesInv, [Next]_vars PROVE TablesInv'
  OBVIOUS
<1>1. /\ cards \in [CardIds -> Card \cup {None}]
      /\ log \in [CardIds -> Seq(LogEntry)]
      /\ \A c \in CardIds : CardInv(cards[c], log[c])
  BY TablesInvPerCard
<1>2. ASSUME NEW c \in CardIds, Create(c) PROVE TablesInv'
  <2>1. PICK t \in Texts : cards' = [cards EXCEPT ![c] = NewCard(t)]
    BY <1>2 DEF Create
  <2>2. log[c] = <<>> /\ log' = [log EXCEPT ![c] = <<>>]
    BY <1>1, <1>2 DEF Create, CardInv
  <2> QED
    BY <2>1, <2>2, FreshCardInv, OneCardStep
<1>3. ASSUME NEW c \in CardIds, Edit(c) PROVE TablesInv'
  <2>1. cards[c] # None /\ log' = [log EXCEPT ![c] = log[c]]
    BY <1>1, <1>3 DEF Edit
  <2>2. PICK t \in Texts : cards' = [cards EXCEPT ![c] = [cards[c] EXCEPT !.text = t]]
    BY <1>3 DEF Edit
  <2> DEFINE card == cards[c]
             edited == [card EXCEPT !.text = t]
  <2>3. card \in Card /\ CardInv(card, log[c])
    BY <1>1, <2>1
  <2> HIDE DEF card
  <2>4. /\ edited \in Card /\ edited.phase = card.phase
        /\ edited.learning_step = card.learning_step
        /\ edited.memory = card.memory /\ edited.due = card.due
        /\ edited.last_review = card.last_review
    BY <2>3 DEF Card
  <2> HIDE DEF edited
  <2>5. card # None /\ edited # None
    BY <2>3, <2>4, CardAssumption
  <2>6. CardWF(edited) = CardWF(card)
    BY <2>4 DEF CardWF
  <2>7. CardInv(edited, log[c])
    BY <2>3, <2>4, <2>5, <2>6 DEF CardInv
  <2> QED
    BY <2>1, <2>2, <2>7, OneCardStep DEF edited, card
<1>4. ASSUME NEW c \in CardIds, NEW rating \in Ratings, NEW now \in Times,
             Rate(c, rating, now)
      PROVE  TablesInv'
  <2>1. cards[c] \in Card /\ CardInv(cards[c], log[c])
    BY <1>1, <1>4 DEF Rate
  <2>2. CardInv(ApplyRating(cards[c], rating, now),
                Append(log[c], [rated_at |-> now, rating |-> rating]))
    BY <2>1, RateCardInv
  <2> QED
    BY <1>4, <2>2, OneCardStep DEF Rate
<1>5. ASSUME NEW c \in CardIds, Delete(c) PROVE TablesInv'
  BY <1>5, FreshCardInv, OneCardStep DEF Delete
<1>6. CASE UNCHANGED vars
  BY <1>6 DEF vars, TablesInv, TypeOK, RowsWellFormed, CardMatchesLog, MemoryWasEarned,
     DueAfterReview
<1> QED
  BY <1>2, <1>3, <1>4, <1>5, <1>6 DEF Next

-----------------------------------------------------------------------------
(* The tables always have their types. *)
THEOREM TypeCorrect == Spec => []TypeOK
<1>1. TablesInv => TypeOK
  BY DEF TablesInv
<1> QED
  BY InitTablesInv, NextTablesInv, <1>1, PTL DEF Spec

(* The tables are consistent: rows satisfy the schema, a Card is New       *)
(* exactly while its log is empty and remembers its last log row, memory   *)
(* came from a Good or an Easy, and nothing is due before it was rated.    *)
THEOREM TablesConsistent ==
    Spec => [](RowsWellFormed /\ CardMatchesLog /\ MemoryWasEarned /\ DueAfterReview)
<1>1. TablesInv => RowsWellFormed /\ CardMatchesLog /\ MemoryWasEarned /\ DueAfterReview
  BY DEF TablesInv
<1> QED
  BY InitTablesInv, NextTablesInv, <1>1, PTL DEF Spec

(* No Review is refused by the CHECKs of the schema. *)
THEOREM RowsFitSchema == Spec => []RowsWellFormed
BY TablesConsistent, PTL

(* A Card and its Review log tell the same story, and a deleted Card has   *)
(* no log.                                                                 *)
THEOREM LogsMatch == Spec => []CardMatchesLog
BY TablesConsistent, PTL

(* What LogExplainsCard needs to be inductive: of every Card some replay   *)
(* of its log, with all the Cards it goes through.  An edit changes the    *)
(* text of each of them, a Review adds one more.                           *)
ReplayInv == \A c \in CardIds : cards[c] # None => Explained(cards[c], log[c])

LEMMA InitReplayInv == Init => ReplayInv
<1> SUFFICES ASSUME Init, NEW c \in CardIds, cards[c] # None
             PROVE  Explained(cards[c], log[c])
  BY DEF ReplayInv
<1>1. log[c] = <<>> /\ \E t \in Texts : cards[c] = NewCard(t)
  BY DEF Init
<1> QED
  BY <1>1, NewIsExplained

LEMMA NextReplayInv == TablesInv /\ ReplayInv /\ [Next]_vars => ReplayInv'
<1> SUFFICES ASSUME TablesInv, ReplayInv, [Next]_vars, NEW c \in CardIds, cards'[c] # None
             PROVE  Explained(cards'[c], log'[c])
  BY DEF ReplayInv
<1>1. /\ cards \in [CardIds -> Card \cup {None}]
      /\ log \in [CardIds -> Seq(LogEntry)]
      /\ CardInv(cards[c], log[c])
      /\ cards[c] # None => Explained(cards[c], log[c])
  BY TablesInvPerCard DEF ReplayInv
<1>2. CASE cards'[c] = cards[c] /\ log'[c] = log[c]
  BY <1>1, <1>2
<1>3. ASSUME NEW d \in CardIds, Create(d) PROVE Explained(cards'[c], log'[c])
  <2>1. CASE d = c
    <3>1. \E t \in Texts : cards'[c] = NewCard(t)
      BY <1>1, <1>3, <2>1 DEF Create
    <3>2. log'[c] = <<>>
      BY <1>1, <1>3, <2>1 DEF Create, CardInv
    <3> QED
      BY <3>1, <3>2, NewIsExplained
  <2>2. CASE d # c
    BY <1>1, <1>2, <1>3, <2>2 DEF Create
  <2> QED
    BY <2>1, <2>2
<1>4. ASSUME NEW d \in CardIds, Edit(d) PROVE Explained(cards'[c], log'[c])
  <2>1. CASE d = c
    <3>1. PICK t \in Texts : cards'[c] = [cards[c] EXCEPT !.text = t]
      BY <1>1, <1>4, <2>1 DEF Edit
    <3>2. log'[c] = log[c] /\ log[c] \in Seq(LogEntry)
          /\ LogEntry \subseteq [rated_at : Times, rating : Ratings]
      BY <1>1, <1>4 DEF Edit, LogEntry
    <3>3. Explained(cards[c], log[c])
      BY <1>1, <1>4, <2>1 DEF Edit
    <3> QED
      BY <3>1, <3>2, <3>3, EditedIsExplained
  <2>2. CASE d # c
    BY <1>1, <1>2, <1>4, <2>2 DEF Edit
  <2> QED
    BY <2>1, <2>2
<1>5. ASSUME NEW d \in CardIds, NEW rating \in Ratings, NEW now \in Times,
             Rate(d, rating, now)
      PROVE  Explained(cards'[c], log'[c])
  <2>1. CASE d = c
    <3>1. /\ cards'[c] = ApplyRating(cards[c], rating, now)
          /\ log'[c] = Append(log[c], [rated_at |-> now, rating |-> rating])
      BY <1>1, <1>5, <2>1 DEF Rate
    <3>2. /\ log[c] \in Seq(LogEntry) /\ Explained(cards[c], log[c])
          /\ [rated_at |-> now, rating |-> rating] \in LogEntry
      BY <1>1, <1>5, <2>1 DEF Rate, LogEntry
    <3> QED
      BY <3>1, <3>2, RatedIsExplained
  <2>2. CASE d # c
    BY <1>1, <1>2, <1>5, <2>2 DEF Rate
  <2> QED
    BY <2>1, <2>2
<1>6. ASSUME NEW d \in CardIds, Delete(d) PROVE Explained(cards'[c], log'[c])
  <2>1. d # c
    BY <1>1, <1>6 DEF Delete
  <2> QED
    BY <1>1, <1>2, <1>6, <2>1 DEF Delete
<1>7. CASE UNCHANGED vars
  BY <1>1, <1>2, <1>7 DEF vars
<1> QED
  BY <1>3, <1>4, <1>5, <1>6, <1>7 DEF Next

(* The stored row of a Card is what its Review log makes of a new Card: no *)
(* Review is lost, applied twice or applied to another Card's schedule.    *)
THEOREM HistoryExplainsCards == Spec => []LogExplainsCard
<1>1. TablesInv /\ ReplayInv => LogExplainsCard
  <2> SUFFICES ASSUME TablesInv, ReplayInv, NEW c \in CardIds, cards[c] # None
               PROVE  cards[c] = Replay(log[c], cards[c].text)
    BY DEF LogExplainsCard
  <2>1. log[c] \in Seq(LogEntry) /\ Explained(cards[c], log[c])
    BY DEF TablesInv, TypeOK, ReplayInv
  <2> QED
    BY <2>1, ExplainedIsReplay
<1> QED
  BY InitTablesInv, NextTablesInv, InitReplayInv, NextReplayInv, <1>1, PTL DEF Spec

(* FSRS memory is never lost, and only Again takes a Card out of Review. *)
THEOREM LearnedIsKept == Spec => LearnedStaysLearned
<1> DEFINE Kept(c) ==
             (cards[c] # None /\ cards[c].memory # None /\ cards'[c] # None) =>
                /\ cards'[c].memory # None
                /\ cards'[c].phase \in {"Review", "Relearning"}
                /\ (cards[c].phase = "Review" /\ cards'[c].phase = "Relearning") =>
                      log'[c][Len(log'[c])].rating = "Again"
<1>1. ASSUME TablesInv, Next PROVE \A c \in CardIds : Kept(c)
  <2> SUFFICES ASSUME NEW c \in CardIds PROVE Kept(c)
    OBVIOUS
  <2>1. /\ cards \in [CardIds -> Card \cup {None}]
        /\ log \in [CardIds -> Seq(LogEntry)]
        /\ CardInv(cards[c], log[c])
    BY <1>1, TablesInvPerCard
  <2>2. CASE cards'[c] = cards[c]
    BY <2>1, <2>2 DEF CardInv, CardWF
  <2>3. ASSUME NEW d \in CardIds, Create(d) PROVE Kept(c)
    BY <2>1, <2>2, <2>3 DEF Create
  <2>4. ASSUME NEW d \in CardIds, Edit(d) PROVE Kept(c)
    <3>1. CASE d # c
      BY <2>1, <2>2, <2>4, <3>1 DEF Edit
    <3>2. CASE d = c
      <4>1. PICK t \in Texts : cards'[c] = [cards[c] EXCEPT !.text = t]
        BY <2>1, <2>4, <3>2 DEF Edit
      <4>2. cards[c] \in Card
        BY <2>1, <2>4, <3>2 DEF Edit
      <4>3. cards'[c].memory = cards[c].memory /\ cards'[c].phase = cards[c].phase
        BY <4>1, <4>2 DEF Card
      <4> QED
        BY <2>1, <4>3 DEF CardInv, CardWF
    <3> QED
      BY <3>1, <3>2
  <2>5. ASSUME NEW d \in CardIds, NEW rating \in Ratings, NEW now \in Times,
               Rate(d, rating, now)
        PROVE  Kept(c)
    <3>1. CASE d # c
      BY <2>1, <2>2, <2>5, <3>1 DEF Rate
    <3>2. CASE d = c
      <4>1. /\ cards'[c] = ApplyRating(cards[c], rating, now)
            /\ log'[c] = Append(log[c], [rated_at |-> now, rating |-> rating])
            /\ cards[c] \in Card
        BY <2>1, <2>5, <3>2 DEF Rate
      <4>2. RatedCard(cards[c], rating, now, cards'[c])
        BY <2>1, <4>1, RateCardInv
      <4>3. log[c] \in Seq(LogEntry) /\ [rated_at |-> now, rating |-> rating] \in LogEntry
        BY <2>1 DEF LogEntry
      <4>4. log'[c][Len(log'[c])].rating = rating
        BY <4>1, <4>3
      <4> QED
        BY <4>2, <4>4 DEF RatedCard
    <3> QED
      BY <3>1, <3>2
  <2>6. ASSUME NEW d \in CardIds, Delete(d) PROVE Kept(c)
    BY <2>1, <2>2, <2>6 DEF Delete
  <2> QED
    BY <1>1, <2>3, <2>4, <2>5, <2>6 DEF Next
<1>2. TablesInv /\ [Next]_vars => [\A c \in CardIds : Kept(c)]_vars
  BY <1>1
<1> HIDE DEF Kept
<1>3. Spec => [][\A c \in CardIds : Kept(c)]_vars
  BY InitTablesInv, NextTablesInv, <1>2, PTL DEF Spec
<1> QED
  BY <1>3 DEF LearnedStaysLearned, Kept
-----------------------------------------------------------------------------
(* The study queue. *)
NewIn(table) == {c \in CardIds : IsNew(table[c])}
DueIn(table, now) == {c \in CardIds : IsDue(table[c], now)}

LEMMA FiniteIds ==
    ASSUME NEW S, S \subseteq CardIds
    PROVE  IsFiniteSet(S) /\ Cardinality(S) \in Nat
BY FS_Subset, FS_CardinalityType, StudyAssumption

LEMMA NewListed ==
    ASSUME NEW table \in Row
    PROVE  /\ NewFirst(table) \in SetToSeqs(NewIn(table))
           /\ \A i, j \in DOMAIN NewFirst(table) :
                 i < j => NewFirst(table)[i] < NewFirst(table)[j]
<1> DEFINE S == NewIn(table)
           R == {pair \in S \X S : pair[1] < pair[2]}
           order == NewFirst(table)
<1>1. S \subseteq CardIds /\ S \subseteq Nat /\ IsFiniteSet(S)
  <2>1. S \subseteq CardIds
    BY DEF NewIn
  <2> QED
    BY <2>1, FiniteIds, StudyAssumption
<1>2. \A c, d \in S : <<c, d>> \in R <=> c < d
  OBVIOUS
<1>3. order = InOrder(S, R)
  BY DEF NewFirst, NewIn, Row
<1> HIDE DEF R, S, order
<1>4. ASSUME NEW U \in SUBSET S, U # {}
      PROVE  \E m \in U : \A x \in U \ {m} : <<m, x>> \in R
  <2>1. PICK m \in U : \A x \in U : m <= x
    BY <1>1, <1>4, LeastNat
  <2>2. ASSUME NEW x \in U \ {m} PROVE <<m, x>> \in R
    BY <1>1, <1>2, <2>1
  <2> QED
    BY <2>2
<1>5. /\ order \in SetToSeqs(S)
      /\ \A i, j \in DOMAIN order : i < j => <<order[i], order[j]>> \in R
  BY <1>1, <1>3, <1>4, SortExists DEF InOrder
<1>6. \A i \in DOMAIN order : order[i] \in S
  BY <1>1, <1>5, ListsAll
<1> QED
  BY <1>2, <1>5, <1>6 DEF order, S

LEMMA DueListed ==
    ASSUME NEW table \in Row, NEW now
    PROVE  LET due == DueFirst(table, now) IN
           /\ due \in SetToSeqs(DueIn(table, now))
           /\ \A i, j \in DOMAIN due : i < j =>
                 \/ table[due[i]].due < table[due[j]].due
                 \/ table[due[i]].due = table[due[j]].due /\ due[i] < due[j]
<1> DEFINE S == DueIn(table, now)
           Earlier(c, d) == \/ table[c].due < table[d].due
                            \/ table[c].due = table[d].due /\ c < d
           R == {pair \in S \X S : Earlier(pair[1], pair[2])}
<1>1. S \subseteq CardIds /\ S \subseteq Nat /\ IsFiniteSet(S)
  <2>1. S \subseteq CardIds
    BY DEF DueIn
  <2> QED
    BY <2>1, FiniteIds, StudyAssumption
<1>2. \A c \in S : table[c].due \in Nat
  BY DEF DueIn, IsDue, Row, Card
<1>3. \A c, d \in S : <<c, d>> \in R <=> Earlier(c, d)
  OBVIOUS
<1>4. DueFirst(table, now) = InOrder(S, R)
  BY DEF DueFirst, DueIn, Row
<1> HIDE DEF R, S
<1>5. ASSUME NEW U \in SUBSET S, U # {}
      PROVE  \E m \in U : \A x \in U \ {m} : <<m, x>> \in R
  <2> DEFINE dues == {table[c].due : c \in U}
  <2>1. dues \subseteq Nat /\ dues # {}
    BY <1>2, <1>5
  <2>2. PICK t \in dues : \A u \in dues : t <= u
    BY <2>1, LeastNat
  <2> DEFINE first == {c \in U : table[c].due = t}
  <2>3. first \subseteq Nat /\ first # {}
    BY <1>1, <2>2
  <2>4. PICK m \in first : \A x \in first : m <= x
    BY <2>3, LeastNat
  <2>5. ASSUME NEW x \in U \ {m} PROVE Earlier(m, x)
    <3>1. table[m].due = t /\ t <= table[x].due /\ t \in Nat /\ table[x].due \in Nat
      BY <1>2, <2>2, <2>4
    <3>2. m \in Nat /\ x \in Nat /\ x # m
      BY <1>1, <2>4
    <3>3. CASE table[x].due = t
      BY <2>4, <3>1, <3>2, <3>3
    <3>4. CASE table[x].due # t
      BY <3>1, <3>4
    <3> QED
      BY <3>3, <3>4
  <2> HIDE DEF Earlier
  <2> QED
    BY <1>3, <2>4, <2>5
<1> DEFINE due == DueFirst(table, now)
<1>6. /\ due \in SetToSeqs(S)
      /\ \A i, j \in DOMAIN due : i < j => <<due[i], due[j]>> \in R
  BY <1>1, <1>4, <1>5, SortExists DEF InOrder
<1>7. \A i \in DOMAIN due : due[i] \in S
  BY <1>1, <1>6, ListsAll
<1> HIDE DEF due
<1>8. \A i, j \in DOMAIN due : i < j => Earlier(due[i], due[j])
  BY <1>3, <1>6, <1>7
<1> QED
  BY <1>6, <1>8 DEF due, S

(* The queue is the due Cards and then as many New ones, oldest first, as  *)
(* the cap has room for.                                                   *)
LEMMA QueueShape ==
    ASSUME NEW table \in Row, NEW firsts, NEW now, DOMAIN firsts \subseteq CardIds
    PROVE  LET due == DueFirst(table, now)
               new == NewFirst(table)
               room == Capped(Cardinality(NewIn(table)),
                              Cardinality(IntroducedOn(firsts, now)))
           IN  /\ SelectStudyQueue(table, firsts, now) = due \o SubSeq(new, 1, room)
               /\ due \in Seq(DueIn(table, now)) /\ new \in Seq(NewIn(table))
               /\ Len(due) = Cardinality(DueIn(table, now))
               /\ Len(new) = Cardinality(NewIn(table))
               /\ Cardinality(DueIn(table, now)) \in Nat
               /\ Cardinality(NewIn(table)) \in Nat
               /\ room \in 0..Cardinality(NewIn(table))
               /\ room # 0 => Cardinality(IntroducedOn(firsts, now)) < NewCardsPerDay
<1> DEFINE D == DueIn(table, now)
           N == NewIn(table)
           due == DueFirst(table, now)
           new == NewFirst(table)
           introduced == Cardinality(IntroducedOn(firsts, now))
           room == Capped(Cardinality(N), introduced)
<1>1. IsFiniteSet(D) /\ IsFiniteSet(N)
  BY FiniteIds DEF DueIn, NewIn
<1>2. due \in SetToSeqs(D) /\ new \in SetToSeqs(N)
  BY NewListed, DueListed
<1>3. /\ due \in Seq(D) /\ Len(due) = Cardinality(D) /\ Cardinality(D) \in Nat
      /\ new \in Seq(N) /\ Len(new) = Cardinality(N) /\ Cardinality(N) \in Nat
  <2> HIDE DEF D, N, due, new
  <2> QED
    BY <1>1, <1>2, ListsAll
<1>4. introduced \in Nat
  BY FiniteIds DEF IntroducedOn
<1>5. /\ room \in 0..Cardinality(N)
      /\ room # 0 => introduced < NewCardsPerDay
  <2> HIDE DEF introduced, N
  <2> QED
    BY <1>3, <1>4, QueueAssumption DEF Capped, RemainingSlots
<1>6. SelectStudyQueue(table, firsts, now) = due \o SubSeq(new, 1, room)
  BY <1>3 DEF SelectStudyQueue
<1> QED
  BY <1>3, <1>5, <1>6

(* The study queue of any rows at any instant: first the due Cards, each   *)
(* once, by due time and then by id; then New Cards by id, the oldest      *)
(* ones, as many as there are or as the cap of the day has room for.       *)
THEOREM QueueOrder ==
    ASSUME NEW table \in Row, NEW firsts, NEW now, DOMAIN firsts \subseteq CardIds
    PROVE  LET queue == SelectStudyQueue(table, firsts, now)
               introduced == Cardinality(IntroducedOn(firsts, now))
               count == Cardinality(DueIn(table, now))
               room == Capped(Cardinality(NewIn(table)), introduced)
           IN  /\ Len(queue) = count + room
               /\ {queue[i] : i \in 1..count} = DueIn(table, now)
               /\ \A i, j \in 1..count : i < j =>
                     \/ table[queue[i]].due < table[queue[j]].due
                     \/ /\ table[queue[i]].due = table[queue[j]].due
                        /\ queue[i] < queue[j]
               /\ \A i \in 1..room :
                     /\ queue[count + i] \in NewIn(table)
                     /\ \A c \in NewIn(table) :
                           c < queue[count + i] => \E j \in 1..i : queue[count + j] = c
               /\ room = Cardinality(NewIn(table)) \/ introduced + room >= NewCardsPerDay
               /\ room = 0 \/ introduced + room <= NewCardsPerDay
<1> DEFINE D == DueIn(table, now)
           N == NewIn(table)
           due == DueFirst(table, now)
           new == NewFirst(table)
           introduced == Cardinality(IntroducedOn(firsts, now))
           room == Capped(Cardinality(N), introduced)
           queue == SelectStudyQueue(table, firsts, now)
           count == Cardinality(D)
<1>1. /\ queue = due \o SubSeq(new, 1, room)
      /\ due \in Seq(D) /\ new \in Seq(N)
      /\ Len(due) = count /\ Len(new) = Cardinality(N)
      /\ count \in Nat /\ Cardinality(N) \in Nat
      /\ room \in 0..Cardinality(N)
  BY QueueShape
<1>2. /\ \A c \in D : \E i \in 1..count : due[i] = c
      /\ \A i, j \in DOMAIN due : i < j =>
            \/ table[due[i]].due < table[due[j]].due
            \/ table[due[i]].due = table[due[j]].due /\ due[i] < due[j]
  <2>1. IsFiniteSet(D) /\ due \in SetToSeqs(D)
    BY FiniteIds, DueListed DEF DueIn
  <2>2. \A c \in D : \E i \in 1..count : due[i] = c
    <3> HIDE DEF D, due
    <3> QED
      BY <2>1, ListsAll
  <2> QED
    BY <2>2, DueListed
<1>3. /\ \A c \in N : \E i \in 1..Cardinality(N) : new[i] = c
      /\ \A i, j \in 1..Cardinality(N) : i < j => new[i] < new[j]
      /\ N \subseteq Nat
  <2>1. /\ IsFiniteSet(N) /\ N \subseteq Nat /\ new \in SetToSeqs(N)
        /\ \A i, j \in DOMAIN new : i < j => new[i] < new[j]
    BY FiniteIds, NewListed, StudyAssumption DEF NewIn
  <2>2. new \in Seq(N) /\ Len(new) = Cardinality(N)
    BY <1>1
  <2> HIDE DEF N, new
  <2>3. DOMAIN new = 1..Cardinality(N)
    BY <2>2
  <2>4. \A c \in N : \E i \in 1..Len(new) : new[i] = c
    BY <2>1, <2>2, ListsAll
  <2> QED
    BY <2>1, <2>2, <2>3, <2>4
<1>4. introduced \in Nat
  BY FiniteIds DEF IntroducedOn
<1>5. /\ room = Cardinality(N) \/ introduced + room >= NewCardsPerDay
      /\ room = 0 \/ introduced + room <= NewCardsPerDay
  <2> HIDE DEF introduced, N
  <2> QED
    BY <1>1, <1>4, QueueAssumption DEF Capped, RemainingSlots
<1> HIDE DEF D, N, due, new, room, queue, count, introduced
<1>6. /\ SubSeq(new, 1, room) \in Seq(N) /\ Len(SubSeq(new, 1, room)) = room
      /\ \A i \in 1..room : SubSeq(new, 1, room)[i] = new[i] /\ new[i] \in N
  BY <1>1
<1>7. /\ Len(queue) = count + room
      /\ \A i \in 1..count : queue[i] = due[i] /\ due[i] \in D
      /\ \A i \in 1..room : queue[count + i] = new[i]
  <2> DEFINE offered == SubSeq(new, 1, room)
  <2>1. offered \in Seq(D \cup N) /\ due \in Seq(D \cup N)
    BY <1>1, <1>6
  <2>2. Len(offered) = room /\ Len(due) = count /\ count \in Nat /\ room \in Nat
    BY <1>1, <1>6
  <2> HIDE DEF offered
  <2>3. /\ Len(due \o offered) = count + room
        /\ \A i \in 1..count : (due \o offered)[i] = due[i]
        /\ \A i \in 1..room : (due \o offered)[count + i] = offered[i]
    BY <2>1, <2>2
  <2> QED
    BY <1>1, <1>6, <2>3 DEF offered
<1>8. {queue[i] : i \in 1..count} = D
  BY <1>2, <1>7
<1>9. \A i, j \in 1..count : i < j =>
         \/ table[queue[i]].due < table[queue[j]].due
         \/ table[queue[i]].due = table[queue[j]].due /\ queue[i] < queue[j]
  <2>1. DOMAIN due = 1..count
    BY <1>1
  <2> QED
    BY <1>2, <1>7, <2>1
<1>10. ASSUME NEW i \in 1..room
       PROVE  /\ queue[count + i] \in N
              /\ \A c \in N : c < queue[count + i] => \E j \in 1..i : queue[count + j] = c
  <2>1. queue[count + i] = new[i] /\ new[i] \in N
    BY <1>6, <1>7
  <2>2. ASSUME NEW c \in N, c < new[i] PROVE \E j \in 1..i : queue[count + j] = c
    <3>1. PICK j \in 1..Cardinality(N) : new[j] = c
      BY <1>3
    <3>2. j < i
      <4>1. i \in 1..Cardinality(N) /\ new[i] \in Nat /\ c \in Nat
        <5>1. i \in 1..Cardinality(N)
          <6>1. room \in 0..Cardinality(N) /\ Cardinality(N) \in Nat
            BY <1>1
          <6> QED
            BY <6>1
        <5>2. new[i] \in Nat /\ c \in Nat
          BY <1>3, <2>1
        <5> QED
          BY <5>1, <5>2
      <4>2. ~(i < j) /\ i # j
        BY <1>3, <2>2, <3>1, <4>1
      <4> QED
        BY <1>1, <4>1, <4>2
    <3>3. j \in 1..i /\ j \in 1..room
      BY <1>1, <3>2
    <3> QED
      BY <1>7, <3>1, <3>3
  <2> QED
    BY <2>1, <2>2
<1> QED
  BY <1>5, <1>7, <1>8, <1>9, <1>10 DEF D, N, queue, count, room, introduced

(* What Study offers first is due, or it is the oldest New Card and the    *)
(* cap has room for it.                                                    *)
LEMMA QueueHead ==
    ASSUME NEW table \in Row, NEW firsts, NEW now, DOMAIN firsts \subseteq CardIds,
           SelectStudyQueue(table, firsts, now) # <<>>
    PROVE  LET head == Head(SelectStudyQueue(table, firsts, now))
           IN  \/ head \in DueIn(table, now)
               \/ /\ head \in NewIn(table)
                  /\ \A c \in NewIn(table) : head <= c
                  /\ Cardinality(IntroducedOn(firsts, now)) < NewCardsPerDay
<1> DEFINE D == DueIn(table, now)
           N == NewIn(table)
           due == DueFirst(table, now)
           new == NewFirst(table)
           room == Capped(Cardinality(N), Cardinality(IntroducedOn(firsts, now)))
           queue == SelectStudyQueue(table, firsts, now)
<1>1. /\ queue = due \o SubSeq(new, 1, room)
      /\ due \in Seq(D) /\ new \in Seq(N) /\ Len(new) = Cardinality(N)
      /\ Cardinality(N) \in Nat
      /\ room \in 0..Cardinality(N)
      /\ room # 0 => Cardinality(IntroducedOn(firsts, now)) < NewCardsPerDay
  BY QueueShape
<1>2. N \subseteq Nat /\ IsFiniteSet(N)
  BY FiniteIds, StudyAssumption DEF NewIn
<1>3. /\ \A c \in N : \E i \in 1..Cardinality(N) : new[i] = c
      /\ \A i, j \in 1..Cardinality(N) : i < j => new[i] < new[j]
      /\ \A i \in 1..Cardinality(N) : new[i] \in N
  <2>1. /\ new \in SetToSeqs(N)
        /\ \A i, j \in DOMAIN new : i < j => new[i] < new[j]
    BY NewListed
  <2> HIDE DEF new, N
  <2> QED
    BY <1>2, <2>1, ListsAll
<1> HIDE DEF D, N, due, new, room, queue
<1>4. CASE due # <<>>
  <2>1. Head(queue) = due[1] /\ due[1] \in D
    BY <1>1, <1>4
  <2> QED
    BY <2>1 DEF D, queue
<1>5. CASE due = <<>>
  <2>1. SubSeq(new, 1, room) \in Seq(N) /\ queue = SubSeq(new, 1, room)
    BY <1>1, <1>5
  <2>2. room # 0
    BY <1>1, <2>1 DEF queue
  <2>3. Head(queue) = new[1] /\ 1 \in 1..Cardinality(N)
    BY <1>1, <2>1, <2>2
  <2>4. \A c \in N : new[1] <= c
    <3> TAKE c \in N
    <3>1. PICK i \in 1..Cardinality(N) : new[i] = c
      BY <1>3
    <3>2. new[1] \in Nat /\ c \in Nat
      BY <1>2, <1>3, <2>3
    <3> QED
      BY <1>3, <2>3, <3>1, <3>2
  <2> QED
    BY <1>1, <1>3, <2>2, <2>3, <2>4 DEF N, queue
<1> QED
  BY <1>4, <1>5

-----------------------------------------------------------------------------
(* First Reviews. *)
LEMMA FirstIs ==
    ASSUME NEW entries \in Seq(LogEntry), entries # <<>>
    PROVE  /\ FirstReview(entries) \in Times /\ FirstReview(entries) \in Nat
           /\ \A i \in DOMAIN entries : FirstReview(entries) <= entries[i].rated_at
           /\ \E i \in DOMAIN entries : FirstReview(entries) = entries[i].rated_at
<1> DEFINE instants == {entries[i].rated_at : i \in DOMAIN entries}
<1>1. \A i \in DOMAIN entries : entries[i].rated_at \in Times
  <2>1. \A i \in DOMAIN entries : entries[i] \in LogEntry
    OBVIOUS
  <2> QED
    BY <2>1 DEF LogEntry
<1>2. instants # {} /\ instants \subseteq Times /\ instants \subseteq Nat
  <2>1. 1 \in DOMAIN entries
    OBVIOUS
  <2> QED
    BY <1>1, <2>1, TimesAssumption
<1>3. \E t \in instants : \A u \in instants : t <= u
  <2> HIDE DEF instants
  <2> QED
    BY <1>2, LeastNat
<1>4. FirstReview(entries) = CHOOSE t \in instants : \A u \in instants : t <= u
  BY DEF FirstReview
<1>5. /\ FirstReview(entries) \in instants
      /\ \A u \in instants : FirstReview(entries) <= u
  <2> HIDE DEF instants
  <2> QED
    BY <1>3, <1>4
<1> QED
  BY <1>2, <1>5

(* One more Review is the first one if there was none or a later one. *)
LEMMA FirstAppend ==
    ASSUME NEW entries \in Seq(LogEntry), NEW entry \in LogEntry
    PROVE  /\ Append(entries, entry) \in Seq(LogEntry) /\ Append(entries, entry) # <<>>
           /\ FirstReview(Append(entries, entry)) =
                IF entries = <<>> \/ entry.rated_at < FirstReview(entries)
                THEN entry.rated_at ELSE FirstReview(entries)
<1> DEFINE more == Append(entries, entry)
           n == Len(entries)
<1>1. /\ more \in Seq(LogEntry) /\ more # <<>> /\ n \in Nat
      /\ DOMAIN more = 1..(n + 1) /\ more[n + 1] = entry
      /\ \A i \in 1..n : more[i] = entries[i]
      /\ DOMAIN entries = 1..n /\ (entries = <<>> <=> n = 0)
  OBVIOUS
<1> HIDE DEF more
<1>2. /\ FirstReview(more) \in Nat
      /\ \A i \in 1..(n + 1) : FirstReview(more) <= more[i].rated_at
      /\ \E i \in 1..(n + 1) : FirstReview(more) = more[i].rated_at
  BY <1>1, FirstIs
<1>3. entry.rated_at \in Nat /\ \A i \in 1..n : entries[i].rated_at \in Nat
  <2>1. \A i \in 1..n : entries[i] \in LogEntry
    BY <1>1
  <2> QED
    BY <2>1, TimesAssumption DEF LogEntry
<1>4. CASE entries = <<>>
  BY <1>1, <1>2, <1>4 DEF more
<1>5. CASE entries # <<>>
  <2>1. /\ FirstReview(entries) \in Nat
        /\ \A i \in 1..n : FirstReview(entries) <= entries[i].rated_at
        /\ \E i \in 1..n : FirstReview(entries) = entries[i].rated_at
    BY <1>1, <1>5, FirstIs
  <2>2. PICK i \in 1..n : FirstReview(entries) = entries[i].rated_at
    BY <2>1
  <2>3. PICK j \in 1..(n + 1) : FirstReview(more) = more[j].rated_at
    BY <1>2
  <2>4. FirstReview(more) <= entry.rated_at /\ FirstReview(more) <= FirstReview(entries)
    BY <1>1, <1>2, <2>2
  <2>5. FirstReview(more) \in {entry.rated_at} \/ FirstReview(entries) <= FirstReview(more)
    BY <1>1, <2>1, <2>3
  <2> QED
    BY <1>1, <1>2, <1>3, <1>5, <2>1, <2>4, <2>5 DEF more
<1> QED
  BY <1>4, <1>5

LEMMA DayMonotone ==
    ASSUME NEW t \in Nat, NEW u \in Nat
    PROVE  /\ LocalDay(t) \in Int
           /\ t <= u => LocalDay(t) <= LocalDay(u)
BY QueueAssumption, TimesAssumption DEF LocalDay

-----------------------------------------------------------------------------
(* The invariant of the sessions. *)
First(c) == FirstReview(log[c])

(* Card c had its first Review by the instant t. *)
Reviewed(c, t) == log[c] # <<>> /\ First(c) <= t

(* Every Card that is older than c is no longer New. *)
OlderReviewed(c) == \A e \in CardIds : (e < c /\ cards[e] # None) => log[e] # <<>>

(* What a page has read may be out of date, but ids are never given again  *)
(* and a first Review stays one: a Card that was not New when it was read  *)
(* has been reviewed or is gone, and one older than those that were read   *)
(* and not among them is gone.                                             *)
ViewFits(v) ==
    \A c \in CardIds : v[c] # None =>
        /\ c \in used
        /\ IsNew(v[c]) <=> v[c].due = None
        /\ (v[c].due # None /\ cards[c] # None) => Reviewed(c, v[c].due)
        /\ \A e \in CardIds : (e < c /\ v[e] = None) => cards[e] = None

(* The Card that a page shows was due, or no older one is New. *)
OfferFits(c, t) ==
    /\ c \in used
    /\ cards[c] # None => Reviewed(c, t) \/ OlderReviewed(c)

PageFits(step, v, c, t) ==
    /\ step = "firsts" => ViewFits(v)
    /\ step \in {"shown", "rating"} => OfferFits(c, t)

UsedInv ==
    /\ \A c \in CardIds : cards[c] # None => c \in used
    /\ \A c \in CardIds, e \in used : c < e => c \in used

ClockInv ==
    /\ \A c \in CardIds : log[c] # <<>> => First(c) <= clock
    /\ \A k \in Clients : asked[k] <= clock

StudyInv ==
    /\ TablesInv /\ StudyTypeOK /\ UsedInv /\ ClockInv
    /\ \A k \in Clients : PageFits(pc[k], view[k], shown[k], asked[k])

(* What may happen to the tables while a page waits. *)
Evolves ==
    /\ log' \in [CardIds -> Seq(LogEntry)]
    /\ used \subseteq used'
    /\ \A c \in used : cards[c] = None => cards'[c] = None
    /\ \A c \in CardIds : (log[c] # <<>> /\ cards'[c] # None) =>
          log'[c] # <<>> /\ FirstReview(log'[c]) <= First(c)
    /\ clock <= clock'

LEMMA TablesTyped ==
    ASSUME StudyInv
    PROVE  /\ cards \in Row /\ clock \in Nat /\ used \subseteq CardIds
           /\ \A c \in CardIds :
                 /\ log[c] \in Seq(LogEntry)
                 /\ log[c] # <<>> => First(c) \in Nat /\ First(c) \in Times
                 /\ (cards[c] # None /\ log[c] = <<>>) <=> IsNew(cards[c])
                 /\ cards[c] = None => log[c] = <<>>
           /\ \A k \in Clients : asked[k] \in Nat /\ asked[k] \in Times
<1>1. /\ cards \in Row /\ log \in [CardIds -> Seq(LogEntry)]
      /\ \A c \in CardIds : CardInv(cards[c], log[c])
  BY TablesInvPerCard DEF StudyInv, Row
<1>2. \A c \in CardIds : log[c] \in Seq(LogEntry)
  BY <1>1
<1>3. \A c \in CardIds : log[c] # <<>> => First(c) \in Nat /\ First(c) \in Times
  BY <1>2, FirstIs DEF First
<1>4. \A c \in CardIds : /\ (cards[c] # None /\ log[c] = <<>>) <=> IsNew(cards[c])
                         /\ cards[c] = None => log[c] = <<>>
  BY <1>1 DEF CardInv, IsNew
<1>5. /\ clock \in Times /\ used \subseteq CardIds
      /\ \A k \in Clients : asked[k] \in Times
  BY DEF StudyInv, StudyTypeOK
<1> QED
  BY <1>1, <1>2, <1>3, <1>4, <1>5, TimesAssumption

(* A Card that was reviewed by t stays so for as long as it exists. *)
LEMMA ReviewedStable ==
    ASSUME StudyInv, Evolves, NEW d \in CardIds, NEW u \in Nat,
           cards'[d] # None, Reviewed(d, u)
    PROVE  Reviewed(d, u)'
<1>1. log[d] # <<>> /\ First(d) <= u /\ First(d) \in Nat
  BY TablesTyped DEF Reviewed
<1>2. log'[d] # <<>> /\ FirstReview(log'[d]) <= First(d)
  BY <1>1 DEF Evolves
<1>3. FirstReview(log'[d]) \in Nat
  BY <1>2, FirstIs DEF Evolves
<1> QED
  BY <1>1, <1>2, <1>3 DEF Reviewed, First

(* Pages that wait may rely on what they relied on. *)
LEMMA PagesStable ==
    ASSUME StudyInv, Evolves, NEW step, NEW v \in Row \cup {None},
           NEW c \in CardIds \cup {None}, NEW t \in Nat,
           step = "firsts" => v # None,
           step \in {"shown", "rating"} => c # None,
           PageFits(step, v, c, t)
    PROVE  PageFits(step, v, c, t)'
<1>1. \A d \in used : cards'[d] # None => cards[d] # None
  BY DEF Evolves
<1>2. \A d, e \in CardIds : (d < e /\ e \in used) => d \in used
  BY DEF StudyInv, UsedInv
<1>3. ASSUME NEW d \in CardIds, NEW u \in Nat, cards'[d] # None, Reviewed(d, u)
      PROVE  Reviewed(d, u)'
  BY <1>3, ReviewedStable
<1>4. ASSUME step = "firsts" PROVE ViewFits(v)'
  <2>1. v \in Row /\ ViewFits(v)
    BY <1>4 DEF PageFits
  <2> SUFFICES ASSUME NEW d \in CardIds, v[d] # None
               PROVE  /\ d \in used'
                      /\ IsNew(v[d]) <=> v[d].due = None
                      /\ (v[d].due # None /\ cards'[d] # None) => Reviewed(d, v[d].due)'
                      /\ \A e \in CardIds : (e < d /\ v[e] = None) => cards'[e] = None
    BY DEF ViewFits
  <2>2. /\ d \in used
        /\ IsNew(v[d]) <=> v[d].due = None
        /\ (v[d].due # None /\ cards[d] # None) => Reviewed(d, v[d].due)
        /\ \A e \in CardIds : (e < d /\ v[e] = None) => cards[e] = None
    BY <2>1 DEF ViewFits
  <2>3. v[d].due \in Nat \cup {None}
    BY <2>1 DEF Row, Card
  <2>4. d \in used'
    BY <2>2 DEF Evolves
  <2>5. ASSUME v[d].due # None, cards'[d] # None PROVE Reviewed(d, v[d].due)'
    BY <1>1, <1>3, <2>2, <2>3, <2>5
  <2>6. ASSUME NEW e \in CardIds, e < d, v[e] = None PROVE cards'[e] = None
    BY <1>1, <1>2, <2>2, <2>6
  <2> QED
    BY <2>2, <2>4, <2>5, <2>6
<1>5. ASSUME step \in {"shown", "rating"} PROVE OfferFits(c, t)'
  <2>1. c \in CardIds /\ OfferFits(c, t)
    BY <1>5 DEF PageFits
  <2>2. c \in used /\ c \in used'
    BY <2>1 DEF OfferFits, Evolves
  <2>3. ASSUME cards'[c] # None PROVE Reviewed(c, t)' \/ OlderReviewed(c)'
    <3>1. CASE Reviewed(c, t)
      BY <1>3, <2>1, <2>3, <3>1
    <3>2. CASE OlderReviewed(c)
      <4>1. ASSUME NEW e \in CardIds, e < c, cards'[e] # None PROVE log'[e] # <<>>
        BY <1>1, <1>2, <2>1, <2>2, <3>2, <4>1 DEF OlderReviewed, Evolves
      <4> QED
        BY <4>1 DEF OlderReviewed
    <3> QED
      BY <1>1, <2>1, <2>2, <2>3, <3>1, <3>2 DEF OfferFits
  <2> QED
    BY <2>2, <2>3 DEF OfferFits
<1> QED
  BY <1>4, <1>5 DEF PageFits

LEMMA PagesUnchanged ==
    ASSUME UNCHANGED <<cards, log, used>>, NEW step, NEW v, NEW c, NEW t,
           PageFits(step, v, c, t)
    PROVE  PageFits(step, v, c, t)'
BY DEF PageFits, ViewFits, OfferFits, Reviewed, OlderReviewed, First

(* Client k goes on to another page, or to none. *)
Moves(k, step, v, c, t) ==
    /\ pc' = [pc EXCEPT ![k] = step]
    /\ view' = [view EXCEPT ![k] = v]
    /\ shown' = [shown EXCEPT ![k] = c]
    /\ asked' = [asked EXCEPT ![k] = t]

(* A step of one Client keeps what the pages of the others rely on. *)
LEMMA StepOfClient ==
    ASSUME StudyInv, NEW k \in Clients,
           NEW step \in {"away", "cards", "firsts", "shown", "rating"},
           NEW v \in Row \cup {None}, NEW c \in CardIds \cup {None}, NEW t \in Times,
           (v # None) = (step = "firsts"),
           (c # None) = (step \in {"shown", "rating"}),
           Moves(k, step, v, c, t), t <= clock, UNCHANGED <<clock, used>>,
           TablesInv', UsedInv', Evolves,
           \A d \in CardIds : log'[d] # <<>> => FirstReview(log'[d]) <= clock,
           PageFits(step, v, c, t)'
    PROVE  StudyInv'
<1>1. StudyTypeOK'
  BY DEF StudyInv, StudyTypeOK, Moves, TablesInv, TypeOK
<1>2. ClockInv'
  BY DEF StudyInv, StudyTypeOK, ClockInv, Moves, First
<1>3. ASSUME NEW j \in Clients
      PROVE  PageFits(pc[j], view[j], shown[j], asked[j])'
  <2>1. CASE j = k
    BY <2>1 DEF Moves, StudyInv, StudyTypeOK
  <2>2. CASE j # k
    <3>1. /\ pc'[j] = pc[j] /\ view'[j] = view[j] /\ shown'[j] = shown[j]
          /\ asked'[j] = asked[j]
      BY <2>2 DEF Moves, StudyInv, StudyTypeOK
    <3>2. /\ view[j] \in Row \cup {None} /\ shown[j] \in CardIds \cup {None}
          /\ asked[j] \in Nat /\ (pc[j] = "firsts" => view[j] # None)
          /\ (pc[j] \in {"shown", "rating"} => shown[j] # None)
          /\ PageFits(pc[j], view[j], shown[j], asked[j])
      BY TimesAssumption DEF StudyInv, StudyTypeOK
    <3>3. ASSUME NEW p, NEW w \in Row \cup {None}, NEW d \in CardIds \cup {None},
                 NEW u \in Nat, p = "firsts" => w # None,
                 p \in {"shown", "rating"} => d # None, PageFits(p, w, d, u)
          PROVE  PageFits(p, w, d, u)'
      BY <3>3, PagesStable
    <3> QED
      BY <3>1, <3>2, <3>3
  <2> QED
    BY <2>1, <2>2
<1> QED
  BY <1>1, <1>2, <1>3 DEF StudyInv

(* The tables do not change. *)
LEMMA StepOfReader ==
    ASSUME StudyInv, NEW k \in Clients,
           NEW step \in {"away", "cards", "firsts", "shown", "rating"},
           NEW v \in Row \cup {None}, NEW c \in CardIds \cup {None}, NEW t \in Times,
           (v # None) = (step = "firsts"),
           (c # None) = (step \in {"shown", "rating"}),
           Moves(k, step, v, c, t), t <= clock, UNCHANGED <<cards, log, clock, used>>,
           PageFits(step, v, c, t)
    PROVE  StudyInv'
<1>1. TablesInv' /\ UsedInv'
  BY DEF StudyInv, UsedInv, TablesInv, TypeOK, RowsWellFormed, CardMatchesLog, MemoryWasEarned,
         DueAfterReview
<1>2. Evolves
  BY TablesTyped DEF Evolves, First, StudyInv, TablesInv, TypeOK
<1>3. \A d \in CardIds : log'[d] # <<>> => FirstReview(log'[d]) <= clock
  BY DEF StudyInv, ClockInv, First
<1>4. PageFits(step, v, c, t)'
  BY PagesUnchanged
<1> QED
  BY <1>1, <1>2, <1>3, <1>4, StepOfClient

LEMMA StepOpenPage ==
    ASSUME StudyInv, NEW k \in Clients, OpenPage(k)
    PROVE  StudyInv'
<1>1. /\ view[k] = None /\ shown[k] = None
      /\ Moves(k, "cards", None, None, clock) /\ UNCHANGED <<cards, log, clock, used>>
  BY DEF OpenPage, Moves, StudyInv, StudyTypeOK
<1>2. clock \in Times /\ clock <= clock
  BY TablesTyped DEF StudyInv, StudyTypeOK
<1>3. PageFits("cards", None, None, clock)
  BY DEF PageFits
<1> QED
  BY <1>1, <1>2, <1>3, StepOfReader

LEMMA StepLoadCards ==
    ASSUME StudyInv, NEW k \in Clients, LoadCards(k)
    PROVE  StudyInv'
<1>1. /\ shown[k] = None /\ asked[k] \in Times /\ asked[k] <= clock
      /\ Moves(k, "firsts", cards, None, asked[k]) /\ UNCHANGED <<cards, log, clock, used>>
  BY DEF LoadCards, Moves, StudyInv, StudyTypeOK, ClockInv
<1>2. ViewFits(cards)
  <2> SUFFICES ASSUME NEW c \in CardIds, cards[c] # None
               PROVE  /\ c \in used
                      /\ IsNew(cards[c]) <=> cards[c].due = None
                      /\ cards[c].due # None => Reviewed(c, cards[c].due)
    BY DEF ViewFits
  <2>1. c \in used
    BY DEF StudyInv, UsedInv
  <2>2. IsNew(cards[c]) <=> cards[c].due = None
    BY TablesInvPerCard DEF StudyInv, CardInv, CardWF, IsNew
  <2>3. ASSUME cards[c].due # None PROVE Reviewed(c, cards[c].due)
    <3>1. CardInv(cards[c], log[c]) /\ cards[c] \in Card
      BY TablesInvPerCard DEF StudyInv
    <3>2. /\ log[c] # <<>> /\ cards[c].due # None /\ cards[c].due >= cards[c].last_review
          /\ cards[c].last_review = log[c][Len(log[c])].rated_at
          /\ log[c] \in Seq(LogEntry)
      BY <2>3, <3>1 DEF CardInv, CardWF, IsNew
    <3>3. First(c) <= log[c][Len(log[c])].rated_at /\ First(c) \in Nat
      <4>1. Len(log[c]) \in DOMAIN log[c]
        BY <3>2
      <4> QED
        BY <3>2, <4>1, FirstIs DEF First
    <3>4. cards[c].due \in Nat /\ cards[c].last_review \in Nat
      BY <3>1, <3>2, TimesAssumption DEF Card, CardWF, CardInv
    <3> QED
      BY <3>2, <3>3, <3>4 DEF Reviewed
  <2> QED
    BY <2>1, <2>2, <2>3
<1>3. cards \in Row /\ cards # None
  BY TablesTyped, NoneIsNoView
<1>4. PageFits("firsts", cards, None, asked[k])
  BY <1>2 DEF PageFits
<1> QED
  BY <1>1, <1>3, <1>4, StepOfReader

(* The head of the queue of a page, whose Cards were read before the first *)
(* Reviews.                                                                *)
LEMMA HeadFits ==
    ASSUME StudyInv, NEW k \in Clients, pc[k] = "firsts",
           StudyQueue(view[k], log, asked[k]) # <<>>
    PROVE  LET c == Head(StudyQueue(view[k], log, asked[k]))
           IN  /\ c \in CardIds /\ OfferFits(c, asked[k])
               /\ (cards[c] # None /\ log[c] = <<>>) =>
                     Cardinality(IntroducedOn(FirstReviews(log), asked[k])) < NewCardsPerDay
               /\ cards[c] # None => Reviewed(c, asked[k]) \/ OlderReviewed(c)
<1> DEFINE v == view[k]
           t == asked[k]
           c == Head(StudyQueue(v, log, t))
<1>1. v \in Row /\ ViewFits(v) /\ t \in Nat
  BY TablesTyped DEF StudyInv, StudyTypeOK, PageFits
<1>2. DOMAIN FirstReviews(log) \subseteq CardIds
  BY DEF FirstReviews
<1>3. \/ c \in DueIn(v, t)
      \/ /\ c \in NewIn(v) /\ \A e \in NewIn(v) : c <= e
         /\ Cardinality(IntroducedOn(FirstReviews(log), t)) < NewCardsPerDay
  BY <1>1, <1>2, QueueHead DEF StudyQueue
<1> HIDE DEF c, v
<1>4. c \in CardIds /\ v[c] # None /\ c \in used
  BY <1>1, <1>3 DEF DueIn, NewIn, IsDue, IsNew, ViewFits
<1>5. CASE c \in DueIn(v, t)
  <2>1. v[c] \in Card /\ v[c].due \in Nat /\ v[c].due <= t
    BY <1>1, <1>4, <1>5 DEF DueIn, IsDue, Row, Card
  <2>2. v[c].due # None
    BY <1>5 DEF DueIn, IsDue
  <2>3. cards[c] # None => Reviewed(c, t)
    <3>1. cards[c] # None => Reviewed(c, v[c].due)
      BY <1>1, <1>4, <2>2 DEF ViewFits
    <3>2. log[c] # <<>> => First(c) \in Nat
      BY <1>4, TablesTyped
    <3> QED
      BY <1>1, <2>1, <3>1, <3>2 DEF Reviewed
  <2> QED
    BY <1>4, <2>3 DEF OfferFits, Reviewed, c, v
<1>6. CASE /\ c \in NewIn(v) /\ \A e \in NewIn(v) : c <= e
           /\ Cardinality(IntroducedOn(FirstReviews(log), t)) < NewCardsPerDay
  <2>1. ASSUME NEW e \in CardIds, e < c, cards[e] # None PROVE log[e] # <<>>
    <3>1. v[e] # None
      BY <1>1, <1>4, <2>1 DEF ViewFits
    <3>2. ~IsNew(v[e])
      BY <1>4, <1>6, <2>1, StudyAssumption DEF NewIn
    <3> QED
      BY <1>1, <2>1, <3>1, <3>2 DEF ViewFits, Reviewed
  <2> QED
    BY <1>4, <1>6, <2>1 DEF OfferFits, OlderReviewed, c, v
<1> QED
  BY <1>3, <1>5, <1>6

LEMMA StepLoadFirsts ==
    ASSUME StudyInv, NEW k \in Clients, LoadFirsts(k)
    PROVE  StudyInv'
<1> DEFINE queue == StudyQueue(view[k], log, asked[k])
<1>1. /\ pc[k] = "firsts" /\ shown[k] = None /\ asked[k] \in Times /\ asked[k] <= clock
      /\ UNCHANGED <<cards, log, clock, used>>
      /\ view' = [view EXCEPT ![k] = None] /\ asked' = [asked EXCEPT ![k] = asked[k]]
  BY DEF LoadFirsts, StudyInv, StudyTypeOK, ClockInv
<1>2. CASE queue = <<>>
  <2>1. Moves(k, "away", None, None, asked[k])
    <3>1. pc' = [pc EXCEPT ![k] = "away"] /\ shown' = shown
      BY <1>2 DEF LoadFirsts
    <3> QED
      BY <1>1, <3>1 DEF Moves, StudyInv, StudyTypeOK
  <2>2. PageFits("away", None, None, asked[k])
    BY DEF PageFits
  <2> QED
    BY <1>1, <2>1, <2>2, StepOfReader
<1>3. CASE queue # <<>>
  <2> DEFINE c == Head(queue)
  <2>1. c \in CardIds /\ c # None /\ OfferFits(c, asked[k])
    BY <1>1, <1>3, HeadFits, StudyAssumption
  <2>2. Moves(k, "shown", None, c, asked[k])
    BY <1>1, <1>3 DEF LoadFirsts, Moves
  <2> HIDE DEF c
  <2>3. PageFits("shown", None, c, asked[k])
    BY <2>1 DEF PageFits
  <2> QED
    BY <1>1, <2>1, <2>2, <2>3, StepOfReader
<1> QED
  BY <1>2, <1>3

LEMMA StepSendRating ==
    ASSUME StudyInv, NEW k \in Clients, SendRating(k)
    PROVE  StudyInv'
<1> DEFINE c == shown[k]
<1>1. /\ pc[k] = "shown" /\ view[k] = None /\ c \in CardIds /\ c # None
      /\ Moves(k, "rating", None, c, clock) /\ UNCHANGED <<cards, log, clock, used>>
  BY DEF SendRating, Moves, StudyInv, StudyTypeOK
<1>2. OfferFits(c, asked[k])
  BY <1>1 DEF StudyInv, PageFits
<1>3. asked[k] \in Nat /\ asked[k] <= clock /\ clock \in Nat /\ clock \in Times
  BY TablesTyped DEF StudyInv, StudyTypeOK, ClockInv
<1>4. OfferFits(c, clock)
  <2>1. log[c] # <<>> => First(c) \in Nat
    BY <1>1, TablesTyped
  <2> QED
    BY <1>2, <1>3, <2>1 DEF OfferFits, Reviewed
<1>5. PageFits("rating", None, c, clock)
  BY <1>4 DEF PageFits
<1> HIDE DEF c
<1> QED
  BY <1>1, <1>3, <1>5, StepOfReader

LEMMA StepClosePage ==
    ASSUME StudyInv, NEW k \in Clients, ClosePage(k)
    PROVE  StudyInv'
<1>1. /\ asked[k] \in Times /\ asked[k] <= clock
      /\ Moves(k, "away", None, None, asked[k]) /\ UNCHANGED <<cards, log, clock, used>>
  BY DEF ClosePage, Moves, StudyInv, StudyTypeOK, ClockInv
<1>2. PageFits("away", None, None, asked[k])
  BY DEF PageFits
<1> QED
  BY <1>1, <1>2, StepOfReader

(* What a Review does to the first Reviews. *)
LEMMA RateFirsts ==
    ASSUME StudyInv, NEW c \in CardIds, NEW rating \in Ratings, NEW t \in Times,
           Rate(c, rating, t)
    PROVE  /\ TablesInv'
           /\ cards[c] # None
           /\ \A d \in CardIds : cards'[d] = None <=> cards[d] = None
           /\ \A d \in CardIds \ {c} : log'[d] = log[d]
           /\ log'[c] # <<>>
           /\ FirstReview(log'[c]) =
                IF log[c] = <<>> \/ t < First(c) THEN t ELSE First(c)
<1>1. TablesInv /\ TablesInv'
  BY NextTablesInv DEF Next, StudyInv
<1>2. /\ cards \in [CardIds -> Card \cup {None}] /\ log \in [CardIds -> Seq(LogEntry)]
      /\ cards' \in [CardIds -> Card \cup {None}]
  BY <1>1 DEF TablesInv, TypeOK
<1> DEFINE entry == [rated_at |-> t, rating |-> rating]
<1>3. /\ cards[c] # None
      /\ cards' = [cards EXCEPT ![c] = ApplyRating(cards[c], rating, t)]
      /\ log' = [log EXCEPT ![c] = Append(log[c], entry)]
  BY DEF Rate
<1>4. ApplyRating(cards[c], rating, t) # None
  <2>1. cards[c] \in Card /\ CardInv(cards[c], log[c])
    BY <1>1, <1>2, <1>3, TablesInvPerCard
  <2>2. RatedCard(cards[c], rating, t, ApplyRating(cards[c], rating, t))
    BY <2>1, RateCardInv
  <2> QED
    BY <2>2, CardAssumption DEF RatedCard
<1>5. entry \in LogEntry /\ entry.rated_at = t
  BY DEF LogEntry
<1> HIDE DEF entry
<1>6. /\ log'[c] # <<>>
      /\ FirstReview(log'[c]) = IF log[c] = <<>> \/ t < First(c) THEN t ELSE First(c)
  <2>1. log'[c] = Append(log[c], entry) /\ log[c] \in Seq(LogEntry)
    BY <1>2, <1>3
  <2> QED
    BY <1>5, <2>1, FirstAppend DEF First
<1>7. \A d \in CardIds : cards'[d] = None <=> cards[d] = None
  BY <1>2, <1>3, <1>4
<1>8. \A d \in CardIds \ {c} : log'[d] = log[d]
  BY <1>2, <1>3
<1> QED
  BY <1>1, <1>3, <1>6, <1>7, <1>8

LEMMA RateEvolves ==
    ASSUME StudyInv, NEW c \in CardIds, NEW rating \in Ratings, NEW t \in Times,
           t <= clock, Rate(c, rating, t), UNCHANGED <<clock, used>>
    PROVE  /\ UsedInv' /\ Evolves
           /\ \A d \in CardIds : log'[d] # <<>> => FirstReview(log'[d]) <= clock
<1>1. /\ TablesInv'
      /\ \A d \in CardIds : cards'[d] = None <=> cards[d] = None
      /\ \A d \in CardIds \ {c} : log'[d] = log[d]
      /\ log'[c] # <<>>
      /\ FirstReview(log'[c]) = IF log[c] = <<>> \/ t < First(c) THEN t ELSE First(c)
  BY RateFirsts
<1>2. /\ log' \in [CardIds -> Seq(LogEntry)] /\ clock \in Nat /\ t \in Nat
      /\ used \subseteq CardIds
      /\ \A d \in CardIds : log[d] # <<>> => First(d) \in Nat /\ First(d) <= clock
  BY <1>1, TablesTyped, TimesAssumption DEF TablesInv, TypeOK, StudyInv, ClockInv
<1>3. \A d \in CardIds \ {c} : log'[d] # <<>> => FirstReview(log'[d]) = First(d)
  BY <1>1 DEF First
<1>4. UsedInv'
  BY <1>1 DEF StudyInv, UsedInv
<1>5. Evolves
  BY <1>1, <1>2, <1>3 DEF Evolves
<1>6. \A d \in CardIds : log'[d] # <<>> => FirstReview(log'[d]) <= clock
  BY <1>1, <1>2, <1>3
<1> QED
  BY <1>4, <1>5, <1>6

LEMMA StepCommitRating ==
    ASSUME StudyInv, NEW k \in Clients, CommitRating(k)
    PROVE  StudyInv'
<1> DEFINE c == shown[k]
<1>1. /\ pc[k] = "rating" /\ view[k] = None /\ c \in CardIds
      /\ asked[k] \in Times /\ asked[k] <= clock
      /\ Moves(k, "away", None, None, asked[k]) /\ UNCHANGED <<clock, used>>
  BY DEF CommitRating, Moves, StudyInv, StudyTypeOK, ClockInv
<1>2. CASE UNCHANGED <<cards, log>>
  <2>1. PageFits("away", None, None, asked[k])
    BY DEF PageFits
  <2> QED
    BY <1>1, <1>2, <2>1, StepOfReader
<1>3. ASSUME NEW rating \in Ratings, Rate(c, rating, asked[k])
      PROVE  StudyInv'
  <2>1. PICK t \in Times : t = asked[k]
    BY <1>1
  <2>2. /\ TablesInv' /\ UsedInv' /\ Evolves
        /\ \A d \in CardIds : log'[d] # <<>> => FirstReview(log'[d]) <= clock
    BY <1>1, <1>3, <2>1, RateFirsts, RateEvolves
  <2>3. PageFits("away", None, None, t)'
    BY DEF PageFits
  <2> QED
    BY <1>1, <2>1, <2>2, <2>3, StepOfClient
<1> QED
  BY <1>2, <1>3 DEF CommitRating

(* The steps of the Deck page and of the clock. *)
LEMMA StepOfOthers ==
    ASSUME StudyInv, UNCHANGED pages, TablesInv', UsedInv', Evolves, used' \subseteq CardIds,
           clock' \in Times, \A d \in CardIds : log'[d] # <<>> => FirstReview(log'[d]) <= clock'
    PROVE  StudyInv'
<1>1. StudyTypeOK'
  BY DEF StudyInv, StudyTypeOK, pages, TablesInv
<1>2. ClockInv'
  <2>1. ASSUME NEW k \in Clients PROVE asked[k] <= clock'
    <3>1. asked[k] \in Nat /\ clock \in Nat /\ clock' \in Nat
      BY TablesTyped, TimesAssumption
    <3> QED
      BY <3>1 DEF StudyInv, ClockInv, Evolves
  <2> QED
    BY <2>1 DEF ClockInv, pages, First
<1>3. ASSUME NEW j \in Clients
      PROVE  PageFits(pc[j], view[j], shown[j], asked[j])'
  <2>1. /\ pc'[j] = pc[j] /\ view'[j] = view[j] /\ shown'[j] = shown[j]
        /\ asked'[j] = asked[j]
    BY DEF pages
  <2>2. /\ view[j] \in Row \cup {None} /\ shown[j] \in CardIds \cup {None}
        /\ asked[j] \in Nat /\ (pc[j] = "firsts" => view[j] # None)
        /\ (pc[j] \in {"shown", "rating"} => shown[j] # None)
        /\ PageFits(pc[j], view[j], shown[j], asked[j])
    BY TimesAssumption DEF StudyInv, StudyTypeOK
  <2>3. ASSUME NEW p, NEW w \in Row \cup {None}, NEW d \in CardIds \cup {None},
               NEW u \in Nat, p = "firsts" => w # None,
               p \in {"shown", "rating"} => d # None, PageFits(p, w, d, u)
        PROVE  PageFits(p, w, d, u)'
    BY <2>3, PagesStable
  <2> QED
    BY <2>1, <2>2, <2>3
<1> QED
  BY <1>1, <1>2, <1>3 DEF StudyInv

LEMMA AddEvolves ==
    ASSUME StudyInv, NEW c \in CardIds, AddCard(c)
    PROVE  Evolves
<1>1. /\ cards \in Row /\ used \subseteq CardIds /\ log \in [CardIds -> Seq(LogEntry)]
      /\ clock \in Nat /\ \A d \in CardIds : log[d] # <<>> => First(d) \in Nat
  BY TablesTyped DEF StudyInv, TablesInv, TypeOK
<1>2. /\ UNCHANGED <<log, clock>> /\ used' = used \cup {c}
      /\ \A d \in CardIds : d # c => cards'[d] = cards[d]
  BY <1>1 DEF AddCard, Create, Row
<1>3. c \notin used
  BY StudyAssumption DEF AddCard
<1> QED
  BY <1>1, <1>2, <1>3 DEF Evolves, First

LEMMA RemoveEvolves ==
    ASSUME StudyInv, NEW c \in CardIds, RemoveCard(c)
    PROVE  Evolves
<1>1. /\ cards \in Row /\ used \subseteq CardIds /\ log \in [CardIds -> Seq(LogEntry)]
      /\ clock \in Nat /\ \A d \in CardIds : log[d] # <<>> => First(d) \in Nat
  BY TablesTyped DEF StudyInv, TablesInv, TypeOK
<1>2. /\ cards' = [cards EXCEPT ![c] = None] /\ log' = [log EXCEPT ![c] = <<>>]
      /\ UNCHANGED <<clock, used>>
  BY DEF RemoveCard, Delete
<1>3. log' \in [CardIds -> Seq(LogEntry)]
  BY <1>1, <1>2
<1>4. /\ \A d \in used : cards[d] = None => cards'[d] = None
      /\ \A d \in CardIds : cards'[d] # None => log'[d] = log[d]
  BY <1>1, <1>2 DEF Row
<1> QED
  BY <1>1, <1>2, <1>3, <1>4 DEF Evolves, First

LEMMA TickEvolves ==
    ASSUME StudyInv, Tick
    PROVE  Evolves
<1>1. /\ log \in [CardIds -> Seq(LogEntry)] /\ clock \in Nat
      /\ \A d \in CardIds : log[d] # <<>> => First(d) \in Nat
  BY TablesTyped DEF StudyInv, TablesInv, TypeOK
<1>2. clock < clock' /\ clock' \in Nat /\ UNCHANGED <<cards, log, used>>
  BY TimesAssumption DEF Tick
<1> QED
  BY <1>1, <1>2 DEF Evolves, First

LEMMA StepAddCard ==
    ASSUME StudyInv, NEW c \in CardIds, AddCard(c)
    PROVE  StudyInv'
<1>1. PICK t \in Texts : cards' = [cards EXCEPT ![c] = NewCard(t)]
  BY DEF AddCard, Create
<1>2. /\ cards[c] = None /\ UNCHANGED <<log, clock, pages>> /\ used' = used \cup {c}
      /\ \A d \in CardIds : d <= c => (d \in used <=> d < c)
  BY DEF AddCard, Create
<1>3. cards \in Row /\ used \subseteq CardIds
  BY TablesTyped
<1>4. TablesInv'
  BY NextTablesInv DEF AddCard, Next, StudyInv
<1>5. c \notin used
  BY <1>2, StudyAssumption
<1>6. UsedInv'
  <2>1. \A d \in CardIds : cards'[d] # None => d \in used'
    BY <1>1, <1>2, <1>3 DEF StudyInv, UsedInv, Row
  <2>2. ASSUME NEW d \in CardIds, NEW e \in used', d < e PROVE d \in used'
    <3>1. CASE e \in used
      BY <1>2, <2>2, <3>1 DEF StudyInv, UsedInv
    <3>2. CASE e = c
      BY <1>2, <2>2, <3>2, StudyAssumption
    <3> QED
      BY <1>2, <3>1, <3>2
  <2> QED
    BY <2>1, <2>2 DEF UsedInv
<1>7. Evolves
  BY AddEvolves
<1>8. /\ used' \subseteq CardIds /\ clock' \in Times
      /\ \A d \in CardIds : log'[d] # <<>> => FirstReview(log'[d]) <= clock'
  BY <1>2, <1>3 DEF StudyInv, StudyTypeOK, ClockInv, First
<1> QED
  BY <1>2, <1>4, <1>6, <1>7, <1>8, StepOfOthers

LEMMA StepRemoveCard ==
    ASSUME StudyInv, NEW c \in CardIds, RemoveCard(c)
    PROVE  StudyInv'
<1>1. /\ cards' = [cards EXCEPT ![c] = None] /\ log' = [log EXCEPT ![c] = <<>>]
      /\ UNCHANGED <<clock, used, pages>>
  BY DEF RemoveCard, Delete
<1>2. cards \in Row /\ used \subseteq CardIds
  BY TablesTyped
<1>3. TablesInv'
  BY NextTablesInv DEF RemoveCard, Next, StudyInv
<1>4. UsedInv'
  BY <1>1, <1>2 DEF StudyInv, UsedInv, Row
<1>5. log \in [CardIds -> Seq(LogEntry)]
  BY DEF StudyInv, TablesInv, TypeOK
<1>6. \A d \in CardIds : log'[d] # <<>> => log'[d] = log[d]
  BY <1>1, <1>5
<1>7. Evolves
  BY RemoveEvolves
<1>8. /\ used' \subseteq CardIds /\ clock' \in Times
      /\ \A d \in CardIds : log'[d] # <<>> => FirstReview(log'[d]) <= clock'
  BY <1>1, <1>2, <1>6 DEF StudyInv, StudyTypeOK, ClockInv, First
<1> QED
  BY <1>1, <1>3, <1>4, <1>7, <1>8, StepOfOthers

LEMMA StepTick ==
    ASSUME StudyInv, Tick
    PROVE  StudyInv'
<1>1. /\ clock' \in Times /\ clock < clock' /\ UNCHANGED <<cards, log, used, pages>>
      /\ clock \in Nat /\ clock' \in Nat
  BY TablesTyped, TimesAssumption DEF Tick
<1>2. TablesInv' /\ UsedInv'
  BY <1>1 DEF StudyInv, UsedInv, TablesInv, TypeOK, RowsWellFormed, CardMatchesLog,
              MemoryWasEarned, DueAfterReview
<1>3. \A d \in CardIds : log[d] # <<>> => First(d) \in Nat /\ First(d) <= clock
  BY TablesTyped DEF StudyInv, ClockInv
<1>4. Evolves
  BY TickEvolves
<1>5. used' \subseteq CardIds
  BY <1>1, TablesTyped
<1>6. \A d \in CardIds : log'[d] # <<>> => FirstReview(log'[d]) <= clock'
  BY <1>1, <1>3 DEF First
<1> QED
  BY <1>1, <1>2, <1>4, <1>5, <1>6, StepOfOthers

LEMMA InitStudyInv == StudyInit => StudyInv
<1> SUFFICES ASSUME StudyInit PROVE StudyInv
  OBVIOUS
<1>1. TablesInv
  BY InitTablesInv DEF StudyInit, Init
<1>2. StudyTypeOK /\ ClockInv
  <2>1. TypeOK /\ clock \in Times /\ clock \in Nat
    BY <1>1, TimesAssumption DEF StudyInit, TablesInv
  <2> QED
    BY <2>1 DEF StudyInit, StudyTypeOK, ClockInv
<1>3. UsedInv
  BY DEF StudyInit, UsedInv
<1>4. \A k \in Clients : PageFits(pc[k], view[k], shown[k], asked[k])
  BY DEF StudyInit, PageFits
<1> QED
  BY <1>1, <1>2, <1>3, <1>4 DEF StudyInv

LEMMA NextStudyInv == StudyInv /\ [StudyNext]_studyVars => StudyInv'
<1> SUFFICES ASSUME StudyInv, [StudyNext]_studyVars PROVE StudyInv'
  OBVIOUS
<1>1. CASE UNCHANGED studyVars
  <2>1. TablesInv' /\ StudyTypeOK' /\ UsedInv' /\ ClockInv'
    BY <1>1 DEF studyVars, pages, StudyInv, StudyTypeOK, UsedInv, ClockInv, First, TablesInv,
       TypeOK, RowsWellFormed, CardMatchesLog, MemoryWasEarned, DueAfterReview
  <2>2. ASSUME NEW j \in Clients
        PROVE  PageFits(pc[j], view[j], shown[j], asked[j])'
    BY <1>1, PagesUnchanged DEF studyVars, pages, StudyInv
  <2> QED
    BY <2>1, <2>2 DEF StudyInv
<1>2. ASSUME NEW k \in Clients, Page(k) \/ ClosePage(k) PROVE StudyInv'
  BY <1>2, StepOpenPage, StepLoadCards, StepLoadFirsts, StepSendRating, StepCommitRating,
     StepClosePage DEF Page
<1>3. ASSUME NEW c \in CardIds, AddCard(c) \/ RemoveCard(c) PROVE StudyInv'
  BY <1>3, StepAddCard, StepRemoveCard
<1> QED
  BY <1>1, <1>2, <1>3, StepTick DEF StudyNext

-----------------------------------------------------------------------------
(* Every page holds what its step needs, for any number of tabs. *)
THEOREM StudyTypeCorrect == StudySpec => []StudyTypeOK
<1>1. StudyInv => StudyTypeOK
  BY DEF StudyInv
<1> QED
  BY <1>1, InitStudyInv, NextStudyInv, PTL DEF StudySpec

-----------------------------------------------------------------------------
(* New Cards are introduced oldest first.  OrderInv says of the log what   *)
(* NewInOrder says of the phase: a rating of a New Card needs OfferFits,   *)
(* which is what makes every older Card one that was reviewed.             *)
OrderInv ==
    \A c, d \in CardIds :
        (c < d /\ cards[c] # None /\ log[c] = <<>> /\ cards[d] # None) => log[d] = <<>>

LEMMA InitOrderInv == StudyInit => OrderInv
BY DEF StudyInit, OrderInv

LEMMA RatedInOrder ==
    ASSUME StudyInv, OrderInv, NEW k \in Clients, CommitRating(k)
    PROVE  OrderInv'
<1> DEFINE r == shown[k]
<1>1. r \in CardIds /\ asked[k] \in Times /\ pc[k] = "rating"
  BY DEF CommitRating, StudyInv, StudyTypeOK
<1>2. CASE UNCHANGED <<cards, log>>
  BY <1>2 DEF OrderInv
<1>3. ASSUME NEW rating \in Ratings, Rate(r, rating, asked[k])
      PROVE  OrderInv'
  <2>1. /\ cards[r] # None
        /\ \A d \in CardIds : cards'[d] = None <=> cards[d] = None
        /\ \A d \in CardIds \ {r} : log'[d] = log[d]
        /\ log'[r] # <<>>
    BY <1>1, <1>3, RateFirsts
  <2>2. log[r] # <<>> \/ OlderReviewed(r)
    BY <1>1, <2>1 DEF StudyInv, PageFits, OfferFits, Reviewed
  <2> HIDE DEF r
  <2> SUFFICES ASSUME NEW c \in CardIds, NEW d \in CardIds, c < d,
                      cards[c] # None, log'[c] = <<>>, cards[d] # None
               PROVE  log'[d] = <<>>
    BY <2>1 DEF OrderInv
  <2>3. log[c] = <<>> /\ log[d] = <<>>
    BY <2>1 DEF OrderInv
  <2>4. d # r
    BY <1>1, <2>2, <2>3 DEF OlderReviewed
  <2> QED
    BY <2>1, <2>3, <2>4
<1> QED
  BY <1>2, <1>3 DEF CommitRating

LEMMA NextOrderInv == StudyInv /\ OrderInv /\ [StudyNext]_studyVars => OrderInv'
<1> SUFFICES ASSUME StudyInv, OrderInv, [StudyNext]_studyVars PROVE OrderInv'
  OBVIOUS
<1>1. /\ cards \in Row /\ used \subseteq CardIds
      /\ log \in [CardIds -> Seq(LogEntry)]
      /\ \A c \in CardIds : cards[c] = None => log[c] = <<>>
  BY TablesTyped DEF StudyInv, TablesInv, TypeOK
<1>2. CASE UNCHANGED <<cards, log>>
  BY <1>2 DEF OrderInv
<1>3. ASSUME NEW n \in CardIds, AddCard(n) PROVE OrderInv'
  <2>1. /\ log' = log /\ cards[n] = None /\ n \notin used
        /\ \A d \in CardIds : d # n => cards'[d] = cards[d]
    BY <1>1, <1>3, StudyAssumption DEF AddCard, Create, Row
  <2>2. \A d \in CardIds : n < d => cards[d] = None
    BY <2>1 DEF StudyInv, UsedInv
  <2>3. \A d \in CardIds : n < d => d # n
    BY StudyAssumption
  <2> SUFFICES ASSUME NEW c \in CardIds, NEW d \in CardIds, c < d,
                      cards'[c] # None, log[c] = <<>>, cards'[d] # None
               PROVE  log[d] = <<>>
    BY <2>1 DEF OrderInv
  <2>4. CASE d = n
    BY <1>1, <2>1, <2>4
  <2>5. CASE d # n
    BY <2>1, <2>2, <2>3, <2>5 DEF OrderInv
  <2> QED
    BY <2>4, <2>5
<1>4. ASSUME NEW n \in CardIds, RemoveCard(n) PROVE OrderInv'
  BY <1>1, <1>4 DEF RemoveCard, Delete, OrderInv, Row
<1>5. ASSUME NEW k \in Clients, Page(k) \/ ClosePage(k) PROVE OrderInv'
  <2>1. CASE CommitRating(k)
    BY <2>1, RatedInOrder
  <2> QED
    BY <1>2, <1>5, <2>1 DEF Page, OpenPage, LoadCards, LoadFirsts, SendRating, ClosePage
<1> QED
  BY <1>2, <1>3, <1>4, <1>5 DEF StudyNext, Tick, studyVars

(* Whatever pages are open and however old they are, a Card stays New as   *)
(* long as an older one is New.                                            *)
THEOREM IntroducedInOrder == StudySpec => []NewInOrder
<1>1. StudyInv /\ OrderInv => NewInOrder
  BY TablesTyped DEF NewInOrder, OrderInv
<1> QED
  BY <1>1, InitStudyInv, NextStudyInv, InitOrderInv, NextOrderInv, PTL DEF StudySpec

-----------------------------------------------------------------------------
(* Nothing pushes in.  Before a Card that is due the queue has the due     *)
(* Cards that fall due earlier, or at the same instant and have a smaller  *)
(* id.                                                                     *)
Before(table, d, c) ==
    \/ table[d].due < table[c].due
    \/ table[d].due = table[c].due /\ d < c

LEMMA AheadIs ==
    ASSUME NEW table \in Row, NEW logs, NEW now,
           NEW c \in DueIn(table, now), ~IsNew(table[c])
    PROVE  Ahead(StudyQueue(table, logs, now), c)
             = {d \in DueIn(table, now) : Before(table, d, c)}
<1> DEFINE firsts == FirstReviews(logs)
           D == DueIn(table, now)
           N == NewIn(table)
           due == DueFirst(table, now)
           new == NewFirst(table)
           count == Cardinality(D)
           room == Capped(Cardinality(N), Cardinality(IntroducedOn(firsts, now)))
           queue == SelectStudyQueue(table, firsts, now)
<1>1. DOMAIN firsts \subseteq CardIds
  BY DEF FirstReviews
<1> HIDE DEF firsts
<1>2. /\ Len(queue) = count + room
      /\ {queue[i] : i \in 1..count} = D
      /\ \A i, j \in 1..count : i < j =>
            \/ table[queue[i]].due < table[queue[j]].due
            \/ table[queue[i]].due = table[queue[j]].due /\ queue[i] < queue[j]
      /\ \A i \in 1..room : queue[count + i] \in N
  BY <1>1, QueueOrder
<1>3. /\ queue = due \o SubSeq(new, 1, room)
      /\ due \in Seq(D) /\ new \in Seq(N) /\ Len(new) = Cardinality(N)
      /\ count \in Nat /\ Cardinality(N) \in Nat
      /\ room \in 0..Cardinality(N)
  BY <1>1, QueueShape
<1>4. /\ \A d \in D : table[d].due \in Nat /\ d \in Nat
      /\ \A d \in N : IsNew(table[d])
  BY StudyAssumption DEF DueIn, IsDue, Row, Card, NewIn
<1> HIDE DEF D, N, due, new, count, room, queue
<1>5. count \in Nat /\ room \in Nat /\ DOMAIN queue = 1..(count + room)
  <2>1. count \in Nat /\ room \in Nat
    BY <1>3
  <2>2. SubSeq(new, 1, room) \in Seq(D \cup N) /\ due \in Seq(D \cup N)
    BY <1>3
  <2>3. due \o SubSeq(new, 1, room) \in Seq(D \cup N)
    BY <2>2
  <2> QED
    BY <1>2, <1>3, <2>1, <2>3
<1>6. ASSUME NEW n \in DOMAIN queue, queue[n] = c
      PROVE  n \in 1..count
  <2>1. SUFFICES ASSUME n > count PROVE FALSE
    BY <1>5
  <2>2. n - count \in 1..room /\ count + (n - count) = n
    BY <1>5, <2>1
  <2>3. queue[n] \in N
    BY <1>2, <2>2
  <2> QED
    BY <1>4, <1>6, <2>3
<1>7. ASSUME NEW j \in DOMAIN queue, NEW n \in DOMAIN queue, j < n, queue[n] = c
      PROVE  queue[j] \in D /\ Before(table, queue[j], c)
  <2>1. n \in 1..count /\ j \in 1..count
    BY <1>5, <1>6, <1>7
  <2> QED
    BY <1>2, <1>7, <2>1 DEF Before
<1>8. ASSUME NEW d \in D, Before(table, d, c)
      PROVE  \E j, n \in DOMAIN queue : j < n /\ queue[j] = d /\ queue[n] = c
  <2>1. c \in D
    BY DEF D
  <2>2. PICK j \in 1..count : queue[j] = d
    BY <1>2
  <2>3. PICK n \in 1..count : queue[n] = c
    BY <1>2, <2>1
  <2>4. /\ table[d].due \in Nat /\ table[c].due \in Nat /\ d \in Nat /\ c \in Nat
    BY <1>4, <2>1
  <2>5. ~Before(table, c, d) /\ d # c
    BY <1>8, <2>4 DEF Before
  <2>6. ~(n < j) /\ n # j
    BY <1>2, <2>2, <2>3, <2>5 DEF Before
  <2>7. j < n /\ j \in DOMAIN queue /\ n \in DOMAIN queue
    BY <1>5, <2>6
  <2> QED
    BY <2>2, <2>3, <2>7
<1>9. Ahead(queue, c) = {d \in D : Before(table, d, c)}
  BY <1>7, <1>8 DEF Ahead
<1> QED
  BY <1>9 DEF queue, D, firsts, StudyQueue

(* What one step makes of the row of a Card: nothing, nothing that is due, *)
(* or what a Rating leaves, which is due no sooner than the instant that   *)
(* the request took.                                                       *)
Committed(d) ==
    \E k \in Clients : /\ pc[k] = "rating" /\ shown[k] = d
                       /\ cards'[d].last_review = asked[k]

LEMMA RowSteps ==
    ASSUME StudyInv, [StudyNext]_studyVars, NEW d \in CardIds
    PROVE  /\ \/ cards'[d] = cards[d] /\ log'[d] = log[d]
              \/ cards'[d] = None
              \/ cards[d] = None /\ cards'[d].due = None
              \/ Committed(d) /\ log'[d] # log[d]
           /\ clock \in Nat /\ clock' \in Nat /\ clock <= clock'
<1>1. /\ cards \in Row /\ log \in [CardIds -> Seq(LogEntry)]
      /\ clock \in Nat /\ StudyTypeOK /\ StudyInv'
  BY TablesTyped, NextStudyInv DEF StudyInv, TablesInv, TypeOK
<1>2. clock' \in Nat
  BY <1>1, TablesTyped, TimesAssumption DEF StudyInv, StudyTypeOK
<1>3. CASE UNCHANGED <<cards, log, clock>>
  BY <1>1, <1>2, <1>3
<1>4. ASSUME NEW k \in Clients, CommitRating(k)
      PROVE  /\ \/ cards'[d] = cards[d] /\ log'[d] = log[d]
                \/ Committed(d) /\ log'[d] # log[d]
             /\ clock' = clock
  <2> DEFINE e == shown[k]
  <2>1. /\ e \in CardIds /\ asked[k] \in Times /\ pc[k] = "rating" /\ clock' = clock
    BY <1>1, <1>4 DEF CommitRating, StudyTypeOK
  <2>2. CASE UNCHANGED <<cards, log>>
    BY <2>1, <2>2
  <2>3. ASSUME NEW rating \in Ratings, Rate(e, rating, asked[k])
        PROVE  \/ cards'[d] = cards[d] /\ log'[d] = log[d]
               \/ Committed(d) /\ log'[d] # log[d]
    <3>1. PICK now \in Times : now = asked[k]
      BY <2>1
    <3>2. PICK entry : entry = [rated_at |-> now, rating |-> rating]
      OBVIOUS
    <3>3. /\ cards[e] # None /\ cards' = [cards EXCEPT ![e] = ApplyRating(cards[e], rating, now)]
          /\ log' = [log EXCEPT ![e] = Append(@, entry)]
      BY <2>3, <3>1, <3>2 DEF Rate
    <3>4. CASE d # e
      BY <1>1, <3>3, <3>4 DEF Row
    <3>5. CASE d = e
      <4>1. cards[d] \in Card /\ CardWF(cards[d])
        BY <3>3, <3>5, TablesInvPerCard DEF StudyInv, CardInv
      <4>2. cards'[d].last_review = now
        <5>1. RatedCard(cards[d], rating, now, ApplyRating(cards[d], rating, now))
          BY <4>1, ApplyRatingCorrect
        <5>2. cards'[d] = ApplyRating(cards[d], rating, now)
          BY <1>1, <3>3, <3>5 DEF Row
        <5> QED
          BY <5>1, <5>2 DEF RatedCard
      <4>3. log'[d] # log[d]
        <5>1. log[d] \in Seq(LogEntry) /\ log'[d] = Append(log[d], entry)
          BY <1>1, <3>3, <3>5
        <5>2. Len(log'[d]) = Len(log[d]) + 1 /\ Len(log[d]) \in Nat
          BY <5>1
        <5> QED
          BY <5>2
      <4> QED
        BY <2>1, <3>1, <3>5, <4>2, <4>3 DEF Committed
    <3> QED
      BY <3>4, <3>5
  <2> QED
    BY <1>4, <2>1, <2>2, <2>3 DEF CommitRating
<1>5. ASSUME NEW c \in CardIds, AddCard(c)
      PROVE  /\ \/ cards'[d] = cards[d] /\ log'[d] = log[d]
                \/ cards[d] = None /\ cards'[d].due = None
             /\ clock' = clock
  <2>1. PICK text \in Texts : cards' = [cards EXCEPT ![c] = NewCard(text)]
    BY <1>5 DEF AddCard, Create
  <2>2. cards[c] = None /\ UNCHANGED <<log, clock>>
    BY <1>5 DEF AddCard, Create
  <2>3. NewCard(text).due = None
    BY DEF NewCard
  <2> QED
    BY <1>1, <2>1, <2>2, <2>3 DEF Row
<1>6. ASSUME NEW c \in CardIds, RemoveCard(c)
      PROVE  /\ \/ cards'[d] = None
                \/ cards'[d] = cards[d] /\ log'[d] = log[d]
             /\ clock' = clock
  BY <1>1, <1>6 DEF RemoveCard, Delete, Row
<1>7. CASE Tick
  <2>1. clock < clock' /\ UNCHANGED <<cards, log>>
    BY <1>7 DEF Tick
  <2> QED
    BY <1>1, <1>2, <2>1
<1>8. ASSUME NEW k \in Clients,
             OpenPage(k) \/ LoadCards(k) \/ LoadFirsts(k) \/ SendRating(k) \/ ClosePage(k)
      PROVE  UNCHANGED <<cards, log, clock>>
  BY <1>8 DEF OpenPage, LoadCards, LoadFirsts, SendRating, ClosePage
<1> QED
  BY <1>1, <1>2, <1>3, <1>4, <1>5, <1>6, <1>7, <1>8 DEF StudyNext, Page, studyVars

LEMMA KeepsPlace ==
    ASSUME StudyInv, [StudyNext]_studyVars, NEW c \in CardIds,
           IsDue(cards[c], clock), cards'[c] # None, log'[c] = log[c],
           NEW d \in Ahead(StudyQueue(cards', log', clock'), c)
    PROVE  \/ d \in Ahead(StudyQueue(cards, log, clock), c) /\ log'[d] = log[d]
           \/ \E k \in Clients : /\ pc[k] = "rating" /\ shown[k] = d
                                 /\ asked[k] <= cards[c].due
<1>1. StudyInv' /\ cards \in Row /\ cards' \in Row
  BY NextStudyInv, TablesTyped DEF StudyInv, TablesInv, TypeOK, Row
<1>2. cards'[c] = cards[c] /\ clock <= clock' /\ clock \in Nat /\ clock' \in Nat
  BY RowSteps DEF IsDue
<1>3. cards[c] \in Card /\ CardWF(cards[c]) /\ cards[c].due \in Nat
      /\ cards[c].due <= clock /\ ~IsNew(cards[c])
  BY TablesInvPerCard DEF StudyInv, CardInv, IsDue, Card, CardWF, IsNew
<1>4. c \in DueIn(cards, clock) /\ c \in DueIn(cards', clock')
  BY <1>2, <1>3 DEF DueIn, IsDue
<1>5. d \in DueIn(cards', clock') /\ Before(cards', d, c)
  <2>1. PICK table \in Row : table = cards'
    BY <1>1
  <2>2. PICK logs : logs = log'
    OBVIOUS
  <2>3. PICK now : now = clock'
    OBVIOUS
  <2>4. Ahead(StudyQueue(table, logs, now), c)
          = {b \in DueIn(table, now) : Before(table, b, c)}
    BY <1>2, <1>3, <1>4, <2>1, <2>3, AheadIs
  <2>5. d \in Ahead(StudyQueue(table, logs, now), c)
    BY <2>1, <2>2, <2>3
  <2> QED
    BY <2>1, <2>3, <2>4, <2>5
<1>6. d \in CardIds /\ cards'[d] # None /\ cards'[d].due # None
      /\ cards'[d].due \in Nat /\ cards'[d].due <= cards[c].due
  <2>1. d \in CardIds /\ cards'[d] # None /\ cards'[d].due # None
    BY <1>5 DEF DueIn, IsDue
  <2>2. cards'[d].due \in Nat
    BY <1>1, <2>1 DEF Row, Card
  <2> QED
    BY <1>2, <1>3, <1>5, <2>1, <2>2 DEF Before
<1>7. CASE cards'[d] = cards[d] /\ log'[d] = log[d]
  <2>1. d \in DueIn(cards, clock)
    BY <1>2, <1>3, <1>6, <1>7 DEF DueIn, IsDue
  <2>2. Before(cards, d, c)
    BY <1>2, <1>5, <1>7 DEF Before
  <2>3. d \in Ahead(StudyQueue(cards, log, clock), c)
    BY <1>1, <1>3, <1>4, <2>1, <2>2, AheadIs
  <2> QED
    BY <1>7, <2>3
<1>8. CASE Committed(d)
  <2>1. PICK k \in Clients : /\ pc[k] = "rating" /\ shown[k] = d
                            /\ cards'[d].last_review = asked[k]
    BY <1>8 DEF Committed
  <2>2. cards'[d].due >= cards'[d].last_review
    BY <1>1, <1>6 DEF StudyInv, TablesInv, DueAfterReview
  <2>3. asked[k] \in Nat
    BY TablesTyped
  <2> QED
    BY <1>3, <1>6, <2>1, <2>2, <2>3
<1> QED
  BY <1>6, <1>7, <1>8, RowSteps

(* No Card gets in front of one that is due, but for a Rating that took    *)
(* its instant before that one was due: what stands between a due Card and *)
(* its Review can otherwise only become less (queue.rs, the sort by due).  *)
THEOREM DueKeepsItsPlace == StudySpec => NobodyPushesIn
<1> DEFINE Stays ==
      \A c \in CardIds :
         (IsDue(cards[c], clock) /\ cards'[c] # None /\ log'[c] = log[c])
         => \A d \in Ahead(StudyQueue(cards', log', clock'), c) :
               \/ d \in Ahead(StudyQueue(cards, log, clock), c) /\ log'[d] = log[d]
               \/ \E k \in Clients : /\ pc[k] = "rating" /\ shown[k] = d
                                     /\ asked[k] <= cards[c].due
<1>1. StudyInv /\ [StudyNext]_studyVars => Stays
  BY KeepsPlace
<1> HIDE DEF Stays
<1>2. StudySpec => [][Stays]_<<cards, log, clock>>
  BY <1>1, InitStudyInv, NextStudyInv, PTL DEF StudySpec
<1> QED
  BY <1>2 DEF NobodyPushesIn, Stays

-----------------------------------------------------------------------------
(* The pages agree. *)
LEMMA QueueMeetsHome ==
    ASSUME StudyInv
    PROVE  LET queue == StudyQueue(cards, log, clock)
               home  == HomeLine(cards, log, clock)
           IN  /\ home.due_count + home.new_count = Len(queue)
               /\ {queue[i] : i \in 1..home.due_count} = DueIn(cards, clock)
<1> DEFINE firsts == FirstReviews(log)
           D == DueIn(cards, clock)
           N == NewIn(cards)
           due == DueFirst(cards, clock)
           new == NewFirst(cards)
           room == Capped(Cardinality(N), Cardinality(IntroducedOn(firsts, clock)))
           queue == StudyQueue(cards, log, clock)
           home == HomeLine(cards, log, clock)
<1>1. cards \in Row /\ DOMAIN firsts \subseteq CardIds /\ DOMAIN cards = CardIds
  BY TablesTyped DEF FirstReviews, Row
<1>2. /\ queue = due \o SubSeq(new, 1, room)
      /\ due \in Seq(D) /\ new \in Seq(N)
      /\ Len(due) = Cardinality(D) /\ Len(new) = Cardinality(N)
      /\ Cardinality(D) \in Nat /\ Cardinality(N) \in Nat
      /\ room \in 0..Cardinality(N)
  <2> HIDE DEF firsts
  <2> QED
    BY <1>1, QueueShape DEF StudyQueue, firsts
<1>3. home.due_count = Cardinality(D) /\ home.new_count = room
  BY <1>1 DEF HomeLine, Summary, DueIn, NewIn
<1>4. \A c \in D : \E i \in 1..Cardinality(D) : due[i] = c
  <2>1. IsFiniteSet(D) /\ due \in SetToSeqs(D)
    BY <1>1, FiniteIds, DueListed DEF DueIn
  <2> HIDE DEF D, due
  <2> QED
    BY <2>1, ListsAll
<1> HIDE DEF D, N, due, new, room, queue, home
<1>5. Len(queue) = Cardinality(D) + room
  <2> DEFINE offered == SubSeq(new, 1, room)
  <2>1. offered \in Seq(N) /\ Len(offered) = room
    BY <1>2
  <2>2. offered \in Seq(D \cup N) /\ due \in Seq(D \cup N)
    BY <1>2, <2>1
  <2> HIDE DEF offered
  <2>3. Len(due \o offered) = Len(due) + Len(offered)
    BY <2>2
  <2> QED
    BY <1>2, <2>1, <2>3 DEF offered
<1>6. \A i \in 1..Cardinality(D) : queue[i] = due[i] /\ due[i] \in D
  BY <1>2
<1>7. {queue[i] : i \in 1..home.due_count} = D
  BY <1>3, <1>4, <1>6
<1> QED
  BY <1>2, <1>3, <1>5, <1>7 DEF D, queue, home

LEMMA PagesTellTheSame == StudyInv => PagesAgree
<1> SUFFICES ASSUME StudyInv PROVE PagesAgree
  OBVIOUS
<1> DEFINE queue == StudyQueue(cards, log, clock)
           home  == HomeLine(cards, log, clock)
           Label(card) == CardListDueLabel(card.phase, card.due, clock)
           due   == {c \in CardIds : cards[c] # None /\ cards[c].due # None}
<1>1. clock \in Nat /\ clock \in Times
  BY TablesTyped DEF StudyInv, StudyTypeOK
<1>2. \A c \in CardIds : cards[c] # None => cards[c] \in Card /\ CardWF(cards[c])
  BY TablesInvPerCard DEF StudyInv, CardInv
<1>3. \A c \in due : cards[c].phase \in Phases \ {"New"} /\ cards[c].due \in Nat
  BY <1>2 DEF Card, CardWF
<1>4. ASSUME NEW c \in due, NEW d \in due, cards[c].due <= cards[d].due
      PROVE  NotLonger(Label(cards[c]), Label(cards[d]))
  BY <1>1, <1>3, <1>4, ListOrder
<1>5. ASSUME NEW c \in due
      PROVE  Label(cards[c]) = <<0, 0>> <=> cards[c].due <= clock
  <2>1. cards[c].due <= cards[c].due
    BY <1>3
  <2> QED
    BY <1>1, <1>3, <2>1, ListOrder
<1>6. DueIn(cards, clock) = {c \in due : Label(cards[c]) = <<0, 0>>}
  <2> HIDE DEF Label
  <2> QED
    BY <1>5 DEF DueIn, IsDue
<1>7. ASSUME NEW c \in CardIds, NEW rating \in Ratings, cards[c] # None,
             ApplyRating(cards[c], rating, clock).due > clock
      PROVE  IntervalLabel(cards[c], rating, clock)
               = Label(ApplyRating(cards[c], rating, clock))
  <2> DEFINE after == ApplyRating(cards[c], rating, clock)
  <2>1. RatedCard(cards[c], rating, clock, after)
    BY <1>1, <1>2, <1>7, ApplyRatingCorrect
  <2>2. after \in Card /\ after.phase # "New" /\ after.due # None
    BY <2>1 DEF RatedCard, CardWF
  <2>3. after.due \in Nat /\ ~(after.due <= clock)
    BY <1>1, <1>7, <2>2 DEF Card
  <2>4. IntervalLabel(cards[c], rating, clock) = HumanizeDueDelta(after.due - clock)
    BY DEF IntervalLabel, PreviewDueDelta
  <2> HIDE DEF after
  <2>5. Label(after) = HumanizeDueDelta(after.due - clock)
    BY <2>2, <2>3 DEF CardListDueLabel
  <2> QED
    BY <2>4, <2>5 DEF after
<1>8. /\ home.due_count + home.new_count = Len(queue)
      /\ {queue[i] : i \in 1..home.due_count} = DueIn(cards, clock)
  BY QueueMeetsHome
<1> HIDE DEF Label, queue, home, due
<1>9. /\ home.due_count + home.new_count = Len(queue)
      /\ {queue[i] : i \in 1..home.due_count} = {c \in due : Label(cards[c]) = <<0, 0>>}
      /\ \A c, d \in due :
            cards[c].due <= cards[d].due => NotLonger(Label(cards[c]), Label(cards[d]))
      /\ \A c \in CardIds, rating \in Ratings : cards[c] # None =>
            LET after == ApplyRating(cards[c], rating, clock) IN
            after.due > clock => IntervalLabel(cards[c], rating, clock) = Label(after)
  BY <1>4, <1>6, <1>7, <1>8
<1> QED
  BY <1>9 DEF PagesAgree, Label, queue, home, due

(* In every state the home page counts the Cards that Study offers, the    *)
(* Deck page calls "due now" just the due ones among them and orders its   *)
(* labels like the due instants, and a button shows the interval that the  *)
(* Deck page will show.                                                    *)
THEOREM PagesAlwaysAgree == StudySpec => []PagesAgree
BY PagesTellTheSame, InitStudyInv, NextStudyInv, PTL DEF StudySpec

-----------------------------------------------------------------------------
(* The daily cap.  A page offers a New Card only while its day has room,   *)
(* but it may be rated after others were: what keeps the cap is that all   *)
(* open pages can introduce only one and the same Card, the oldest New     *)
(* one, and that a late commit which moves a first Review to an earlier    *)
(* day finds the younger Cards of that day still to be introduced.         *)
LocalDays == {LocalDay(t) : t \in Times}

(* The Cards that were introduced on a day. *)
Intro(day) == {c \in CardIds : log[c] # <<>> /\ LocalDay(First(c)) = day}

(* The offered Card was introduced by the instant t, or every older one    *)
(* was introduced on the day of t or earlier.                              *)
OfferDays(c, t) ==
    cards[c] # None =>
        \/ Reviewed(c, t)
        \/ \A e \in CardIds : (e < c /\ cards[e] # None) =>
              log[e] # <<>> /\ LocalDay(First(e)) <= LocalDay(t)

(* A New Card that is shown finds room on any day on which it is rated.    *)
RoomToShow(c, t) ==
    (cards[c] # None /\ log[c] = <<>>) =>
        \A day \in LocalDays :
            LocalDay(t) <= day => Cardinality(Intro(day)) < NewCardsPerDay

(* A Review that would introduce its Card finds room on its day. *)
RoomToRate(c, t) ==
    (cards[c] # None /\ ~Reviewed(c, t) /\ c \notin Intro(LocalDay(t))) =>
        Cardinality(Intro(LocalDay(t))) < NewCardsPerDay

CapFits(step, c, t) ==
    /\ step \in {"shown", "rating"} => OfferDays(c, t)
    /\ step = "shown" => RoomToShow(c, t)
    /\ step = "rating" => RoomToRate(c, t)

CapInv ==
    /\ \A day \in LocalDays : Cardinality(Intro(day)) <= NewCardsPerDay
    /\ \A k \in Clients : pc[k] \in {"cards", "firsts"} => LocalDay(asked[k]) = LocalDay(clock)
    /\ \A k \in Clients : CapFits(pc[k], shown[k], asked[k])

LEMMA DaysTyped ==
    /\ LocalDays \subseteq Int
    /\ \A t \in Times : LocalDay(t) \in LocalDays
BY DayMonotone, TimesAssumption DEF LocalDays

(* Sets of Cards. *)
LEMMA NoMore ==
    ASSUME NEW S, NEW T, S \subseteq T, T \subseteq CardIds
    PROVE  /\ Cardinality(S) \in Nat /\ Cardinality(T) \in Nat
           /\ Cardinality(S) <= Cardinality(T)
<1>1. IsFiniteSet(T)
  BY FiniteIds
<1> QED
  BY <1>1, FiniteIds, FS_Subset

LEMMA OneMore ==
    ASSUME NEW S, S \subseteq CardIds, NEW c \in CardIds
    PROVE  /\ Cardinality(S \cup {c}) \in Nat /\ Cardinality(S) \in Nat
           /\ Cardinality(S \cup {c}) <= Cardinality(S) + 1
           /\ c \in S => Cardinality(S) = Cardinality(S \ {c}) + 1
<1>1. IsFiniteSet(S)
  BY FiniteIds
<1>2. Cardinality(S) \in Nat /\ Cardinality(S \cup {c}) \in Nat
  BY FiniteIds
<1>3. Cardinality(S \cup {c}) <= Cardinality(S) + 1
  <2>1. CASE c \in S
    <3>1. Cardinality(S \cup {c}) = Cardinality(S)
      BY <1>1, <2>1, FS_AddElement
    <3> QED
      BY <1>2, <3>1
  <2>2. CASE c \notin S
    <3>1. Cardinality(S \cup {c}) = Cardinality(S) + 1
      BY <1>1, <2>2, FS_AddElement
    <3> QED
      BY <1>2, <3>1
  <2> QED
    BY <2>1, <2>2
<1>4. c \in S => Cardinality(S) = Cardinality(S \ {c}) + 1
  <2> SUFFICES ASSUME c \in S PROVE Cardinality(S) = Cardinality(S \ {c}) + 1
    OBVIOUS
  <2>1. Cardinality(S \ {c}) = Cardinality(S) - 1
    BY <1>1, FS_RemoveElement
  <2> QED
    BY <1>2, <2>1
<1> QED
  BY <1>2, <1>3, <1>4

LEMMA OfferDaysStable ==
    ASSUME StudyInv, Evolves, NEW c \in used, NEW t \in Nat, OfferDays(c, t)
    PROVE  OfferDays(c, t)'
<1>1. /\ \A d \in used : cards'[d] # None => cards[d] # None
      /\ c \in CardIds /\ \A e \in CardIds : e < c => e \in used
  BY TablesTyped DEF Evolves, StudyInv, UsedInv
<1> SUFFICES ASSUME cards'[c] # None
             PROVE  \/ Reviewed(c, t)'
                    \/ \A e \in CardIds : (e < c /\ cards'[e] # None) =>
                          log'[e] # <<>> /\ LocalDay(FirstReview(log'[e])) <= LocalDay(t)
  BY DEF OfferDays, First
<1>2. CASE Reviewed(c, t)
  BY <1>1, <1>2, ReviewedStable
<1>3. CASE ~Reviewed(c, t)
  <2>1. ASSUME NEW e \in CardIds, e < c, cards'[e] # None
        PROVE  log'[e] # <<>> /\ LocalDay(FirstReview(log'[e])) <= LocalDay(t)
    <3>1. log[e] # <<>> /\ LocalDay(First(e)) <= LocalDay(t)
      BY <1>1, <1>3, <2>1 DEF OfferDays
    <3>2. log'[e] # <<>> /\ FirstReview(log'[e]) <= First(e) /\ First(e) \in Nat
      BY <2>1, <3>1, TablesTyped DEF Evolves
    <3>3. FirstReview(log'[e]) \in Nat
      BY <3>2, FirstIs DEF Evolves
    <3>4. /\ LocalDay(FirstReview(log'[e])) <= LocalDay(First(e))
          /\ LocalDay(FirstReview(log'[e])) \in Int /\ LocalDay(First(e)) \in Int
          /\ LocalDay(t) \in Int
      BY <3>2, <3>3, DayMonotone
    <3> QED
      BY <3>1, <3>2, <3>4
  <2> QED
    BY <2>1
<1> QED
  BY <1>2, <1>3

(* A Card that counts on the day of t is not introduced earlier without    *)
(* being reviewed by t.                                                    *)
LEMMA IntroStays ==
    ASSUME StudyInv, Evolves, NEW c \in CardIds, NEW t \in Times,
           cards'[c] # None, ~Reviewed(c, t)', c \in Intro(LocalDay(t))
    PROVE  c \in Intro(LocalDay(t))'
<1>1. log[c] # <<>> /\ LocalDay(First(c)) = LocalDay(t) /\ First(c) \in Nat /\ t \in Nat
  BY TablesTyped, TimesAssumption DEF Intro
<1>2. /\ log'[c] # <<>> /\ FirstReview(log'[c]) <= First(c)
      /\ FirstReview(log'[c]) \in Nat
  BY <1>1, FirstIs DEF Evolves
<1>3. t < FirstReview(log'[c])
  BY <1>1, <1>2 DEF Reviewed, First
<1>4. /\ LocalDay(t) <= LocalDay(FirstReview(log'[c]))
      /\ LocalDay(FirstReview(log'[c])) <= LocalDay(First(c))
      /\ LocalDay(t) \in Int /\ LocalDay(FirstReview(log'[c])) \in Int
  BY <1>1, <1>2, <1>3, DayMonotone
<1> QED
  BY <1>1, <1>2, <1>4 DEF Intro, First

(* A step that introduces no Card leaves every page its room. *)
LEMMA CapFitsStable ==
    ASSUME StudyInv, Evolves, NEW step, NEW c \in CardIds \cup {None}, NEW t \in Times,
           step \in {"shown", "rating"} => c \in used,
           \A day \in LocalDays : Intro(day)' \subseteq Intro(day),
           CapFits(step, c, t)
    PROVE  CapFits(step, c, t)'
<1> SUFFICES ASSUME step \in {"shown", "rating"} PROVE CapFits(step, c, t)'
  BY DEF CapFits
<1>1. c \in used /\ c \in CardIds /\ t \in Nat /\ LocalDay(t) \in LocalDays
  BY TablesTyped, TimesAssumption, DaysTyped
<1>2. OfferDays(c, t)'
  BY <1>1, OfferDaysStable DEF CapFits
<1>3. cards'[c] # None => cards[c] # None
  BY <1>1 DEF Evolves
<1>4. \A day \in LocalDays : Intro(day) \subseteq CardIds
  BY DEF Intro
<1>5. ASSUME step = "shown" PROVE RoomToShow(c, t)'
  <2> SUFFICES ASSUME cards'[c] # None, log'[c] = <<>>, NEW day \in LocalDays,
                      LocalDay(t) <= day
               PROVE  Cardinality(Intro(day))' < NewCardsPerDay
    BY DEF RoomToShow
  <2>1. log[c] = <<>>
    BY <1>1 DEF Evolves
  <2>2. Cardinality(Intro(day)) < NewCardsPerDay
    BY <1>3, <1>5, <2>1 DEF CapFits, RoomToShow
  <2>3. Intro(day)' \subseteq Intro(day) /\ Intro(day) \subseteq CardIds
    BY <1>4
  <2>4. ASSUME NEW S, S \subseteq Intro(day) PROVE Cardinality(S) < NewCardsPerDay
    BY <2>2, <2>3, <2>4, NoMore, QueueAssumption
  <2> QED
    BY <2>3, <2>4
<1>6. ASSUME step = "rating" PROVE RoomToRate(c, t)'
  <2> DEFINE day == LocalDay(t)
  <2> SUFFICES ASSUME cards'[c] # None, ~Reviewed(c, t)', c \notin Intro(day)'
               PROVE  Cardinality(Intro(day))' < NewCardsPerDay
    BY DEF RoomToRate
  <2>1. ~Reviewed(c, t) /\ c \notin Intro(day)
    BY <1>1, ReviewedStable, IntroStays
  <2>2. Cardinality(Intro(day)) < NewCardsPerDay
    BY <1>3, <1>6, <2>1 DEF CapFits, RoomToRate
  <2>3. Intro(day)' \subseteq Intro(day) /\ Intro(day) \subseteq CardIds
    BY <1>1, <1>4
  <2> HIDE DEF day
  <2>4. ASSUME NEW S, S \subseteq Intro(day) PROVE Cardinality(S) < NewCardsPerDay
    BY <2>2, <2>3, <2>4, NoMore, QueueAssumption
  <2> QED
    BY <2>3, <2>4
<1> QED
  BY <1>2, <1>5, <1>6 DEF CapFits

(* What a Review does to the introductions: it may add its own Card to its *)
(* own day, unless the Card was reviewed by then.                          *)
LEMMA RateIntro ==
    ASSUME StudyInv, NEW c \in CardIds, NEW rating \in Ratings, NEW t \in Times,
           Rate(c, rating, t), NEW day \in LocalDays
    PROVE  /\ Intro(day)' \subseteq Intro(day) \cup {c}
           /\ (Reviewed(c, t) \/ day # LocalDay(t)) => Intro(day)' \subseteq Intro(day)
<1>1. /\ \A d \in CardIds \ {c} : log'[d] = log[d]
      /\ log'[c] # <<>>
      /\ FirstReview(log'[c]) = IF log[c] = <<>> \/ t < First(c) THEN t ELSE First(c)
  BY RateFirsts
<1>2. Intro(day)' \subseteq Intro(day) \cup {c}
  BY <1>1 DEF Intro, First
<1>3. ASSUME Reviewed(c, t) \/ day # LocalDay(t), c \in Intro(day)'
      PROVE  c \in Intro(day)
  <2>1. LocalDay(FirstReview(log'[c])) = day
    BY <1>3 DEF Intro, First
  <2>2. FirstReview(log'[c]) = First(c) /\ log[c] # <<>>
    <3>1. CASE Reviewed(c, t)
      <4>1. log[c] # <<>> /\ First(c) \in Nat /\ t \in Nat /\ First(c) <= t
        BY <3>1, TablesTyped, TimesAssumption DEF Reviewed
      <4> QED
        BY <1>1, <4>1
    <3>2. CASE ~Reviewed(c, t)
      BY <1>1, <1>3, <2>1, <3>2
    <3> QED
      BY <3>1, <3>2
  <2> QED
    BY <2>1, <2>2 DEF Intro
<1> QED
  BY <1>2, <1>3

(* A Review of Card d with the instant u is committed while another page   *)
(* waits that offers Card c and took the instant t.                        *)
LEMMA CapFitsRate ==
    ASSUME StudyInv, Evolves,
           NEW step \in {"shown", "rating"}, NEW c \in used, NEW t \in Times,
           NEW d \in used, NEW rating \in Ratings, NEW u \in Times, Rate(d, rating, u),
           CapFits(step, c, t), OfferDays(d, u), ~Reviewed(d, u)
    PROVE  CapFits(step, c, t)'
<1>1. /\ c \in CardIds /\ d \in CardIds /\ c \in Nat /\ d \in Nat /\ t \in Nat /\ u \in Nat
      /\ LocalDay(t) \in Int /\ LocalDay(u) \in Int
      /\ LocalDay(t) \in LocalDays /\ LocalDay(u) \in LocalDays /\ LocalDays \subseteq Int
  BY TablesTyped, TimesAssumption, DaysTyped, DayMonotone, StudyAssumption
<1>2. OfferDays(c, t)'
  BY <1>1, OfferDaysStable DEF CapFits
<1>3. cards[d] # None /\ (cards'[c] # None => cards[c] # None)
  BY DEF Evolves, Rate
<1>4. \A day \in LocalDays :
         /\ Intro(day)' \subseteq Intro(day) \cup {d}
         /\ day # LocalDay(u) => Intro(day)' \subseteq Intro(day)
         /\ Intro(day) \subseteq CardIds
  BY <1>1, RateIntro DEF Intro
<1>5. \A e \in CardIds : (e < d /\ cards[e] # None) =>
         log[e] # <<>> /\ LocalDay(First(e)) <= LocalDay(u)
  BY <1>3 DEF OfferDays
(* If d is older than c and c is still to be introduced, the day of u is   *)
(* not after that of t, and d was introduced between them.                 *)
<1>6. ASSUME d < c, cards[c] # None, ~Reviewed(c, t), LocalDay(t) <= LocalDay(u)
      PROVE  LocalDay(t) = LocalDay(u) /\ d \in Intro(LocalDay(u))
  <2>1. log[d] # <<>> /\ LocalDay(First(d)) <= LocalDay(t)
    BY <1>1, <1>3, <1>6 DEF OfferDays, CapFits
  <2>2. First(d) \in Nat /\ u < First(d)
    BY <1>1, <2>1, TablesTyped DEF Reviewed
  <2>3. LocalDay(u) <= LocalDay(First(d)) /\ LocalDay(First(d)) \in Int
    BY <1>1, <2>2, DayMonotone
  <2>4. LocalDay(t) = LocalDay(u) /\ LocalDay(First(d)) = LocalDay(u)
    BY <1>1, <1>6, <2>1, <2>3
  <2> QED
    BY <1>1, <2>1, <2>4 DEF Intro
<1>7. ASSUME step = "shown" PROVE RoomToShow(c, t)'
  <2> SUFFICES ASSUME cards'[c] # None, log'[c] = <<>>, NEW day \in LocalDays,
                      LocalDay(t) <= day
               PROVE  Cardinality(Intro(day))' < NewCardsPerDay
    BY DEF RoomToShow
  <2>1. log[c] = <<>> /\ cards[c] # None /\ c # d
    BY <1>1, <1>3, RateFirsts DEF Evolves
  <2>2. Cardinality(Intro(day)) < NewCardsPerDay
    BY <1>7, <2>1 DEF CapFits, RoomToShow
  <2>3. d < c
    BY <1>1, <1>5, <2>1
  <2>4. day = LocalDay(u) => d \in Intro(day)
    BY <1>6, <2>1, <2>3 DEF Reviewed
  <2>5. Intro(day)' \subseteq Intro(day) /\ Intro(day) \subseteq CardIds
    BY <1>4, <2>4
  <2>6. ASSUME NEW S, S \subseteq Intro(day) PROVE Cardinality(S) < NewCardsPerDay
    BY <2>2, <2>5, <2>6, NoMore, QueueAssumption
  <2> QED
    BY <2>5, <2>6
<1>8. ASSUME step = "rating" PROVE RoomToRate(c, t)'
  <2> DEFINE day == LocalDay(t)
  <2> SUFFICES ASSUME cards'[c] # None, ~Reviewed(c, t)', c \notin Intro(day)'
               PROVE  Cardinality(Intro(day))' < NewCardsPerDay
    BY DEF RoomToRate
  <2>1. cards[c] # None /\ ~Reviewed(c, t) /\ c \notin Intro(day)
    BY <1>1, <1>3, ReviewedStable, IntroStays
  <2>2. Cardinality(Intro(day)) < NewCardsPerDay
    BY <1>8, <2>1 DEF CapFits, RoomToRate
  <2>3. ASSUME day = LocalDay(u), d # c PROVE d \in Intro(day)
    <3>1. CASE d < c
      BY <1>1, <1>6, <2>1, <2>3, <3>1
    <3>2. CASE ~(d < c)
      <4>1. log[c] # <<>> /\ LocalDay(First(c)) <= day
        BY <1>1, <1>5, <2>1, <2>3, <3>2
      <4>2. First(c) \in Nat /\ t < First(c)
        BY <1>1, <2>1, <4>1, TablesTyped DEF Reviewed
      <4>3. day <= LocalDay(First(c)) /\ LocalDay(First(c)) \in Int
        BY <1>1, <4>2, DayMonotone
      <4> QED
        BY <1>1, <2>1, <4>1, <4>3 DEF Intro
    <3> QED
      BY <3>1, <3>2
  <2>4. Intro(day)' \subseteq Intro(day) /\ Intro(day) \subseteq CardIds
    BY <1>1, <1>4, <2>3
  <2> HIDE DEF day
  <2>5. ASSUME NEW S, S \subseteq Intro(day) PROVE Cardinality(S) < NewCardsPerDay
    BY <2>2, <2>4, <2>5, NoMore, QueueAssumption
  <2> QED
    BY <2>4, <2>5
<1> QED
  BY <1>2, <1>7, <1>8 DEF CapFits

(* The Review itself keeps the cap. *)
LEMMA CapRate ==
    ASSUME StudyInv, CapInv, NEW d \in CardIds, NEW rating \in Ratings, NEW u \in Times,
           Rate(d, rating, u), RoomToRate(d, u), NEW day \in LocalDays
    PROVE  Cardinality(Intro(day))' <= NewCardsPerDay
<1>1. /\ Intro(day)' \subseteq Intro(day) \cup {d}
      /\ (Reviewed(d, u) \/ day # LocalDay(u)) => Intro(day)' \subseteq Intro(day)
      /\ Intro(day) \subseteq CardIds
  BY RateIntro DEF Intro
<1>2. Cardinality(Intro(day)) <= NewCardsPerDay
  BY DEF CapInv
<1>3. CASE Reviewed(d, u) \/ day # LocalDay(u) \/ d \in Intro(day)
  <2>1. ASSUME NEW S, S \subseteq Intro(day) PROVE Cardinality(S) <= NewCardsPerDay
    BY <1>1, <1>2, <2>1, NoMore, QueueAssumption
  <2> QED
    BY <1>1, <1>3, <2>1
<1>4. CASE ~Reviewed(d, u) /\ day = LocalDay(u) /\ d \notin Intro(day)
  <2>1. Cardinality(Intro(day)) < NewCardsPerDay
    BY <1>4 DEF RoomToRate, Rate
  <2>2. ASSUME NEW S, S \subseteq Intro(day) \cup {d}
        PROVE  Cardinality(S) <= NewCardsPerDay
    <3>1. Cardinality(S) <= Cardinality(Intro(day) \cup {d}) /\ Cardinality(S) \in Nat
      BY <1>1, <2>2, NoMore
    <3>2. /\ Cardinality(Intro(day) \cup {d}) <= Cardinality(Intro(day)) + 1
          /\ Cardinality(Intro(day)) \in Nat /\ Cardinality(Intro(day) \cup {d}) \in Nat
      BY <1>1, OneMore
    <3> QED
      BY <2>1, <3>1, <3>2, QueueAssumption
  <2> QED
    BY <1>1, <2>2
<1> QED
  BY <1>3, <1>4

LEMMA InitCapInv == StudyInit => CapInv
<1> SUFFICES ASSUME StudyInit PROVE CapInv
  OBVIOUS
<1>1. \A day \in LocalDays : Intro(day) = {}
  BY DEF StudyInit, Intro
<1>2. Cardinality({}) = 0 /\ 0 <= NewCardsPerDay
  BY FS_EmptySet, QueueAssumption
<1>3. \A day \in LocalDays : Cardinality(Intro(day)) <= NewCardsPerDay
  BY <1>1, <1>2
<1>4. \A k \in Clients : pc[k] = "away"
  BY DEF StudyInit
<1> QED
  BY <1>3, <1>4 DEF CapInv, CapFits

(* The step of one Client that changes no table. *)
LEMMA CapOfReader ==
    ASSUME StudyInv, CapInv, NEW k \in Clients,
           NEW step \in {"away", "cards", "firsts", "shown", "rating"},
           NEW v, NEW c \in CardIds \cup {None}, NEW t \in Times,
           Moves(k, step, v, c, t), UNCHANGED <<cards, log, clock>>,
           step \in {"cards", "firsts"} => LocalDay(t) = LocalDay(clock),
           CapFits(step, c, t)
    PROVE  CapInv'
<1>1. /\ \A day \in LocalDays : Intro(day)' = Intro(day)
      /\ pc'[k] = step /\ shown'[k] = c /\ asked'[k] = t
      /\ \A j \in Clients \ {k} :
            pc'[j] = pc[j] /\ shown'[j] = shown[j] /\ asked'[j] = asked[j]
  BY DEF Moves, StudyInv, StudyTypeOK, Intro, First
<1>2. ASSUME NEW s, NEW d, NEW u, CapFits(s, d, u) PROVE CapFits(s, d, u)'
  BY <1>2 DEF CapFits, OfferDays, RoomToShow, RoomToRate, Reviewed, Intro, First
<1>3. ASSUME NEW j \in Clients PROVE CapFits(pc[j], shown[j], asked[j])'
  <2>1. CASE j = k
    BY <1>1, <1>2, <2>1
  <2>2. CASE j # k
    BY <1>1, <1>2, <2>2 DEF CapInv
  <2> QED
    BY <2>1, <2>2
<1>4. \A j \in Clients : pc'[j] \in {"cards", "firsts"} => LocalDay(asked'[j]) = LocalDay(clock')
  BY <1>1 DEF CapInv
<1>5. \A day \in LocalDays : Cardinality(Intro(day)') <= NewCardsPerDay
  BY <1>1 DEF CapInv
<1> QED
  BY <1>3, <1>4, <1>5 DEF CapInv

(* What a page shows has room if its day is not over when it is loaded. *)
LEMMA ShownInTime ==
    ASSUME StudyInv, NEW k \in Clients, pc[k] = "firsts",
           StudyQueue(view[k], log, asked[k]) # <<>>,
           LocalDay(asked[k]) = LocalDay(clock)
    PROVE  CapFits("shown", Head(StudyQueue(view[k], log, asked[k])), asked[k])
<1> DEFINE c == Head(StudyQueue(view[k], log, asked[k]))
           t == asked[k]
<1>1. /\ t \in Times /\ t \in Nat /\ clock \in Nat /\ LocalDay(t) = LocalDay(clock)
  BY TablesTyped
<1>2. /\ c \in CardIds
      /\ (cards[c] # None /\ log[c] = <<>>) =>
             Cardinality(IntroducedOn(FirstReviews(log), t)) < NewCardsPerDay
      /\ cards[c] # None => Reviewed(c, t) \/ OlderReviewed(c)
  BY HeadFits
<1> HIDE DEF c, t
<1>3. \A e \in CardIds : log[e] # <<>> =>
         /\ First(e) \in Nat /\ LocalDay(First(e)) \in Int
         /\ LocalDay(First(e)) <= LocalDay(t)
  <2> SUFFICES ASSUME NEW e \in CardIds, log[e] # <<>>
               PROVE  /\ First(e) \in Nat /\ LocalDay(First(e)) \in Int
                      /\ LocalDay(First(e)) <= LocalDay(t)
    OBVIOUS
  <2>1. First(e) \in Nat /\ First(e) <= clock
    BY TablesTyped DEF StudyInv, ClockInv
  <2> QED
    BY <1>1, <2>1, DayMonotone
<1>4. OfferDays(c, t)
  BY <1>2, <1>3 DEF OfferDays, OlderReviewed
<1>5. RoomToShow(c, t)
  <2> SUFFICES ASSUME cards[c] # None, log[c] = <<>>, NEW day \in LocalDays,
                      LocalDay(t) <= day
               PROVE  Cardinality(Intro(day)) < NewCardsPerDay
    BY DEF RoomToShow
  <2>1. Cardinality(IntroducedOn(FirstReviews(log), t)) < NewCardsPerDay
    BY <1>2
  <2>2. IntroducedOn(FirstReviews(log), t) = Intro(LocalDay(t))
    BY DEF IntroducedOn, FirstReviews, Intro, First
  <2>3. Intro(day) \subseteq Intro(LocalDay(t))
    <3>1. day \in Int /\ LocalDay(t) \in Int
      BY <1>1, DaysTyped
    <3>2. ASSUME NEW e \in Intro(day) PROVE day = LocalDay(t)
      <4>1. day <= LocalDay(t)
        BY <1>3 DEF Intro
      <4> QED
        BY <3>1, <4>1
    <3> QED
      BY <3>2
  <2>4. Intro(LocalDay(t)) \subseteq CardIds
    BY DEF Intro
  <2> QED
    BY <2>1, <2>2, <2>3, <2>4, NoMore, QueueAssumption
<1> QED
  BY <1>4, <1>5 DEF CapFits, c, t

(* The next page of a Client, from the page it loads. *)
LEMMA LoadFirstsMoves ==
    ASSUME StudyInv, NEW k \in Clients, LoadFirsts(k)
    PROVE  LET queue == StudyQueue(view[k], log, asked[k]) IN
           /\ pc[k] = "firsts" /\ asked[k] \in Times /\ UNCHANGED <<cards, log, clock>>
           /\ queue = <<>> => Moves(k, "away", None, None, asked[k])
           /\ queue # <<>> => /\ Head(queue) \in CardIds
                              /\ Moves(k, "shown", None, Head(queue), asked[k])
<1> DEFINE queue == StudyQueue(view[k], log, asked[k])
<1>1. /\ pc[k] = "firsts" /\ shown[k] = None /\ asked[k] \in Times
      /\ UNCHANGED <<cards, log, clock>>
      /\ view' = [view EXCEPT ![k] = None] /\ asked' = [asked EXCEPT ![k] = asked[k]]
  BY DEF LoadFirsts, StudyInv, StudyTypeOK
<1>2. ASSUME queue = <<>> PROVE Moves(k, "away", None, None, asked[k])
  <2>1. pc' = [pc EXCEPT ![k] = "away"] /\ shown' = shown
    BY <1>2 DEF LoadFirsts
  <2> QED
    BY <1>1, <2>1 DEF Moves, StudyInv, StudyTypeOK
<1>3. ASSUME queue # <<>>
      PROVE  Head(queue) \in CardIds /\ Moves(k, "shown", None, Head(queue), asked[k])
  <2>1. Head(queue) \in CardIds
    BY <1>1, <1>3, HeadFits
  <2> QED
    BY <1>1, <1>3, <2>1 DEF LoadFirsts, Moves
<1> QED
  BY <1>1, <1>2, <1>3

LEMMA CapLoadFirsts ==
    ASSUME StudyInv, CapInv, NEW k \in Clients, LoadFirsts(k)
    PROVE  CapInv'
<1> DEFINE queue == StudyQueue(view[k], log, asked[k])
           c == Head(queue)
           t == asked[k]
<1>1. /\ pc[k] = "firsts" /\ t \in Times /\ UNCHANGED <<cards, log, clock>>
      /\ LocalDay(t) = LocalDay(clock)
      /\ queue = <<>> => Moves(k, "away", None, None, t)
      /\ queue # <<>> => c \in CardIds /\ Moves(k, "shown", None, c, t)
  BY LoadFirstsMoves DEF CapInv
<1>2. CapFits("away", None, t)
  BY DEF CapFits
<1>3. queue # <<>> => CapFits("shown", c, t)
  BY <1>1, ShownInTime
<1> HIDE DEF c, t, queue
<1> QED
  BY <1>1, <1>2, <1>3, CapOfReader

(* A page with room is rated in time, on any later day. *)
LEMMA RatedInTime ==
    ASSUME StudyInv, NEW k \in Clients, pc[k] = "shown",
           CapFits("shown", shown[k], asked[k])
    PROVE  CapFits("rating", shown[k], clock)
<1> DEFINE c == shown[k]
           t == asked[k]
<1>1. c \in CardIds /\ CapFits("shown", c, t)
  BY DEF StudyInv, StudyTypeOK
<1>2. /\ t \in Nat /\ clock \in Nat /\ clock \in Times /\ t <= clock
      /\ LocalDay(t) <= LocalDay(clock) /\ LocalDay(clock) \in LocalDays
      /\ LocalDay(t) \in Int /\ LocalDay(clock) \in Int
  BY TablesTyped, DaysTyped, DayMonotone DEF StudyInv, StudyTypeOK, ClockInv
<1>3. \A e \in CardIds : log[e] # <<>> =>
         First(e) \in Nat /\ First(e) <= clock /\ LocalDay(First(e)) \in Int
  BY TablesTyped, DayMonotone DEF StudyInv, ClockInv
<1> HIDE DEF c, t
<1>4. OfferDays(c, clock)
  <2>1. cards[c] # None => Reviewed(c, clock) \/ \A e \in CardIds :
           (e < c /\ cards[e] # None) => log[e] # <<>> /\ LocalDay(First(e)) <= LocalDay(t)
    BY <1>1, <1>2, <1>3 DEF CapFits, OfferDays, Reviewed
  <2> QED
    BY <1>2, <1>3, <2>1 DEF OfferDays
<1>5. RoomToRate(c, clock)
  BY <1>1, <1>2, <1>3 DEF CapFits, RoomToShow, RoomToRate, Reviewed
<1> QED
  BY <1>4, <1>5 DEF CapFits, c

LEMMA CapSendRating ==
    ASSUME StudyInv, CapInv, NEW k \in Clients, SendRating(k)
    PROVE  CapInv'
<1>1. /\ pc[k] = "shown" /\ view[k] = None /\ shown[k] \in CardIds /\ clock \in Times
      /\ Moves(k, "rating", None, shown[k], clock) /\ UNCHANGED <<cards, log, clock>>
      /\ CapFits("shown", shown[k], asked[k])
  BY DEF SendRating, Moves, StudyInv, StudyTypeOK, CapInv
<1>2. CapFits("rating", shown[k], clock)
  BY <1>1, RatedInTime
<1> QED
  BY <1>1, <1>2, CapOfReader

(* Steps in which no page moves. *)
LEMMA CapOfOthers ==
    ASSUME StudyInv, CapInv, Evolves, UNCHANGED pages,
           \A day \in LocalDays : Intro(day)' \subseteq Intro(day),
           \A k \in Clients : pc[k] \in {"cards", "firsts"} => LocalDay(clock') = LocalDay(clock)
    PROVE  CapInv'
<1>1. ASSUME NEW day \in LocalDays PROVE Cardinality(Intro(day)') <= NewCardsPerDay
  <2>1. Intro(day)' \subseteq Intro(day) /\ Intro(day) \subseteq CardIds
        /\ Cardinality(Intro(day)) <= NewCardsPerDay
    BY DEF Intro, CapInv
  <2>2. ASSUME NEW S, S \subseteq Intro(day) PROVE Cardinality(S) <= NewCardsPerDay
    BY <2>1, <2>2, NoMore, QueueAssumption
  <2> QED
    BY <2>1, <2>2
<1>2. \A k \in Clients :
         pc'[k] \in {"cards", "firsts"} => LocalDay(asked'[k]) = LocalDay(clock')
  BY DEF pages, CapInv
<1>3. ASSUME NEW k \in Clients PROVE CapFits(pc[k], shown[k], asked[k])'
  <2>1. pc'[k] = pc[k] /\ shown'[k] = shown[k] /\ asked'[k] = asked[k]
    BY DEF pages
  <2>2. /\ shown[k] \in CardIds \cup {None} /\ asked[k] \in Times
        /\ pc[k] \in {"shown", "rating"} => shown[k] \in used
        /\ CapFits(pc[k], shown[k], asked[k])
    BY DEF StudyInv, StudyTypeOK, CapInv, PageFits, OfferFits
  <2>3. ASSUME NEW s, NEW c \in CardIds \cup {None}, NEW t \in Times,
               s \in {"shown", "rating"} => c \in used, CapFits(s, c, t)
        PROVE  CapFits(s, c, t)'
    BY <2>3, CapFitsStable
  <2> QED
    BY <2>1, <2>2, <2>3
<1> QED
  BY <1>1, <1>2, <1>3 DEF CapInv

LEMMA CapCommitRating ==
    ASSUME StudyInv, CapInv, NEW k \in Clients, CommitRating(k)
    PROVE  CapInv'
<1> DEFINE d == shown[k]
           u == asked[k]
<1>1. /\ pc[k] = "rating" /\ view[k] = None /\ d \in CardIds /\ d \in used
      /\ u \in Times /\ u <= clock
      /\ Moves(k, "away", None, None, u) /\ UNCHANGED <<clock, used>>
      /\ OfferDays(d, u) /\ RoomToRate(d, u)
  BY DEF CommitRating, Moves, StudyInv, StudyTypeOK, ClockInv, PageFits, OfferFits,
         CapInv, CapFits
<1>2. CASE UNCHANGED <<cards, log>>
  <2>1. CapFits("away", None, u)
    BY DEF CapFits
  <2> QED
    BY <1>1, <1>2, <2>1, CapOfReader
<1>3. ASSUME NEW rating \in Ratings, Rate(d, rating, u)
      PROVE  CapInv'
  <2>1. Evolves
    BY <1>1, <1>3, RateEvolves
  <2>2. PICK t \in Times : t = u
    BY <1>1
  <2>3. PICK c \in used : c = d
    BY <1>1
  <2>4. Rate(c, rating, t) /\ OfferDays(c, t) /\ RoomToRate(c, t) /\ c \in CardIds
    BY <1>1, <1>3, <2>2, <2>3
  <2>5. ASSUME NEW day \in LocalDays PROVE Cardinality(Intro(day)') <= NewCardsPerDay
    BY <2>4, CapRate
  <2>6. ASSUME NEW s, NEW e \in CardIds \cup {None}, NEW v \in Times,
               s \in {"shown", "rating"} => e \in used, CapFits(s, e, v)
        PROVE  CapFits(s, e, v)'
    <3>1. CASE Reviewed(c, t)
      <4>1. ASSUME NEW day \in LocalDays PROVE Intro(day)' \subseteq Intro(day)
        BY <2>4, <3>1, RateIntro
      <4> QED
        BY <2>1, <2>6, <4>1, CapFitsStable
    <3>2. CASE ~Reviewed(c, t)
      <4>1. CASE s \in {"shown", "rating"}
        BY <2>1, <2>4, <2>6, <3>2, <4>1, CapFitsRate
      <4>2. CASE s \notin {"shown", "rating"}
        BY <4>2 DEF CapFits
      <4> QED
        BY <4>1, <4>2
    <3> QED
      BY <3>1, <3>2
  <2>7. ASSUME NEW j \in Clients
        PROVE  /\ CapFits(pc[j], shown[j], asked[j])'
               /\ pc'[j] \in {"cards", "firsts"} => LocalDay(asked'[j]) = LocalDay(clock')
    <3>1. CASE j = k
      <4>1. pc'[j] = "away"
        BY <1>1, <3>1 DEF Moves, StudyInv, StudyTypeOK
      <4> QED
        BY <4>1 DEF CapFits
    <3>2. CASE j # k
      <4>1. pc'[j] = pc[j] /\ shown'[j] = shown[j] /\ asked'[j] = asked[j] /\ clock' = clock
        BY <1>1, <3>2 DEF Moves, StudyInv, StudyTypeOK
      <4>2. /\ shown[j] \in CardIds \cup {None} /\ asked[j] \in Times
            /\ pc[j] \in {"shown", "rating"} => shown[j] \in used
            /\ CapFits(pc[j], shown[j], asked[j])
            /\ pc[j] \in {"cards", "firsts"} => LocalDay(asked[j]) = LocalDay(clock)
        BY DEF StudyInv, StudyTypeOK, CapInv, PageFits, OfferFits
      <4> QED
        BY <2>6, <4>1, <4>2
    <3> QED
      BY <3>1, <3>2
  <2> QED
    BY <2>5, <2>7 DEF CapInv
<1> QED
  BY <1>2, <1>3 DEF CommitRating

LEMMA NextCapInv ==
    StudyInv /\ CapInv /\ [StudyNext /\ LoadsEndBeforeMidnight]_studyVars => CapInv'
<1> SUFFICES ASSUME StudyInv, CapInv, [StudyNext /\ LoadsEndBeforeMidnight]_studyVars
             PROVE  CapInv'
  OBVIOUS
<1>1. CASE UNCHANGED studyVars
  <2>1. UNCHANGED pages /\ UNCHANGED <<cards, log, clock, used>>
    BY <1>1 DEF studyVars
  <2>2. Evolves
    BY <2>1, TablesTyped DEF Evolves, First, StudyInv, TablesInv, TypeOK
  <2>3. \A day \in LocalDays : Intro(day)' \subseteq Intro(day)
    BY <2>1 DEF Intro, First
  <2> QED
    BY <2>1, <2>2, <2>3, CapOfOthers
<1>2. ASSUME NEW k \in Clients, OpenPage(k) PROVE CapInv'
  <2>1. /\ Moves(k, "cards", None, None, clock) /\ UNCHANGED <<cards, log, clock>>
        /\ clock \in Times /\ CapFits("cards", None, clock)
    BY <1>2 DEF OpenPage, Moves, StudyInv, StudyTypeOK, CapFits
  <2> QED
    BY <2>1, CapOfReader
<1>3. ASSUME NEW k \in Clients, LoadCards(k) PROVE CapInv'
  <2>1. /\ Moves(k, "firsts", cards, None, asked[k]) /\ UNCHANGED <<cards, log, clock>>
        /\ asked[k] \in Times /\ CapFits("firsts", None, asked[k])
        /\ LocalDay(asked[k]) = LocalDay(clock)
    BY <1>3 DEF LoadCards, Moves, StudyInv, StudyTypeOK, CapFits, CapInv
  <2> QED
    BY <2>1, CapOfReader
<1>4. ASSUME NEW k \in Clients, ClosePage(k) PROVE CapInv'
  <2>1. /\ Moves(k, "away", None, None, asked[k]) /\ UNCHANGED <<cards, log, clock>>
        /\ asked[k] \in Times /\ CapFits("away", None, asked[k])
    BY <1>4 DEF ClosePage, Moves, StudyInv, StudyTypeOK, CapFits
  <2> QED
    BY <2>1, CapOfReader
<1>5. ASSUME NEW c \in CardIds, AddCard(c) PROVE CapInv'
  <2>1. UNCHANGED <<log, clock, pages>>
    BY <1>5 DEF AddCard, Create
  <2>2. \A day \in LocalDays : Intro(day)' \subseteq Intro(day)
    BY <2>1 DEF Intro, First
  <2> QED
    BY <1>5, <2>1, <2>2, AddEvolves, CapOfOthers
<1>6. ASSUME NEW c \in CardIds, RemoveCard(c) PROVE CapInv'
  <2>1. log' = [log EXCEPT ![c] = <<>>] /\ UNCHANGED <<clock, pages>>
        /\ log \in [CardIds -> Seq(LogEntry)]
    BY <1>6 DEF RemoveCard, Delete, StudyInv, TablesInv, TypeOK
  <2>2. \A day \in LocalDays : Intro(day)' \subseteq Intro(day)
    BY <2>1 DEF Intro, First
  <2> QED
    BY <1>6, <2>1, <2>2, RemoveEvolves, CapOfOthers
<1>7. CASE Tick /\ LoadsEndBeforeMidnight
  <2>1. UNCHANGED <<log, pages>>
    BY <1>7 DEF Tick
  <2>2. \A day \in LocalDays : Intro(day)' \subseteq Intro(day)
    BY <2>1 DEF Intro, First
  <2>3. \A k \in Clients : pc[k] \in {"cards", "firsts"} => LocalDay(clock') = LocalDay(clock)
    BY <1>7 DEF LoadsEndBeforeMidnight
  <2> QED
    BY <1>7, <2>1, <2>2, <2>3, TickEvolves, CapOfOthers
<1> QED
  BY <1>1, <1>2, <1>3, <1>4, <1>5, <1>6, <1>7, CapLoadFirsts, CapSendRating, CapCommitRating
  DEF StudyNext, Page

(* As long as no page load lasts over local midnight, no local day         *)
(* introduces more of the stored Cards than the cap allows, for any tabs   *)
(* whose pages are rated on any later day, and with Reviews that are       *)
(* committed late.                                                         *)
THEOREM CapIsKept == PromptSpec => []DailyCap
<1>1. CapInv => DailyCap
  BY DEF CapInv, DailyCap, IntroducedThat, Intro, First, LocalDays
<1>2. StudyInv /\ [StudyNext /\ LoadsEndBeforeMidnight]_studyVars => StudyInv'
  BY NextStudyInv
<1> QED
  BY <1>1, <1>2, InitStudyInv, InitCapInv, NextCapInv, PTL DEF PromptSpec
-----------------------------------------------------------------------------
(* Loads that last over midnight.  Such a page may show a New Card without *)
(* room on the day it is rated.  A tab with a page of that kind is late    *)
(* for the day: it can exceed the cap, but only once, because its next     *)
(* page takes the time on that day or later.  When the first Card of a day *)
(* is introduced, the tab that does it is not late for the day any more.   *)
MayExceed(step, c, t, day) ==
    \/ step \in {"cards", "firsts"} /\ LocalDay(t) < day
    \/ step = "shown" /\ LocalDay(t) < day /\ ~CapFits("shown", c, t)
    \/ step = "rating" /\ LocalDay(t) = day /\ ~CapFits("rating", c, t)

Late(day) == {k \in Clients : MayExceed(pc[k], shown[k], asked[k], day)}

LateFits(step, c, t) ==
    /\ step = "shown" =>
          /\ CapFits("shown", c, t) \/ LocalDay(t) < LocalDay(clock)
          /\ (cards[c] # None /\ log[c] = <<>>) => 0 < NewCardsPerDay
    /\ step = "rating" =>
          /\ OfferDays(c, t)
          /\ (cards[c] # None /\ ~Reviewed(c, t)) => 0 < NewCardsPerDay

TabsInv ==
    /\ \A k \in Clients : LateFits(pc[k], shown[k], asked[k])
    /\ \A day \in LocalDays :
          \/ Intro(day) = {}
          \/ Cardinality(Intro(day)) + Cardinality(Late(day))
               < NewCardsPerDay + Cardinality(Clients)

LEMMA FewerTabs ==
    ASSUME NEW S, NEW T, S \subseteq T, T \subseteq Clients
    PROVE  /\ Cardinality(S) \in Nat /\ Cardinality(T) \in Nat
           /\ Cardinality(S) <= Cardinality(T)
           /\ \A k \in T : k \notin S => Cardinality(S) < Cardinality(T)
<1>1. IsFiniteSet(T) /\ IsFiniteSet(S)
  BY TabsAssumption, FS_Subset
<1>2. Cardinality(S) \in Nat /\ Cardinality(T) \in Nat /\ Cardinality(S) <= Cardinality(T)
  BY <1>1, FS_Subset, FS_CardinalityType
<1>3. ASSUME NEW k \in T, k \notin S PROVE Cardinality(S) < Cardinality(T)
  <2>1. S \subseteq T \ {k} /\ IsFiniteSet(T \ {k})
    BY <1>1, <1>3, FS_RemoveElement
  <2>2. Cardinality(S) <= Cardinality(T \ {k}) /\ Cardinality(T \ {k}) = Cardinality(T) - 1
    BY <1>1, <2>1, FS_Subset, FS_RemoveElement
  <2> QED
    BY <1>2, <2>2
<1> QED
  BY <1>2, <1>3

LEMMA TabsImply == TabsInv => CapWithinTabs
<1> SUFFICES ASSUME TabsInv, NEW day \in LocalDays
             PROVE  Cardinality(Intro(day)) < NewCardsPerDay + Cardinality(Clients)
  BY DEF CapWithinTabs, IntroducedThat, Intro, First, LocalDays
<1>1. /\ Cardinality(Late(day)) \in Nat /\ Cardinality(Clients) \in Nat
      /\ 0 < Cardinality(Clients)
  <2>1. Late(day) \subseteq Clients /\ {} \subseteq Clients
    BY DEF Late
  <2>2. PICK k \in Clients : TRUE
    BY TabsAssumption
  <2> QED
    BY <2>1, <2>2, FewerTabs, FS_EmptySet
<1>2. Intro(day) \subseteq CardIds
  BY DEF Intro
<1>3. Cardinality(Intro(day)) \in Nat /\ (Intro(day) = {} => Cardinality(Intro(day)) = 0)
  BY <1>2, NoMore, FS_EmptySet
<1> QED
  BY <1>1, <1>3, QueueAssumption DEF TabsInv

(* A step that introduces no Card and makes no tab late. *)
LEMMA TabsStep ==
    ASSUME TabsInv,
           \A k \in Clients : LateFits(pc[k], shown[k], asked[k])',
           \A day \in LocalDays :
              /\ Intro(day)' \subseteq Intro(day)
              /\ Intro(day) # {} => Late(day)' \subseteq Late(day)
    PROVE  TabsInv'
<1> SUFFICES ASSUME NEW day \in LocalDays, Intro(day)' # {}
             PROVE  Cardinality(Intro(day)') + Cardinality(Late(day)')
                      < NewCardsPerDay + Cardinality(Clients)
  BY DEF TabsInv
<1>1. /\ Intro(day) # {} /\ Intro(day)' \subseteq Intro(day)
      /\ Late(day)' \subseteq Late(day) /\ Late(day) \subseteq Clients
      /\ Intro(day) \subseteq CardIds
  BY DEF Late, Intro
<1>2. Cardinality(Intro(day)) + Cardinality(Late(day)) < NewCardsPerDay + Cardinality(Clients)
  BY <1>1 DEF TabsInv
<1>3. ASSUME NEW S, S \subseteq Intro(day), NEW T, T \subseteq Late(day)
      PROVE  Cardinality(S) + Cardinality(T) < NewCardsPerDay + Cardinality(Clients)
  <2>1. /\ Cardinality(S) \in Nat /\ Cardinality(Intro(day)) \in Nat
        /\ Cardinality(S) <= Cardinality(Intro(day))
    BY <1>1, <1>3, NoMore
  <2>2. /\ Cardinality(T) \in Nat /\ Cardinality(Late(day)) \in Nat
        /\ Cardinality(T) <= Cardinality(Late(day)) /\ Cardinality(Clients) \in Nat
    BY <1>1, <1>3, FewerTabs
  <2> QED
    BY <1>2, <2>1, <2>2, QueueAssumption
<1> QED
  BY <1>1, <1>3
(* The step of one Client that changes no table. *)
LEMMA TabsOfReader ==
    ASSUME StudyInv, TabsInv, NEW k \in Clients,
           NEW step \in {"away", "cards", "firsts", "shown", "rating"},
           NEW v, NEW c \in CardIds \cup {None}, NEW t \in Times,
           Moves(k, step, v, c, t), UNCHANGED <<cards, log, clock>>,
           LateFits(step, c, t),
           \A day \in LocalDays :
              (Intro(day) # {} /\ MayExceed(step, c, t, day)) => k \in Late(day)
    PROVE  TabsInv'
<1>1. /\ \A day \in LocalDays : Intro(day)' = Intro(day)
      /\ pc'[k] = step /\ shown'[k] = c /\ asked'[k] = t
      /\ \A j \in Clients \ {k} :
            pc'[j] = pc[j] /\ shown'[j] = shown[j] /\ asked'[j] = asked[j]
  BY DEF Moves, StudyInv, StudyTypeOK, Intro, First
<1>2. ASSUME NEW s, NEW d, NEW u
      PROVE  /\ LateFits(s, d, u) => LateFits(s, d, u)'
             /\ \A day : MayExceed(s, d, u, day)' => MayExceed(s, d, u, day)
  BY DEF LateFits, MayExceed, CapFits, OfferDays, RoomToShow, RoomToRate, Reviewed, Intro,
     First
<1>3. ASSUME NEW j \in Clients PROVE LateFits(pc[j], shown[j], asked[j])'
  <2>1. CASE j = k
    BY <1>1, <1>2, <2>1
  <2>2. CASE j # k
    BY <1>1, <1>2, <2>2 DEF TabsInv
  <2> QED
    BY <2>1, <2>2
<1>4. ASSUME NEW day \in LocalDays, Intro(day) # {}, NEW j \in Clients,
             MayExceed(pc[j], shown[j], asked[j], day)'
      PROVE  j \in Late(day)
  <2>1. CASE j = k
    BY <1>1, <1>2, <1>4, <2>1
  <2>2. CASE j # k
    BY <1>1, <1>2, <1>4, <2>2 DEF Late
  <2> QED
    BY <2>1, <2>2
<1>5. ASSUME NEW day \in LocalDays, Intro(day) # {} PROVE Late(day)' \subseteq Late(day)
  BY <1>4, <1>5 DEF Late
<1> QED
  BY <1>1, <1>3, <1>5, TabsStep

(* A page that waits while the tables change. *)
LEMMA LateStable ==
    ASSUME StudyInv, Evolves, clock' \in Times,
           NEW step, NEW c \in CardIds \cup {None}, NEW t \in Times,
           step \in {"shown", "rating"} => c \in used,
           CapFits(step, c, t) => CapFits(step, c, t)', LateFits(step, c, t)
    PROVE  /\ LateFits(step, c, t)'
           /\ \A day \in LocalDays : MayExceed(step, c, t, day)' => MayExceed(step, c, t, day)
<1>1. \A day \in LocalDays : MayExceed(step, c, t, day)' => MayExceed(step, c, t, day)
  BY DEF MayExceed
<1>2. ASSUME step \in {"shown", "rating"} PROVE LateFits(step, c, t)'
  <2>1. c \in used /\ c \in CardIds /\ t \in Nat
    BY <1>2, TablesTyped, TimesAssumption
  <2>2. /\ cards'[c] # None => cards[c] # None
        /\ (cards'[c] # None /\ log'[c] = <<>>) => log[c] = <<>>
        /\ (cards'[c] # None /\ ~Reviewed(c, t)') => ~Reviewed(c, t)
    BY <2>1, ReviewedStable DEF Evolves
  <2>3. LocalDay(t) < LocalDay(clock) => LocalDay(t) < LocalDay(clock')
    <3>1. clock \in Nat /\ clock' \in Nat /\ clock <= clock'
      BY TablesTyped, TimesAssumption DEF Evolves
    <3>2. LocalDay(clock) <= LocalDay(clock')
          /\ LocalDay(clock) \in Int /\ LocalDay(clock') \in Int /\ LocalDay(t) \in Int
      BY <2>1, <3>1, DayMonotone
    <3> QED
      BY <3>2
  <2>4. step = "rating" => OfferDays(c, t)'
    BY <2>1, OfferDaysStable DEF LateFits
  <2> QED
    BY <2>2, <2>3, <2>4 DEF LateFits
<1>3. step \notin {"shown", "rating"} => LateFits(step, c, t)'
  BY DEF LateFits
<1> QED
  BY <1>1, <1>2, <1>3

(* Steps in which no page moves. *)
LEMMA TabsOfOthers ==
    ASSUME StudyInv, TabsInv, Evolves, clock' \in Times, UNCHANGED pages,
           \A day \in LocalDays : Intro(day)' \subseteq Intro(day)
    PROVE  TabsInv'
<1>1. ASSUME NEW k \in Clients
      PROVE  /\ LateFits(pc[k], shown[k], asked[k])'
             /\ \A day \in LocalDays :
                   MayExceed(pc[k], shown[k], asked[k], day)' => k \in Late(day)
  <2>1. pc'[k] = pc[k] /\ shown'[k] = shown[k] /\ asked'[k] = asked[k]
    BY DEF pages
  <2>2. /\ shown[k] \in CardIds \cup {None} /\ asked[k] \in Times
        /\ pc[k] \in {"shown", "rating"} => shown[k] \in used
        /\ LateFits(pc[k], shown[k], asked[k])
    BY DEF StudyInv, StudyTypeOK, TabsInv, PageFits, OfferFits
  <2>3. ASSUME NEW s, NEW c \in CardIds \cup {None}, NEW t \in Times,
               s \in {"shown", "rating"} => c \in used, LateFits(s, c, t)
        PROVE  /\ LateFits(s, c, t)'
               /\ \A day \in LocalDays : MayExceed(s, c, t, day)' => MayExceed(s, c, t, day)
    BY <2>3, CapFitsStable, LateStable
  <2> QED
    BY <2>1, <2>2, <2>3 DEF Late
<1>2. \A day \in LocalDays : Late(day)' \subseteq Late(day)
  BY <1>1 DEF Late
<1> QED
  BY <1>1, <1>2, TabsStep
LEMMA TabsLoadFirsts ==
    ASSUME StudyInv, TabsInv, NEW k \in Clients, LoadFirsts(k)
    PROVE  TabsInv'
<1> DEFINE queue == StudyQueue(view[k], log, asked[k])
           c == Head(queue)
           t == asked[k]
<1>1. /\ pc[k] = "firsts" /\ t \in Times /\ UNCHANGED <<cards, log, clock>>
      /\ queue = <<>> => Moves(k, "away", None, None, t)
      /\ queue # <<>> => c \in CardIds /\ Moves(k, "shown", None, c, t)
  BY LoadFirstsMoves
<1>2. \A day : LocalDay(t) < day => k \in Late(day)
  BY <1>1 DEF Late, MayExceed
<1>3. LateFits("away", None, t) /\ \A day : ~MayExceed("away", None, t, day)
  BY DEF LateFits, MayExceed
<1>4. ASSUME queue # <<>> PROVE LateFits("shown", c, t)
  <2>1. LocalDay(t) <= LocalDay(clock) /\ LocalDay(t) \in Int /\ LocalDay(clock) \in Int
    BY TablesTyped, DayMonotone DEF StudyInv, ClockInv
  <2>2. CapFits("shown", c, t) \/ LocalDay(t) < LocalDay(clock)
    BY <1>1, <1>4, <2>1, ShownInTime
  <2>3. (cards[c] # None /\ log[c] = <<>>) =>
           Cardinality(IntroducedOn(FirstReviews(log), t)) < NewCardsPerDay
    BY <1>1, <1>4, HeadFits
  <2>4. Cardinality(IntroducedOn(FirstReviews(log), t)) \in Nat
    <3>1. IntroducedOn(FirstReviews(log), t) \subseteq CardIds
      BY DEF IntroducedOn, FirstReviews
    <3> QED
      BY <3>1, NoMore
  <2> QED
    BY <2>2, <2>3, <2>4, QueueAssumption DEF LateFits
<1>5. \A day : MayExceed("shown", c, t, day) => LocalDay(t) < day
  BY DEF MayExceed
<1> HIDE DEF c, t, queue
<1> QED
  BY <1>1, <1>2, <1>3, <1>4, <1>5, TabsOfReader

LEMMA TabsSendRating ==
    ASSUME StudyInv, TabsInv, NEW k \in Clients, SendRating(k)
    PROVE  TabsInv'
<1> DEFINE c == shown[k]
           t == asked[k]
<1>1. /\ pc[k] = "shown" /\ view[k] = None /\ c \in CardIds /\ clock \in Times
      /\ Moves(k, "rating", None, c, clock) /\ UNCHANGED <<cards, log, clock>>
      /\ LateFits("shown", c, t) /\ OfferFits(c, t)
  BY DEF SendRating, Moves, StudyInv, StudyTypeOK, TabsInv, PageFits
<1>2. /\ LocalDay(t) <= LocalDay(clock) /\ LocalDay(t) \in Int /\ LocalDay(clock) \in Int
      /\ t \in Nat /\ clock \in Nat /\ t <= clock
  BY TablesTyped, DayMonotone DEF StudyInv, ClockInv
<1>3. \A e \in CardIds : log[e] # <<>> =>
         First(e) \in Nat /\ First(e) <= clock /\ LocalDay(First(e)) <= LocalDay(clock)
  BY <1>2, TablesTyped, DayMonotone DEF StudyInv, ClockInv
<1>4. CapFits("shown", c, t) => CapFits("rating", c, clock)
  BY <1>1, RatedInTime
<1> HIDE DEF c, t
<1>5. OfferDays(c, clock)
  BY <1>1, <1>2, <1>3 DEF OfferDays, OfferFits, OlderReviewed, Reviewed
<1>6. LateFits("rating", c, clock)
  BY <1>1, <1>3, <1>5 DEF LateFits, Reviewed
<1>7. ASSUME NEW day \in LocalDays, MayExceed("rating", c, clock, day)
      PROVE  k \in Late(day)
  <2>1. day = LocalDay(clock) /\ ~CapFits("shown", c, t)
    BY <1>4, <1>7 DEF MayExceed
  <2>2. LocalDay(t) < day
    BY <1>1, <2>1 DEF LateFits
  <2> QED
    BY <1>1, <2>1, <2>2 DEF Late, MayExceed, c, t
<1> QED
  BY <1>1, <1>6, <1>7, TabsOfReader
(* The introduction itself.  With room, the day is within the cap and this *)
(* tab is not late any more; without, it was late and is not any more.     *)
LEMMA TabsRate ==
    ASSUME StudyInv, TabsInv, NEW k \in Clients, pc[k] = "rating",
           NEW d \in CardIds, d = shown[k], NEW u \in Times, u = asked[k],
           NEW rating \in Ratings, Rate(d, rating, u),
           NEW day \in LocalDays,
           Late(day)' \subseteq Late(day) \ {k}, Intro(day)' # {}
    PROVE  Cardinality(Intro(day)') + Cardinality(Late(day)')
             < NewCardsPerDay + Cardinality(Clients)
<1>1. /\ Intro(day)' \subseteq Intro(day) \cup {d}
      /\ (Reviewed(d, u) \/ day # LocalDay(u)) => Intro(day)' \subseteq Intro(day)
      /\ Intro(day) \subseteq CardIds /\ Late(day) \subseteq Clients
  BY RateIntro DEF Intro, Late
<1>2. /\ Cardinality(Intro(day)) \in Nat /\ Cardinality(Late(day)) \in Nat
      /\ Cardinality(Clients) \in Nat /\ NewCardsPerDay \in Nat
      /\ Cardinality(Intro(day) \cup {d}) \in Nat
      /\ Cardinality(Intro(day) \cup {d}) <= Cardinality(Intro(day)) + 1
  BY <1>1, FewerTabs, OneMore, QueueAssumption
(* All that is used of the sets after the step. *)
<1>3. ASSUME NEW S, S \subseteq Intro(day) \cup {d}
      PROVE  /\ Cardinality(S) \in Nat
             /\ Cardinality(S) <= Cardinality(Intro(day)) + 1
             /\ S \subseteq Intro(day) => Cardinality(S) <= Cardinality(Intro(day))
  <2>1. Intro(day) \cup {d} \subseteq CardIds
    BY <1>1
  <2> QED
    BY <1>1, <1>2, <1>3, <2>1, NoMore
<1>4. ASSUME NEW T, T \subseteq Late(day) \ {k}
      PROVE  /\ Cardinality(T) \in Nat /\ Cardinality(T) <= Cardinality(Late(day))
             /\ Cardinality(T) < Cardinality(Clients)
             /\ k \in Late(day) => Cardinality(T) < Cardinality(Late(day))
  BY <1>1, <1>4, FewerTabs
<1> DEFINE S == Intro(day)'
           T == Late(day)'
<1>5. /\ Cardinality(S) \in Nat /\ Cardinality(S) <= Cardinality(Intro(day)) + 1
      /\ S \subseteq Intro(day) => Cardinality(S) <= Cardinality(Intro(day))
      /\ Cardinality(T) \in Nat /\ Cardinality(T) <= Cardinality(Late(day))
      /\ Cardinality(T) < Cardinality(Clients)
      /\ k \in Late(day) => Cardinality(T) < Cardinality(Late(day))
  BY <1>1, <1>3, <1>4
<1>6. \/ Intro(day) = {}
      \/ Cardinality(Intro(day)) + Cardinality(Late(day)) < NewCardsPerDay + Cardinality(Clients)
  BY DEF TabsInv
<1>7. S # {}
  OBVIOUS
<1>8. Intro(day) = {} => Cardinality(Intro(day)) = 0
  BY FS_EmptySet
<1> SUFFICES Cardinality(S) + Cardinality(T) < NewCardsPerDay + Cardinality(Clients)
  OBVIOUS
<1> HIDE DEF S, T
<1>9. CASE S \subseteq Intro(day)
  BY <1>2, <1>5, <1>6, <1>7, <1>9
<1>10. CASE ~(S \subseteq Intro(day))
  <2>1. /\ ~Reviewed(d, u) /\ day = LocalDay(u) /\ d \notin Intro(day) /\ cards[d] # None
    BY <1>1, <1>10 DEF S, Rate
  <2>2. 0 < NewCardsPerDay
    BY <2>1 DEF TabsInv, LateFits
  <2>3. CASE CapFits("rating", d, u)
    <3>1. Cardinality(Intro(day)) < NewCardsPerDay
      BY <2>1, <2>3 DEF CapFits, RoomToRate
    <3> QED
      BY <1>2, <1>5, <3>1
  <2>4. CASE ~CapFits("rating", d, u)
    <3>1. k \in Late(day)
      BY <2>1, <2>4 DEF Late, MayExceed
    <3> QED
      BY <1>2, <1>5, <1>6, <1>8, <2>2, <3>1
  <2> QED
    BY <2>3, <2>4
<1> QED
  BY <1>9, <1>10

LEMMA TabsCommitRating ==
    ASSUME StudyInv, TabsInv, NEW k \in Clients, CommitRating(k)
    PROVE  TabsInv'
<1> DEFINE d == shown[k]
           u == asked[k]
<1>1. /\ pc[k] = "rating" /\ view[k] = None /\ d \in CardIds /\ d \in used
      /\ u \in Times /\ u <= clock /\ clock' \in Times
      /\ Moves(k, "away", None, None, u) /\ UNCHANGED <<clock, used>>
      /\ OfferDays(d, u)
  BY DEF CommitRating, Moves, StudyInv, StudyTypeOK, ClockInv, PageFits, OfferFits,
         TabsInv, LateFits
<1>2. CASE UNCHANGED <<cards, log>>
  <2>1. LateFits("away", None, u) /\ \A day : ~MayExceed("away", None, u, day)
    BY DEF LateFits, MayExceed
  <2> QED
    BY <1>1, <1>2, <2>1, TabsOfReader
<1>3. ASSUME NEW rating \in Ratings, Rate(d, rating, u)
      PROVE  TabsInv'
  <2>1. Evolves
    BY <1>1, <1>3, RateEvolves
  <2>2. PICK t \in Times : t = u
    BY <1>1
  <2>3. PICK c \in used : c = d
    BY <1>1
  <2>4. Rate(c, rating, t) /\ OfferDays(c, t) /\ c \in CardIds
    BY <1>1, <1>3, <2>2, <2>3
  <2>5. ASSUME NEW s, NEW e \in CardIds \cup {None}, NEW v \in Times,
               s \in {"shown", "rating"} => e \in used, CapFits(s, e, v)
        PROVE  CapFits(s, e, v)'
    <3>1. CASE Reviewed(c, t)
      <4>1. ASSUME NEW day \in LocalDays PROVE Intro(day)' \subseteq Intro(day)
        BY <2>4, <3>1, RateIntro
      <4> QED
        BY <2>1, <2>5, <4>1, CapFitsStable
    <3>2. CASE ~Reviewed(c, t)
      <4>1. CASE s \in {"shown", "rating"}
        BY <2>1, <2>4, <2>5, <3>2, <4>1, CapFitsRate
      <4>2. CASE s \notin {"shown", "rating"}
        BY <4>2 DEF CapFits
      <4> QED
        BY <4>1, <4>2
    <3> QED
      BY <3>1, <3>2
  <2>6. ASSUME NEW j \in Clients
        PROVE  /\ LateFits(pc[j], shown[j], asked[j])'
               /\ \A day \in LocalDays : MayExceed(pc[j], shown[j], asked[j], day)' =>
                     j \in Late(day) \ {k}
    <3>1. CASE j = k
      <4>1. pc'[j] = "away"
        BY <1>1, <3>1 DEF Moves, StudyInv, StudyTypeOK
      <4> QED
        BY <4>1 DEF LateFits, MayExceed
    <3>2. CASE j # k
      <4>1. pc'[j] = pc[j] /\ shown'[j] = shown[j] /\ asked'[j] = asked[j]
        BY <1>1, <3>2 DEF Moves, StudyInv, StudyTypeOK
      <4>2. /\ shown[j] \in CardIds \cup {None} /\ asked[j] \in Times
            /\ pc[j] \in {"shown", "rating"} => shown[j] \in used
            /\ LateFits(pc[j], shown[j], asked[j])
        BY DEF StudyInv, StudyTypeOK, TabsInv, PageFits, OfferFits
      <4>3. ASSUME NEW s, NEW e \in CardIds \cup {None}, NEW v \in Times,
                   s \in {"shown", "rating"} => e \in used, LateFits(s, e, v)
            PROVE  /\ LateFits(s, e, v)'
                   /\ \A day \in LocalDays :
                         MayExceed(s, e, v, day)' => MayExceed(s, e, v, day)
        BY <1>1, <2>1, <2>5, <4>3, LateStable
      <4> QED
        BY <3>2, <4>1, <4>2, <4>3 DEF Late
    <3> QED
      BY <3>1, <3>2
  <2>7. \A day \in LocalDays : Late(day)' \subseteq Late(day) \ {k}
    BY <2>6 DEF Late
  <2>8. ASSUME NEW day \in LocalDays, Intro(day)' # {}
        PROVE  Cardinality(Intro(day)') + Cardinality(Late(day)')
                 < NewCardsPerDay + Cardinality(Clients)
    BY <1>1, <2>2, <2>3, <2>4, <2>7, <2>8, TabsRate
  <2> QED
    BY <2>6, <2>8 DEF TabsInv
<1> QED
  BY <1>2, <1>3 DEF CommitRating
LEMMA InitTabsInv == StudyInit => TabsInv
<1> SUFFICES ASSUME StudyInit PROVE TabsInv
  OBVIOUS
<1>1. \A day \in LocalDays : Intro(day) = {}
  BY DEF StudyInit, Intro
<1>2. \A k \in Clients : pc[k] = "away"
  BY DEF StudyInit
<1> QED
  BY <1>1, <1>2 DEF TabsInv, LateFits

LEMMA NextTabsInv == StudyInv /\ TabsInv /\ [StudyNext]_studyVars => TabsInv'
<1> SUFFICES ASSUME StudyInv, TabsInv, [StudyNext]_studyVars PROVE TabsInv'
  OBVIOUS
<1>1. clock \in Times
  BY DEF StudyInv, StudyTypeOK
<1>2. CASE UNCHANGED studyVars
  <2>1. UNCHANGED pages /\ UNCHANGED <<cards, log, clock, used>>
    BY <1>2 DEF studyVars
  <2>2. Evolves
    BY <2>1, TablesTyped DEF Evolves, First, StudyInv, TablesInv, TypeOK
  <2>3. \A day \in LocalDays : Intro(day)' \subseteq Intro(day)
    BY <2>1 DEF Intro, First
  <2> QED
    BY <1>1, <2>1, <2>2, <2>3, TabsOfOthers
(* A new page takes the time on a day that has begun. *)
<1>3. ASSUME NEW k \in Clients, OpenPage(k) PROVE TabsInv'
  <2>1. /\ Moves(k, "cards", None, None, clock) /\ UNCHANGED <<cards, log, clock>>
        /\ LateFits("cards", None, clock)
    BY <1>3 DEF OpenPage, Moves, StudyInv, StudyTypeOK, LateFits
  <2>2. ASSUME NEW day \in LocalDays, Intro(day) # {}
        PROVE  ~MayExceed("cards", None, clock, day)
    <3>1. PICK c \in CardIds : log[c] # <<>> /\ LocalDay(First(c)) = day
      BY <2>2 DEF Intro
    <3>2. First(c) \in Nat /\ clock \in Nat /\ First(c) <= clock
      BY <3>1, TablesTyped DEF StudyInv, ClockInv
    <3>3. day <= LocalDay(clock) /\ day \in Int /\ LocalDay(clock) \in Int
      BY <3>1, <3>2, DayMonotone
    <3> QED
      BY <3>3 DEF MayExceed
  <2> QED
    BY <1>1, <2>1, <2>2, TabsOfReader
<1>4. ASSUME NEW k \in Clients, LoadCards(k) PROVE TabsInv'
  <2>1. /\ Moves(k, "firsts", cards, None, asked[k]) /\ UNCHANGED <<cards, log, clock>>
        /\ asked[k] \in Times /\ LateFits("firsts", None, asked[k])
    BY <1>4 DEF LoadCards, Moves, StudyInv, StudyTypeOK, LateFits
  <2>2. \A day : MayExceed("firsts", None, asked[k], day) => k \in Late(day)
    BY <1>4 DEF LoadCards, MayExceed, Late
  <2> QED
    BY <2>1, <2>2, TabsOfReader
<1>5. ASSUME NEW k \in Clients, ClosePage(k) PROVE TabsInv'
  <2>1. /\ Moves(k, "away", None, None, asked[k]) /\ UNCHANGED <<cards, log, clock>>
        /\ asked[k] \in Times /\ LateFits("away", None, asked[k])
        /\ \A day : ~MayExceed("away", None, asked[k], day)
    BY <1>5 DEF ClosePage, Moves, StudyInv, StudyTypeOK, LateFits, MayExceed
  <2> QED
    BY <2>1, TabsOfReader
<1>6. ASSUME NEW c \in CardIds, AddCard(c) PROVE TabsInv'
  <2>1. UNCHANGED <<log, clock, pages>>
    BY <1>6 DEF AddCard, Create
  <2>2. \A day \in LocalDays : Intro(day)' \subseteq Intro(day)
    BY <2>1 DEF Intro, First
  <2> QED
    BY <1>1, <1>6, <2>1, <2>2, AddEvolves, TabsOfOthers
<1>7. ASSUME NEW c \in CardIds, RemoveCard(c) PROVE TabsInv'
  <2>1. log' = [log EXCEPT ![c] = <<>>] /\ UNCHANGED <<clock, pages>>
        /\ log \in [CardIds -> Seq(LogEntry)]
    BY <1>7 DEF RemoveCard, Delete, StudyInv, TablesInv, TypeOK
  <2>2. \A day \in LocalDays : Intro(day)' \subseteq Intro(day)
    BY <2>1 DEF Intro, First
  <2> QED
    BY <1>1, <1>7, <2>1, <2>2, RemoveEvolves, TabsOfOthers
<1>8. CASE Tick
  <2>1. UNCHANGED <<log, pages>> /\ clock' \in Times
    BY <1>8 DEF Tick
  <2>2. \A day \in LocalDays : Intro(day)' \subseteq Intro(day)
    BY <2>1 DEF Intro, First
  <2> QED
    BY <1>8, <2>1, <2>2, TickEvolves, TabsOfOthers
<1> QED
  BY <1>2, <1>3, <1>4, <1>5, <1>6, <1>7, <1>8, TabsLoadFirsts, TabsSendRating,
     TabsCommitRating DEF StudyNext, Page

(* Whatever page loads last over local midnight, a day introduces fewer    *)
(* Cards than the cap and the number of tabs together; one tab alone never *)
(* exceeds the cap.                                                        *)
THEOREM CapOverMidnight == StudySpec => []CapWithinTabs
BY TabsImply, InitStudyInv, NextStudyInv, InitTabsInv, NextTabsInv, PTL DEF StudySpec
=============================================================================
