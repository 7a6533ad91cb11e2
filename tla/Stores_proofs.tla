---------------------------- MODULE Stores_proofs ----------------------------
(***************************************************************************)
(* The Store on SQLite and the Store of the tests give the same answers    *)
(* and hold the same rows, for any sequence of calls and any numbers of    *)
(* Users, Sessions, Decks, Cards, Reviews and instants, until a Card is    *)
(* rated so late in a day since its last Review that SqlStore counts one   *)
(* day more.  First what a row of `cards` keeps of a Card, then the tables *)
(* one by one, then the calls.                                             *)
(***************************************************************************)
EXTENDS Stores, Scheduler_proofs

Spellings == {"new", "learning", "review", "relearning"}

(* What the columns of a row can hold besides deck_id and text. *)
Columns(row) ==
    /\ row.phase \in Spellings
    /\ row.learning_step \in Int \cup {None}
    /\ row.stability \in Int \cup {None}
    /\ row.difficulty \in Int \cup {None}
    /\ row.due \in Int \cup {None, Illegible}
    /\ row.last_review \in Int \cup {None, Illegible}

Row(decks) ==
    [deck_id : decks, text : Texts, phase : Spellings,
     learning_step : Int \cup {None},
     stability : Int \cup {None}, difficulty : Int \cup {None},
     due : Int \cup {None, Illegible}, last_review : Int \cup {None, Illegible}]

(* A phase is read back as the one that was written. *)
LEMMA SpellingIsInjective ==
    /\ \A phase \in Phases : PhaseToDb[phase] \in Spellings
    /\ \A phase \in Phases : PhaseFromDb(PhaseToDb[phase]) = phase
<1>1. \A phase, other \in Phases : PhaseToDb[phase] = PhaseToDb[other] => phase = other
  BY DEF Phases, PhaseToDb
<1>2. \A phase \in Phases : PhaseToDb[phase] \in Spellings
  BY DEF Phases, PhaseToDb, Spellings
<1>3. ASSUME NEW phase \in Phases
      PROVE  PhaseFromDb(PhaseToDb[phase]) = phase
  BY <1>1 DEF PhaseFromDb
<1> QED
  BY <1>2, <1>3

(* rfc3339 keeps whole milliseconds, so that writing an instant that was   *)
(* read back changes nothing.                                              *)
LEMMA RoundingSettles ==
    ASSUME NEW instant \in Int \cup {None}
    PROVE  /\ Rfc3339(instant) \in Int \cup {None}
           /\ (Rfc3339(instant) = None) = (instant = None)
           /\ Rfc3339(Rfc3339(instant)) = Rfc3339(instant)
           /\ instant # None => /\ Rfc3339(instant) <= instant
                                /\ instant - Rfc3339(instant) < Grain
<1>1. CASE instant = None
  BY <1>1 DEF Rfc3339
<1>2. CASE instant # None
  <2> DEFINE kept == instant - (instant % Grain)
  <2>1. /\ Grain \in Int /\ Grain > 0
        /\ instant \in Int
        /\ instant % Grain \in Int
        /\ 0 <= instant % Grain /\ instant % Grain < Grain
    BY <1>2, RowsAssumption
  <2>2. kept \in Int /\ kept # None /\ Rfc3339(instant) = kept
    BY <1>2, <2>1, RowsAssumption DEF Rfc3339
  <2>3. kept % Grain = 0
    BY <2>1
  <2>4. Rfc3339(kept) = kept
    BY <2>2, <2>3 DEF Rfc3339
  <2> QED
    BY <1>2, <2>1, <2>2, <2>4
<1> QED
  BY <1>1, <1>2

-----------------------------------------------------------------------------
(* Of the four errors of card_from_row the schema leaves one: a row that   *)
(* the CHECKs accept is turned away exactly if the text of an instant,     *)
(* which nothing checks, is none.                                          *)
THEOREM AcceptedIsReadable ==
    ASSUME NEW row, Columns(row), RowChecks(row)
    PROVE  /\ Readable(row) <=> Illegible \notin {row.due, row.last_review}
           /\ ~Readable(row) => RowError(row) = "InvalidTimestamp"
<1>1. ~InvalidPhase(row)
  <2>1. \E phase \in Phases : PhaseToDb[phase] = row.phase
    BY DEF Columns, Spellings, Phases, PhaseToDb
  <2> QED
    BY <2>1 DEF InvalidPhase
<1>2. ~InvalidLearningStep(row)
  BY DEF RowChecks, InvalidLearningStep, Columns
<1>3. ~IncompleteFsrs(row)
  BY DEF RowChecks, IncompleteFsrs
<1> QED
  BY <1>1, <1>2, <1>3 DEF Readable, RowError, InvalidTimestamp

(* write_review_on and card_from_row: a well-formed Card is accepted by    *)
(* the schema and comes back the same but for its instants, which lose     *)
(* what is below a millisecond.                                            *)
THEOREM RoundTrip ==
    ASSUME NEW decks, NEW row \in Row(decks), NEW card \in Card, CardWF(card)
    PROVE  LET written == WriteReview(row, card)
           IN  /\ RowChecks(written)
               /\ Readable(written)
               /\ CardFromRow(written) =
                     [deck_id |-> row.deck_id,
                      text |-> row.text,
                      phase |-> card.phase,
                      learning_step |-> card.learning_step,
                      memory |-> card.memory,
                      due |-> Rfc3339(card.due),
                      last_review |-> Rfc3339(card.last_review)]
<1> DEFINE written == WriteReview(row, card)
<1>1. /\ card.phase \in Phases
      /\ card.learning_step \in Nat \cup {None}
      /\ card.memory \in Memory \cup {None}
      /\ card.due \in Int \cup {None}
      /\ card.last_review \in Int \cup {None}
  <2>1. /\ card.phase \in Phases /\ card.memory \in Memory \cup {None}
        /\ card.learning_step \in Nat \cup {None} /\ card.due \in Nat \cup {None}
        /\ card.last_review \in Times \cup {None}
    BY DEF Card
  <2>2. \A t \in Times : t \in Int
    BY TimesAssumption
  <2> QED
    BY <2>1, <2>2
<1>2. /\ written.deck_id = row.deck_id
      /\ written.text = row.text
      /\ written.phase = PhaseToDb[card.phase]
      /\ written.learning_step = card.learning_step
      /\ written.stability = IF card.memory = None THEN None ELSE card.memory.stability
      /\ written.difficulty = IF card.memory = None THEN None ELSE card.memory.difficulty
      /\ written.due = Rfc3339(card.due)
      /\ written.last_review = Rfc3339(card.last_review)
  BY DEF WriteReview, Row
<1>3. card.memory # None =>
        /\ card.memory \in [stability : Int, difficulty : Int]
        /\ card.memory.stability # None /\ card.memory.difficulty # None
        /\ card.memory = [stability |-> card.memory.stability,
                          difficulty |-> card.memory.difficulty]
  BY <1>1, RowsAssumption
<1> HIDE DEF written
<1>4. /\ Columns(written)
      /\ written.due \in Int \cup {None} /\ written.last_review \in Int \cup {None}
  <2>1. Rfc3339(card.due) \in Int \cup {None} /\ Rfc3339(card.last_review) \in Int \cup {None}
    BY <1>1, RoundingSettles
  <2>2. written.due \in Int \cup {None} /\ written.last_review \in Int \cup {None}
    BY <1>2, <2>1
  <2>3. written.phase \in Spellings
    BY <1>1, <1>2, SpellingIsInjective
  <2>4. /\ written.learning_step \in Int \cup {None}
        /\ written.stability \in Int \cup {None}
        /\ written.difficulty \in Int \cup {None}
    BY <1>1, <1>2, <1>3
  <2> QED
    BY <2>2, <2>3, <2>4 DEF Columns
<1>5. RowChecks(written)
  <2>1. written.learning_step = None \/ written.learning_step >= 0
    BY <1>1, <1>2
  <2>2. (written.stability = None) = (card.memory = None)
        /\ (written.difficulty = None) = (card.memory = None)
    BY <1>2, <1>3
  <2>3. /\ (written.due = None) = (card.due = None)
        /\ (written.last_review = None) = (card.last_review = None)
    BY <1>1, <1>2, RoundingSettles
  <2>4. /\ card.phase = "New" => written.phase = "new"
        /\ card.phase = "Learning" => written.phase = "learning"
        /\ card.phase = "Review" => written.phase = "review"
        /\ card.phase = "Relearning" => written.phase = "relearning"
    BY <1>2 DEF PhaseToDb
  <2> QED
    BY <1>2, <2>1, <2>2, <2>3, <2>4 DEF RowChecks, CardWF
<1>6. Readable(written)
  BY <1>4, <1>5, AcceptedIsReadable, RowsAssumption
<1>7. PhaseFromDb(written.phase) = card.phase
  BY <1>1, <1>2, SpellingIsInjective
<1>8. (IF written.stability = None THEN None
       ELSE [stability |-> written.stability, difficulty |-> written.difficulty])
         = card.memory
  BY <1>2, <1>3
<1>9. CardFromRow(written) =
        [deck_id |-> row.deck_id, text |-> row.text, phase |-> card.phase,
         learning_step |-> card.learning_step, memory |-> card.memory,
         due |-> Rfc3339(card.due), last_review |-> Rfc3339(card.last_review)]
  BY <1>2, <1>7, <1>8 DEF CardFromRow
<1> QED
  BY <1>5, <1>6, <1>9 DEF written
-----------------------------------------------------------------------------
(* Instants: what SQLite cuts off turns no order around. *)
(* Every number is some whole grains and a fraction. *)
LEMMA Parts ==
    ASSUME NEW m \in Nat \ {0}, NEW a \in Int
    PROVE  \E q \in Int : a = m * q + (a % m) /\ a % m \in Nat /\ a % m < m
<1>1. a \div m \in Int /\ a = m * (a \div m) + (a % m) /\ a % m \in Nat /\ a % m < m
  OBVIOUS
<1> QED
  BY <1>1

LEMMA RoundingKeepsOrder ==
    ASSUME NEW t \in Int, NEW u \in Int, t <= u
    PROVE  /\ Rfc3339(t) \in Int /\ Rfc3339(u) \in Int
           /\ Rfc3339(t) <= Rfc3339(u)
<1>0. Grain \in Nat \ {0} /\ None \notin Int
  BY RowsAssumption
<1>1. PICK p \in Int : t = Grain * p + (t % Grain) /\ t % Grain \in Nat
  BY <1>0, Parts
<1>2. PICK q \in Int : u = Grain * q + (u % Grain) /\ u % Grain \in Nat /\ u % Grain < Grain
  BY <1>0, Parts
<1>3. /\ Grain * p \in Int /\ Grain * q \in Int
      /\ Rfc3339(t) = Grain * p /\ Rfc3339(u) = Grain * q
  <2>1. t # None /\ u # None
    BY <1>0
  <2>2. Grain * p \in Int /\ Grain * q \in Int
    BY <1>0
  <2>3. t - (t % Grain) = Grain * p /\ u - (u % Grain) = Grain * q
    BY <1>1, <1>2, <2>2
  <2> QED
    BY <2>1, <2>2, <2>3 DEF Rfc3339
<1>4. CASE p <= q
  <2>1. Grain * p <= Grain * q
    BY <1>0, <1>4
  <2> QED
    BY <1>3, <2>1
<1>5. CASE p >= q + 1
  <2>1. Grain * p >= Grain * (q + 1)
    BY <1>0, <1>5
  <2>2. Grain * (q + 1) = Grain * q + Grain
    BY <1>0
  <2> QED
    BY <1>0, <1>1, <1>2, <1>3, <2>1, <2>2
<1> QED
  BY <1>4, <1>5

LEMMA TimesAreInt ==
    ASSUME NEW t \in Times
    PROVE  t \in Nat /\ t \in Int /\ t # None
BY TimesAssumption

-----------------------------------------------------------------------------
(* What holds of MemStore after any calls, and what SqlStore holds then. *)
Entry == [card_id : Nat, rated_at : Times, rating : Ratings]

StoredEntry(entry) == [entry EXCEPT !.rated_at = Rfc3339(@)]

RowOf(card) ==
    [deck_id |-> card.deck_id, text |-> card.text, phase |-> PhaseToDb[card.phase],
     learning_step |-> card.learning_step,
     stability |-> IF card.memory = None THEN None ELSE card.memory.stability,
     difficulty |-> IF card.memory = None THEN None ELSE card.memory.difficulty,
     due |-> Rfc3339(card.due), last_review |-> Rfc3339(card.last_review)]

DeckRow(name, user) == [name |-> name, user_id |-> user]

Agree(m, s) ==
    /\ DOMAIN s = {"sqlite_sequence", "users", "sessions", "decks", "cards", "review_logs"}
    /\ s.sqlite_sequence = [users |-> m.next_user - 1, decks |-> m.next_deck - 1,
                            cards |-> m.next_card - 1, sessions |-> m.next_session - 1]
    /\ s.users = m.users
    /\ s.sessions = [i \in DOMAIN m.sessions |-> StoredSession(m.sessions[i])]
    /\ s.decks = [d \in DOMAIN m.decks |-> DeckRow(m.decks[d], m.deck_owners[d])]
    /\ s.cards = [c \in DOMAIN m.cards |-> RowOf(m.cards[c])]
    /\ s.review_logs = [i \in DOMAIN m.reviews |-> StoredEntry(m.reviews[i])]

Shape(m) ==
    /\ DOMAIN m = {"next_user", "next_deck", "next_card", "next_session", "users",
                   "sessions", "decks", "deck_owners", "cards", "reviews"}
    /\ m.next_user \in Nat /\ m.next_deck \in Nat
    /\ m.next_card \in Nat /\ m.next_session \in Nat

(* No two Users have one name, and no row outlives what it belongs to. *)
UsersOk(m) ==
    /\ DOMAIN m.users \subseteq Nat
    /\ m.users \in [DOMAIN m.users -> UserRow]
    /\ \A u, v \in DOMAIN m.users :
          UsernamesEqual(m.users[u].username, m.users[v].username) => u = v

SessionsOk(m) ==
    /\ m.sessions \in [DOMAIN m.sessions -> SessionRow]
    /\ \A i \in DOMAIN m.sessions : m.sessions[i].user_id \in DOMAIN m.users

DecksOk(m) ==
    /\ m.decks \in [DOMAIN m.decks -> DeckName]
    /\ m.deck_owners \in [DOMAIN m.decks -> DOMAIN m.users]

CardOk(card) ==
    /\ card \in CardRow
    /\ card.due \in Nat \cup {None} /\ card.last_review \in Times \cup {None}
    /\ CardWF(card)

CardsOk(m) ==
    /\ DOMAIN m.cards \subseteq Nat
    /\ m.cards \in [DOMAIN m.cards -> CardRow]
    /\ \A c \in DOMAIN m.cards :
          CardOk(m.cards[c]) /\ m.cards[c].deck_id \in DOMAIN m.decks

(* The log is in the order of its instants, so that the first entry of a   *)
(* Card, which MemStore takes, has the least instant, which SqlStore takes.*)
LogOk(m, now) ==
    /\ m.reviews \in Seq(Entry)
    /\ \A i \in DOMAIN m.reviews :
          m.reviews[i].card_id \in DOMAIN m.cards /\ m.reviews[i].rated_at <= now
    /\ \A i, j \in DOMAIN m.reviews :
          i < j => m.reviews[i].rated_at <= m.reviews[j].rated_at

MemOk(m, now) ==
    Shape(m) /\ UsersOk(m) /\ SessionsOk(m) /\ DecksOk(m) /\ CardsOk(m) /\ LogOk(m, now)

Together ==
    /\ clock \in Times
    /\ dispute = None
    /\ MemOk(mem, clock)
    /\ Agree(mem, sql)

(* As long as FSRS was asked the same questions, the Stores are together.  *)
IInv == ~apart => Together
-----------------------------------------------------------------------------
(* MemStore and SqlStore mean the same by what they take from other modules. *)
LEMMA SameHelpers ==
    /\ \A log, ids : Mem!Remaining(log, ids) = Remaining(log, ids)
    /\ \A log, ids : Sql!Remaining(log, ids) = Remaining(log, ids)
    /\ \A card, rating, now : Sql!ApplyRating(card, rating, now) = ApplyRating(card, rating, now)
<1>1. ASSUME NEW log, NEW ids PROVE Mem!Remaining(log, ids) = Remaining(log, ids)
  BY DEF Mem!Remaining, Remaining, Mem!InOrder, InOrder, Mem!SetToSeqs, SetToSeqs,
         Mem!Cardinality, Cardinality
<1>2. ASSUME NEW log, NEW ids PROVE Sql!Remaining(log, ids) = Remaining(log, ids)
  BY DEF Sql!Remaining, Remaining, Sql!InOrder, InOrder, Sql!SetToSeqs, SetToSeqs,
         Sql!Cardinality, Cardinality
<1>3. ASSUME NEW card, NEW rating, NEW now
      PROVE  Sql!ApplyRating(card, rating, now) = ApplyRating(card, rating, now)
  BY DEF Sql!ApplyRating, ApplyRating, Sql!ApplyStepRating, ApplyStepRating,
         Sql!ApplyReviewRating, ApplyReviewRating, Sql!Graduate, Graduate,
         Sql!Schedule, Schedule, Sql!CurrentStep, CurrentStep,
         Sql!ElapsedDays, ElapsedDays
<1> QED
  BY <1>1, <1>2, <1>3
-----------------------------------------------------------------------------
(* A Rating moves the row of a Card as it moves the Card of Scheduler, and *)
(* it looks at the last Review only through the days since then.           *)
CardFields ==
    {"deck_id", "text", "phase", "learning_step", "memory", "due", "last_review"}

IsCard(row) == row = [field \in CardFields |-> row[field]]

Alike(row, card) ==
    /\ row.text = card.text /\ row.phase = card.phase
    /\ row.learning_step = card.learning_step /\ row.memory = card.memory

(* `to` is what a rating of `row` leaves, if `moved` is what it leaves of  *)
(* the Card.                                                               *)
MovedAlike(row, to, moved) ==
    /\ IsCard(to) /\ Alike(to, moved) /\ to.due = moved.due
    /\ to.deck_id = row.deck_id /\ to.last_review = row.last_review

LEMMA SameDays ==
    ASSUME NEW row, NEW card, Alike(row, card), NEW rating, NEW now,
           ElapsedDays(row.last_review, now) = ElapsedDays(card.last_review, now)
    PROVE  Schedule(row.memory, row.last_review, rating, now)
             = Schedule(card.memory, card.last_review, rating, now)
BY DEF Alike, Schedule

LEMMA GraduateAlike ==
    ASSUME NEW row, IsCard(row), NEW card \in Card, Alike(row, card), NEW rating, NEW now,
           ElapsedDays(row.last_review, now) = ElapsedDays(card.last_review, now)
    PROVE  MovedAlike(row, Graduate(row, rating, now), Graduate(card, rating, now))
<1> DEFINE s == Schedule(card.memory, card.last_review, rating, now)
           Moved(c) == [c EXCEPT !.phase = "Review", !.learning_step = None,
                                 !.memory = s.memory, !.due = s.due]
<1>0. Schedule(row.memory, row.last_review, rating, now) = s
  BY SameDays
<1>1. Graduate(row, rating, now) = Moved(row) /\ Graduate(card, rating, now) = Moved(card)
  BY <1>0 DEF Graduate
<1> HIDE DEF s
<1>2. DOMAIN row = CardFields
  BY DEF IsCard
<1>3. /\ Moved(card).text = card.text /\ Moved(card).phase = "Review"
      /\ Moved(card).learning_step = None /\ Moved(card).memory = s.memory
      /\ Moved(card).due = s.due
  BY DEF Card
<1>4. /\ Moved(row).text = row.text /\ Moved(row).phase = "Review"
      /\ Moved(row).learning_step = None /\ Moved(row).memory = s.memory
      /\ Moved(row).due = s.due /\ Moved(row).deck_id = row.deck_id
      /\ Moved(row).last_review = row.last_review
  BY <1>2 DEF CardFields
<1>5. DOMAIN Moved(row) = CardFields
  BY <1>2
<1>6. Moved(row) = [x \in DOMAIN Moved(row) |-> Moved(row)[x]]
  OBVIOUS
<1> HIDE DEF Moved
<1> QED
  BY <1>1, <1>3, <1>4, <1>5, <1>6 DEF MovedAlike, IsCard, Alike

LEMMA StepRatingAlike ==
    ASSUME NEW row, IsCard(row), NEW card \in Card, Alike(row, card), NEW rating, NEW now,
           NEW steps, NEW stay,
           ElapsedDays(row.last_review, now) = ElapsedDays(card.last_review, now)
    PROVE  MovedAlike(row, ApplyStepRating(row, rating, now, steps, stay),
                           ApplyStepRating(card, rating, now, steps, stay))
<1> DEFINE i == CurrentStep(card, steps)
           AtStep(c, k) == [c EXCEPT !.phase = stay, !.learning_step = k,
                                     !.due = now + steps[k + 1]]
           Moved(c) == CASE rating = "Again" -> AtStep(c, 0)
                         [] rating = "Hard"  -> AtStep(c, i)
                         [] rating = "Good" /\ i + 1 < Len(steps) -> AtStep(c, i + 1)
                         [] OTHER -> Graduate(c, rating, now)
<1>1. CurrentStep(row, steps) = i
  BY DEF CurrentStep, Alike
<1>2. ApplyStepRating(row, rating, now, steps, stay) = Moved(row)
  BY <1>1 DEF ApplyStepRating
<1>3. ApplyStepRating(card, rating, now, steps, stay) = Moved(card)
  BY DEF ApplyStepRating
<1>4. ASSUME NEW k PROVE MovedAlike(row, AtStep(row, k), AtStep(card, k))
  <2> DEFINE at == now + steps[k + 1]
             At(c) == [c EXCEPT !.phase = stay, !.learning_step = k, !.due = at]
  <2>1. AtStep(row, k) = At(row) /\ AtStep(card, k) = At(card)
    OBVIOUS
  <2> HIDE DEF at
  <2>2. DOMAIN row = CardFields
    BY DEF IsCard
  <2>3. /\ At(card).text = card.text /\ At(card).phase = stay
        /\ At(card).learning_step = k /\ At(card).memory = card.memory
        /\ At(card).due = at
    BY DEF Card
  <2>4. /\ At(row).text = row.text /\ At(row).phase = stay
        /\ At(row).learning_step = k /\ At(row).memory = row.memory
        /\ At(row).due = at /\ At(row).deck_id = row.deck_id
        /\ At(row).last_review = row.last_review
    BY <2>2 DEF CardFields
  <2>5. DOMAIN At(row) = CardFields
    BY <2>2
  <2>6. At(row) = [x \in DOMAIN At(row) |-> At(row)[x]]
    OBVIOUS
  <2> HIDE DEF At, AtStep
  <2> QED
    BY <2>1, <2>3, <2>4, <2>5, <2>6 DEF MovedAlike, IsCard, Alike
<1>5. MovedAlike(row, Graduate(row, rating, now), Graduate(card, rating, now))
  BY GraduateAlike
<1> HIDE DEF i, AtStep
<1>6. MovedAlike(row, Moved(row), Moved(card))
  BY <1>4, <1>5
<1> HIDE DEF Moved
<1> QED
  BY <1>2, <1>3, <1>6

LEMMA ReviewRatingAlike ==
    ASSUME NEW row, IsCard(row), NEW card \in Card, Alike(row, card), NEW rating, NEW now,
           ElapsedDays(row.last_review, now) = ElapsedDays(card.last_review, now)
    PROVE  MovedAlike(row, ApplyReviewRating(row, rating, now),
                           ApplyReviewRating(card, rating, now))
<1> DEFINE s == Schedule(card.memory, card.last_review, rating, now)
           phase == IF rating = "Again" THEN "Relearning" ELSE "Review"
           step == IF rating = "Again" THEN 0 ELSE None
           at == IF rating = "Again" THEN now + RelearningSteps[1] ELSE s.due
           Moved(c) == [c EXCEPT !.phase = phase, !.learning_step = step,
                                 !.memory = s.memory, !.due = at]
<1>1. Schedule(row.memory, row.last_review, rating, now) = s
  BY SameDays
<1>2. ApplyReviewRating(row, rating, now) = Moved(row)
  BY <1>1 DEF ApplyReviewRating
<1>3. ApplyReviewRating(card, rating, now) = Moved(card)
  BY DEF ApplyReviewRating
<1> HIDE DEF s, phase, step, at
<1>4. DOMAIN row = CardFields
  BY DEF IsCard
<1>5. /\ Moved(card).text = card.text /\ Moved(card).phase = phase
      /\ Moved(card).learning_step = step /\ Moved(card).memory = s.memory
      /\ Moved(card).due = at
  BY DEF Card
<1>6. /\ Moved(row).text = row.text /\ Moved(row).phase = phase
      /\ Moved(row).learning_step = step /\ Moved(row).memory = s.memory
      /\ Moved(row).due = at /\ Moved(row).deck_id = row.deck_id
      /\ Moved(row).last_review = row.last_review
  BY <1>4 DEF CardFields
<1>7. DOMAIN Moved(row) = CardFields
  BY <1>4
<1>8. Moved(row) = [x \in DOMAIN Moved(row) |-> Moved(row)[x]]
  OBVIOUS
<1> HIDE DEF Moved
<1> QED
  BY <1>2, <1>3, <1>5, <1>6, <1>7, <1>8 DEF MovedAlike, IsCard, Alike

LEMMA RatingAlike ==
    ASSUME NEW row, IsCard(row), NEW card \in Card, CardWF(card), Alike(row, card),
           NEW rating \in Ratings, NEW now \in Times,
           ElapsedDays(row.last_review, now) = ElapsedDays(card.last_review, now)
    PROVE  LET to == ApplyRating(row, rating, now)
               moved == ApplyRating(card, rating, now)
           IN  /\ IsCard(to) /\ Alike(to, moved) /\ to.due = moved.due
               /\ to.deck_id = row.deck_id /\ to.last_review = now
<1> DEFINE Started(c) == IF c.phase = "New"
                         THEN [c EXCEPT !.phase = "Learning", !.learning_step = 0]
                         ELSE c
           Moved(c) ==
             CASE c.phase = "Learning" ->
                    ApplyStepRating(c, rating, now, LearningSteps, "Learning")
               [] c.phase = "Relearning" ->
                    ApplyStepRating(c, rating, now, RelearningSteps, "Relearning")
               [] OTHER -> ApplyReviewRating(c, rating, now)
           r == Started(row)
           s == Started(card)
           to == Moved(r)
           moved == Moved(s)
<1>1. /\ ApplyRating(row, rating, now) = [to EXCEPT !.last_review = now]
      /\ ApplyRating(card, rating, now) = [moved EXCEPT !.last_review = now]
  BY DEF ApplyRating
<1>2. /\ s \in Card /\ s.last_review = card.last_review
      /\ s.phase \in {"Learning", "Relearning", "Review"}
      /\ s.text = card.text /\ s.memory = card.memory
      /\ s.phase = IF card.phase = "New" THEN "Learning" ELSE card.phase
      /\ s.learning_step = IF card.phase = "New" THEN 0 ELSE card.learning_step
  BY DEF Card, Phases
<1>3. /\ DOMAIN row = CardFields
      /\ row.text = card.text /\ row.phase = card.phase
      /\ row.learning_step = card.learning_step /\ row.memory = card.memory
  BY DEF IsCard, Alike
<1>4. /\ r.text = s.text /\ r.phase = s.phase
      /\ r.learning_step = s.learning_step /\ r.memory = s.memory
      /\ r.last_review = row.last_review /\ r.deck_id = row.deck_id
  BY <1>2, <1>3 DEF CardFields
<1>5. DOMAIN r = CardFields
  BY <1>3
<1>6. IsCard(r)
  <2>1. r = [x \in DOMAIN r |-> r[x]]
    <3>1. CASE row.phase = "New"
      BY <3>1
    <3>2. CASE row.phase # "New"
      BY <1>3, <3>2 DEF IsCard
    <3> QED
      BY <3>1, <3>2
  <2> HIDE DEF r
  <2> QED
    BY <1>5, <2>1 DEF IsCard
<1> HIDE DEF r, s, Started
<1>7. ElapsedDays(r.last_review, now) = ElapsedDays(s.last_review, now) /\ Alike(r, s)
  BY <1>2, <1>4 DEF Alike
<1>8. MovedAlike(r, to, moved)
  <2>1. MovedAlike(r, ApplyStepRating(r, rating, now, LearningSteps, "Learning"),
                      ApplyStepRating(s, rating, now, LearningSteps, "Learning"))
    BY <1>2, <1>6, <1>7, StepRatingAlike
  <2>2. MovedAlike(r, ApplyStepRating(r, rating, now, RelearningSteps, "Relearning"),
                      ApplyStepRating(s, rating, now, RelearningSteps, "Relearning"))
    BY <1>2, <1>6, <1>7, StepRatingAlike
  <2>3. MovedAlike(r, ApplyReviewRating(r, rating, now), ApplyReviewRating(s, rating, now))
    BY <1>2, <1>6, <1>7, ReviewRatingAlike
  <2> QED
    BY <1>4, <2>1, <2>2, <2>3
<1>9. moved \in Card
  <2>1. /\ LearningSteps \in Seq(Nat) /\ LearningSteps # <<>>
        /\ RelearningSteps \in Seq(Nat) /\ RelearningSteps # <<>>
        /\ "Learning" \in Phases /\ "Relearning" \in Phases
    BY StepsAssumption DEF Phases
  <2> QED
    BY <1>2, <2>1, ApplyStepRatingCorrect, ApplyReviewRatingCorrect
<1> HIDE DEF to, moved, Moved
<1> DEFINE last == [moved EXCEPT !.last_review = now]
           left == [to EXCEPT !.last_review = now]
<1>10. /\ last.text = moved.text /\ last.phase = moved.phase
       /\ last.learning_step = moved.learning_step /\ last.memory = moved.memory
       /\ last.due = moved.due
  BY <1>9 DEF Card
<1>11. DOMAIN to = CardFields
  BY <1>8 DEF MovedAlike, IsCard
<1>12. /\ left.text = to.text /\ left.phase = to.phase
       /\ left.learning_step = to.learning_step /\ left.memory = to.memory
       /\ left.due = to.due /\ left.deck_id = to.deck_id /\ left.last_review = now
  BY <1>11 DEF CardFields
<1>13. DOMAIN left = CardFields /\ left = [x \in DOMAIN left |-> left[x]]
  BY <1>11
<1> HIDE DEF last, left
<1>14. IsCard(left)
  BY <1>13 DEF IsCard
<1> QED
  BY <1>1, <1>4, <1>8, <1>10, <1>12, <1>14 DEF MovedAlike, Alike, last, left

(* One Rating of one row: what it leaves is a good row again, and the row  *)
(* that was read back from SQLite is left the same.                        *)
LEMMA RatedRow ==
    ASSUME NEW card, NEW now \in Times, CardOk(card), NEW rating \in Ratings,
           ElapsedDays(Rfc3339(card.last_review), now) = ElapsedDays(card.last_review, now)
    PROVE  LET to == ApplyRating(card, rating, now)
           IN  /\ CardOk(to)
               /\ to.deck_id = card.deck_id /\ to.text = card.text
               /\ ApplyRating(Stored(card), rating, now) = to
<1> DEFINE f == [text |-> card.text, phase |-> card.phase,
                 learning_step |-> card.learning_step, memory |-> card.memory,
                 due |-> card.due, last_review |-> card.last_review]
           moved == ApplyRating(f, rating, now)
           to == ApplyRating(card, rating, now)
           again == ApplyRating(Stored(card), rating, now)
<1>1. f \in Card /\ CardWF(f) /\ f.last_review = card.last_review
  BY DEF CardOk, CardRow, Card, CardWF
<1>2. /\ IsCard(card) /\ Alike(card, f)
      /\ card.last_review \in Times \cup {None} /\ card.deck_id \in Nat
  BY DEF CardOk, CardRow, IsCard, CardFields, Alike
<1>3. IsCard(Stored(card)) /\ Alike(Stored(card), f)
      /\ Stored(card).deck_id = card.deck_id
      /\ Stored(card).last_review = Rfc3339(card.last_review)
  <2> DEFINE back == Stored(card)
  <2>1. DOMAIN card = CardFields
    BY <1>2 DEF IsCard
  <2>2. DOMAIN back = CardFields /\ back = [x \in DOMAIN back |-> back[x]]
    BY <2>1 DEF Stored
  <2>3. /\ back.text = card.text /\ back.phase = card.phase
        /\ back.learning_step = card.learning_step /\ back.memory = card.memory
        /\ back.deck_id = card.deck_id
        /\ back.last_review = Rfc3339(card.last_review)
    BY <2>1 DEF Stored, CardFields
  <2> HIDE DEF back
  <2>4. IsCard(back)
    BY <2>2 DEF IsCard
  <2> QED
    BY <2>3, <2>4 DEF Alike, back
<1>4. RatedCard(f, rating, now, moved)
  BY <1>1, ApplyRatingCorrect
<1>7. f.text = card.text
  OBVIOUS
<1> HIDE DEF f, moved
<1>8. /\ IsCard(to) /\ Alike(to, moved) /\ to.due = moved.due
      /\ to.deck_id = card.deck_id /\ to.last_review = now
  BY <1>1, <1>2, RatingAlike DEF moved
<1>9. /\ IsCard(again) /\ Alike(again, moved) /\ again.due = moved.due
      /\ again.deck_id = card.deck_id /\ again.last_review = now
  BY <1>1, <1>3, RatingAlike DEF moved
<1> HIDE DEF to, again
<1>10. again = to
  BY <1>8, <1>9 DEF IsCard, Alike, CardFields
<1>11. /\ moved \in Card /\ CardWF(moved) /\ moved.text = card.text
       /\ moved.last_review = now
  BY <1>4, <1>7 DEF RatedCard
<1>12. /\ to \in CardRow
       /\ to.due \in Nat \cup {None} /\ to.last_review \in Times \cup {None}
  <2>1. /\ to.text \in Texts /\ to.phase \in Phases
        /\ to.learning_step \in Nat \cup {None} /\ to.memory \in Memory \cup {None}
        /\ to.due \in Nat \cup {None}
    BY <1>8, <1>11 DEF Card, Alike
  <2>2. to = [deck_id |-> to.deck_id, text |-> to.text, phase |-> to.phase,
              learning_step |-> to.learning_step, memory |-> to.memory,
              due |-> to.due, last_review |-> to.last_review]
    BY <1>8 DEF IsCard, CardFields
  <2>3. now \in Int
    BY TimesAreInt
  <2>4. to.due \in Int \cup {None}
    BY <2>1
  <2> QED
    BY <1>2, <1>8, <2>1, <2>2, <2>3, <2>4 DEF CardRow
<1>13. CardWF(to)
  BY <1>8, <1>11 DEF CardWF, Alike
<1>14. CardOk(to)
  BY <1>12, <1>13 DEF CardOk
<1>15. to.text = card.text
  BY <1>8, <1>11 DEF Alike
<1> QED
  BY <1>8, <1>10, <1>14, <1>15 DEF to, again
-----------------------------------------------------------------------------
(* The calls about Users.  `a` is what MemStore returns and `b` what       *)
(* SqlStore does.                                                          *)
Kept(a, b, now) == MemOk(a.to, now) /\ Agree(a.to, b.to)

LEMMA NamedUser ==
    ASSUME NEW m, UsersOk(m), NEW name
    PROVE  (Mem!GetUserByUsername(m, name) # None)
             <=> \E u \in DOMAIN m.users : UsernamesEqual(m.users[u].username, name)
<1> DEFINE named == {u \in DOMAIN m.users : UsernamesEqual(m.users[u].username, name)}
           least == CHOOSE u \in named : \A v \in named : u <= v
<1>1. Mem!GetUserByUsername(m, name)
        = IF named = {} THEN None ELSE <<least, m.users[least]>>
  BY DEF Mem!GetUserByUsername, Mem!UsernamesEqual, UsernamesEqual
<1>2. CASE named = {}
  BY <1>1, <1>2
<1>3. CASE named # {}
  <2>1. named \subseteq Nat
    BY DEF UsersOk
  <2>2. \E u \in named : \A v \in named : u <= v
    BY <1>3, <2>1, LeastNat
  <2>3. least \in named
    BY <2>2
  <2> HIDE DEF least
  <2>4. <<least, m.users[least]>> \in Nat \X UserRow
    BY <2>1, <2>3 DEF UsersOk
  <2>5. <<least, m.users[least]>> # None
    BY <2>4, NoneIsNoRow
  <2> QED
    BY <1>1, <1>3, <2>5
<1> QED
  BY <1>2, <1>3

LEMMA CreateUserAgrees ==
    ASSUME NEW m, NEW s, NEW now, MemOk(m, now), Agree(m, s),
           NEW name \in Usernames, NEW hash \in PasswordHashes, NEW admin \in BOOLEAN
    PROVE  LET a == Mem!CreateUser(m, name, hash, admin)
               b == Sql!CreateUser(s, name, hash, admin)
           IN  Kept(a, b, now) /\ b.answer = a.answer
<1> DEFINE a == Mem!CreateUser(m, name, hash, admin)
           b == Sql!CreateUser(s, name, hash, admin)
           row == [username |-> name, password_hash |-> hash,
                   admin |-> admin, disabled |-> FALSE]
           taken == \E u \in DOMAIN m.users : UsernamesEqual(m.users[u].username, name)
           to == [m EXCEPT !.next_user = @ + 1, !.users = Put(@, m.next_user, row)]
           tables == [s EXCEPT !.sqlite_sequence["users"] = @ + 1,
                               !.users = Put(@, s.sqlite_sequence["users"] + 1, row)]
<1>1. a = IF taken THEN [to |-> m, answer |-> Err("UsernameTaken")]
          ELSE [to |-> to, answer |-> Ok(<<m.next_user, row>>)]
  BY NamedUser DEF MemOk, Mem!CreateUser, Mem!Return, Mem!Err, Err, Mem!Ok, Ok, Mem!Put, Put
<1>2. b = IF taken THEN [to |-> s, answer |-> Err("UsernameTaken")]
          ELSE [to |-> tables,
                answer |-> Ok(<<s.sqlite_sequence["users"] + 1, row>>)]
  <2>1. s.users = m.users
    BY DEF Agree
  <2>2. Sql!Insert(s, "users", row) = tables
    BY DEF Sql!Insert, Sql!NextId, Sql!Put, Put
  <2>3. b = IF \E u \in DOMAIN s.users : UsernamesEqual(s.users[u].username, name)
            THEN [to |-> s, answer |-> Err("UsernameTaken")]
            ELSE [to |-> Sql!Insert(s, "users", row),
                  answer |-> Ok(<<s.sqlite_sequence["users"] + 1, row>>)]
    BY DEF Sql!CreateUser, Sql!Return, Sql!Err, Err, Sql!Ok, Ok, Sql!NextId,
           Sql!UsernamesEqual, UsernamesEqual
  <2> HIDE DEF tables
  <2> QED
    BY <2>1, <2>2, <2>3
<1>3. CASE taken
  BY <1>1, <1>2, <1>3 DEF Kept
<1>4. CASE ~taken
  <2>1. s.sqlite_sequence["users"] + 1 = m.next_user
    BY DEF Agree, MemOk, Shape
  <2>2. row \in UserRow /\ row.username = name
    BY DEF UserRow
  <2> HIDE DEF row
  <2>3. DOMAIN m = DOMAIN to /\ DOMAIN m = {"next_user", "next_deck", "next_card", "next_session", "users",
                   "sessions", "decks", "deck_owners", "cards", "reviews"}
    BY DEF MemOk, Shape
  <2>4. /\ to.next_user = m.next_user + 1 /\ to.users = Put(m.users, m.next_user, row)
        /\ to.next_deck = m.next_deck /\ to.next_card = m.next_card
        /\ to.next_session = m.next_session /\ to.sessions = m.sessions
        /\ to.decks = m.decks /\ to.deck_owners = m.deck_owners
        /\ to.cards = m.cards /\ to.reviews = m.reviews
    BY <2>3
  <2>5. DOMAIN tables = DOMAIN s
    BY DEF Agree
  <2>6. /\ tables.sqlite_sequence = [s.sqlite_sequence EXCEPT !["users"] = @ + 1]
        /\ tables.users = Put(s.users, m.next_user, row) /\ tables.sessions = s.sessions
        /\ tables.decks = s.decks /\ tables.cards = s.cards
        /\ tables.review_logs = s.review_logs
    BY <2>1 DEF Agree
  <2> HIDE DEF to, tables
  <2>7. Agree(to, tables)
    <3>1. tables.sqlite_sequence
            = [users |-> to.next_user - 1, decks |-> to.next_deck - 1,
               cards |-> to.next_card - 1, sessions |-> to.next_session - 1]
      BY <2>4, <2>6 DEF Agree, MemOk, Shape
    <3> QED
      BY <2>4, <2>5, <2>6, <3>1 DEF Agree
  <2>8. MemOk(to, now)
    <3>1. Shape(to)
      BY <2>3, <2>4 DEF MemOk, Shape
    <3>2. UsersOk(to) /\ DOMAIN m.users \subseteq DOMAIN to.users
      BY <1>4, <2>2, <2>4 DEF MemOk, UsersOk, Put, UsernamesEqual, Shape
    <3>3. SessionsOk(to)
      BY <2>4, <3>2 DEF MemOk, SessionsOk
    <3>4. DecksOk(to)
      BY <2>4, <3>2 DEF MemOk, DecksOk
    <3>5. CardsOk(to) /\ LogOk(to, now)
      BY <2>4 DEF MemOk, CardsOk, LogOk
    <3> QED
      BY <3>1, <3>2, <3>3, <3>4, <3>5 DEF MemOk
  <2> QED
    BY <1>1, <1>2, <1>4, <2>1, <2>7, <2>8 DEF Kept
<1> QED
  BY <1>3, <1>4

LEMMA ChangeUserAgrees ==
    ASSUME NEW m, NEW s, NEW now, MemOk(m, now), Agree(m, s), NEW user, NEW row,
           user \in DOMAIN m.users =>
              row \in UserRow /\ row.username = m.users[user].username
    PROVE  LET a == Mem!ChangeUser(m, user, row)
               b == Sql!UpdateUser(s, user, row)
           IN  Kept(a, b, now) /\ b.answer = a.answer
<1> DEFINE a == Mem!ChangeUser(m, user, row)
           b == Sql!UpdateUser(s, user, row)
           to == [m EXCEPT !.users[user] = row]
           tables == [s EXCEPT !.users[user] = row]
<1>1. a = IF user \notin DOMAIN m.users THEN [to |-> m, answer |-> Err("UserNotFound")]
          ELSE [to |-> to, answer |-> Ok(<<user, row>>)]
  BY DEF Mem!ChangeUser, Mem!Return, Mem!Err, Err, Mem!Ok, Ok
<1>2. b = IF user \notin DOMAIN s.users THEN [to |-> s, answer |-> Err("UserNotFound")]
          ELSE [to |-> tables, answer |-> Ok(<<user, row>>)]
  BY DEF Sql!UpdateUser, Sql!Return, Sql!Err, Err, Sql!Ok, Ok
<1>3. s.users = m.users
  BY DEF Agree
<1>4. CASE user \notin DOMAIN m.users
  BY <1>1, <1>2, <1>3, <1>4 DEF Kept
<1>5. CASE user \in DOMAIN m.users
  <2>1. /\ DOMAIN to = DOMAIN m /\ to.users = [m.users EXCEPT ![user] = row]
        /\ to.next_user = m.next_user /\ to.next_deck = m.next_deck
        /\ to.next_card = m.next_card /\ to.next_session = m.next_session
        /\ to.sessions = m.sessions /\ to.decks = m.decks
        /\ to.deck_owners = m.deck_owners /\ to.cards = m.cards
        /\ to.reviews = m.reviews
    BY DEF MemOk, Shape
  <2>2. /\ DOMAIN tables = DOMAIN s /\ tables.users = [s.users EXCEPT ![user] = row]
        /\ tables.sqlite_sequence = s.sqlite_sequence /\ tables.sessions = s.sessions
        /\ tables.decks = s.decks /\ tables.cards = s.cards
        /\ tables.review_logs = s.review_logs
    BY DEF Agree
  <2> HIDE DEF to, tables
  <2>3. Agree(to, tables)
    BY <1>3, <2>1, <2>2 DEF Agree
  <2>4. DOMAIN to.users = DOMAIN m.users
    BY <2>1
  <2>5. Shape(to)
    BY <2>1 DEF MemOk, Shape
  <2>6. UsersOk(to)
    <3>1. to.users \in [DOMAIN to.users -> UserRow] /\ DOMAIN to.users \subseteq Nat
      BY <1>5, <2>1 DEF MemOk, UsersOk
    <3>2. \A u \in DOMAIN m.users : to.users[u].username = m.users[u].username
      BY <1>5, <2>1
    <3> QED
      BY <2>4, <3>1, <3>2 DEF MemOk, UsersOk, UsernamesEqual
  <2>7. SessionsOk(to) /\ DecksOk(to)
    BY <2>1, <2>4 DEF MemOk, SessionsOk, DecksOk
  <2>8. CardsOk(to) /\ LogOk(to, now)
    BY <2>1 DEF MemOk, CardsOk, LogOk
  <2> QED
    BY <1>1, <1>2, <1>3, <1>5, <2>3, <2>5, <2>6, <2>7, <2>8 DEF Kept, MemOk
<1> QED
  BY <1>4, <1>5

LEMMA SetPasswordHashAgrees ==
    ASSUME NEW m, NEW s, NEW now, MemOk(m, now), Agree(m, s), NEW user,
           NEW hash \in PasswordHashes
    PROVE  LET a == Mem!SetPasswordHash(m, user, hash)
               b == Sql!SetPasswordHash(s, user, hash)
           IN  Kept(a, b, now) /\ b.answer = a.answer
<1> DEFINE row == [Mem!GetUser(m, user) EXCEPT !.password_hash = hash]
<1>1. s.users = m.users
  BY DEF Agree
<1>2. Sql!GetUser(s, user) = Mem!GetUser(m, user)
  BY <1>1 DEF Sql!GetUser, Mem!GetUser, Sql!Find, Mem!Find
<1>3. /\ Mem!SetPasswordHash(m, user, hash) = Mem!ChangeUser(m, user, row)
      /\ Sql!SetPasswordHash(s, user, hash) = Sql!UpdateUser(s, user, row)
  BY <1>2 DEF Mem!SetPasswordHash, Sql!SetPasswordHash
<1>4. ASSUME user \in DOMAIN m.users
      PROVE  row \in UserRow /\ row.username = m.users[user].username
  <2>1. m.users[user] \in UserRow
    BY <1>4 DEF MemOk, UsersOk
  <2>2. Mem!GetUser(m, user) = m.users[user]
    BY <1>4 DEF Mem!GetUser, Mem!Find
  <2> QED
    BY <2>1, <2>2 DEF UserRow
<1> HIDE DEF row
<1> QED
  BY <1>3, <1>4, ChangeUserAgrees

LEMMA SetDisabledAgrees ==
    ASSUME NEW m, NEW s, NEW now, MemOk(m, now), Agree(m, s), NEW user,
           NEW disabled \in BOOLEAN
    PROVE  LET a == Mem!SetDisabled(m, user, disabled)
               b == Sql!SetDisabled(s, user, disabled)
           IN  Kept(a, b, now) /\ b.answer = a.answer
<1> DEFINE row == [Mem!GetUser(m, user) EXCEPT !.disabled = disabled]
<1>1. s.users = m.users
  BY DEF Agree
<1>2. Sql!GetUser(s, user) = Mem!GetUser(m, user)
  BY <1>1 DEF Sql!GetUser, Mem!GetUser, Sql!Find, Mem!Find
<1>3. /\ Mem!SetDisabled(m, user, disabled) = Mem!ChangeUser(m, user, row)
      /\ Sql!SetDisabled(s, user, disabled) = Sql!UpdateUser(s, user, row)
  BY <1>2 DEF Mem!SetDisabled, Sql!SetDisabled
<1>4. ASSUME user \in DOMAIN m.users
      PROVE  row \in UserRow /\ row.username = m.users[user].username
  <2>1. m.users[user] \in UserRow
    BY <1>4 DEF MemOk, UsersOk
  <2>2. Mem!GetUser(m, user) = m.users[user]
    BY <1>4 DEF Mem!GetUser, Mem!Find
  <2> QED
    BY <2>1, <2>2 DEF UserRow
<1> HIDE DEF row
<1> QED
  BY <1>3, <1>4, ChangeUserAgrees

-----------------------------------------------------------------------------
(* SqlStore means the same by what it takes from Rows. *)
LEMMA SameRows ==
    /\ \A instant : Sql!Rfc3339(instant) = Rfc3339(instant)
    /\ \A row : Sql!Readable(row) <=> Readable(row)
    /\ \A row : Sql!RowChecks(row) <=> RowChecks(row)
    /\ \A row : Sql!CardFromRow(row) = CardFromRow(row)
    /\ \A row, card : Sql!WriteReview(row, card) = WriteReview(row, card)
    /\ \A deck, text : Sql!NewRow(deck, text) = NewRow(deck, text)
    /\ \A value : Sql!PhaseFromDb(value) = PhaseFromDb(value)
<1>1. \A instant : Sql!Rfc3339(instant) = Rfc3339(instant)
  BY DEF Sql!Rfc3339, Rfc3339
<1>2. \A row : Sql!Readable(row) <=> Readable(row)
  BY DEF Sql!Readable, Readable, Sql!InvalidPhase, InvalidPhase,
         Sql!InvalidLearningStep, InvalidLearningStep, Sql!IncompleteFsrs,
         IncompleteFsrs, Sql!InvalidTimestamp, InvalidTimestamp,
         Sql!PhaseToDb, PhaseToDb, Sql!Phases, Phases
<1>3. \A row : Sql!RowChecks(row) <=> RowChecks(row)
  BY DEF Sql!RowChecks, RowChecks
<1>4. \A value : Sql!PhaseFromDb(value) = PhaseFromDb(value)
  BY DEF Sql!PhaseFromDb, PhaseFromDb, Sql!PhaseToDb, PhaseToDb, Sql!Phases, Phases
<1>5. \A row : Sql!CardFromRow(row) = CardFromRow(row)
  BY <1>4 DEF Sql!CardFromRow, CardFromRow
<1>6. ASSUME NEW row, NEW card PROVE Sql!WriteReview(row, card) = WriteReview(row, card)
  BY DEF Sql!WriteReview, WriteReview, Sql!PhaseToDb, PhaseToDb, Sql!Rfc3339, Rfc3339
<1>7. \A deck, text : Sql!NewRow(deck, text) = NewRow(deck, text)
  BY DEF Sql!NewRow, NewRow
<1> QED
  BY <1>1, <1>2, <1>3, <1>4, <1>5, <1>6, <1>7

(* The log that is left when Cards go. *)
LEMMA ListedLog ==
    ASSUME NEW log, log \in Seq(Entry), NEW ids
    PROVE  LET kept  == {i \in DOMAIN log : log[i].card_id \in ids}
               order == InOrder(kept, {pair \in kept \X kept : pair[1] < pair[2]})
           IN  /\ order \in Seq(kept)
               /\ \A i, j \in DOMAIN order : i < j => order[i] < order[j]
<1> DEFINE kept  == {i \in DOMAIN log : log[i].card_id \in ids}
           before == {pair \in kept \X kept : pair[1] < pair[2]}
           order == InOrder(kept, before)
<1>1. kept \subseteq Nat /\ IsFiniteSet(kept)
  <2>1. Len(log) \in Nat /\ DOMAIN log = 1..Len(log)
    OBVIOUS
  <2>2. IsFiniteSet(1..Len(log)) /\ kept \subseteq 1..Len(log)
    BY <2>1, FS_Interval
  <2> QED
    BY <2>2, FS_Subset
<1> HIDE DEF kept
<1>2. \A U \in SUBSET kept : U # {} => \E m \in U : \A x \in U \ {m} : <<m, x>> \in before
  <2> SUFFICES ASSUME NEW U \in SUBSET kept, U # {}
               PROVE  \E m \in U : \A x \in U \ {m} : <<m, x>> \in before
    OBVIOUS
  <2>1. PICK m \in U : \A x \in U : m <= x
    BY <1>1, LeastNat
  <2>2. ASSUME NEW x \in U \ {m} PROVE m < x /\ <<m, x>> \in kept \X kept
    BY <1>1, <2>1
  <2> QED
    BY <2>1, <2>2
<1> HIDE DEF before
<1>3. \E listing \in SetToSeqs(kept) :
         \A i, j \in DOMAIN listing : i < j => <<listing[i], listing[j]>> \in before
  BY <1>1, <1>2, SortExists
<1>4. order \in SetToSeqs(kept)
      /\ \A i, j \in DOMAIN order : i < j => <<order[i], order[j]>> \in before
  BY <1>3 DEF InOrder
<1> HIDE DEF order
<1>5. order \in Seq(kept)
  BY <1>1, <1>4, ListsAll
<1>6. \A i, j \in DOMAIN order : i < j => order[i] < order[j]
  BY <1>4 DEF before
<1> QED
  BY <1>5, <1>6 DEF order, before, kept

LogLeft(log, ids, rest) ==
    /\ rest \in Seq(Entry)
    /\ \A k \in DOMAIN rest :
          rest[k].card_id \in ids /\ \E i \in DOMAIN log : rest[k] = log[i]
    /\ \A k, l \in DOMAIN rest :
          k < l => \E i, j \in DOMAIN log :
                      i < j /\ rest[k] = log[i] /\ rest[l] = log[j]

LEMMA RemainingCorrect ==
    ASSUME NEW log, log \in Seq(Entry), NEW ids
    PROVE  LogLeft(log, ids, Remaining(log, ids))
<1> DEFINE kept  == {i \in DOMAIN log : log[i].card_id \in ids}
           order == InOrder(kept, {pair \in kept \X kept : pair[1] < pair[2]})
           rest == Remaining(log, ids)
<1>1. order \in Seq(kept) /\ \A i, j \in DOMAIN order : i < j => order[i] < order[j]
  BY ListedLog
<1>2. rest = [k \in DOMAIN order |-> log[order[k]]]
  BY DEF Remaining
<1> HIDE DEF order, rest
<1>3. DOMAIN order = 1..Len(order) /\ Len(order) \in Nat
      /\ \A k \in DOMAIN order : order[k] \in kept
  BY <1>1
<1>4. \A i \in kept : i \in DOMAIN log /\ log[i].card_id \in ids /\ log[i] \in Entry
  OBVIOUS
<1> HIDE DEF kept
<1>5. rest \in [1..Len(order) -> Entry]
  BY <1>2, <1>3, <1>4
<1>6. rest \in Seq(Entry)
  BY <1>3, <1>5
<1>7. DOMAIN rest = DOMAIN order
  BY <1>2
<1>8. \A k \in DOMAIN rest :
         rest[k].card_id \in ids /\ \E i \in DOMAIN log : rest[k] = log[i]
  BY <1>2, <1>3, <1>4, <1>7
<1>9. \A k, l \in DOMAIN rest :
         k < l => \E i, j \in DOMAIN log :
                     i < j /\ rest[k] = log[i] /\ rest[l] = log[j]
  BY <1>1, <1>2, <1>3, <1>4, <1>7
<1> QED
  BY <1>6, <1>8, <1>9 DEF rest, LogLeft

LEMMA RemainingStored ==
    ASSUME NEW log, log \in Seq(Entry), NEW ids
    PROVE  LET rest == Remaining(log, ids)
           IN  Remaining([i \in DOMAIN log |-> StoredEntry(log[i])], ids)
                 = [k \in DOMAIN rest |-> StoredEntry(rest[k])]
<1> DEFINE stored == [i \in DOMAIN log |-> StoredEntry(log[i])]
           kept  == {i \in DOMAIN log : log[i].card_id \in ids}
           same == {i \in DOMAIN stored : stored[i].card_id \in ids}
           Order(S) == InOrder(S, {pair \in S \X S : pair[1] < pair[2]})
           rest == Remaining(log, ids)
<1>1. \A i \in DOMAIN log : stored[i].card_id = log[i].card_id
  <2>1. ASSUME NEW entry \in Entry PROVE StoredEntry(entry).card_id = entry.card_id
    BY DEF StoredEntry, Entry
  <2>2. \A i \in DOMAIN log : log[i] \in Entry
    OBVIOUS
  <2> QED
    BY <2>1, <2>2
<1>2. kept = same
  BY <1>1
<1>3. rest = [k \in DOMAIN Order(kept) |-> log[Order(kept)[k]]]
  BY DEF Remaining
<1>4. Remaining(stored, ids) = [k \in DOMAIN Order(same) |-> stored[Order(same)[k]]]
  BY DEF Remaining
<1>5. Order(kept) \in Seq(kept)
  BY ListedLog
<1> DEFINE order == Order(kept)
<1>6. \A k \in DOMAIN order : order[k] \in DOMAIN log
  BY <1>5
<1> HIDE DEF order, kept, same, rest, Order
<1>7. rest = [k \in DOMAIN order |-> log[order[k]]]
  BY <1>3 DEF order
<1>8. Remaining(stored, ids) = [k \in DOMAIN order |-> stored[order[k]]]
  BY <1>2, <1>4 DEF order
<1>9. \A k \in DOMAIN order : stored[order[k]] = StoredEntry(rest[k])
  BY <1>6, <1>7
<1>10. DOMAIN rest = DOMAIN order
  BY <1>7
<1> HIDE DEF stored
<1>11. Remaining(stored, ids) = [k \in DOMAIN rest |-> StoredEntry(rest[k])]
  BY <1>8, <1>9, <1>10
<1> QED
  BY <1>11 DEF stored, rest

LEMMA RemainingSame ==
    ASSUME NEW log, NEW ids, NEW others,
           \A i \in DOMAIN log : log[i].card_id \in ids <=> log[i].card_id \in others
    PROVE  Remaining(log, ids) = Remaining(log, others)
<1>1. {i \in DOMAIN log : log[i].card_id \in ids}
        = {i \in DOMAIN log : log[i].card_id \in others}
  OBVIOUS
<1> QED
  BY <1>1 DEF Remaining

(* `t` is what a DELETE leaves of the tables before the foreign keys act:  *)
(* the rows `users`, `decks` and `cards`.  `to` is what MemStore keeps:    *)
(* those of them whose User and whose Deck are kept.                       *)
Deleted(m, s, users, decks, cards, t, to) ==
    LET leftDecks == {d \in decks : m.deck_owners[d] \in users}
        leftCards == {c \in cards : m.cards[c].deck_id \in leftDecks}
        sessions == {i \in DOMAIN m.sessions : m.sessions[i].user_id \in users}
    IN  /\ users \subseteq DOMAIN m.users
        /\ decks \subseteq DOMAIN m.decks
        /\ cards \subseteq DOMAIN m.cards
        /\ DOMAIN t = DOMAIN s /\ t.sqlite_sequence = s.sqlite_sequence
        /\ t.users = Restrict(s.users, users) /\ t.sessions = s.sessions
        /\ t.decks = Restrict(s.decks, decks) /\ t.cards = Restrict(s.cards, cards)
        /\ t.review_logs = s.review_logs
        /\ DOMAIN to = DOMAIN m
        /\ to.next_user = m.next_user /\ to.next_deck = m.next_deck
        /\ to.next_card = m.next_card /\ to.next_session = m.next_session
        /\ to.users = Restrict(m.users, users)
        /\ to.sessions = Restrict(m.sessions, sessions)
        /\ to.decks = Restrict(m.decks, leftDecks)
        /\ to.deck_owners = Restrict(m.deck_owners, leftDecks)
        /\ to.cards = Restrict(m.cards, leftCards)
        /\ to.reviews = Remaining(m.reviews, leftCards)

(* Rows that go take with them what belongs to them, in both Stores. *)
LEMMA CascadeAgrees ==
    ASSUME NEW m, NEW s, NEW now, MemOk(m, now), Agree(m, s),
           NEW users, NEW decks, NEW cards, NEW t, NEW to,
           Deleted(m, s, users, decks, cards, t, to)
    PROVE  MemOk(to, now) /\ Agree(to, Sql!Cascade(t))
<1> SUFFICES
      ASSUME users \in SUBSET DOMAIN m.users,
             decks \in SUBSET DOMAIN m.decks,
             cards \in SUBSET DOMAIN m.cards,
             NEW leftDecks, leftDecks = {d \in decks : m.deck_owners[d] \in users},
             NEW leftCards, leftCards = {c \in cards : m.cards[c].deck_id \in leftDecks},
             DOMAIN t = DOMAIN s,
             t.sqlite_sequence = s.sqlite_sequence, t.users = Restrict(s.users, users),
             t.sessions = s.sessions, t.decks = Restrict(s.decks, decks),
             t.cards = Restrict(s.cards, cards), t.review_logs = s.review_logs,
             DOMAIN to = DOMAIN m,
             to.next_user = m.next_user, to.next_deck = m.next_deck,
             to.next_card = m.next_card, to.next_session = m.next_session,
             to.users = Restrict(m.users, users),
             to.sessions = Restrict(m.sessions, {i \in DOMAIN m.sessions :
                                                    m.sessions[i].user_id \in users}),
             to.decks = Restrict(m.decks, leftDecks),
             to.deck_owners = Restrict(m.deck_owners, leftDecks),
             to.cards = Restrict(m.cards, leftCards),
             to.reviews = Remaining(m.reviews, leftCards)
      PROVE  MemOk(to, now) /\ Agree(to, Sql!Cascade(t))
  BY DEF Deleted
<1>1. DOMAIN to.users = users /\ DOMAIN to.decks = leftDecks /\ DOMAIN to.cards = leftCards
  BY DEF Restrict
<1>2. Shape(to)
  BY DEF MemOk, Shape
<1>3. UsersOk(to)
  <2>1. /\ DOMAIN m.users \subseteq Nat /\ m.users \in [DOMAIN m.users -> UserRow]
        /\ \A u, v \in DOMAIN m.users :
             UsernamesEqual(m.users[u].username, m.users[v].username) => u = v
    BY DEF MemOk, UsersOk
  <2>2. to.users = [u \in users |-> m.users[u]]
    BY DEF Restrict
  <2>3. \A u \in users : u \in DOMAIN m.users /\ to.users[u] = m.users[u]
    BY <2>2
  <2> QED
    BY <1>1, <2>1, <2>2, <2>3 DEF UsersOk
<1>4. SessionsOk(to)
  BY <1>1 DEF MemOk, SessionsOk, Restrict
<1>5. DecksOk(to)
  BY <1>1 DEF MemOk, DecksOk, Restrict
<1>6. CardsOk(to)
  <2>1. /\ DOMAIN m.cards \subseteq Nat /\ m.cards \in [DOMAIN m.cards -> CardRow]
        /\ \A c \in DOMAIN m.cards : CardOk(m.cards[c])
    BY DEF MemOk, CardsOk
  <2>2. \A c \in leftCards : /\ c \in DOMAIN m.cards /\ to.cards[c] = m.cards[c]
                             /\ m.cards[c].deck_id \in leftDecks
    BY DEF Restrict
  <2>3. to.cards \in [leftCards -> CardRow]
    BY <2>1, <2>2 DEF Restrict
  <2> QED
    BY <1>1, <2>1, <2>2, <2>3 DEF CardsOk
<1>7. LogOk(to, now)
  <2>1. /\ m.reviews \in Seq(Entry)
        /\ \A i \in DOMAIN m.reviews : m.reviews[i].rated_at <= now
        /\ \A i, j \in DOMAIN m.reviews :
              i < j => m.reviews[i].rated_at <= m.reviews[j].rated_at
    BY DEF MemOk, LogOk
  <2>2. /\ to.reviews \in Seq(Entry)
        /\ \A k \in DOMAIN to.reviews :
              /\ to.reviews[k].card_id \in leftCards
              /\ \E i \in DOMAIN m.reviews : to.reviews[k] = m.reviews[i]
        /\ \A k, l \in DOMAIN to.reviews :
              k < l => \E i, j \in DOMAIN m.reviews :
                 i < j /\ to.reviews[k] = m.reviews[i] /\ to.reviews[l] = m.reviews[j]
    <3>1. LogLeft(m.reviews, leftCards, to.reviews)
      BY <2>1, RemainingCorrect
    <3> QED
      BY <3>1 DEF LogLeft
  <2>3. \A k \in DOMAIN to.reviews :
           to.reviews[k].card_id \in DOMAIN to.cards /\ to.reviews[k].rated_at <= now
    BY <1>1, <2>1, <2>2
  <2>4. \A k, l \in DOMAIN to.reviews :
           k < l => to.reviews[k].rated_at <= to.reviews[l].rated_at
    BY <2>1, <2>2
  <2> QED
    BY <2>2, <2>3, <2>4 DEF LogOk
<1>8. MemOk(to, now)
  BY <1>2, <1>3, <1>4, <1>5, <1>6, <1>7 DEF MemOk
<1> DEFINE keptDecks == Restrict(t.decks, {d \in DOMAIN t.decks :
                                            t.decks[d].user_id \in DOMAIN t.users})
           keptCards == Restrict(t.cards, {c \in DOMAIN t.cards :
                                            t.cards[c].deck_id \in DOMAIN keptDecks})
           keptSessions == Restrict(t.sessions, {i \in DOMAIN t.sessions :
                                            t.sessions[i].user_id \in DOMAIN t.users})
           done == [t EXCEPT !.sessions = keptSessions, !.decks = keptDecks,
                             !.cards = keptCards,
                             !.review_logs = Sql!Remaining(@, DOMAIN keptCards)]
<1>9. Sql!Cascade(t) = done
  BY DEF Sql!Cascade, Sql!Keep, Sql!Restrict, Restrict
<1>10. DOMAIN t.users = users /\ DOMAIN t.decks = decks /\ DOMAIN t.cards = cards
  BY DEF Restrict
<1>11. /\ s.decks = [d \in DOMAIN m.decks |->
                        DeckRow(m.decks[d], m.deck_owners[d])]
       /\ s.cards = [c \in DOMAIN m.cards |-> RowOf(m.cards[c])]
       /\ s.sessions = [i \in DOMAIN m.sessions |-> StoredSession(m.sessions[i])]
       /\ s.users = m.users
       /\ s.review_logs = [i \in DOMAIN m.reviews |-> StoredEntry(m.reviews[i])]
       /\ DOMAIN s = {"sqlite_sequence", "users", "sessions", "decks", "cards",
                      "review_logs"}
       /\ s.sqlite_sequence
            = [users |-> m.next_user - 1, decks |-> m.next_deck - 1,
               cards |-> m.next_card - 1, sessions |-> m.next_session - 1]
  BY DEF Agree
<1>12. keptDecks = [d \in leftDecks |-> DeckRow(m.decks[d], m.deck_owners[d])]
  <2>1. \A d \in decks : t.decks[d] = DeckRow(m.decks[d], m.deck_owners[d])
    BY <1>11 DEF Restrict
  <2>2. \A d \in decks : t.decks[d].user_id = m.deck_owners[d]
    <3>1. \A name, owner : DeckRow(name, owner).user_id = owner
      BY DEF DeckRow
    <3> QED
      BY <2>1, <3>1
  <2>3. {d \in DOMAIN t.decks : t.decks[d].user_id \in DOMAIN t.users} = leftDecks
    BY <1>10, <2>2
  <2> QED
    BY <2>1, <2>3 DEF Restrict
<1>13. keptCards = [c \in leftCards |-> RowOf(m.cards[c])]
  <2>1. \A c \in cards : /\ t.cards[c] = RowOf(m.cards[c])
                         /\ t.cards[c].deck_id = m.cards[c].deck_id
    <3>1. \A c \in cards : t.cards[c] = RowOf(m.cards[c])
      BY <1>11 DEF Restrict
    <3>2. \A card : RowOf(card).deck_id = card.deck_id
      BY DEF RowOf
    <3> QED
      BY <3>1, <3>2
  <2>2. DOMAIN keptDecks = leftDecks
    BY <1>12
  <2> HIDE DEF keptDecks
  <2>3. {c \in DOMAIN t.cards : t.cards[c].deck_id \in DOMAIN keptDecks} = leftCards
    BY <1>10, <2>1, <2>2
  <2> QED
    BY <2>1, <2>3 DEF Restrict
<1>14. keptSessions = [i \in DOMAIN to.sessions |-> StoredSession(to.sessions[i])]
  <2>1. \A i \in DOMAIN m.sessions :
           /\ s.sessions[i] = StoredSession(m.sessions[i])
           /\ s.sessions[i].user_id = m.sessions[i].user_id
    <3>1. ASSUME NEW session \in SessionRow
          PROVE  StoredSession(session).user_id = session.user_id
      BY DEF SessionRow, StoredSession
    <3>2. \A i \in DOMAIN m.sessions : m.sessions[i] \in SessionRow
      BY DEF MemOk, SessionsOk
    <3> QED
      BY <1>11, <3>1, <3>2
  <2> DEFINE left == {i \in DOMAIN m.sessions : m.sessions[i].user_id \in users}
  <2>2. {i \in DOMAIN t.sessions : t.sessions[i].user_id \in DOMAIN t.users} = left
    BY <1>10, <1>11, <2>1
  <2>3. keptSessions = [i \in left |-> s.sessions[i]]
    BY <2>2 DEF Restrict
  <2>4. to.sessions = [i \in left |-> m.sessions[i]] /\ left \subseteq DOMAIN m.sessions
    BY DEF Restrict
  <2> HIDE DEF left, keptSessions
  <2> QED
    BY <2>1, <2>3, <2>4
<1>15. Sql!Remaining(t.review_logs, DOMAIN keptCards)
         = [i \in DOMAIN to.reviews |-> StoredEntry(to.reviews[i])]
  <2>1. m.reviews \in Seq(Entry)
    BY DEF MemOk, LogOk
  <2>2. DOMAIN keptCards = leftCards
    BY <1>13
  <2> HIDE DEF keptCards
  <2>3. Sql!Remaining(t.review_logs, DOMAIN keptCards) = Remaining(s.review_logs, leftCards)
    BY <2>2, SameHelpers
  <2>4. PICK log \in Seq(Entry) : log = m.reviews
    BY <2>1
  <2>5. s.review_logs = [i \in DOMAIN log |-> StoredEntry(log[i])]
    BY <1>11, <2>4
  <2>6. to.reviews = Remaining(log, leftCards)
    BY <2>4
  <2> QED
    BY <2>3, <2>5, <2>6, RemainingStored
<1> HIDE DEF keptDecks, keptCards, keptSessions
<1>16. /\ DOMAIN done = DOMAIN t /\ done.sessions = keptSessions
       /\ done.decks = keptDecks /\ done.cards = keptCards
       /\ done.review_logs = Sql!Remaining(t.review_logs, DOMAIN keptCards)
       /\ done.users = t.users /\ done.sqlite_sequence = t.sqlite_sequence
  BY <1>11
<1> HIDE DEF done
<1>17. done.cards = [c \in DOMAIN to.cards |-> RowOf(to.cards[c])]
  <2>1. \A c \in leftCards : to.cards[c] = m.cards[c]
    BY DEF Restrict
  <2> QED
    BY <1>1, <1>13, <1>16, <2>1
<1>18. done.decks = [d \in DOMAIN to.decks |->
                       DeckRow(to.decks[d], to.deck_owners[d])]
  <2>1. \A d \in leftDecks : to.decks[d] = m.decks[d] /\ to.deck_owners[d] = m.deck_owners[d]
    BY DEF Restrict
  <2> QED
    BY <1>1, <1>12, <1>16, <2>1
<1>19. Agree(to, done)
  BY <1>11, <1>14, <1>15, <1>16, <1>17, <1>18 DEF Agree
<1> QED
  BY <1>8, <1>9, <1>19

-----------------------------------------------------------------------------
(* What the two Stores read. *)
RowFields ==
    {"deck_id", "text", "phase", "learning_step", "stability", "difficulty", "due",
     "last_review"}

(* The UPDATE leaves the row of the updated Card. *)
LEMMA WrittenRow ==
    ASSUME NEW row, row = [field \in RowFields |-> row[field]],
           NEW card, card.deck_id = row.deck_id, card.text = row.text
    PROVE  WriteReview(row, card) = RowOf(card)
<1> DEFINE stability == IF card.memory = None THEN None ELSE card.memory.stability
           difficulty == IF card.memory = None THEN None ELSE card.memory.difficulty
           spelled == PhaseToDb[card.phase]
           due == Rfc3339(card.due)
           last == Rfc3339(card.last_review)
           step == card.learning_step
           written == [row EXCEPT !.phase = spelled, !.learning_step = step,
                                  !.stability = stability, !.difficulty = difficulty,
                                  !.due = due, !.last_review = last]
<1>1. WriteReview(row, card) = written
  BY DEF WriteReview
<1>2. RowOf(card) = [deck_id |-> row.deck_id, text |-> row.text, phase |-> spelled,
                     learning_step |-> step, stability |-> stability,
                     difficulty |-> difficulty, due |-> due, last_review |-> last]
  BY DEF RowOf
<1> HIDE DEF stability, difficulty, spelled, due, last, step
<1>3. DOMAIN row = RowFields
  OBVIOUS
<1>4. /\ written.phase = spelled /\ written.learning_step = step
      /\ written.stability = stability /\ written.difficulty = difficulty
      /\ written.due = due /\ written.last_review = last
      /\ written.deck_id = row.deck_id /\ written.text = row.text
  BY <1>3 DEF RowFields
<1>5. DOMAIN written = RowFields
  BY <1>3
<1>6. written = [x \in DOMAIN written |-> written[x]]
  OBVIOUS
<1> HIDE DEF written
<1> QED
  BY <1>1, <1>2, <1>4, <1>5, <1>6 DEF RowFields

(* The row of a good Card can be read, as the Card that was stored. *)
LEMMA RowReads ==
    ASSUME NEW card, NEW now, CardOk(card)
    PROVE  /\ RowChecks(RowOf(card)) /\ Readable(RowOf(card))
           /\ CardFromRow(RowOf(card)) = Stored(card)
           /\ RowOf(card) = [field \in RowFields |-> RowOf(card)[field]]
           /\ RowOf(card).deck_id = card.deck_id /\ RowOf(card).text = card.text
<1> DEFINE f == [text |-> card.text, phase |-> card.phase,
                 learning_step |-> card.learning_step, memory |-> card.memory,
                 due |-> card.due, last_review |-> card.last_review]
           row == NewRow(card.deck_id, card.text)
           back == Stored(card)
<1>1. f \in Card /\ CardWF(f)
  BY DEF CardOk, CardRow, Card, CardWF
<1>2. row \in Row(Nat) /\ row.deck_id = card.deck_id /\ row.text = card.text
      /\ row = [field \in RowFields |-> row[field]]
  <2>1. card.deck_id \in Nat /\ card.text \in Texts
    BY DEF CardOk, CardRow
  <2>2. row \in Row(Nat)
    BY <2>1 DEF NewRow, Row, Spellings
  <2>3. row.deck_id = card.deck_id /\ row.text = card.text
    BY DEF NewRow
  <2>4. row = [field \in RowFields |-> row[field]]
    BY DEF NewRow, RowFields
  <2> QED
    BY <2>2, <2>3, <2>4
<1>3. WriteReview(row, f) = WriteReview(row, card)
  BY DEF WriteReview
<1>4. WriteReview(row, card) = RowOf(card)
  BY <1>2, WrittenRow
<1>5. /\ RowChecks(RowOf(card)) /\ Readable(RowOf(card))
      /\ CardFromRow(RowOf(card)) =
           [deck_id |-> row.deck_id, text |-> row.text, phase |-> f.phase,
            learning_step |-> f.learning_step, memory |-> f.memory,
            due |-> Rfc3339(f.due), last_review |-> Rfc3339(f.last_review)]
  <2> HIDE DEF row, f
  <2> QED
    BY <1>1, <1>2, <1>3, <1>4, RoundTrip
<1>6. CardFromRow(RowOf(card)) =
        [deck_id |-> card.deck_id, text |-> card.text, phase |-> card.phase,
         learning_step |-> card.learning_step, memory |-> card.memory,
         due |-> Rfc3339(card.due), last_review |-> Rfc3339(card.last_review)]
  <2> HIDE DEF row
  <2> QED
    BY <1>2, <1>5
<1>7. /\ back.deck_id = card.deck_id /\ back.text = card.text
      /\ back.phase = card.phase /\ back.learning_step = card.learning_step
      /\ back.memory = card.memory /\ back.due = Rfc3339(card.due)
      /\ back.last_review = Rfc3339(card.last_review)
      /\ DOMAIN back = CardFields
  <2>1. DOMAIN card = CardFields
    BY DEF CardOk, CardRow, CardFields
  <2> QED
    BY <2>1 DEF Stored, CardFields
<1>8. back = [x \in DOMAIN back |-> back[x]]
  BY DEF Stored
<1>9. CardFromRow(RowOf(card)) = back
  <2> HIDE DEF back
  <2> QED
    BY <1>6, <1>7, <1>8 DEF CardFields
<1>10. /\ RowOf(card) = [field \in RowFields |-> RowOf(card)[field]]
       /\ RowOf(card).deck_id = card.deck_id /\ RowOf(card).text = card.text
  BY DEF RowOf, RowFields
<1> QED
  BY <1>5, <1>9, <1>10

(* What is read back of a Card is some row, never None. *)
LEMMA StoredIsRow ==
    ASSUME NEW card, NEW now, CardOk(card)
    PROVE  Stored(card) \in CardRow /\ Stored(card) # None /\ card # None
<1> DEFINE due == Rfc3339(card.due)
           last == Rfc3339(card.last_review)
<1>1. due \in Int \cup {None} /\ last \in Int \cup {None} /\ card \in CardRow
  BY RoundingSettles DEF CardOk, CardRow
<1>2. Stored(card) = [card EXCEPT !.due = due, !.last_review = last]
  BY DEF Stored
<1> HIDE DEF due, last
<1>3. Stored(card) \in CardRow
  BY <1>1, <1>2 DEF CardRow
<1> QED
  BY <1>1, <1>3, NoneIsNoRow

LEMMA Ownership ==
    ASSUME NEW m, NEW s, NEW now, MemOk(m, now), Agree(m, s), NEW user
    PROVE  /\ Sql!GetUser(s, user) = Mem!GetUser(m, user)
           /\ (Mem!GetUser(m, user) = None) <=> (user \notin DOMAIN m.users)
           /\ Sql!OwnedDecks(s, user) = {d \in DOMAIN m.decks : m.deck_owners[d] = user}
           /\ \A d : Mem!OwnsDeck(m, user, d) <=> d \in Sql!OwnedDecks(s, user)
           /\ \A d : Sql!GetDeck(s, user, d) = Mem!GetDeck(m, user, d)
           /\ \A d : (Mem!GetDeck(m, user, d) # None) <=> Mem!OwnsDeck(m, user, d)
           /\ \A d : Mem!OwnsDeck(m, user, d) => Mem!GetDeck(m, user, d) = m.decks[d]
<1> DEFINE owned == {d \in DOMAIN m.decks : m.deck_owners[d] = user}
<1>1. /\ s.users = m.users
      /\ s.decks = [d \in DOMAIN m.decks |-> DeckRow(m.decks[d], m.deck_owners[d])]
  BY DEF Agree
<1>2. Sql!GetUser(s, user) = Mem!GetUser(m, user)
  BY <1>1 DEF Sql!GetUser, Mem!GetUser, Sql!Find, Mem!Find
<1>3. (Mem!GetUser(m, user) = None) <=> (user \notin DOMAIN m.users)
  <2>1. \A u \in DOMAIN m.users : m.users[u] # None
    BY NoneIsNoRow DEF MemOk, UsersOk
  <2> QED
    BY <2>1 DEF Mem!GetUser, Mem!Find
<1>4. /\ m.deck_owners \in [DOMAIN m.decks -> DOMAIN m.users]
      /\ m.decks \in [DOMAIN m.decks -> DeckName]
  BY DEF MemOk, DecksOk
<1>5. \A n, u : DeckRow(n, u).user_id = u /\ DeckRow(n, u).name = n
  BY DEF DeckRow
<1>6. /\ DOMAIN s.decks = DOMAIN m.decks
      /\ \A d \in DOMAIN m.decks :
            s.decks[d].user_id = m.deck_owners[d] /\ s.decks[d].name = m.decks[d]
  BY <1>1, <1>5
<1>7. Sql!OwnedDecks(s, user) = owned
  <2>1. Sql!OwnedDecks(s, user)
          = IF Sql!GetUser(s, user) = None THEN {}
            ELSE {d \in DOMAIN s.decks : s.decks[d].user_id = user}
    BY DEF Sql!OwnedDecks
  <2>2. {d \in DOMAIN s.decks : s.decks[d].user_id = user} = owned
    BY <1>6
  <2>3. user \notin DOMAIN m.users => owned = {}
    BY <1>4
  <2> QED
    BY <1>2, <1>3, <2>1, <2>2, <2>3
<1>8. \A d : Mem!OwnsDeck(m, user, d) <=> d \in owned
  BY <1>4 DEF Mem!OwnsDeck
<1>9. \A d \in owned : Mem!GetDeck(m, user, d) = m.decks[d] /\ m.decks[d] # None
  BY <1>4, <1>8, NoneIsNoRow DEF Mem!GetDeck, Mem!Find
<1>10. \A d : d \notin owned => Mem!GetDeck(m, user, d) = None
  BY <1>8 DEF Mem!GetDeck
<1>11. \A d : Sql!GetDeck(s, user, d) = IF d \in owned THEN m.decks[d] ELSE None
  BY <1>6, <1>7 DEF Sql!GetDeck
<1> HIDE DEF owned
<1>12. \A d : Sql!GetDeck(s, user, d) = Mem!GetDeck(m, user, d)
  BY <1>9, <1>10, <1>11
<1>13. \A d : (Mem!GetDeck(m, user, d) # None) <=> Mem!OwnsDeck(m, user, d)
  BY <1>8, <1>9, <1>10
<1> QED
  BY <1>2, <1>3, <1>7, <1>8, <1>9, <1>12, <1>13 DEF owned

LEMMA OwnCards ==
    ASSUME NEW m, NEW s, NEW now, MemOk(m, now), Agree(m, s), NEW user, NEW card
    PROVE  /\ card \in DOMAIN m.cards =>
                 /\ Sql!ReadCard(s, card) = Ok(Stored(m.cards[card]))
                 /\ CardOk(m.cards[card])
           /\ Mem!CardForUser(m, user, card) =>
                 card \in DOMAIN m.cards /\ m.cards[card].deck_id \in DOMAIN m.decks
           /\ Sql!GetCard(s, user, card)
                = IF Mem!CardForUser(m, user, card) THEN Stored(m.cards[card]) ELSE None
           /\ (Sql!GetCard(s, user, card) # None) <=> Mem!CardForUser(m, user, card)
           /\ Mem!GetCard(m, user, card)
                = IF Mem!CardForUser(m, user, card) THEN m.cards[card] ELSE None
           /\ (Mem!GetCard(m, user, card) # None) <=> Mem!CardForUser(m, user, card)
<1>1. s.cards = [c \in DOMAIN m.cards |-> RowOf(m.cards[c])]
  BY DEF Agree
<1>2. card \in DOMAIN m.cards =>
         CardOk(m.cards[card]) /\ m.cards[card].deck_id \in DOMAIN m.decks
  BY DEF MemOk, CardsOk
<1>3. card \in DOMAIN m.cards => s.cards[card] = RowOf(m.cards[card])
  BY <1>1
<1>4. ASSUME card \in DOMAIN m.cards
      PROVE  /\ Sql!ReadCard(s, card) = Ok(Stored(m.cards[card]))
             /\ s.cards[card].deck_id = m.cards[card].deck_id
             /\ Stored(m.cards[card]) # None /\ m.cards[card] # None
  <2>1. /\ Readable(s.cards[card]) /\ CardFromRow(s.cards[card]) = Stored(m.cards[card])
        /\ s.cards[card].deck_id = m.cards[card].deck_id
    BY <1>2, <1>3, <1>4, RowReads
  <2>2. /\ Sql!Readable(s.cards[card]) <=> Readable(s.cards[card])
        /\ Sql!CardFromRow(s.cards[card]) = CardFromRow(s.cards[card])
    BY SameRows
  <2>3. DOMAIN s.cards = DOMAIN m.cards
    BY <1>1
  <2>4. Sql!ReadCard(s, card) = Ok(Stored(m.cards[card]))
    BY <1>4, <2>1, <2>2, <2>3 DEF Sql!ReadCard, Sql!Ok, Ok
  <2> QED
    BY <1>2, <1>4, <2>1, <2>4, StoredIsRow
<1>5. /\ \A d : Mem!OwnsDeck(m, user, d) <=> d \in Sql!OwnedDecks(s, user)
      /\ DOMAIN s.cards = DOMAIN m.cards
  BY <1>1, Ownership
<1>6. Mem!CardForUser(m, user, card) <=>
        card \in DOMAIN m.cards /\ Mem!OwnsDeck(m, user, m.cards[card].deck_id)
  BY DEF Mem!CardForUser
<1>7. Sql!GetCard(s, user, card)
        = IF Mem!CardForUser(m, user, card) THEN Stored(m.cards[card]) ELSE None
  <2>1. \A value : Ok(value)[2] = value
    BY DEF Ok
  <2> QED
    BY <1>4, <1>5, <1>6, <2>1 DEF Sql!GetCard
<1>8. Mem!GetCard(m, user, card)
        = IF Mem!CardForUser(m, user, card) THEN m.cards[card] ELSE None
  BY DEF Mem!GetCard
<1> QED
  BY <1>2, <1>4, <1>6, <1>7, <1>8

LEMMA RestrictAll ==
    ASSUME NEW table, NEW S, DOMAIN table = S, table = [x \in S |-> table[x]]
    PROVE  Restrict(table, S) = table
BY DEF Restrict

(* The tables are functions, so that they are themselves on their domain.  *)
LEMMA WholeTables ==
    ASSUME NEW m, NEW s, NEW now, MemOk(m, now), Agree(m, s)
    PROVE  /\ Restrict(m.users, DOMAIN m.users) = m.users
           /\ Restrict(m.sessions, DOMAIN m.sessions) = m.sessions
           /\ Restrict(m.decks, DOMAIN m.decks) = m.decks
           /\ Restrict(m.deck_owners, DOMAIN m.decks) = m.deck_owners
           /\ Restrict(s.users, DOMAIN m.users) = s.users
           /\ Restrict(s.decks, DOMAIN m.decks) = s.decks
           /\ Restrict(s.cards, DOMAIN m.cards) = s.cards
           /\ DOMAIN s.decks = DOMAIN m.decks /\ DOMAIN s.cards = DOMAIN m.cards
           /\ s.users = m.users
<1>1. /\ m.users \in [DOMAIN m.users -> UserRow]
      /\ m.sessions \in [DOMAIN m.sessions -> SessionRow]
      /\ m.decks \in [DOMAIN m.decks -> DeckName]
      /\ m.deck_owners \in [DOMAIN m.decks -> DOMAIN m.users]
  BY DEF MemOk, UsersOk, SessionsOk, DecksOk
<1>2. /\ s.users = m.users
      /\ s.decks = [d \in DOMAIN m.decks |-> DeckRow(m.decks[d], m.deck_owners[d])]
      /\ s.cards = [c \in DOMAIN m.cards |-> RowOf(m.cards[c])]
  BY DEF Agree
<1>3. Restrict(m.users, DOMAIN m.users) = m.users
  BY <1>1 DEF Restrict
<1>4. Restrict(m.sessions, DOMAIN m.sessions) = m.sessions
  BY <1>1 DEF Restrict
<1>5. Restrict(m.decks, DOMAIN m.decks) = m.decks
  BY <1>1 DEF Restrict
<1>6. Restrict(m.deck_owners, DOMAIN m.decks) = m.deck_owners
  BY <1>1 DEF Restrict
<1>7. Restrict(s.decks, DOMAIN m.decks) = s.decks /\ DOMAIN s.decks = DOMAIN m.decks
  BY <1>2 DEF Restrict
<1>8. Restrict(s.cards, DOMAIN m.cards) = s.cards /\ DOMAIN s.cards = DOMAIN m.cards
  BY <1>2 DEF Restrict
<1> QED
  BY <1>2, <1>3, <1>4, <1>5, <1>6, <1>7, <1>8

LEMMA DeleteUserAgrees ==
    ASSUME NEW m, NEW s, NEW now, MemOk(m, now), Agree(m, s), NEW user
    PROVE  LET a == Mem!DeleteUser(m, user)
               b == Sql!DeleteUser(s, user)
           IN  Kept(a, b, now) /\ b.answer = a.answer
<1> DEFINE a == Mem!DeleteUser(m, user)
           b == Sql!DeleteUser(s, user)
           users == DOMAIN m.users \ {user}
           decks == DOMAIN m.decks
           cards == DOMAIN m.cards
           leftDecks == {d \in decks : m.deck_owners[d] \in users}
           leftCards == {c \in cards : m.cards[c].deck_id \in leftDecks}
           sessions == {i \in DOMAIN m.sessions : m.sessions[i].user_id \in users}
           to == [m EXCEPT !.users = Restrict(m.users, users),
                           !.sessions = Restrict(m.sessions, sessions),
                           !.decks = Restrict(m.decks, leftDecks),
                           !.deck_owners = Restrict(m.deck_owners, leftDecks),
                           !.cards = Restrict(m.cards, leftCards),
                           !.reviews = Remaining(m.reviews, leftCards)]
           t == [s EXCEPT !.users = Restrict(s.users, users)]
<1>1. CASE user \notin DOMAIN m.users
  <2>1. a = [to |-> m, answer |-> Err("UserNotFound")]
    BY <1>1 DEF Mem!DeleteUser, Mem!Return, Mem!Err, Err
  <2>2. b = [to |-> s, answer |-> Err("UserNotFound")]
    BY <1>1, WholeTables DEF Sql!DeleteUser, Sql!Return, Sql!Err, Err
  <2> QED
    BY <2>1, <2>2 DEF Kept
<1>2. CASE user \in DOMAIN m.users
  <2>1. \A d : Mem!OwnsDeck(m, user, d) <=> d \in decks /\ m.deck_owners[d] = user
    BY DEF Mem!OwnsDeck, MemOk, DecksOk
  <2>2. \A d \in decks : m.deck_owners[d] \in DOMAIN m.users
    BY DEF MemOk, DecksOk
  <2>3. \A i \in DOMAIN m.sessions : m.sessions[i].user_id \in DOMAIN m.users
    BY DEF MemOk, SessionsOk
  <2>4. \A c \in cards : m.cards[c].deck_id \in decks
    BY DEF MemOk, CardsOk
  <2>5. {d \in DOMAIN m.decks : ~Mem!OwnsDeck(m, user, d)} = leftDecks
    BY <2>1, <2>2
  <2>6. {c \in DOMAIN m.cards : ~Mem!OwnsDeck(m, user, m.cards[c].deck_id)} = leftCards
    BY <2>1, <2>2, <2>4
  <2>7. {i \in DOMAIN m.sessions : m.sessions[i].user_id # user} = sessions
    BY <2>3
  <2>8. DOMAIN Restrict(m.cards, leftCards) = leftCards
    BY DEF Restrict
  <2> HIDE DEF leftDecks, leftCards, sessions
  <2>9. a = [to |-> to, answer |-> Ok(<<>>)]
    <3>1. Mem!Keep(m.cards, LAMBDA card : ~Mem!OwnsDeck(m, user, card.deck_id))
            = Restrict(m.cards, leftCards)
      BY <2>6 DEF Mem!Keep, Mem!Restrict, Restrict
    <3>2. Mem!Keep(m.sessions, LAMBDA session : session.user_id # user)
            = Restrict(m.sessions, sessions)
      BY <2>7 DEF Mem!Keep, Mem!Restrict, Restrict
    <3>3. Mem!Remaining(m.reviews, leftCards) = Remaining(m.reviews, leftCards)
      BY SameHelpers
    <3>4. a = [to |-> [m EXCEPT
                 !.users = Mem!Drop(@, user),
                 !.sessions = Mem!Keep(@, LAMBDA session : session.user_id # user),
                 !.decks = Mem!Restrict(@, leftDecks),
                 !.deck_owners = Mem!Restrict(@, leftDecks),
                 !.cards = Restrict(m.cards, leftCards),
                 !.reviews = Mem!Remaining(@, DOMAIN Restrict(m.cards, leftCards))],
               answer |-> Ok(<<>>)]
      BY <1>2, <2>5, <3>1 DEF Mem!DeleteUser, Mem!Return, Mem!Ok, Ok
    <3>5. /\ Mem!Drop(m.users, user) = Restrict(m.users, users)
          /\ Mem!Restrict(m.decks, leftDecks) = Restrict(m.decks, leftDecks)
          /\ Mem!Restrict(m.deck_owners, leftDecks) = Restrict(m.deck_owners, leftDecks)
      BY DEF Mem!Drop, Mem!Restrict, Restrict
    <3> QED
      BY <2>8, <3>2, <3>3, <3>4, <3>5
  <2>10. b = [to |-> Sql!Cascade(t), answer |-> Ok(<<>>)]
    <3>1. s.users = m.users
      BY WholeTables
    <3>2. Sql!Drop(s.users, user) = Restrict(s.users, users)
      BY <3>1 DEF Sql!Drop, Sql!Restrict, Restrict
    <3> QED
      BY <1>2, <3>1, <3>2 DEF Sql!DeleteUser, Sql!Return, Sql!Ok, Ok
  <2>11. /\ DOMAIN to = DOMAIN m
         /\ to.next_user = m.next_user /\ to.next_deck = m.next_deck
         /\ to.next_card = m.next_card /\ to.next_session = m.next_session
         /\ to.users = Restrict(m.users, users)
         /\ to.sessions = Restrict(m.sessions, sessions)
         /\ to.decks = Restrict(m.decks, leftDecks)
         /\ to.deck_owners = Restrict(m.deck_owners, leftDecks)
         /\ to.cards = Restrict(m.cards, leftCards)
         /\ to.reviews = Remaining(m.reviews, leftCards)
    BY DEF MemOk, Shape
  <2>12. /\ DOMAIN t = DOMAIN s /\ t.users = Restrict(s.users, users)
         /\ t.sqlite_sequence = s.sqlite_sequence /\ t.sessions = s.sessions
         /\ t.decks = s.decks /\ t.cards = s.cards /\ t.review_logs = s.review_logs
    BY DEF Agree
  <2>13. s.decks = Restrict(s.decks, decks) /\ s.cards = Restrict(s.cards, cards)
    BY WholeTables
  <2>14. users \in SUBSET DOMAIN m.users
    OBVIOUS
  <2> HIDE DEF to, t, users
  <2>15. Deleted(m, s, users, decks, cards, t, to)
    BY <2>11, <2>12, <2>13, <2>14 DEF Deleted, leftDecks, leftCards, sessions
  <2> HIDE DEF decks, cards
  <2>16. MemOk(to, now) /\ Agree(to, Sql!Cascade(t))
    BY <2>15, CascadeAgrees
  <2> QED
    BY <2>9, <2>10, <2>16 DEF Kept
<1> QED
  BY <1>1, <1>2

LEMMA DeleteDeckAgrees ==
    ASSUME NEW m, NEW s, NEW now, MemOk(m, now), Agree(m, s),
           NEW user \in DOMAIN m.users, NEW deck
    PROVE  LET a == Mem!DeleteDeck(m, user, deck)
               b == Sql!DeleteDeck(s, user, deck)
           IN  Kept(a, b, now) /\ b.answer = a.answer
<1> DEFINE a == Mem!DeleteDeck(m, user, deck)
           b == Sql!DeleteDeck(s, user, deck)
           users == DOMAIN m.users
           decks == DOMAIN m.decks \ {deck}
           cards == DOMAIN m.cards
           leftDecks == {d \in decks : m.deck_owners[d] \in users}
           leftCards == {c \in cards : m.cards[c].deck_id \in leftDecks}
           to == [m EXCEPT !.decks = Restrict(m.decks, leftDecks),
                           !.deck_owners = Restrict(m.deck_owners, leftDecks),
                           !.cards = Restrict(m.cards, leftCards),
                           !.reviews = Remaining(m.reviews, leftCards)]
           t == [s EXCEPT !.decks = Restrict(s.decks, decks)]
<1>1. /\ Sql!GetUser(s, user) # None
      /\ deck \in Sql!OwnedDecks(s, user) <=> Mem!OwnsDeck(m, user, deck)
  BY Ownership
<1>2. CASE ~Mem!OwnsDeck(m, user, deck)
  <2>1. a = [to |-> m, answer |-> Err("DeckNotFound")]
    BY <1>2 DEF Mem!DeleteDeck, Mem!Return, Mem!Err, Err
  <2>2. b = [to |-> s, answer |-> Err("DeckNotFound")]
    BY <1>1, <1>2 DEF Sql!DeleteDeck, Sql!DeleteDeckRow, Sql!Return, Sql!Err, Err
  <2> QED
    BY <2>1, <2>2 DEF Kept
<1>3. CASE Mem!OwnsDeck(m, user, deck)
  <2>1. /\ m.deck_owners \in [DOMAIN m.decks -> DOMAIN m.users]
        /\ \A i \in DOMAIN m.sessions : m.sessions[i].user_id \in users
    BY DEF MemOk, DecksOk, SessionsOk
  <2>2. \A c \in cards : m.cards[c].deck_id \in DOMAIN m.decks
    BY DEF MemOk, CardsOk
  <2>3. leftDecks = decks
    BY <2>1
  <2>4. {c \in DOMAIN m.cards : m.cards[c].deck_id # deck} = leftCards
    BY <2>2, <2>3
  <2>5. {i \in DOMAIN m.sessions : m.sessions[i].user_id \in users} = DOMAIN m.sessions
    BY <2>1
  <2>6. DOMAIN Restrict(m.cards, leftCards) = leftCards
    BY DEF Restrict
  <2>7. DOMAIN m.decks = DOMAIN m.deck_owners
    BY <2>1
  <2>8. Mem!Drop(m.decks, deck) = Restrict(m.decks, leftDecks)
    BY <2>3 DEF Mem!Drop, Mem!Restrict, Restrict
  <2>9. Mem!Drop(m.deck_owners, deck) = Restrict(m.deck_owners, leftDecks)
    BY <2>3, <2>7 DEF Mem!Drop, Mem!Restrict, Restrict
  <2> HIDE DEF leftDecks, leftCards
  <2>10. a = [to |-> to, answer |-> Ok(<<>>)]
    <3>1. Mem!Keep(m.cards, LAMBDA card : card.deck_id # deck)
            = Restrict(m.cards, leftCards)
      BY <2>4 DEF Mem!Keep, Mem!Restrict, Restrict
    <3>2. Mem!Remaining(m.reviews, leftCards) = Remaining(m.reviews, leftCards)
      BY SameHelpers
    <3>3. a = [to |-> [m EXCEPT
                 !.decks = Mem!Drop(@, deck),
                 !.deck_owners = Mem!Drop(@, deck),
                 !.cards = Restrict(m.cards, leftCards),
                 !.reviews = Mem!Remaining(@, DOMAIN Restrict(m.cards, leftCards))],
               answer |-> Ok(<<>>)]
      BY <1>3, <3>1 DEF Mem!DeleteDeck, Mem!Return, Mem!Ok, Ok
    <3> QED
      BY <2>6, <2>8, <2>9, <3>2, <3>3
  <2>11. b = [to |-> Sql!Cascade(t), answer |-> Ok(<<>>)]
    <3>1. Sql!Drop(s.decks, deck) = Restrict(s.decks, decks)
      BY WholeTables DEF Sql!Drop, Sql!Restrict, Restrict
    <3> QED
      BY <1>1, <1>3, <3>1 DEF Sql!DeleteDeck, Sql!DeleteDeckRow, Sql!Return, Sql!Ok, Ok
  <2>12. /\ DOMAIN to = DOMAIN m
         /\ to.next_user = m.next_user /\ to.next_deck = m.next_deck
         /\ to.next_card = m.next_card /\ to.next_session = m.next_session
         /\ to.users = m.users /\ to.sessions = m.sessions
         /\ to.decks = Restrict(m.decks, leftDecks)
         /\ to.deck_owners = Restrict(m.deck_owners, leftDecks)
         /\ to.cards = Restrict(m.cards, leftCards)
         /\ to.reviews = Remaining(m.reviews, leftCards)
    BY DEF MemOk, Shape
  <2>13. /\ DOMAIN t = DOMAIN s /\ t.decks = Restrict(s.decks, decks)
         /\ t.sqlite_sequence = s.sqlite_sequence /\ t.sessions = s.sessions
         /\ t.users = s.users /\ t.cards = s.cards /\ t.review_logs = s.review_logs
    BY DEF Agree
  <2>14. /\ s.users = Restrict(s.users, users) /\ s.cards = Restrict(s.cards, cards)
         /\ m.users = Restrict(m.users, users)
         /\ m.sessions = Restrict(m.sessions, DOMAIN m.sessions)
    BY WholeTables
  <2>15. decks \subseteq DOMAIN m.decks
    OBVIOUS
  <2> HIDE DEF to, t, decks
  <2>16. Deleted(m, s, users, decks, cards, t, to)
    BY <2>5, <2>12, <2>13, <2>14, <2>15 DEF Deleted, leftDecks, leftCards
  <2> HIDE DEF users, cards
  <2>17. MemOk(to, now) /\ Agree(to, Sql!Cascade(t))
    BY <2>16, CascadeAgrees
  <2> QED
    BY <2>10, <2>11, <2>17 DEF Kept
<1> QED
  BY <1>2, <1>3

LEMMA DeleteCardAgrees ==
    ASSUME NEW m, NEW s, NEW now, MemOk(m, now), Agree(m, s),
           NEW user \in DOMAIN m.users, NEW card
    PROVE  LET a == Mem!DeleteCard(m, user, card)
               b == Sql!DeleteCard(s, user, card)
           IN  Kept(a, b, now) /\ b.answer = a.answer
<1> DEFINE a == Mem!DeleteCard(m, user, card)
           b == Sql!DeleteCard(s, user, card)
           users == DOMAIN m.users
           decks == DOMAIN m.decks
           cards == DOMAIN m.cards \ {card}
           leftDecks == {d \in decks : m.deck_owners[d] \in users}
           leftCards == {c \in cards : m.cards[c].deck_id \in leftDecks}
           to == [m EXCEPT !.cards = Restrict(m.cards, leftCards),
                           !.reviews = Remaining(m.reviews, leftCards)]
           t == [s EXCEPT !.cards = Restrict(s.cards, cards)]
<1>1. /\ Sql!GetUser(s, user) # None
      /\ (Sql!GetCard(s, user, card) # None) <=> Mem!CardForUser(m, user, card)
      /\ Mem!CardForUser(m, user, card) => card \in DOMAIN m.cards
  BY Ownership, OwnCards
<1>2. CASE ~Mem!CardForUser(m, user, card)
  <2>1. a = [to |-> m, answer |-> Err("CardNotFound")]
    BY <1>2 DEF Mem!DeleteCard, Mem!Return, Mem!Err, Err
  <2>2. b = [to |-> s, answer |-> Err("CardNotFound")]
    BY <1>1, <1>2 DEF Sql!DeleteCard, Sql!Return, Sql!Err, Err
  <2> QED
    BY <2>1, <2>2 DEF Kept
<1>3. CASE Mem!CardForUser(m, user, card)
  <2>1. /\ m.deck_owners \in [DOMAIN m.decks -> DOMAIN m.users]
        /\ \A i \in DOMAIN m.sessions : m.sessions[i].user_id \in users
    BY DEF MemOk, DecksOk, SessionsOk
  <2>2. \A c \in cards : m.cards[c].deck_id \in DOMAIN m.decks
    BY DEF MemOk, CardsOk
  <2>3. leftDecks = decks
    BY <2>1
  <2>4. leftCards = cards
    BY <2>2, <2>3
  <2>5. {i \in DOMAIN m.sessions : m.sessions[i].user_id \in users} = DOMAIN m.sessions
    BY <2>1
  <2>6. card \in DOMAIN m.cards /\ s.cards[card].deck_id = m.cards[card].deck_id
    <3>1. card \in DOMAIN m.cards /\ CardOk(m.cards[card])
      BY <1>1, <1>3 DEF MemOk, CardsOk
    <3>2. s.cards[card] = RowOf(m.cards[card])
      BY <3>1 DEF Agree
    <3> QED
      BY <3>1, <3>2, RowReads
  <2>7. Mem!Remaining(m.reviews, Nat \ {card}) = Remaining(m.reviews, leftCards)
    <3>1. \A i \in DOMAIN m.reviews :
             m.reviews[i].card_id \in DOMAIN m.cards /\ DOMAIN m.cards \subseteq Nat
      BY DEF MemOk, LogOk, CardsOk
    <3>2. \A i \in DOMAIN m.reviews :
             m.reviews[i].card_id \in Nat \ {card} <=> m.reviews[i].card_id \in leftCards
      BY <2>4, <3>1
    <3> HIDE DEF leftCards
    <3>3. Remaining(m.reviews, Nat \ {card}) = Remaining(m.reviews, leftCards)
      BY <3>2, RemainingSame
    <3> QED
      BY <3>3, SameHelpers
  <2>8. Mem!Drop(m.cards, card) = Restrict(m.cards, leftCards)
    BY <2>4 DEF Mem!Drop, Mem!Restrict, Restrict
  <2> HIDE DEF leftDecks, leftCards
  <2>9. a = [to |-> to, answer |-> Ok(m.cards[card].deck_id)]
    BY <1>3, <2>7, <2>8 DEF Mem!DeleteCard, Mem!Return, Mem!Ok, Ok
  <2>10. b = [to |-> Sql!Cascade(t), answer |-> Ok(s.cards[card].deck_id)]
    <3>1. Sql!Drop(s.cards, card) = Restrict(s.cards, cards) /\ card \in DOMAIN s.cards
      BY <2>6, WholeTables DEF Sql!Drop, Sql!Restrict, Restrict
    <3> QED
      BY <1>1, <1>3, <3>1 DEF Sql!DeleteCard, Sql!DeleteCardRow, Sql!Return, Sql!Ok, Ok
  <2>11. /\ DOMAIN to = DOMAIN m
         /\ to.next_user = m.next_user /\ to.next_deck = m.next_deck
         /\ to.next_card = m.next_card /\ to.next_session = m.next_session
         /\ to.users = m.users /\ to.sessions = m.sessions
         /\ to.decks = m.decks /\ to.deck_owners = m.deck_owners
         /\ to.cards = Restrict(m.cards, leftCards)
         /\ to.reviews = Remaining(m.reviews, leftCards)
    BY DEF MemOk, Shape
  <2>12. /\ DOMAIN t = DOMAIN s /\ t.cards = Restrict(s.cards, cards)
         /\ t.sqlite_sequence = s.sqlite_sequence /\ t.sessions = s.sessions
         /\ t.users = s.users /\ t.decks = s.decks /\ t.review_logs = s.review_logs
    BY DEF Agree
  <2>13. /\ s.users = Restrict(s.users, users) /\ s.decks = Restrict(s.decks, decks)
         /\ m.users = Restrict(m.users, users)
         /\ m.sessions = Restrict(m.sessions, DOMAIN m.sessions)
         /\ m.decks = Restrict(m.decks, leftDecks)
         /\ m.deck_owners = Restrict(m.deck_owners, leftDecks)
    BY <2>3, WholeTables
  <2>14. cards \subseteq DOMAIN m.cards
    OBVIOUS
  <2> HIDE DEF to, t, cards
  <2>15. Deleted(m, s, users, decks, cards, t, to)
    BY <2>5, <2>11, <2>12, <2>13, <2>14 DEF Deleted, leftDecks, leftCards
  <2> HIDE DEF users, decks
  <2>16. MemOk(to, now) /\ Agree(to, Sql!Cascade(t))
    BY <2>15, CascadeAgrees
  <2> QED
    BY <2>6, <2>9, <2>10, <2>16 DEF Kept
<1> QED
  BY <1>2, <1>3
-----------------------------------------------------------------------------
(* Calls that change nothing but the Sessions. *)
SessionsTo(m, s, to, t) ==
    /\ DOMAIN to = DOMAIN m /\ DOMAIN t = DOMAIN s
    /\ to.next_user = m.next_user /\ to.next_deck = m.next_deck
    /\ to.next_card = m.next_card /\ to.next_session \in Nat
    /\ to.users = m.users /\ to.decks = m.decks /\ to.deck_owners = m.deck_owners
    /\ to.cards = m.cards /\ to.reviews = m.reviews
    /\ t.sqlite_sequence = [s.sqlite_sequence EXCEPT !["sessions"] = to.next_session - 1]
    /\ t.users = s.users /\ t.decks = s.decks /\ t.cards = s.cards
    /\ t.review_logs = s.review_logs
    /\ SessionsOk(to)
    /\ t.sessions = [i \in DOMAIN to.sessions |-> StoredSession(to.sessions[i])]

LEMMA SessionsChange ==
    ASSUME NEW m, NEW s, NEW now, MemOk(m, now), Agree(m, s), NEW to, NEW t,
           SessionsTo(m, s, to, t)
    PROVE  MemOk(to, now) /\ Agree(to, t)
<1>1. Agree(to, t)
  <2>1. t.sqlite_sequence
          = [users |-> to.next_user - 1, decks |-> to.next_deck - 1,
             cards |-> to.next_card - 1, sessions |-> to.next_session - 1]
    <3> DEFINE u == m.next_user - 1
               d == m.next_deck - 1
               c == m.next_card - 1
               i == to.next_session - 1
    <3>1. /\ s.sqlite_sequence = [users |-> u, decks |-> d, cards |-> c,
                                  sessions |-> m.next_session - 1]
          /\ t.sqlite_sequence = [s.sqlite_sequence EXCEPT !["sessions"] = i]
          /\ u = to.next_user - 1 /\ d = to.next_deck - 1 /\ c = to.next_card - 1
      BY DEF SessionsTo, Agree
    <3> HIDE DEF u, d, c, i
    <3>2. t.sqlite_sequence = [users |-> u, decks |-> d, cards |-> c, sessions |-> i]
      BY <3>1
    <3> QED
      BY <3>1, <3>2 DEF i
  <2> QED
    BY <2>1 DEF SessionsTo, Agree
<1>2. Shape(to)
  BY DEF SessionsTo, MemOk, Shape
<1>3. UsersOk(to) /\ DecksOk(to)
  BY DEF SessionsTo, MemOk, UsersOk, DecksOk
<1>4. CardsOk(to) /\ LogOk(to, now)
  BY DEF SessionsTo, MemOk, CardsOk, LogOk
<1> QED
  BY <1>1, <1>2, <1>3, <1>4 DEF SessionsTo, MemOk

(* What SQLite keeps of a Session. *)
LEMMA StoredSessionIs ==
    ASSUME NEW session \in SessionRow
    PROVE  /\ StoredSession(session)
                = [user_id |-> session.user_id, created_at |-> Rfc3339(session.created_at),
                   last_used_at |-> Rfc3339(session.last_used_at)]
           /\ DOMAIN StoredSession(session) = {"user_id", "created_at", "last_used_at"}
<1> DEFINE a == Rfc3339(session.created_at)
           b == Rfc3339(session.last_used_at)
           row == [session EXCEPT !.created_at = a, !.last_used_at = b]
<1>1. StoredSession(session) = row
  BY DEF StoredSession
<1> HIDE DEF a, b
<1>2. DOMAIN session = {"user_id", "created_at", "last_used_at"}
  BY DEF SessionRow
<1>3. /\ row.user_id = session.user_id /\ row.created_at = a /\ row.last_used_at = b
      /\ DOMAIN row = {"user_id", "created_at", "last_used_at"}
  BY <1>2
<1>4. row = [x \in DOMAIN row |-> row[x]]
  OBVIOUS
<1> HIDE DEF row
<1>5. row = [user_id |-> session.user_id, created_at |-> a, last_used_at |-> b]
  BY <1>3, <1>4
<1> QED
  BY <1>1, <1>3, <1>5 DEF a, b

LEMMA CreateSessionAgrees ==
    ASSUME NEW m, NEW s, NEW now \in Times, MemOk(m, now), Agree(m, s), NEW user
    PROVE  LET a == Mem!CreateSession(m, user, now)
               b == Sql!CreateSession(s, user, now)
           IN  /\ Kept(a, b, now)
               /\ b.answer = IF IsErr(a.answer) \/ a.answer[2] = None THEN a.answer
                             ELSE Ok(<<a.answer[2][1], StoredSession(a.answer[2][2])>>)
<1> DEFINE a == Mem!CreateSession(m, user, now)
           b == Sql!CreateSession(s, user, now)
           session == [user_id |-> user, created_at |-> now, last_used_at |-> now]
           row == [user_id |-> user, created_at |-> Rfc3339(now),
                   last_used_at |-> Rfc3339(now)]
           to == [m EXCEPT !.next_session = @ + 1,
                           !.sessions = Put(@, m.next_session, session)]
           tables == [s EXCEPT !.sqlite_sequence["sessions"] = @ + 1,
                               !.sessions = Put(@, s.sqlite_sequence["sessions"] + 1, row)]
<1>1. a = IF user \notin DOMAIN m.users
          THEN [to |-> m, answer |-> Err("UserNotFound")]
          ELSE [to |-> to, answer |-> Ok(<<m.next_session, session>>)]
  BY DEF Mem!CreateSession, Mem!Return, Mem!Err, Err, Mem!Ok, Ok, Mem!Put, Put
<1>2. b = IF user \notin DOMAIN m.users
          THEN [to |-> s, answer |-> Err("UserNotFound")]
          ELSE [to |-> tables, answer |-> Ok(<<s.sqlite_sequence["sessions"] + 1, row>>)]
  <2>1. s.users = m.users
    BY DEF Agree
  <2>2. Sql!Insert(s, "sessions", row) = tables
    BY DEF Sql!Insert, Sql!NextId, Sql!Put, Put
  <2>3. Sql!Rfc3339(now) = Rfc3339(now)
    BY SameRows
  <2>4. b = IF user \notin DOMAIN s.users
            THEN [to |-> s, answer |-> Err("UserNotFound")]
            ELSE [to |-> Sql!Insert(s, "sessions", row),
                  answer |-> Ok(<<s.sqlite_sequence["sessions"] + 1, row>>)]
    BY <2>3 DEF Sql!CreateSession, Sql!Return, Sql!Err, Err, Sql!Ok, Ok, Sql!NextId
  <2> HIDE DEF tables
  <2> QED
    BY <2>1, <2>2, <2>4
<1>3. CASE user \notin DOMAIN m.users
  BY <1>1, <1>2, <1>3 DEF Kept, IsErr, Err
<1>4. CASE user \in DOMAIN m.users
  <2>1. s.sqlite_sequence["sessions"] + 1 = m.next_session /\ m.next_session \in Nat
    BY DEF Agree, MemOk, Shape
  <2>2. session \in SessionRow /\ session.user_id = user
    BY <1>4 DEF SessionRow, MemOk, UsersOk
  <2>3. StoredSession(session) = row
    BY <2>2, StoredSessionIs
  <2> HIDE DEF row, session
  <2>4. /\ DOMAIN to = DOMAIN m
        /\ to.next_session = m.next_session + 1
        /\ to.sessions = Put(m.sessions, m.next_session, session)
        /\ to.next_user = m.next_user /\ to.next_deck = m.next_deck
        /\ to.next_card = m.next_card /\ to.users = m.users
        /\ to.decks = m.decks /\ to.deck_owners = m.deck_owners
        /\ to.cards = m.cards /\ to.reviews = m.reviews
    BY DEF MemOk, Shape
  <2>5. /\ DOMAIN tables = DOMAIN s
        /\ tables.sqlite_sequence = [s.sqlite_sequence EXCEPT !["sessions"] = @ + 1]
        /\ tables.sessions = Put(s.sessions, m.next_session, row)
        /\ tables.users = s.users /\ tables.decks = s.decks /\ tables.cards = s.cards
        /\ tables.review_logs = s.review_logs
    BY <2>1 DEF Agree
  <2> HIDE DEF to, tables
  <2>6. SessionsOk(to)
    BY <1>4, <2>2, <2>4 DEF MemOk, SessionsOk, Put
  <2>7. tables.sessions = [i \in DOMAIN to.sessions |-> StoredSession(to.sessions[i])]
    <3>1. s.sessions = [i \in DOMAIN m.sessions |-> StoredSession(m.sessions[i])]
      BY DEF Agree
    <3> QED
      BY <2>3, <2>4, <2>5, <3>1 DEF Put
  <2>8. tables.sqlite_sequence
          = [s.sqlite_sequence EXCEPT !["sessions"] = to.next_session - 1]
    <3>1. s.sqlite_sequence["sessions"] + 1 = to.next_session - 1
      BY <2>1, <2>4
    <3>2. tables.sqlite_sequence
            = [s.sqlite_sequence EXCEPT !["sessions"] = s.sqlite_sequence["sessions"] + 1]
      BY <2>5
    <3> QED
      BY <3>1, <3>2
  <2>9. SessionsTo(m, s, to, tables)
    BY <2>1, <2>4, <2>5, <2>6, <2>7, <2>8 DEF SessionsTo
  <2>10. MemOk(to, now) /\ Agree(to, tables)
    BY <2>9, SessionsChange
  <2>11. a.answer = Ok(<<m.next_session, session>>)
         /\ b.answer = Ok(<<m.next_session, row>>) /\ a.to = to /\ b.to = tables
    BY <1>1, <1>2, <1>4, <2>1
  <2>12. <<m.next_session, session>> # None
    <3>1. <<m.next_session, session>> \in Nat \X SessionRow
      BY <2>1, <2>2
    <3> QED
      BY <3>1, NoneIsNoRow
  <2>13. ~IsErr(a.answer) /\ a.answer[2] = <<m.next_session, session>>
    BY <2>11 DEF IsErr, Ok
  <2> HIDE DEF a, b
  <2> QED
    BY <2>3, <2>10, <2>11, <2>12, <2>13 DEF Kept, a, b
<1> QED
  BY <1>3, <1>4

LEMMA TouchSessionAgrees ==
    ASSUME NEW m, NEW s, NEW now \in Times, MemOk(m, now), Agree(m, s), NEW session
    PROVE  LET a == Mem!TouchSession(m, session, now)
               b == Sql!TouchSession(s, session, now)
           IN  /\ Kept(a, b, now)
               /\ b.answer = IF IsErr(a.answer) \/ a.answer[2] = None THEN a.answer
                             ELSE Ok(StoredSession(a.answer[2]))
<1> DEFINE a == Mem!TouchSession(m, session, now)
           b == Sql!TouchSession(s, session, now)
           touched == [m.sessions[session] EXCEPT !.last_used_at = now]
           row == [s.sessions[session] EXCEPT !.last_used_at = Rfc3339(now)]
           to == [m EXCEPT !.sessions[session] = touched]
           tables == [s EXCEPT !.sessions[session] = row]
<1>1. a = IF session \notin DOMAIN m.sessions THEN [to |-> m, answer |-> Ok(None)]
          ELSE [to |-> to, answer |-> Ok(touched)]
  BY DEF Mem!TouchSession, Mem!Return, Mem!Ok, Ok
<1>2. b = IF session \notin DOMAIN s.sessions THEN [to |-> s, answer |-> Ok(None)]
          ELSE [to |-> tables, answer |-> Ok(row)]
  BY SameRows DEF Sql!TouchSession, Sql!Return, Sql!Ok, Ok
<1>3. s.sessions = [i \in DOMAIN m.sessions |-> StoredSession(m.sessions[i])]
  BY DEF Agree
<1>4. DOMAIN s.sessions = DOMAIN m.sessions
  BY <1>3
<1>5. CASE session \notin DOMAIN m.sessions
  BY <1>1, <1>2, <1>4, <1>5 DEF Kept, Ok
<1>6. CASE session \in DOMAIN m.sessions
  <2>1. m.sessions[session] \in SessionRow
        /\ m.sessions[session].user_id \in DOMAIN m.users
    BY <1>6 DEF MemOk, SessionsOk
  <2>2. touched \in SessionRow /\ touched.user_id = m.sessions[session].user_id
        /\ touched.created_at = m.sessions[session].created_at
        /\ touched.last_used_at = now
    BY <2>1 DEF SessionRow
  <2>3. StoredSession(touched) = row
    <3>1. s.sessions[session] = StoredSession(m.sessions[session])
      BY <1>3, <1>6
    <3> DEFINE x == m.sessions[session]
               made == Rfc3339(x.created_at)
               used == Rfc3339(x.last_used_at)
               later == Rfc3339(now)
               is == x.user_id
    <3>2. s.sessions[session] = [user_id |-> is, created_at |-> made, last_used_at |-> used]
      BY <2>1, <3>1, StoredSessionIs
    <3>3. StoredSession(touched) = [user_id |-> is, created_at |-> made, last_used_at |-> later]
      <4> HIDE DEF touched
      <4> QED
        BY <2>2, StoredSessionIs
    <3>4. row = [s.sessions[session] EXCEPT !.last_used_at = later]
      OBVIOUS
    <3> HIDE DEF is, made, used, later, row, touched
    <3> QED
      BY <3>2, <3>3, <3>4
  <2> HIDE DEF touched, row
  <2>4. /\ DOMAIN to = DOMAIN m /\ to.next_session = m.next_session
        /\ to.sessions = [m.sessions EXCEPT ![session] = touched]
        /\ to.next_user = m.next_user /\ to.next_deck = m.next_deck
        /\ to.next_card = m.next_card /\ to.users = m.users
        /\ to.decks = m.decks /\ to.deck_owners = m.deck_owners
        /\ to.cards = m.cards /\ to.reviews = m.reviews
    BY DEF MemOk, Shape
  <2>5. /\ DOMAIN tables = DOMAIN s /\ tables.sqlite_sequence = s.sqlite_sequence
        /\ tables.sessions = [s.sessions EXCEPT ![session] = row]
        /\ tables.users = s.users /\ tables.decks = s.decks /\ tables.cards = s.cards
        /\ tables.review_logs = s.review_logs
    BY DEF Agree
  <2> HIDE DEF to, tables
  <2>6. SessionsOk(to)
    BY <1>6, <2>1, <2>2, <2>4 DEF MemOk, SessionsOk
  <2>7. tables.sessions = [i \in DOMAIN to.sessions |-> StoredSession(to.sessions[i])]
    BY <1>3, <2>3, <2>4, <2>5
  <2>8. tables.sqlite_sequence
          = [s.sqlite_sequence EXCEPT !["sessions"] = to.next_session - 1]
    BY <2>4, <2>5 DEF Agree
  <2>9. SessionsTo(m, s, to, tables)
    BY <2>4, <2>5, <2>6, <2>7, <2>8 DEF SessionsTo, MemOk, Shape
  <2>10. MemOk(to, now) /\ Agree(to, tables)
    BY <2>9, SessionsChange
  <2>11. /\ a.answer = Ok(touched) /\ b.answer = Ok(row) /\ a.to = to /\ b.to = tables
    BY <1>1, <1>2, <1>4, <1>6
  <2>12. touched # None
    BY <2>2, NoneIsNoRow
  <2>13. ~IsErr(a.answer) /\ a.answer[2] = touched
    BY <2>11 DEF IsErr, Ok
  <2> HIDE DEF a, b
  <2> QED
    BY <2>3, <2>10, <2>11, <2>12, <2>13 DEF Kept, a, b
<1> QED
  BY <1>5, <1>6

(* Leaving out Sessions leaves out the same rows. *)
LEMMA FewerSessions ==
    ASSUME NEW m, NEW s, NEW now, MemOk(m, now), Agree(m, s), NEW ids,
           ids \subseteq DOMAIN m.sessions
    PROVE  /\ MemOk([m EXCEPT !.sessions = Restrict(@, ids)], now)
           /\ Agree([m EXCEPT !.sessions = Restrict(@, ids)],
                    [s EXCEPT !.sessions = Restrict(@, ids)])
<1> DEFINE to == [m EXCEPT !.sessions = Restrict(@, ids)]
           tables == [s EXCEPT !.sessions = Restrict(@, ids)]
<1>1. s.sessions = [i \in DOMAIN m.sessions |-> StoredSession(m.sessions[i])]
  BY DEF Agree
<1>2. /\ DOMAIN to = DOMAIN m /\ to.next_session = m.next_session
      /\ to.sessions = Restrict(m.sessions, ids)
      /\ to.next_user = m.next_user /\ to.next_deck = m.next_deck
      /\ to.next_card = m.next_card /\ to.users = m.users
      /\ to.decks = m.decks /\ to.deck_owners = m.deck_owners
      /\ to.cards = m.cards /\ to.reviews = m.reviews
  BY DEF MemOk, Shape
<1>3. /\ DOMAIN tables = DOMAIN s /\ tables.sqlite_sequence = s.sqlite_sequence
      /\ tables.sessions = Restrict(s.sessions, ids)
      /\ tables.users = s.users /\ tables.decks = s.decks /\ tables.cards = s.cards
      /\ tables.review_logs = s.review_logs
  BY DEF Agree
<1> HIDE DEF to, tables
<1>4. SessionsOk(to)
  BY <1>2 DEF MemOk, SessionsOk, Restrict
<1>5. tables.sessions = [i \in DOMAIN to.sessions |-> StoredSession(to.sessions[i])]
  BY <1>1, <1>2, <1>3 DEF Restrict
<1>6. tables.sqlite_sequence
        = [s.sqlite_sequence EXCEPT !["sessions"] = to.next_session - 1]
  BY <1>2, <1>3 DEF Agree
<1>7. SessionsTo(m, s, to, tables)
  BY <1>2, <1>3, <1>4, <1>5, <1>6 DEF SessionsTo, MemOk, Shape
<1>8. MemOk(to, now) /\ Agree(to, tables)
  BY <1>7, SessionsChange
<1> QED
  BY <1>8 DEF to, tables

LEMMA DeleteSessionAgrees ==
    ASSUME NEW m, NEW s, NEW now, MemOk(m, now), Agree(m, s), NEW session
    PROVE  LET a == Mem!DeleteSession(m, session)
               b == Sql!DeleteSession(s, session)
           IN  Kept(a, b, now) /\ b.answer = a.answer
<1> DEFINE ids == DOMAIN m.sessions \ {session}
           to == [m EXCEPT !.sessions = Restrict(@, ids)]
           t == [s EXCEPT !.sessions = Restrict(@, ids)]
<1>1. DOMAIN s.sessions = DOMAIN m.sessions
  BY DEF Agree
<1>2. Mem!DeleteSession(m, session) = [to |-> to, answer |-> Ok(<<>>)]
  BY DEF Mem!DeleteSession, Mem!Drop, Mem!Restrict, Restrict, Mem!Return, Mem!Ok, Ok
<1>3. Sql!DeleteSession(s, session) = [to |-> t, answer |-> Ok(<<>>)]
  BY <1>1 DEF Sql!DeleteSession, Sql!Drop, Sql!Restrict, Restrict, Sql!Return, Sql!Ok, Ok
<1>4. ids \subseteq DOMAIN m.sessions
  OBVIOUS
<1> HIDE DEF ids
<1>5. MemOk(to, now) /\ Agree(to, t)
  BY <1>4, FewerSessions
<1> QED
  BY <1>2, <1>3, <1>5 DEF Kept

LEMMA DeleteSessionsForUserAgrees ==
    ASSUME NEW m, NEW s, NEW now, MemOk(m, now), Agree(m, s), NEW user
    PROVE  LET a == Mem!DeleteSessionsForUser(m, user)
               b == Sql!DeleteSessionsForUser(s, user)
           IN  Kept(a, b, now) /\ b.answer = a.answer
<1> DEFINE ids == {i \in DOMAIN m.sessions : m.sessions[i].user_id # user}
           to == [m EXCEPT !.sessions = Restrict(@, ids)]
           t == [s EXCEPT !.sessions = Restrict(@, ids)]
<1>1. /\ DOMAIN s.sessions = DOMAIN m.sessions
      /\ \A i \in DOMAIN m.sessions : s.sessions[i].user_id = m.sessions[i].user_id
  <2>1. \A i \in DOMAIN m.sessions : m.sessions[i] \in SessionRow
    BY DEF MemOk, SessionsOk
  <2>2. s.sessions = [i \in DOMAIN m.sessions |-> StoredSession(m.sessions[i])]
    BY DEF Agree
  <2>3. \A row \in SessionRow : StoredSession(row).user_id = row.user_id
    BY StoredSessionIs
  <2> QED
    BY <2>1, <2>2, <2>3
<1>2. Mem!DeleteSessionsForUser(m, user) = [to |-> to, answer |-> Ok(<<>>)]
  BY DEF Mem!DeleteSessionsForUser, Mem!Keep, Mem!Restrict, Restrict, Mem!Return, Mem!Ok, Ok
<1>3. Sql!DeleteSessionsForUser(s, user) = [to |-> t, answer |-> Ok(<<>>)]
  <2>1. {i \in DOMAIN s.sessions : s.sessions[i].user_id # user} = ids
    BY <1>1
  <2>2. Sql!Keep(s.sessions, LAMBDA row : row.user_id # user) = Restrict(s.sessions, ids)
    BY <2>1 DEF Sql!Keep, Sql!Restrict, Restrict
  <2> HIDE DEF ids
  <2> QED
    BY <2>2 DEF Sql!DeleteSessionsForUser, Sql!Return, Sql!Ok, Ok
<1>4. ids \subseteq DOMAIN m.sessions
  OBVIOUS
<1> HIDE DEF ids
<1>5. MemOk(to, now) /\ Agree(to, t)
  BY <1>4, FewerSessions
<1> QED
  BY <1>2, <1>3, <1>5 DEF Kept
-----------------------------------------------------------------------------
(* Text that is normalized again stays as it is, so that the second check  *)
(* of SqlStore turns nothing away.                                         *)
LEMMA NormalName ==
    ASSUME NEW typed \in DeckNames, ~IsErr(NormalizeDeckName(typed))
    PROVE  LET name == NormalizeDeckName(typed)[2]
           IN  name \in DeckName /\ Sql!NormalizeDeckName(name) = Ok(name)
<1>1. typed[1] # Blank
  BY DEF NormalizeDeckName, Normalize, IsErr, Err
<1>2. NormalizeDeckName(typed)[2] = <<typed[1], FALSE>>
  BY <1>1 DEF NormalizeDeckName, Normalize, Ok
<1>3. Sql!NormalizeDeckName(<<typed[1], FALSE>>) = Ok(<<typed[1], FALSE>>)
  BY <1>1 DEF Sql!NormalizeDeckName, Sql!Normalize, Sql!Ok, Ok
<1>4. <<typed[1], FALSE>> \in DeckName
  BY DEF DeckName
<1> QED
  BY <1>2, <1>3, <1>4

LEMMA NormalSides ==
    ASSUME NEW typed \in TypedSides, ~IsErr(NormalizeCardSides(typed))
    PROVE  LET text == NormalizeCardSides(typed)[2]
           IN  text \in Texts /\ Sql!NormalizeCardSides(text) = Ok(text)
<1> DEFINE front == <<typed[1][1], FALSE>>
           back == <<typed[2][1], FALSE>>
<1>1. typed[1][1] # Blank /\ typed[2][1] # Blank
  BY DEF NormalizeCardSides, Normalize, IsErr, Err, Ok
<1>2. NormalizeCardSides(typed)[2] = <<front, back>>
  BY <1>1 DEF NormalizeCardSides, Normalize, IsErr, Err, Ok
<1>3. front[1] # Blank /\ back[1] # Blank /\ front = <<front[1], FALSE>>
      /\ back = <<back[1], FALSE>>
  BY <1>1
<1> HIDE DEF front, back
<1>4. Sql!NormalizeCardSides(<<front, back>>) = Ok(<<front, back>>)
  BY <1>3 DEF Sql!NormalizeCardSides, Sql!Normalize, Sql!IsErr, Sql!Err, Sql!Ok, Ok
<1>5. NormalizeCardSides(typed)[2] \in Texts
  BY CallsAssumption
<1> QED
  BY <1>2, <1>4, <1>5

(* Calls that change nothing but the Decks. *)
DecksTo(m, s, to, t) ==
    /\ DOMAIN to = DOMAIN m /\ DOMAIN t = DOMAIN s
    /\ to.next_user = m.next_user /\ to.next_deck \in Nat
    /\ to.next_card = m.next_card /\ to.next_session = m.next_session
    /\ to.users = m.users /\ to.sessions = m.sessions
    /\ to.cards = m.cards /\ to.reviews = m.reviews
    /\ t.sqlite_sequence = [s.sqlite_sequence EXCEPT !["decks"] = to.next_deck - 1]
    /\ t.users = s.users /\ t.sessions = s.sessions /\ t.cards = s.cards
    /\ t.review_logs = s.review_logs
    /\ DecksOk(to) /\ DOMAIN m.decks \subseteq DOMAIN to.decks
    /\ t.decks = [d \in DOMAIN to.decks |-> DeckRow(to.decks[d], to.deck_owners[d])]

LEMMA DecksChange ==
    ASSUME NEW m, NEW s, NEW now, MemOk(m, now), Agree(m, s), NEW to, NEW t,
           DecksTo(m, s, to, t)
    PROVE  MemOk(to, now) /\ Agree(to, t)
<1>1. Agree(to, t)
  <2>1. t.sqlite_sequence
          = [users |-> to.next_user - 1, decks |-> to.next_deck - 1,
             cards |-> to.next_card - 1, sessions |-> to.next_session - 1]
    <3> DEFINE u == m.next_user - 1
               d == to.next_deck - 1
               c == m.next_card - 1
               i == m.next_session - 1
    <3>1. /\ s.sqlite_sequence = [users |-> u, decks |-> m.next_deck - 1, cards |-> c,
                                  sessions |-> i]
          /\ t.sqlite_sequence = [s.sqlite_sequence EXCEPT !["decks"] = d]
          /\ u = to.next_user - 1 /\ i = to.next_session - 1 /\ c = to.next_card - 1
      BY DEF DecksTo, Agree
    <3> HIDE DEF u, d, c, i
    <3>2. t.sqlite_sequence = [users |-> u, decks |-> d, cards |-> c, sessions |-> i]
      BY <3>1
    <3> QED
      BY <3>1, <3>2 DEF d
  <2> QED
    BY <2>1 DEF DecksTo, Agree
<1>2. Shape(to)
  BY DEF DecksTo, MemOk, Shape
<1>3. UsersOk(to) /\ SessionsOk(to)
  BY DEF DecksTo, MemOk, UsersOk, SessionsOk
<1>4. CardsOk(to) /\ LogOk(to, now)
  BY DEF DecksTo, MemOk, CardsOk, LogOk
<1> QED
  BY <1>1, <1>2, <1>3, <1>4 DEF DecksTo, MemOk

LEMMA CreateDeckAgrees ==
    ASSUME NEW m, NEW s, NEW now, MemOk(m, now), Agree(m, s),
           NEW user \in DOMAIN m.users,
           NEW name \in DeckName, Sql!NormalizeDeckName(name) = Ok(name)
    PROVE  LET a == Mem!CreateDeck(m, user, name)
               b == Sql!CreateDeck(s, user, name)
           IN  Kept(a, b, now) /\ b.answer = a.answer
<1> DEFINE a == Mem!CreateDeck(m, user, name)
           b == Sql!CreateDeck(s, user, name)
           row == DeckRow(name, user)
           to == [m EXCEPT !.next_deck = @ + 1, !.decks = Put(@, m.next_deck, name),
                           !.deck_owners = Put(@, m.next_deck, user)]
           tables == [s EXCEPT !.sqlite_sequence["decks"] = @ + 1,
                               !.decks = Put(@, s.sqlite_sequence["decks"] + 1, row)]
<1>1. a = [to |-> to, answer |-> Ok(<<m.next_deck, name>>)]
  BY DEF Mem!CreateDeck, Mem!Return, Mem!Ok, Ok, Mem!Put, Put
<1>2. b = [to |-> tables, answer |-> Ok(<<s.sqlite_sequence["decks"] + 1, name>>)]
  <2>1. Sql!GetUser(s, user) # None /\ user \in DOMAIN s.users
    BY Ownership DEF Agree
  <2>2. Sql!Insert(s, "decks", row) = tables
    BY DEF Sql!Insert, Sql!NextId, Sql!Put, Put
  <2>3. Ok(name)[2] = name /\ ~Sql!IsErr(Ok(name))
    BY DEF Ok, Sql!IsErr
  <2> HIDE DEF tables, row
  <2>4. b = [to |-> Sql!Insert(s, "decks", DeckRow(name, user)),
             answer |-> Ok(<<s.sqlite_sequence["decks"] + 1, name>>)]
    BY <2>1, <2>3 DEF Sql!CreateDeck, Sql!CreateDeckRow, Sql!Return, Sql!Ok, Ok,
                      Sql!NextId, DeckRow
  <2> QED
    BY <2>2, <2>4 DEF row
<1>3. s.sqlite_sequence["decks"] + 1 = m.next_deck /\ m.next_deck \in Nat
  BY DEF Agree, MemOk, Shape
<1> HIDE DEF row
<1>4. /\ DOMAIN to = DOMAIN m /\ to.next_deck = m.next_deck + 1
      /\ to.decks = Put(m.decks, m.next_deck, name)
      /\ to.deck_owners = Put(m.deck_owners, m.next_deck, user)
      /\ to.next_user = m.next_user /\ to.next_session = m.next_session
      /\ to.next_card = m.next_card /\ to.users = m.users
      /\ to.sessions = m.sessions /\ to.cards = m.cards /\ to.reviews = m.reviews
  BY DEF MemOk, Shape
<1>5. /\ DOMAIN tables = DOMAIN s
      /\ tables.sqlite_sequence = [s.sqlite_sequence EXCEPT !["decks"] = @ + 1]
      /\ tables.decks = Put(s.decks, m.next_deck, row)
      /\ tables.users = s.users /\ tables.sessions = s.sessions
      /\ tables.cards = s.cards /\ tables.review_logs = s.review_logs
  BY <1>3 DEF Agree
<1> HIDE DEF to, tables
<1>6. DecksOk(to) /\ DOMAIN m.decks \subseteq DOMAIN to.decks
  BY <1>4 DEF MemOk, DecksOk, Put
<1>7. tables.decks = [d \in DOMAIN to.decks |-> DeckRow(to.decks[d], to.deck_owners[d])]
  <2>1. s.decks = [d \in DOMAIN m.decks |-> DeckRow(m.decks[d], m.deck_owners[d])]
    BY DEF Agree
  <2>2. DOMAIN m.deck_owners = DOMAIN m.decks
    BY DEF MemOk, DecksOk
  <2> QED
    BY <1>4, <1>5, <2>1, <2>2 DEF Put, row
<1>8. tables.sqlite_sequence = [s.sqlite_sequence EXCEPT !["decks"] = to.next_deck - 1]
  <2>1. s.sqlite_sequence["decks"] + 1 = to.next_deck - 1
    BY <1>3, <1>4
  <2>2. tables.sqlite_sequence
          = [s.sqlite_sequence EXCEPT !["decks"] = s.sqlite_sequence["decks"] + 1]
    BY <1>5
  <2> QED
    BY <2>1, <2>2
<1>9. DecksTo(m, s, to, tables)
  BY <1>3, <1>4, <1>5, <1>6, <1>7, <1>8 DEF DecksTo
<1>10. MemOk(to, now) /\ Agree(to, tables)
  BY <1>9, DecksChange
<1> QED
  BY <1>1, <1>2, <1>3, <1>10 DEF Kept

LEMMA RenameDeckAgrees ==
    ASSUME NEW m, NEW s, NEW now, MemOk(m, now), Agree(m, s),
           NEW user \in DOMAIN m.users, NEW deck,
           NEW name \in DeckName, Sql!NormalizeDeckName(name) = Ok(name)
    PROVE  LET a == Mem!RenameDeck(m, user, deck, name)
               b == Sql!RenameDeck(s, user, deck, name)
           IN  Kept(a, b, now) /\ b.answer = a.answer
<1> DEFINE a == Mem!RenameDeck(m, user, deck, name)
           b == Sql!RenameDeck(s, user, deck, name)
           to == [m EXCEPT !.decks[deck] = name]
           tables == [s EXCEPT !.decks[deck].name = name]
<1>1. /\ Sql!GetUser(s, user) # None
      /\ deck \in Sql!OwnedDecks(s, user) <=> Mem!OwnsDeck(m, user, deck)
      /\ Mem!GetDeck(m, user, deck) # None <=> Mem!OwnsDeck(m, user, deck)
  BY Ownership
<1>2. Ok(name)[2] = name /\ ~Sql!IsErr(Ok(name))
  BY DEF Ok, Sql!IsErr
<1>3. a = IF Mem!GetDeck(m, user, deck) = None
          THEN [to |-> m, answer |-> Err("DeckNotFound")]
          ELSE [to |-> to, answer |-> Ok(<<deck, name>>)]
  BY DEF Mem!RenameDeck, Mem!Return, Mem!Err, Err, Mem!Ok, Ok
<1>4. b = IF deck \notin Sql!OwnedDecks(s, user)
          THEN [to |-> s, answer |-> Err("DeckNotFound")]
          ELSE [to |-> tables, answer |-> Ok(<<deck, name>>)]
  BY <1>1, <1>2 DEF Sql!RenameDeck, Sql!RenameDeckRow, Sql!Return, Sql!Err, Err, Sql!Ok, Ok
<1>5. CASE ~Mem!OwnsDeck(m, user, deck)
  BY <1>1, <1>3, <1>4, <1>5 DEF Kept
<1>6. CASE Mem!OwnsDeck(m, user, deck)
  <2>1. deck \in DOMAIN m.decks /\ m.deck_owners[deck] = user
    BY <1>6 DEF Mem!OwnsDeck, MemOk, DecksOk
  <2>2. /\ DOMAIN to = DOMAIN m /\ to.next_deck = m.next_deck
        /\ to.decks = [m.decks EXCEPT ![deck] = name]
        /\ to.deck_owners = m.deck_owners
        /\ to.next_user = m.next_user /\ to.next_session = m.next_session
        /\ to.next_card = m.next_card /\ to.users = m.users
        /\ to.sessions = m.sessions /\ to.cards = m.cards /\ to.reviews = m.reviews
    BY DEF MemOk, Shape
  <2>3. /\ DOMAIN tables = DOMAIN s /\ tables.sqlite_sequence = s.sqlite_sequence
        /\ tables.decks = [s.decks EXCEPT ![deck] = [@ EXCEPT !.name = name]]
        /\ tables.users = s.users /\ tables.sessions = s.sessions
        /\ tables.cards = s.cards /\ tables.review_logs = s.review_logs
    BY DEF Agree
  <2> HIDE DEF to, tables
  <2>4. DecksOk(to) /\ DOMAIN m.decks \subseteq DOMAIN to.decks
    BY <2>1, <2>2 DEF MemOk, DecksOk
  <2>5. tables.decks = [d \in DOMAIN to.decks |-> DeckRow(to.decks[d], to.deck_owners[d])]
    <3>1. s.decks = [d \in DOMAIN m.decks |-> DeckRow(m.decks[d], m.deck_owners[d])]
      BY DEF Agree
    <3>2. \A old, new, u : [DeckRow(old, u) EXCEPT !.name = new] = DeckRow(new, u)
      BY DEF DeckRow
    <3>3. tables.decks = [s.decks EXCEPT ![deck] = [s.decks[deck] EXCEPT !.name = name]]
      BY <2>3
    <3>4. [s.decks[deck] EXCEPT !.name = name] = DeckRow(name, user)
      BY <2>1, <3>1, <3>2
    <3>5. tables.decks = [s.decks EXCEPT ![deck] = DeckRow(name, user)]
      BY <3>3, <3>4
    <3> QED
      BY <2>1, <2>2, <3>1, <3>5
  <2>6. tables.sqlite_sequence = [s.sqlite_sequence EXCEPT !["decks"] = to.next_deck - 1]
    BY <2>2, <2>3 DEF Agree
  <2>7. DecksTo(m, s, to, tables)
    BY <2>2, <2>3, <2>4, <2>5, <2>6 DEF DecksTo, MemOk, Shape
  <2>8. MemOk(to, now) /\ Agree(to, tables)
    BY <2>7, DecksChange
  <2> QED
    BY <1>1, <1>3, <1>4, <1>6, <2>8 DEF Kept
<1> QED
  BY <1>5, <1>6
-----------------------------------------------------------------------------
(* Calls that change nothing but the Cards and the log. *)
CardsTo(m, s, to, t, now) ==
    /\ DOMAIN to = DOMAIN m /\ DOMAIN t = DOMAIN s
    /\ to.next_user = m.next_user /\ to.next_deck = m.next_deck
    /\ to.next_card \in Nat /\ to.next_session = m.next_session
    /\ to.users = m.users /\ to.sessions = m.sessions
    /\ to.decks = m.decks /\ to.deck_owners = m.deck_owners
    /\ t.sqlite_sequence = [s.sqlite_sequence EXCEPT !["cards"] = to.next_card - 1]
    /\ t.users = s.users /\ t.sessions = s.sessions /\ t.decks = s.decks
    /\ CardsOk(to) /\ LogOk(to, now)
    /\ t.cards = [c \in DOMAIN to.cards |-> RowOf(to.cards[c])]
    /\ t.review_logs = [i \in DOMAIN to.reviews |-> StoredEntry(to.reviews[i])]

LEMMA CardsChange ==
    ASSUME NEW m, NEW s, NEW now, MemOk(m, now), Agree(m, s), NEW to, NEW t,
           CardsTo(m, s, to, t, now)
    PROVE  MemOk(to, now) /\ Agree(to, t)
<1>1. Agree(to, t)
  <2>1. t.sqlite_sequence
          = [users |-> to.next_user - 1, decks |-> to.next_deck - 1,
             cards |-> to.next_card - 1, sessions |-> to.next_session - 1]
    <3> DEFINE u == m.next_user - 1
               d == m.next_deck - 1
               c == to.next_card - 1
               i == m.next_session - 1
    <3>1. /\ s.sqlite_sequence = [users |-> u, decks |-> d, cards |-> m.next_card - 1,
                                  sessions |-> i]
          /\ t.sqlite_sequence = [s.sqlite_sequence EXCEPT !["cards"] = c]
          /\ u = to.next_user - 1 /\ i = to.next_session - 1 /\ d = to.next_deck - 1
      BY DEF CardsTo, Agree
    <3> HIDE DEF u, d, c, i
    <3>2. t.sqlite_sequence = [users |-> u, decks |-> d, cards |-> c, sessions |-> i]
      BY <3>1
    <3> QED
      BY <3>1, <3>2 DEF c
  <2> QED
    BY <2>1 DEF CardsTo, Agree
<1>2. Shape(to)
  BY DEF CardsTo, MemOk, Shape
<1>3. UsersOk(to) /\ SessionsOk(to) /\ DecksOk(to)
  BY DEF CardsTo, MemOk, UsersOk, SessionsOk, DecksOk
<1> QED
  BY <1>1, <1>2, <1>3 DEF CardsTo, MemOk

(* The INSERT, with its defaults, stores the new Card. *)
LEMMA NewCardStored ==
    ASSUME NEW deck \in Nat, NEW text \in Texts, NEW now
    PROVE  CardOk(NewCardIn(deck, text)) /\ RowOf(NewCardIn(deck, text)) = NewRow(deck, text)
<1> DEFINE card == NewCardIn(deck, text)
<1>1. /\ card.deck_id = deck /\ card.text = text /\ card.phase = "New"
      /\ card.learning_step = None /\ card.memory = None /\ card.due = None
      /\ card.last_review = None /\ card \in CardRow
  BY DEF NewCardIn, CardRow, Phases
<1> HIDE DEF card
<1>2. CardOk(card)
  BY <1>1 DEF CardOk, CardWF
<1>3. PhaseToDb["New"] = "new" /\ Rfc3339(None) = None
  BY DEF PhaseToDb, Rfc3339
<1>4. RowOf(card) = NewRow(deck, text)
  BY <1>1, <1>3 DEF RowOf, NewRow
<1> QED
  BY <1>2, <1>4 DEF card

LEMMA CreateCardAgrees ==
    ASSUME NEW m, NEW s, NEW now, MemOk(m, now), Agree(m, s),
           NEW user \in DOMAIN m.users, NEW deck \in Nat,
           NEW text \in Texts, Sql!NormalizeCardSides(text) = Ok(text)
    PROVE  LET a == Mem!CreateCard(m, user, deck, text)
               b == Sql!CreateCard(s, user, deck, text)
           IN  Kept(a, b, now) /\ b.answer = a.answer
<1> DEFINE a == Mem!CreateCard(m, user, deck, text)
           b == Sql!CreateCard(s, user, deck, text)
           card == NewCardIn(deck, text)
           row == NewRow(deck, text)
           to == [m EXCEPT !.next_card = @ + 1, !.cards = Put(@, m.next_card, card)]
           tables == [s EXCEPT !.sqlite_sequence["cards"] = @ + 1,
                               !.cards = Put(@, s.sqlite_sequence["cards"] + 1, row)]
<1>1. /\ Sql!GetUser(s, user) # None
      /\ Sql!GetDeck(s, user, deck) # None <=> Mem!OwnsDeck(m, user, deck)
      /\ Mem!OwnsDeck(m, user, deck) => deck \in DOMAIN m.decks
  <2>1. Mem!OwnsDeck(m, user, deck) => deck \in DOMAIN m.decks
    BY DEF Mem!OwnsDeck, MemOk, DecksOk
  <2> QED
    BY <2>1, Ownership
<1>2. Ok(text)[2] = text /\ ~Sql!IsErr(Ok(text))
  BY DEF Ok, Sql!IsErr
<1>3. a = IF ~Mem!OwnsDeck(m, user, deck)
          THEN [to |-> m, answer |-> Err("DeckNotFound")]
          ELSE [to |-> to, answer |-> Ok(<<m.next_card, card>>)]
  BY DEF Mem!CreateCard, Mem!NewCardIn, NewCardIn, Mem!Return, Mem!Err, Err, Mem!Ok, Ok,
         Mem!Put, Put
<1>4. b = IF ~Mem!OwnsDeck(m, user, deck)
          THEN [to |-> s, answer |-> Err("DeckNotFound")]
          ELSE [to |-> tables, answer |-> Ok(<<s.sqlite_sequence["cards"] + 1, card>>)]
  <2>1. Sql!Insert(s, "cards", row) = tables
    BY DEF Sql!Insert, Sql!NextId, Sql!Put, Put
  <2>2. Sql!NewCardIn(deck, text) = card /\ Sql!NewRow(deck, text) = row
    BY SameRows DEF Sql!NewCardIn, NewCardIn
  <2>3. DOMAIN s.decks = DOMAIN m.decks
    BY WholeTables
  <2> HIDE DEF tables, row, card
  <2>4. CASE ~Mem!OwnsDeck(m, user, deck)
    BY <1>1, <2>4 DEF Sql!CreateCard, Sql!Return, Sql!Err, Err
  <2>5. CASE Mem!OwnsDeck(m, user, deck)
    <3>1. b = Sql!CreateCardRow(s, deck, text)
      BY <1>1, <2>5 DEF Sql!CreateCard
    <3>2. deck \in DOMAIN s.decks
      BY <1>1, <2>3, <2>5
    <3>3. Sql!CreateCardRow(s, deck, text)
            = [to |-> Sql!Insert(s, "cards", Sql!NewRow(deck, text)),
               answer |-> Ok(<<s.sqlite_sequence["cards"] + 1, Sql!NewCardIn(deck, text)>>)]
      BY <1>2, <3>2 DEF Sql!CreateCardRow, Sql!Return, Sql!Ok, Ok, Sql!NextId
    <3> QED
      BY <2>1, <2>2, <2>5, <3>1, <3>3
  <2> QED
    BY <2>4, <2>5
<1>5. CASE ~Mem!OwnsDeck(m, user, deck)
  BY <1>3, <1>4, <1>5 DEF Kept
<1>6. CASE Mem!OwnsDeck(m, user, deck)
  <2>1. s.sqlite_sequence["cards"] + 1 = m.next_card /\ m.next_card \in Nat
    BY DEF Agree, MemOk, Shape
  <2>2. CardOk(card) /\ RowOf(card) = row /\ card \in CardRow /\ card.deck_id = deck
    BY NewCardStored DEF CardOk, NewCardIn
  <2> HIDE DEF card, row
  <2>3. /\ DOMAIN to = DOMAIN m /\ to.next_card = m.next_card + 1
        /\ to.cards = Put(m.cards, m.next_card, card)
        /\ to.next_user = m.next_user /\ to.next_session = m.next_session
        /\ to.next_deck = m.next_deck /\ to.users = m.users
        /\ to.sessions = m.sessions /\ to.decks = m.decks
        /\ to.deck_owners = m.deck_owners /\ to.reviews = m.reviews
    BY DEF MemOk, Shape
  <2>4. /\ DOMAIN tables = DOMAIN s
        /\ tables.sqlite_sequence = [s.sqlite_sequence EXCEPT !["cards"] = @ + 1]
        /\ tables.cards = Put(s.cards, m.next_card, row)
        /\ tables.users = s.users /\ tables.sessions = s.sessions
        /\ tables.decks = s.decks /\ tables.review_logs = s.review_logs
    BY <2>1 DEF Agree
  <2> HIDE DEF to, tables
  <2>5. CardsOk(to)
    BY <1>1, <1>6, <2>1, <2>2, <2>3 DEF MemOk, CardsOk, Put
  <2>6. LogOk(to, now)
    BY <2>3 DEF MemOk, LogOk, Put
  <2>7. tables.cards = [c \in DOMAIN to.cards |-> RowOf(to.cards[c])]
    <3>1. s.cards = [c \in DOMAIN m.cards |-> RowOf(m.cards[c])]
      BY DEF Agree
    <3> QED
      BY <2>2, <2>3, <2>4, <3>1 DEF Put
  <2>8. tables.sqlite_sequence = [s.sqlite_sequence EXCEPT !["cards"] = to.next_card - 1]
    <3>1. s.sqlite_sequence["cards"] + 1 = to.next_card - 1
      BY <2>1, <2>3
    <3>2. tables.sqlite_sequence
            = [s.sqlite_sequence EXCEPT !["cards"] = s.sqlite_sequence["cards"] + 1]
      BY <2>4
    <3> QED
      BY <3>1, <3>2
  <2>9. CardsTo(m, s, to, tables, now)
    <3>1. s.review_logs = [i \in DOMAIN m.reviews |-> StoredEntry(m.reviews[i])]
      BY DEF Agree
    <3>2. to.next_card \in Nat
      BY <2>1, <2>3
    <3> QED
      BY <2>3, <2>4, <2>5, <2>6, <2>7, <2>8, <3>1, <3>2 DEF CardsTo
  <2>10. MemOk(to, now) /\ Agree(to, tables)
    BY <2>9, CardsChange
  <2> QED
    BY <1>3, <1>4, <1>6, <2>1, <2>10 DEF Kept
<1> QED
  BY <1>5, <1>6

LEMMA UpdateCardAgrees ==
    ASSUME NEW m, NEW s, NEW now, MemOk(m, now), Agree(m, s),
           NEW user \in DOMAIN m.users, NEW card,
           NEW text \in Texts, Sql!NormalizeCardSides(text) = Ok(text)
    PROVE  LET a == Mem!UpdateCard(m, user, card, text)
               b == Sql!UpdateCard(s, user, card, text)
           IN  /\ Kept(a, b, now)
               /\ b.answer = IF IsErr(a.answer) \/ a.answer[2] = None THEN a.answer
                             ELSE Ok(<<a.answer[2][1], Stored(a.answer[2][2])>>)
<1> DEFINE a == Mem!UpdateCard(m, user, card, text)
           b == Sql!UpdateCard(s, user, card, text)
           edited == [m.cards[card] EXCEPT !.text = text]
           to == [m EXCEPT !.cards[card] = edited]
           tables == [s EXCEPT !.cards[card].text = text]
<1>1. /\ Sql!GetUser(s, user) # None
      /\ Sql!GetCard(s, user, card) # None <=> Mem!CardForUser(m, user, card)
      /\ Mem!CardForUser(m, user, card) => card \in DOMAIN m.cards
  BY Ownership, OwnCards
<1>2. Ok(text)[2] = text /\ ~Sql!IsErr(Ok(text))
  BY DEF Ok, Sql!IsErr
<1>3. CASE ~Mem!CardForUser(m, user, card)
  <2>1. a = [to |-> m, answer |-> Err("CardNotFound")]
    BY <1>3 DEF Mem!UpdateCard, Mem!Return, Mem!Err, Err
  <2>2. b = [to |-> s, answer |-> Err("CardNotFound")]
    BY <1>1, <1>3 DEF Sql!UpdateCard, Sql!Return, Sql!Err, Err
  <2> QED
    BY <2>1, <2>2 DEF Kept, IsErr, Err
<1>4. CASE Mem!CardForUser(m, user, card)
  <2>1. /\ card \in DOMAIN m.cards /\ DOMAIN s.cards = DOMAIN m.cards
        /\ CardOk(m.cards[card]) /\ card \in Nat
    BY <1>1, <1>4, WholeTables DEF MemOk, CardsOk
  <2>2. a = [to |-> to, answer |-> Ok(<<card, edited>>)]
    BY <1>4 DEF Mem!UpdateCard, Mem!Return, Mem!Ok, Ok
  <2>3. b = [to |-> tables, answer |-> Ok(<<card, Sql!ReadCard(tables, card)[2]>>)]
    <3>1. b = Sql!UpdateCardRow(s, card, text)
      BY <1>1, <1>4 DEF Sql!UpdateCard
    <3>2. card \in DOMAIN s.cards
      BY <2>1
    <3> QED
      BY <1>2, <3>1, <3>2 DEF Sql!UpdateCardRow, Sql!Return, Sql!Ok, Ok
  <2>4. CardOk(edited) /\ edited.deck_id = m.cards[card].deck_id /\ edited \in CardRow
    <3>1. m.cards[card] \in CardRow
      BY <2>1 DEF CardOk
    <3>2. /\ edited \in CardRow /\ edited.deck_id = m.cards[card].deck_id
          /\ edited.phase = m.cards[card].phase /\ edited.memory = m.cards[card].memory
          /\ edited.learning_step = m.cards[card].learning_step
          /\ edited.due = m.cards[card].due
          /\ edited.last_review = m.cards[card].last_review
      BY <3>1 DEF CardRow
    <3> HIDE DEF edited
    <3> QED
      BY <2>1, <3>2 DEF CardOk, CardWF
  <2>5. RowOf(edited) = [RowOf(m.cards[card]) EXCEPT !.text = text]
    <3>1. m.cards[card] \in CardRow
      BY <2>1 DEF CardOk
    <3>2. /\ edited.deck_id = m.cards[card].deck_id /\ edited.text = text
          /\ edited.phase = m.cards[card].phase /\ edited.memory = m.cards[card].memory
          /\ edited.learning_step = m.cards[card].learning_step
          /\ edited.due = m.cards[card].due
          /\ edited.last_review = m.cards[card].last_review
      BY <3>1 DEF CardRow
    <3> HIDE DEF edited
    <3> QED
      BY <3>2 DEF RowOf
  <2> HIDE DEF edited
  <2>6. /\ DOMAIN to = DOMAIN m /\ to.next_card = m.next_card
        /\ to.cards = [m.cards EXCEPT ![card] = edited]
        /\ to.next_user = m.next_user /\ to.next_session = m.next_session
        /\ to.next_deck = m.next_deck /\ to.users = m.users
        /\ to.sessions = m.sessions /\ to.decks = m.decks
        /\ to.deck_owners = m.deck_owners /\ to.reviews = m.reviews
    BY DEF MemOk, Shape
  <2>7. /\ DOMAIN tables = DOMAIN s /\ tables.sqlite_sequence = s.sqlite_sequence
        /\ tables.cards = [s.cards EXCEPT ![card] = [s.cards[card] EXCEPT !.text = text]]
        /\ tables.users = s.users /\ tables.sessions = s.sessions
        /\ tables.decks = s.decks /\ tables.review_logs = s.review_logs
    BY DEF Agree
  <2> HIDE DEF to, tables
  <2>8. CardsOk(to)
    BY <2>1, <2>4, <2>6 DEF MemOk, CardsOk
  <2>9. LogOk(to, now)
    BY <2>6 DEF MemOk, LogOk
  <2>10. tables.cards = [c \in DOMAIN to.cards |-> RowOf(to.cards[c])]
    <3>1. s.cards = [c \in DOMAIN m.cards |-> RowOf(m.cards[c])]
      BY DEF Agree
    <3>2. [s.cards[card] EXCEPT !.text = text] = RowOf(edited)
      BY <2>1, <2>5, <3>1
    <3> QED
      BY <2>1, <2>6, <2>7, <3>1, <3>2
  <2>11. tables.sqlite_sequence = [s.sqlite_sequence EXCEPT !["cards"] = to.next_card - 1]
    BY <2>6, <2>7 DEF Agree
  <2>12. CardsTo(m, s, to, tables, now)
    BY <2>6, <2>7, <2>8, <2>9, <2>10, <2>11 DEF CardsTo, Agree, MemOk, Shape
  <2>13. MemOk(to, now) /\ Agree(to, tables)
    BY <2>12, CardsChange
  <2>14. Sql!ReadCard(tables, card)[2] = Stored(edited)
    <3>1. card \in DOMAIN to.cards /\ to.cards[card] = edited
      BY <2>1, <2>6
    <3>2. Sql!ReadCard(tables, card) = Ok(Stored(edited))
      BY <2>13, <3>1, OwnCards
    <3> QED
      BY <3>2 DEF Ok
  <2>15. a.to = to /\ b.to = tables /\ a.answer = Ok(<<card, edited>>)
         /\ b.answer = Ok(<<card, Stored(edited)>>)
    BY <2>2, <2>3, <2>14
  <2>16. <<card, edited>> # None
    <3>1. <<card, edited>> \in Nat \X CardRow
      BY <2>1, <2>4
    <3> QED
      BY <3>1, NoneIsNoRow
  <2>17. ~IsErr(a.answer) /\ a.answer[2] = <<card, edited>>
    BY <2>15 DEF IsErr, Ok
  <2> HIDE DEF a, b
  <2> QED
    BY <2>13, <2>15, <2>16, <2>17 DEF Kept, a, b
<1> QED
  BY <1>3, <1>4

(* The use case of a Review, which reads the Card, rates and commits it.    *)
LEMMA RateAgrees ==
    ASSUME NEW m, NEW s, NEW now \in Times, MemOk(m, now), Agree(m, s),
           NEW user \in DOMAIN m.users, NEW card, NEW rating \in Ratings,
           LET read == Mem!GetCard(m, user, card)
           IN  read # None => ElapsedDays(Rfc3339(read.last_review), now)
                                = ElapsedDays(read.last_review, now)
    PROVE  LET entry == [card_id |-> card, rated_at |-> now, rating |-> rating]
               inMem == Mem!GetCard(m, user, card)
               inSql == Sql!GetCard(s, user, card)
               a == Rated(m, inMem, Mem!CommitReview(m, user, card,
                                        ApplyRating(inMem, rating, now), entry))
               b == Rated(s, inSql, Sql!CommitReview(s, user, card,
                                        ApplyRating(inSql, rating, now), entry))
           IN  /\ Kept(a, b, now) /\ b.answer = a.answer
               /\ IsErr(a.answer) \/ a.answer = Ok(a.answer[2])
<1> DEFINE entry == [card_id |-> card, rated_at |-> now, rating |-> rating]
           inMem == Mem!GetCard(m, user, card)
           inSql == Sql!GetCard(s, user, card)
           a == Rated(m, inMem, Mem!CommitReview(m, user, card,
                                    ApplyRating(inMem, rating, now), entry))
           b == Rated(s, inSql, Sql!CommitReview(s, user, card,
                                    ApplyRating(inSql, rating, now), entry))
           updated == ApplyRating(m.cards[card], rating, now)
           row == RowOf(updated)
           stored == StoredEntry(entry)
           to == [m EXCEPT !.cards[card] = updated, !.reviews = Append(@, entry)]
           tables == [s EXCEPT !.cards[card] = row, !.review_logs = Append(@, stored)]
<1>1. /\ Sql!GetUser(s, user) # None
      /\ inSql # None <=> Mem!CardForUser(m, user, card)
      /\ inMem # None <=> Mem!CardForUser(m, user, card)
      /\ Mem!CardForUser(m, user, card) => card \in DOMAIN m.cards
  BY Ownership, OwnCards
<1>2. CASE ~Mem!CardForUser(m, user, card)
  <2>1. /\ a = [to |-> m, answer |-> Err("CardNotFound")]
        /\ b = [to |-> s, answer |-> Err("CardNotFound")]
    <3> HIDE DEF inMem, inSql
    <3> QED
      BY <1>1, <1>2 DEF Rated, Return
  <2> QED
    BY <2>1 DEF Kept, IsErr, Err
<1>3. CASE Mem!CardForUser(m, user, card)
  <2>1. /\ card \in DOMAIN m.cards /\ DOMAIN s.cards = DOMAIN m.cards
        /\ CardOk(m.cards[card]) /\ card \in Nat
        /\ m.cards[card].deck_id \in DOMAIN m.decks
        /\ inMem = m.cards[card]
        /\ Sql!ReadCard(s, card) = Ok(Stored(m.cards[card]))
        /\ s.cards[card] = RowOf(m.cards[card])
    <3>1. card \in DOMAIN m.cards /\ DOMAIN s.cards = DOMAIN m.cards
      BY <1>1, <1>3, WholeTables
    <3>2. CardOk(m.cards[card]) /\ card \in Nat
          /\ m.cards[card].deck_id \in DOMAIN m.decks
      BY <3>1 DEF MemOk, CardsOk
    <3>3. inMem = m.cards[card] /\ Sql!ReadCard(s, card) = Ok(Stored(m.cards[card]))
      BY <1>3, <3>1, OwnCards
    <3>4. s.cards[card] = RowOf(m.cards[card])
      BY <3>1 DEF Agree
    <3> QED
      BY <3>1, <3>2, <3>3, <3>4
  <2>2. /\ CardOk(updated) /\ updated.deck_id = m.cards[card].deck_id
        /\ updated.text = m.cards[card].text
        /\ ApplyRating(Stored(m.cards[card]), rating, now) = updated
    <3>1. inMem # None
      BY <1>1, <1>3
    <3>2. ElapsedDays(Rfc3339(m.cards[card].last_review), now)
            = ElapsedDays(m.cards[card].last_review, now)
      BY <2>1, <3>1
    <3> QED
      BY <2>1, <3>2, RatedRow
  <2>3. a = [to |-> to, answer |-> Ok(<<updated, entry>>)]
    <3> HIDE DEF entry
    <3>1. a = Mem!CommitReview(m, user, card, updated, entry)
      BY <1>1, <1>3, <2>1 DEF Rated
    <3> HIDE DEF updated, a
    <3> QED
      BY <1>3, <3>1 DEF Mem!CommitReview, Mem!Return, Mem!Ok, Ok
  <2>4. b = [to |-> tables, answer |-> Ok(<<updated, entry>>)]
    <3> DEFINE rated == ApplyRating(inSql, rating, now)
    <3>1. b = Sql!CommitReview(s, user, card, rated, entry)
      BY <1>1, <1>3 DEF Rated
    <3>2. Sql!CommitReview(s, user, card, rated, entry)
            = Sql!PersistReview(s, card, rating, now)
      <4> HIDE DEF rated
      <4>1. Sql!GetCard(s, user, card) # None
        BY <1>1, <1>3
      <4>2. entry.rating = rating /\ entry.rated_at = now
        OBVIOUS
      <4> HIDE DEF entry
      <4> QED
        BY <1>1, <4>1, <4>2 DEF Sql!CommitReview
    <3> HIDE DEF b
    <3>3. /\ ~Sql!IsErr(Sql!ReadCard(s, card))
          /\ Sql!ReadCard(s, card)[2] = Stored(m.cards[card])
      BY <2>1 DEF Sql!IsErr, Ok
    <3>4. Sql!ApplyRating(Stored(m.cards[card]), rating, now) = updated
      BY <2>2, SameHelpers
    <3>5. Sql!WriteReview(s.cards[card], updated) = row
      <4>1. /\ s.cards[card] = [field \in RowFields |-> s.cards[card][field]]
            /\ s.cards[card].deck_id = m.cards[card].deck_id
            /\ s.cards[card].text = m.cards[card].text
        BY <2>1, RowReads
      <4>2. WriteReview(s.cards[card], updated) = row
        <5> HIDE DEF updated
        <5> QED
          BY <2>2, <4>1, WrittenRow
      <4> QED
        BY <4>2, SameRows
    <3>6. Sql!RowChecks(row)
      <4>1. RowChecks(row)
        <5> HIDE DEF updated
        <5> QED
          BY <2>2, RowReads
      <4> QED
        BY <4>1, SameRows
    <3> HIDE DEF row, updated
    <3>7. Sql!Rfc3339(now) = Rfc3339(now)
      BY SameRows
    <3>8. [entry EXCEPT !.rated_at = Sql!Rfc3339(now)] = stored
      BY <3>7 DEF StoredEntry
    <3> HIDE DEF stored
    <3>9. Sql!PersistReview(s, card, rating, now)
            = [to |-> tables, answer |-> Ok(<<updated, entry>>)]
      BY <3>3, <3>4, <3>5, <3>6, <3>8 DEF Sql!PersistReview, Sql!Return, Sql!Ok, Ok
    <3> QED
      BY <3>1, <3>2, <3>9
  <2>5. entry \in Entry /\ entry.card_id = card /\ entry.rated_at = now
    BY <2>1 DEF Entry
  <2> HIDE DEF updated, row, entry, stored
  <2>6. /\ DOMAIN to = DOMAIN m /\ to.next_card = m.next_card
        /\ to.cards = [m.cards EXCEPT ![card] = updated]
        /\ to.reviews = Append(m.reviews, entry)
        /\ to.next_user = m.next_user /\ to.next_session = m.next_session
        /\ to.next_deck = m.next_deck /\ to.users = m.users
        /\ to.sessions = m.sessions /\ to.decks = m.decks
        /\ to.deck_owners = m.deck_owners
    BY DEF MemOk, Shape
  <2>7. /\ DOMAIN tables = DOMAIN s /\ tables.sqlite_sequence = s.sqlite_sequence
        /\ tables.cards = [s.cards EXCEPT ![card] = row]
        /\ tables.review_logs = Append(s.review_logs, stored)
        /\ tables.users = s.users /\ tables.sessions = s.sessions
        /\ tables.decks = s.decks
    BY DEF Agree
  <2> HIDE DEF to, tables
  <2>8. CardsOk(to)
    <3>1. updated \in CardRow
      BY <2>2 DEF CardOk
    <3> QED
      BY <2>1, <2>2, <2>6, <3>1 DEF MemOk, CardsOk
  <2>9. LogOk(to, now)
    <3>1. /\ m.reviews \in Seq(Entry) /\ DOMAIN m.reviews = 1..Len(m.reviews)
          /\ Len(m.reviews) \in Nat
          /\ \A i \in DOMAIN m.reviews :
                m.reviews[i].card_id \in DOMAIN m.cards /\ m.reviews[i].rated_at <= now
          /\ \A i, j \in DOMAIN m.reviews :
                i < j => m.reviews[i].rated_at <= m.reviews[j].rated_at
      BY DEF MemOk, LogOk
    <3>2. /\ to.reviews \in Seq(Entry)
          /\ DOMAIN to.reviews = 1..(Len(m.reviews) + 1)
          /\ \A i \in DOMAIN m.reviews : to.reviews[i] = m.reviews[i]
          /\ to.reviews[Len(m.reviews) + 1] = entry
      BY <2>5, <2>6, <3>1
    <3>3. now \in Int
      BY TimesAreInt
    <3>4. DOMAIN to.cards = DOMAIN m.cards
      BY <2>6
    <3>5. \A i \in DOMAIN to.reviews :
             to.reviews[i].card_id \in DOMAIN to.cards /\ to.reviews[i].rated_at <= now
      BY <2>1, <2>5, <3>1, <3>2, <3>3, <3>4
    <3>6. ASSUME NEW i \in DOMAIN to.reviews, NEW j \in DOMAIN to.reviews, i < j
          PROVE  to.reviews[i].rated_at <= to.reviews[j].rated_at
      <4>1. i \in DOMAIN m.reviews
        BY <3>1, <3>2, <3>6
      <4>2. CASE j \in DOMAIN m.reviews
        BY <3>1, <3>2, <3>6, <4>1, <4>2
      <4>3. CASE j = Len(m.reviews) + 1
        BY <2>5, <3>1, <3>2, <4>1, <4>3
      <4> QED
        BY <3>1, <3>2, <4>2, <4>3
    <3> QED
      BY <3>2, <3>5, <3>6 DEF LogOk
  <2>10. tables.cards = [c \in DOMAIN to.cards |-> RowOf(to.cards[c])]
    <3>1. s.cards = [c \in DOMAIN m.cards |-> RowOf(m.cards[c])]
      BY DEF Agree
    <3> QED
      BY <2>1, <2>6, <2>7, <3>1 DEF row
  <2>11. tables.review_logs = [i \in DOMAIN to.reviews |-> StoredEntry(to.reviews[i])]
    <3>1. s.review_logs = [i \in DOMAIN m.reviews |-> StoredEntry(m.reviews[i])]
      BY DEF Agree
    <3>2. m.reviews \in Seq(Entry)
      BY DEF MemOk, LogOk
    <3>3. /\ Len(m.reviews) \in Nat /\ DOMAIN m.reviews = 1..Len(m.reviews)
          /\ DOMAIN to.reviews = 1..(Len(m.reviews) + 1)
          /\ \A i \in DOMAIN m.reviews : to.reviews[i] = m.reviews[i]
          /\ to.reviews[Len(m.reviews) + 1] = entry
      BY <2>5, <2>6, <3>2
    <3> DEFINE Kind == {StoredEntry(e) : e \in Entry}
    <3>4. s.review_logs \in Seq(Kind) /\ Len(s.review_logs) = Len(m.reviews)
          /\ stored \in Kind
      BY <2>5, <3>1, <3>2, <3>3 DEF stored
    <3> HIDE DEF Kind
    <3>5. /\ DOMAIN tables.review_logs = 1..(Len(m.reviews) + 1)
          /\ \A i \in 1..Len(m.reviews) : tables.review_logs[i] = s.review_logs[i]
          /\ tables.review_logs[Len(m.reviews) + 1] = stored
          /\ tables.review_logs \in Seq(Kind)
      BY <2>7, <3>3, <3>4
    <3>6. ASSUME NEW i \in DOMAIN to.reviews
          PROVE  tables.review_logs[i] = StoredEntry(to.reviews[i])
      <4>1. CASE i \in DOMAIN m.reviews
        <5>1. tables.review_logs[i] = s.review_logs[i] /\ to.reviews[i] = m.reviews[i]
          BY <3>3, <3>5, <4>1
        <5>2. s.review_logs[i] = StoredEntry(m.reviews[i])
          BY <3>1, <4>1
        <5> QED
          BY <5>1, <5>2
      <4>2. CASE i = Len(m.reviews) + 1
        <5>1. to.reviews[i] = entry /\ tables.review_logs[i] = stored
          BY <3>3, <3>5, <4>2
        <5> QED
          BY <5>1 DEF stored
      <4> QED
        BY <3>3, <4>1, <4>2
    <3>7. tables.review_logs
            = [i \in DOMAIN tables.review_logs |-> tables.review_logs[i]]
      BY <3>5
    <3> QED
      BY <3>3, <3>5, <3>6, <3>7
  <2>12. tables.sqlite_sequence = [s.sqlite_sequence EXCEPT !["cards"] = to.next_card - 1]
    BY <2>6, <2>7 DEF Agree
  <2>13. CardsTo(m, s, to, tables, now)
    BY <2>6, <2>7, <2>8, <2>9, <2>10, <2>11, <2>12 DEF CardsTo, MemOk, Shape
  <2>14. MemOk(to, now) /\ Agree(to, tables)
    BY <2>13, CardsChange
  <2>15. a.answer = Ok(<<updated, entry>>) /\ b.answer = a.answer
         /\ a.to = to /\ b.to = tables
    BY <2>3, <2>4
  <2> HIDE DEF a, b
  <2>16. a.answer = Ok(a.answer[2])
    BY <2>15 DEF Ok
  <2> QED
    BY <2>14, <2>15, <2>16 DEF Kept, a, b, entry
<1> QED
  BY <1>2, <1>3

-----------------------------------------------------------------------------
(* The calls keep the invariant. *)
Answer(answer) == IsErr(answer) \/ answer = Ok(answer[2])

LEMMA AnswerForms ==
    ASSUME NEW m
    PROVE  /\ \A name, hash, admin : Answer(Mem!CreateUser(m, name, hash, admin).answer)
           /\ \A user, hash : Answer(Mem!SetPasswordHash(m, user, hash).answer)
           /\ \A user, disabled : Answer(Mem!SetDisabled(m, user, disabled).answer)
           /\ \A user : Answer(Mem!DeleteUser(m, user).answer)
           /\ \A session : Answer(Mem!DeleteSession(m, session).answer)
           /\ \A user : Answer(Mem!DeleteSessionsForUser(m, user).answer)
           /\ \A user, name : Answer(Mem!CreateDeck(m, user, name).answer)
           /\ \A user, deck, name : Answer(Mem!RenameDeck(m, user, deck, name).answer)
           /\ \A user, deck : Answer(Mem!DeleteDeck(m, user, deck).answer)
           /\ \A user, deck, text : Answer(Mem!CreateCard(m, user, deck, text).answer)
           /\ \A user, card : Answer(Mem!DeleteCard(m, user, card).answer)
<1>1. /\ \A error, to : Answer(Mem!Return(to, Mem!Err(error)).answer)
      /\ \A value, to : Answer(Mem!Return(to, Mem!Ok(value)).answer)
  BY DEF Answer, IsErr, Ok, Mem!Return, Mem!Err, Mem!Ok
<1>2. \A user, row : Answer(Mem!ChangeUser(m, user, row).answer)
  BY <1>1 DEF Mem!ChangeUser
<1>3. \A name, hash, admin : Answer(Mem!CreateUser(m, name, hash, admin).answer)
  BY <1>1 DEF Mem!CreateUser
<1>4. \A user, hash : Answer(Mem!SetPasswordHash(m, user, hash).answer)
  BY <1>2 DEF Mem!SetPasswordHash
<1>5. \A user, disabled : Answer(Mem!SetDisabled(m, user, disabled).answer)
  BY <1>2 DEF Mem!SetDisabled
<1>6. \A user : Answer(Mem!DeleteUser(m, user).answer)
  BY <1>1 DEF Mem!DeleteUser
<1>7. /\ \A session : Answer(Mem!DeleteSession(m, session).answer)
      /\ \A user : Answer(Mem!DeleteSessionsForUser(m, user).answer)
  BY <1>1 DEF Mem!DeleteSession, Mem!DeleteSessionsForUser
<1>8. /\ \A user, name : Answer(Mem!CreateDeck(m, user, name).answer)
      /\ \A user, deck, name : Answer(Mem!RenameDeck(m, user, deck, name).answer)
  BY <1>1 DEF Mem!CreateDeck, Mem!RenameDeck
<1>9. \A user, deck : Answer(Mem!DeleteDeck(m, user, deck).answer)
  BY <1>1 DEF Mem!DeleteDeck
<1>10. /\ \A user, deck, text : Answer(Mem!CreateCard(m, user, deck, text).answer)
       /\ \A user, card : Answer(Mem!DeleteCard(m, user, card).answer)
  BY <1>1 DEF Mem!CreateCard, Mem!DeleteCard
<1> QED
  BY <1>3, <1>4, <1>5, <1>6, <1>7, <1>8, <1>9, <1>10

(* A step that moves the Stores to where `a` and `b` do, with one answer.  *)
LEMMA BothKeep ==
    ASSUME NEW a, NEW b, Together, Both(a, b), Kept(a, b, clock), b.answer = a.answer,
           Answer(a.answer)
    PROVE  Together'
<1>1. mem' = a.to /\ sql' = b.to /\ clock' = clock
  BY DEF Both, BothRounding, Compare, Same
<1>2. dispute' = None
  BY DEF Both, BothRounding, Compare, Same, Answer
<1> QED
  BY <1>1, <1>2 DEF Together, Kept

(* The clock goes on: what was not after it still is not.                  *)
LEMMA LaterOk ==
    ASSUME NEW m, NEW now \in Times, NEW later \in Times, now <= later, MemOk(m, now)
    PROVE  MemOk(m, later)
<1>1. now \in Int /\ later \in Int
  BY TimesAreInt
<1>3. LogOk(m, later)
  <2>1. \A i \in DOMAIN m.reviews : m.reviews[i].rated_at \in Int
    <3>1. m.reviews \in Seq(Entry)
      BY DEF MemOk, LogOk
    <3>2. \A i \in DOMAIN m.reviews : m.reviews[i] \in Entry
      BY <3>1
    <3>3. \A entry \in Entry : entry.rated_at \in Times
      BY DEF Entry
    <3> QED
      BY <3>2, <3>3, TimesAreInt
  <2> QED
    BY <1>1, <2>1 DEF MemOk, LogOk
<1> QED
  BY <1>3 DEF MemOk

LEMMA InitKeeps == Init => IInv
<1> SUFFICES ASSUME Init PROVE Together
  BY DEF IInv
<1> DEFINE m == Mem!Empty
           s == Sql!Empty
<1>1. clock \in Times /\ dispute = None /\ mem = m /\ sql = s
  BY DEF Init
<1>2. /\ DOMAIN m = {"next_user", "next_deck", "next_card", "next_session", "users",
                     "sessions", "decks", "deck_owners", "cards", "reviews"}
      /\ m.next_user = 1 /\ m.next_deck = 1 /\ m.next_card = 1 /\ m.next_session = 1
      /\ m.users = <<>> /\ m.sessions = <<>> /\ m.decks = <<>>
      /\ m.deck_owners = <<>> /\ m.cards = <<>> /\ m.reviews = <<>>
  BY DEF Mem!Empty
<1>3. /\ DOMAIN s = {"sqlite_sequence", "users", "sessions", "decks", "cards",
                     "review_logs"}
      /\ s.sqlite_sequence = [users |-> 0, sessions |-> 0, decks |-> 0, cards |-> 0]
      /\ s.users = <<>> /\ s.sessions = <<>> /\ s.decks = <<>> /\ s.cards = <<>>
      /\ s.review_logs = <<>>
  BY DEF Sql!Empty
<1> HIDE DEF m, s
<1>4. DOMAIN <<>> = {} /\ <<>> \in Seq(Entry)
  OBVIOUS
<1>5. Shape(m)
  BY <1>2 DEF Shape
<1>6. UsersOk(m) /\ SessionsOk(m) /\ DecksOk(m)
  BY <1>2, <1>4 DEF UsersOk, SessionsOk, DecksOk
<1>7. CardsOk(m) /\ LogOk(m, clock)
  BY <1>2, <1>4 DEF CardsOk, LogOk
<1>8. Agree(m, s)
  <2>1. s.sqlite_sequence = [users |-> m.next_user - 1, decks |-> m.next_deck - 1,
                             cards |-> m.next_card - 1, sessions |-> m.next_session - 1]
    BY <1>2, <1>3
  <2>2. /\ s.sessions = [i \in DOMAIN m.sessions |-> StoredSession(m.sessions[i])]
        /\ s.decks = [d \in DOMAIN m.decks |-> DeckRow(m.decks[d], m.deck_owners[d])]
        /\ s.cards = [c \in DOMAIN m.cards |-> RowOf(m.cards[c])]
        /\ s.review_logs = [i \in DOMAIN m.reviews |-> StoredEntry(m.reviews[i])]
    BY <1>2, <1>3
  <2> QED
    BY <1>2, <1>3, <2>1, <2>2 DEF Agree
<1> QED
  BY <1>1, <1>5, <1>6, <1>7, <1>8 DEF Together, MemOk

LEMMA RefusedKeeps ==
    ASSUME NEW error, Together, Refused(error), IsErr(error)
    PROVE  Together'
<1> DEFINE a == Return(mem, error)
           b == Return(sql, error)
<1>1. a.to = mem /\ b.to = sql /\ a.answer = error /\ b.answer = error
  BY DEF Return
<1>2. Both(a, b)
  BY DEF Refused
<1>3. Answer(error)
  BY DEF Answer
<1> HIDE DEF a, b
<1>4. Kept(a, b, clock)
  BY <1>1 DEF Kept, Together
<1> QED
  BY <1>1, <1>2, <1>3, <1>4, BothKeep

LEMMA UserCallKeeps == Together /\ UserCall => Together'
<1> SUFFICES ASSUME Together, UserCall PROVE Together'
  OBVIOUS
<1>0. MemOk(mem, clock) /\ Agree(mem, sql) /\ clock \in Times /\ dispute = None
  BY DEF Together
<1>1. ASSUME NEW name \in Usernames, NEW hash \in PasswordHashes, NEW admin \in BOOLEAN,
             CreateUser(name, hash, admin)
      PROVE  Together'
  <2>1. LET a == Mem!CreateUser(mem, name, hash, admin)
            b == Sql!CreateUser(sql, name, hash, admin)
        IN  Kept(a, b, clock) /\ b.answer = a.answer /\ Answer(a.answer)
    BY <1>0, CreateUserAgrees, AnswerForms
  <2>2. Both(Mem!CreateUser(mem, name, hash, admin), Sql!CreateUser(sql, name, hash, admin))
    BY <1>1 DEF CreateUser
  <2> QED
    BY <2>1, <2>2, BothKeep
<1>2. ASSUME NEW user, NEW hash \in PasswordHashes,
             SetPasswordHash(user, hash)
      PROVE  Together'
  <2>1. LET a == Mem!SetPasswordHash(mem, user, hash)
            b == Sql!SetPasswordHash(sql, user, hash)
        IN  Kept(a, b, clock) /\ b.answer = a.answer /\ Answer(a.answer)
    BY <1>0, SetPasswordHashAgrees, AnswerForms
  <2>2. Both(Mem!SetPasswordHash(mem, user, hash), Sql!SetPasswordHash(sql, user, hash))
    BY <1>2 DEF SetPasswordHash
  <2> QED
    BY <2>1, <2>2, BothKeep
<1>3. ASSUME NEW user, NEW disabled \in BOOLEAN,
             SetDisabled(user, disabled)
      PROVE  Together'
  <2>1. LET a == Mem!SetDisabled(mem, user, disabled)
            b == Sql!SetDisabled(sql, user, disabled)
        IN  Kept(a, b, clock) /\ b.answer = a.answer /\ Answer(a.answer)
    BY <1>0, SetDisabledAgrees, AnswerForms
  <2>2. Both(Mem!SetDisabled(mem, user, disabled), Sql!SetDisabled(sql, user, disabled))
    BY <1>3 DEF SetDisabled
  <2> QED
    BY <2>1, <2>2, BothKeep
<1>4. ASSUME NEW user,
             DeleteUser(user)
      PROVE  Together'
  <2>1. LET a == Mem!DeleteUser(mem, user)
            b == Sql!DeleteUser(sql, user)
        IN  Kept(a, b, clock) /\ b.answer = a.answer /\ Answer(a.answer)
    BY <1>0, DeleteUserAgrees, AnswerForms
  <2>2. Both(Mem!DeleteUser(mem, user), Sql!DeleteUser(sql, user))
    BY <1>4 DEF DeleteUser
  <2> QED
    BY <2>1, <2>2, BothKeep
<1>5. ASSUME NEW session,
             DeleteSession(session)
      PROVE  Together'
  <2>1. LET a == Mem!DeleteSession(mem, session)
            b == Sql!DeleteSession(sql, session)
        IN  Kept(a, b, clock) /\ b.answer = a.answer /\ Answer(a.answer)
    BY <1>0, DeleteSessionAgrees, AnswerForms
  <2>2. Both(Mem!DeleteSession(mem, session), Sql!DeleteSession(sql, session))
    BY <1>5 DEF DeleteSession
  <2> QED
    BY <2>1, <2>2, BothKeep
<1>6. ASSUME NEW user,
             DeleteSessionsForUser(user)
      PROVE  Together'
  <2>1. LET a == Mem!DeleteSessionsForUser(mem, user)
            b == Sql!DeleteSessionsForUser(sql, user)
        IN  Kept(a, b, clock) /\ b.answer = a.answer /\ Answer(a.answer)
    BY <1>0, DeleteSessionsForUserAgrees, AnswerForms
  <2>2. Both(Mem!DeleteSessionsForUser(mem, user), Sql!DeleteSessionsForUser(sql, user))
    BY <1>6 DEF DeleteSessionsForUser
  <2> QED
    BY <2>1, <2>2, BothKeep
<1>7. ASSUME NEW user, CreateSession(user) PROVE Together'
  <2> DEFINE a == Mem!CreateSession(mem, user, clock)
             b == Sql!CreateSession(sql, user, clock)
  <2>1. /\ Kept(a, b, clock)
        /\ b.answer = IF IsErr(a.answer) \/ a.answer[2] = None THEN a.answer
                      ELSE Ok(<<a.answer[2][1], StoredSession(a.answer[2][2])>>)
    BY <1>0, CreateSessionAgrees
  <2>2. /\ mem' = a.to /\ sql' = b.to /\ clock' = clock
        /\ dispute' = IF b.answer = (IF IsErr(a.answer) \/ a.answer[2] = None THEN a.answer
                          ELSE Ok(<<a.answer[2][1], StoredSession(a.answer[2][2])>>))
                      THEN None ELSE <<a.answer, b.answer>>
    BY <1>7 DEF CreateSession, BothRounding, Compare
  <2> HIDE DEF a, b
  <2> QED
    BY <1>0, <2>1, <2>2 DEF Together, Kept
<1>8. ASSUME NEW session, TouchSession(session) PROVE Together'
  <2> DEFINE a == Mem!TouchSession(mem, session, clock)
             b == Sql!TouchSession(sql, session, clock)
  <2>1. /\ Kept(a, b, clock)
        /\ b.answer = IF IsErr(a.answer) \/ a.answer[2] = None THEN a.answer
                      ELSE Ok(StoredSession(a.answer[2]))
    BY <1>0, TouchSessionAgrees
  <2>2. /\ mem' = a.to /\ sql' = b.to /\ clock' = clock
        /\ dispute' = IF b.answer = (IF IsErr(a.answer) \/ a.answer[2] = None THEN a.answer
                                     ELSE Ok(StoredSession(a.answer[2])))
                      THEN None ELSE <<a.answer, b.answer>>
    BY <1>8 DEF TouchSession, BothRounding, Compare
  <2> HIDE DEF a, b
  <2> QED
    BY <1>0, <2>1, <2>2 DEF Together, Kept
<1> QED
  BY <1>1, <1>2, <1>3, <1>4, <1>5, <1>6, <1>7, <1>8 DEF UserCall

LEMMA DeckCallKeeps ==
    ASSUME Together, NEW user \in Callers, DeckCall(user)
    PROVE  Together'
<1>0. /\ MemOk(mem, clock) /\ Agree(mem, sql) /\ clock \in Times
      /\ user \in DOMAIN mem.users
  BY DEF Together, Callers
<1>1. ASSUME NEW typed \in DeckNames, CreateDeck(user, typed) PROVE Together'
  <2> DEFINE named == NormalizeDeckName(typed)
             name == named[2]
  <2>1. CASE IsErr(named)
    BY <1>1, <2>1, RefusedKeeps DEF CreateDeck
  <2>2. CASE ~IsErr(named)
    <3>1. name \in DeckName /\ Sql!NormalizeDeckName(name) = Ok(name)
      BY <2>2, NormalName
    <3>2. Both(Mem!CreateDeck(mem, user, name), Sql!CreateDeck(sql, user, name))
      BY <1>1, <2>2 DEF CreateDeck
    <3> HIDE DEF name
    <3>3. LET a == Mem!CreateDeck(mem, user, name)
              b == Sql!CreateDeck(sql, user, name)
          IN  Kept(a, b, clock) /\ b.answer = a.answer /\ Answer(a.answer)
      BY <1>0, <3>1, CreateDeckAgrees, AnswerForms
    <3> QED
      BY <3>2, <3>3, BothKeep
  <2> QED
    BY <2>1, <2>2
<1>2. ASSUME NEW deck, NEW typed \in DeckNames, RenameDeck(user, deck, typed) PROVE Together'
  <2> DEFINE named == NormalizeDeckName(typed)
             name == named[2]
  <2>1. CASE IsErr(named)
    BY <1>2, <2>1, RefusedKeeps DEF RenameDeck
  <2>2. CASE ~IsErr(named)
    <3>1. name \in DeckName /\ Sql!NormalizeDeckName(name) = Ok(name)
      BY <2>2, NormalName
    <3>2. Both(Mem!RenameDeck(mem, user, deck, name), Sql!RenameDeck(sql, user, deck, name))
      BY <1>2, <2>2 DEF RenameDeck
    <3> HIDE DEF name
    <3>3. LET a == Mem!RenameDeck(mem, user, deck, name)
              b == Sql!RenameDeck(sql, user, deck, name)
          IN  Kept(a, b, clock) /\ b.answer = a.answer /\ Answer(a.answer)
      BY <1>0, <3>1, RenameDeckAgrees, AnswerForms
    <3> QED
      BY <3>2, <3>3, BothKeep
  <2> QED
    BY <2>1, <2>2
<1>3. ASSUME NEW deck, DeleteDeck(user, deck) PROVE Together'
  <2>1. LET a == Mem!DeleteDeck(mem, user, deck)
            b == Sql!DeleteDeck(sql, user, deck)
        IN  Kept(a, b, clock) /\ b.answer = a.answer /\ Answer(a.answer)
    BY <1>0, DeleteDeckAgrees, AnswerForms
  <2>2. Both(Mem!DeleteDeck(mem, user, deck), Sql!DeleteDeck(sql, user, deck))
    BY <1>3 DEF DeleteDeck
  <2> QED
    BY <2>1, <2>2, BothKeep
<1> QED
  BY <1>1, <1>2, <1>3 DEF DeckCall

LEMMA CardCallKeeps ==
    ASSUME Together, NEW user \in Callers, CardCall(user), ~apart'
    PROVE  Together'
<1>0. /\ MemOk(mem, clock) /\ Agree(mem, sql) /\ clock \in Times /\ dispute = None
      /\ user \in DOMAIN mem.users
  BY DEF Together, Callers
<1>1. ASSUME NEW deck \in Decks, NEW typed \in TypedSides, CreateCard(user, deck, typed)
      PROVE  Together'
  <2> DEFINE sides == NormalizeCardSides(typed)
             text == sides[2]
  <2>1. CASE IsErr(sides)
    BY <1>1, <2>1, RefusedKeeps DEF CreateCard
  <2>2. CASE ~IsErr(sides)
    <3>1. text \in Texts /\ Sql!NormalizeCardSides(text) = Ok(text)
      BY <2>2, NormalSides
    <3>2. Both(Mem!CreateCard(mem, user, deck, text), Sql!CreateCard(sql, user, deck, text))
      BY <1>1, <2>2 DEF CreateCard
    <3> HIDE DEF text
    <3>3. deck \in Nat
      BY <1>0 DEF Decks, MemOk, Shape
    <3>4. LET a == Mem!CreateCard(mem, user, deck, text)
              b == Sql!CreateCard(sql, user, deck, text)
          IN  Kept(a, b, clock) /\ b.answer = a.answer /\ Answer(a.answer)
      BY <1>0, <3>1, <3>3, CreateCardAgrees, AnswerForms
    <3> QED
      BY <3>2, <3>4, BothKeep
  <2> QED
    BY <2>1, <2>2
<1>2. ASSUME NEW card, NEW typed \in TypedSides, UpdateCard(user, card, typed) PROVE Together'
  <2> DEFINE sides == NormalizeCardSides(typed)
             text == sides[2]
             a == Mem!UpdateCard(mem, user, card, text)
             b == Sql!UpdateCard(sql, user, card, text)
  <2>1. CASE IsErr(sides)
    BY <1>2, <2>1, RefusedKeeps DEF UpdateCard
  <2>2. CASE ~IsErr(sides)
    <3>1. text \in Texts /\ Sql!NormalizeCardSides(text) = Ok(text)
      BY <2>2, NormalSides
    <3>2. /\ mem' = a.to /\ sql' = b.to /\ clock' = clock
          /\ dispute' = IF b.answer = (IF IsErr(a.answer) \/ a.answer[2] = None THEN a.answer
                                       ELSE Ok(<<a.answer[2][1], Stored(a.answer[2][2])>>))
                        THEN None ELSE <<a.answer, b.answer>>
      BY <1>2, <2>2 DEF UpdateCard, BothRounding, Compare
    <3> HIDE DEF text
    <3>3. /\ Kept(a, b, clock)
          /\ b.answer = IF IsErr(a.answer) \/ a.answer[2] = None THEN a.answer
                        ELSE Ok(<<a.answer[2][1], Stored(a.answer[2][2])>>)
      BY <1>0, <3>1, UpdateCardAgrees
    <3> HIDE DEF a, b
    <3> QED
      BY <1>0, <3>2, <3>3 DEF Together, Kept
  <2> QED
    BY <2>1, <2>2
<1>3. ASSUME NEW card, DeleteCard(user, card) PROVE Together'
  <2>1. LET a == Mem!DeleteCard(mem, user, card)
            b == Sql!DeleteCard(sql, user, card)
        IN  Kept(a, b, clock) /\ b.answer = a.answer /\ Answer(a.answer)
    BY <1>0, DeleteCardAgrees, AnswerForms
  <2>2. Both(Mem!DeleteCard(mem, user, card), Sql!DeleteCard(sql, user, card))
    BY <1>3 DEF DeleteCard
  <2> QED
    BY <2>1, <2>2, BothKeep
<1>4. ASSUME NEW card, NEW rating \in Grades, Rate(user, card, rating) PROVE Together'
  <2> DEFINE entry == [card_id |-> card, rated_at |-> clock, rating |-> rating]
             inMem == Mem!GetCard(mem, user, card)
             inSql == Sql!GetCard(sql, user, card)
             a == Rated(mem, inMem, Mem!CommitReview(mem, user, card,
                                        ApplyRating(inMem, rating, clock), entry))
             b == Rated(sql, inSql, Sql!CommitReview(sql, user, card,
                                        ApplyRating(inSql, rating, clock), entry))
  <2>1. rating \in Ratings
    BY CallsAssumption
  <2>2. Compare(Same, a, b) /\ ~DaysDiffer(inMem)
    BY <1>4 DEF Rate
  <2>3. inMem # None => ElapsedDays(Rfc3339(inMem.last_review), clock)
                          = ElapsedDays(inMem.last_review, clock)
    BY <2>2 DEF DaysDiffer
  <2>4. /\ Kept(a, b, clock) /\ b.answer = a.answer
        /\ IsErr(a.answer) \/ a.answer = Ok(a.answer[2])
    BY <1>0, <2>1, <2>3, RateAgrees
  <2> HIDE DEF a, b
  <2>5. mem' = a.to /\ sql' = b.to /\ clock' = clock /\ dispute' = None
    BY <2>2, <2>4 DEF Compare, Same
  <2> QED
    BY <1>0, <2>4, <2>5 DEF Together, Kept
<1> QED
  BY <1>1, <1>2, <1>3, <1>4 DEF CardCall

(* The Stores that have come apart stay apart. *)
LEMMA StayApart == [Next]_vars /\ ~apart' => ~apart
<1>1. \A m, s : Both(m, s) => apart' = apart
  BY DEF Both, BothRounding
<1>2. \A error : Refused(error) => apart' = apart
  BY <1>1 DEF Refused
<1>3. UserCall => apart' = apart
  <2>1. \A user : CreateSession(user) => apart' = apart
    BY DEF CreateSession, BothRounding
  <2>2. \A session : TouchSession(session) => apart' = apart
    BY DEF TouchSession, BothRounding
  <2> QED
    BY <1>1, <2>1, <2>2 DEF UserCall, CreateUser, SetPasswordHash, SetDisabled,
       DeleteUser, DeleteSession, DeleteSessionsForUser
<1>4. \A user : DeckCall(user) => apart' = apart
  BY <1>1, <1>2 DEF DeckCall, CreateDeck, RenameDeck, DeleteDeck
<1>5. \A user, card, text : UpdateCard(user, card, text) => apart' = apart
  BY <1>2 DEF UpdateCard, BothRounding
<1>6. \A user, card, rating : Rate(user, card, rating) /\ ~apart' => ~apart
  BY DEF Rate
<1>7. \A user : CardCall(user) /\ ~apart' => ~apart
  BY <1>1, <1>2, <1>5, <1>6 DEF CardCall, CreateCard, DeleteCard
<1>8. Tick => apart' = apart
  BY DEF Tick
<1> QED
  BY <1>3, <1>4, <1>7, <1>8 DEF Next, vars

LEMMA NextKeeps == IInv /\ [Next]_vars => IInv'
<1> SUFFICES ASSUME Together, [Next]_vars, ~apart' PROVE Together'
  BY StayApart DEF IInv
<1>1. CASE UserCall
  BY <1>1, UserCallKeeps
<1>2. ASSUME NEW user \in Callers, DeckCall(user) PROVE Together'
  BY <1>2, DeckCallKeeps
<1>3. ASSUME NEW user \in Callers, CardCall(user) PROVE Together'
  BY <1>3, CardCallKeeps
<1>4. CASE Tick
  <2>1. /\ clock \in Times /\ clock' \in Times /\ clock < clock'
        /\ dispute' = None /\ mem' = mem /\ sql' = sql
    BY <1>4 DEF Tick, Together
  <2>2. clock <= clock'
    BY <2>1, TimesAreInt
  <2>3. MemOk(mem, clock) /\ Agree(mem, sql)
    BY DEF Together
  <2>4. MemOk(mem, clock')
    BY <2>1, <2>2, <2>3, LaterOk
  <2> QED
    BY <2>1, <2>3, <2>4 DEF Together
<1>5. CASE UNCHANGED vars
  BY <1>5 DEF vars, Together
<1> QED
  BY <1>1, <1>2, <1>3, <1>4, <1>5 DEF Next

LEMMA Invariant == Spec => []IInv
BY InitKeeps, NextKeeps, PTL DEF Spec

(* Until the Stores come apart, every call is answered alike: what a use   *)
(* case is told by the Store of the tests is what the program's Store      *)
(* tells it, rounded to milliseconds.                                      *)
THEOREM SameAnswers == Spec => []AnswersAgree
<1>1. IInv => AnswersAgree
  BY DEF IInv, Together, AnswersAgree
<1> QED
  BY <1>1, Invariant, PTL

(* Until then the cascades reach as far as the retains, the ids count      *)
(* alike and every row of `cards` can be read back as the Card that was    *)
(* stored.                                                                 *)
THEOREM SameTables == Spec => []TablesAgree
<1>1. ASSUME IInv PROVE TablesAgree
  <2> SUFFICES ASSUME ~apart PROVE TablesAgree
    BY DEF TablesAgree
  <2>1. MemOk(mem, clock) /\ Agree(mem, sql)
    BY <1>1 DEF IInv, Together
  <2>2. /\ sql.users = mem.users
        /\ sql.sessions = [i \in DOMAIN mem.sessions |-> StoredSession(mem.sessions[i])]
        /\ sql.decks = [d \in DOMAIN mem.decks |-> DeckRow(mem.decks[d], mem.deck_owners[d])]
        /\ sql.cards = [c \in DOMAIN mem.cards |-> RowOf(mem.cards[c])]
        /\ sql.review_logs = [i \in DOMAIN mem.reviews |-> StoredEntry(mem.reviews[i])]
        /\ sql.sqlite_sequence
             = [users |-> mem.next_user - 1, decks |-> mem.next_deck - 1,
                cards |-> mem.next_card - 1, sessions |-> mem.next_session - 1]
    BY <2>1 DEF Agree
  <2>3. DOMAIN mem.deck_owners = DOMAIN mem.decks
    BY <2>1 DEF MemOk, DecksOk
  <2>4. \A d \in DOMAIN sql.decks :
           sql.decks[d] = [name |-> mem.decks[d], user_id |-> mem.deck_owners[d]]
    BY <2>2 DEF DeckRow
  <2>5. ASSUME NEW c \in DOMAIN sql.cards
        PROVE  Readable(sql.cards[c]) /\ CardFromRow(sql.cards[c]) = Stored(mem.cards[c])
    <3>1. c \in DOMAIN mem.cards /\ sql.cards[c] = RowOf(mem.cards[c])
      BY <2>2
    <3>2. CardOk(mem.cards[c])
      BY <2>1, <3>1 DEF MemOk, CardsOk
    <3> QED
      BY <3>1, <3>2, RowReads
  <2>6. sql.review_logs = [i \in DOMAIN mem.reviews |->
                              [mem.reviews[i] EXCEPT !.rated_at = Rfc3339(@)]]
    BY <2>2 DEF StoredEntry
  <2>7. DOMAIN sql.decks = DOMAIN mem.decks /\ DOMAIN sql.cards = DOMAIN mem.cards
    BY <2>2
  <2> QED
    BY <2>2, <2>3, <2>4, <2>5, <2>6, <2>7 DEF TablesAgree
<1> QED
  BY <1>1, Invariant, PTL
-----------------------------------------------------------------------------
(* What is read. *)
DeckRows(s, deck) == Sql!Keep(s.cards, LAMBDA row : row.deck_id = deck)

RowsOf(cards) == [c \in DOMAIN cards |-> RowOf(cards[c])]

StoredCards(cards) == [c \in DOMAIN cards |-> Stored(cards[c])]

RoundedHome(home) == [d \in DOMAIN home |-> RoundedInputs(home[d])]

LogOf(m, card) == {i \in DOMAIN m.reviews : m.reviews[i].card_id = card}

InstantsOf(s, card) ==
    {log.rated_at : log \in {l \in Sql!ToSet(s.review_logs) : l.card_id = card}}

LEMMA DeckCardsAgree ==
    ASSUME NEW m, NEW s, NEW now, MemOk(m, now), Agree(m, s), NEW deck
    PROVE  LET cards == Mem!CardsIn(m, deck)
           IN  /\ DOMAIN cards = {c \in DOMAIN m.cards : m.cards[c].deck_id = deck}
               /\ \A c \in DOMAIN cards : cards[c] = m.cards[c] /\ CardOk(cards[c])
               /\ DeckRows(s, deck) = RowsOf(cards)
               /\ Sql!ListCardsInDeck(s, deck) = Ok(StoredCards(cards))
<1> DEFINE ids == {c \in DOMAIN m.cards : m.cards[c].deck_id = deck}
           cards == Mem!CardsIn(m, deck)
           rows == DeckRows(s, deck)
<1>1. cards = [c \in ids |-> m.cards[c]]
  BY DEF Mem!CardsIn, Mem!Keep, Mem!Restrict
<1>2. \A c \in DOMAIN m.cards :
         CardOk(m.cards[c]) /\ s.cards[c] = RowOf(m.cards[c])
         /\ s.cards[c].deck_id = m.cards[c].deck_id
  <2>1. ASSUME NEW c \in DOMAIN m.cards
        PROVE  CardOk(m.cards[c]) /\ s.cards[c] = RowOf(m.cards[c])
    BY DEF MemOk, CardsOk, Agree
  <2> QED
    BY <2>1, RowReads
<1>3. DOMAIN s.cards = DOMAIN m.cards
  BY DEF Agree
<1>4. rows = [c \in ids |-> RowOf(m.cards[c])]
  <2>1. {c \in DOMAIN s.cards : s.cards[c].deck_id = deck} = ids
    BY <1>2, <1>3
  <2>2. rows = [c \in ids |-> s.cards[c]]
    BY <2>1 DEF DeckRows, Sql!Keep, Sql!Restrict
  <2>3. \A c \in ids : s.cards[c] = RowOf(m.cards[c])
    BY <1>2
  <2> HIDE DEF ids, rows
  <2> QED
    BY <2>2, <2>3
<1>5. \A c \in ids : Sql!Readable(rows[c]) /\ Sql!CardFromRow(rows[c]) = Stored(m.cards[c])
  <2>1. ASSUME NEW c \in ids
        PROVE  Sql!Readable(rows[c]) /\ Sql!CardFromRow(rows[c]) = Stored(m.cards[c])
    <3>1. rows[c] = RowOf(m.cards[c]) /\ CardOk(m.cards[c])
      BY <1>2, <1>4
    <3>2. Readable(RowOf(m.cards[c])) /\ CardFromRow(RowOf(m.cards[c])) = Stored(m.cards[c])
      BY <3>1, RowReads
    <3> HIDE DEF rows, ids
    <3> QED
      BY <3>1, <3>2, SameRows
  <2> QED
    BY <2>1
<1>6. DOMAIN rows = ids
  BY <1>4
<1>7. Sql!ListCardsInDeck(s, deck) = Ok([c \in ids |-> Stored(m.cards[c])])
  <2>1. Sql!ListCardsInDeck(s, deck) = Ok([c \in DOMAIN rows |-> Sql!CardFromRow(rows[c])])
    <3>1. ~\E c \in DOMAIN rows : ~Sql!Readable(rows[c])
      BY <1>5, <1>6
    <3> QED
      BY <3>1 DEF Sql!ListCardsInDeck, DeckRows, Sql!Ok, Ok
  <2> HIDE DEF rows, ids
  <2>2. [c \in DOMAIN rows |-> Sql!CardFromRow(rows[c])] = [c \in ids |-> Stored(m.cards[c])]
    BY <1>5, <1>6
  <2> QED
    BY <2>1, <2>2
<1>8. \A c \in ids : cards[c] = m.cards[c] /\ CardOk(cards[c])
  BY <1>1, <1>2
<1>9. DOMAIN cards = ids
  BY <1>1
<1> HIDE DEF cards, rows, ids
<1>10. /\ [c \in ids |-> RowOf(m.cards[c])] = RowsOf(cards)
       /\ [c \in ids |-> Stored(m.cards[c])] = StoredCards(cards)
  BY <1>8, <1>9 DEF RowsOf, StoredCards
<1> QED
  BY <1>4, <1>7, <1>8, <1>9, <1>10 DEF cards, rows, ids

(* The first entry of a Card in the log has the least of its instants. *)
LEMMA FirstIsLeast ==
    ASSUME NEW m, NEW s, NEW now, MemOk(m, now), Agree(m, s), NEW c
    PROVE  LET of == LogOf(m, c)
               instants == InstantsOf(s, c)
           IN  /\ instants # {} <=> of # {}
               /\ of # {} =>
                    /\ m.reviews[Mem!Min(of)].rated_at \in Times
                    /\ Sql!Min(instants) = Rfc3339(m.reviews[Mem!Min(of)].rated_at)
<1> DEFINE of == LogOf(m, c)
           instants == InstantsOf(s, c)
<1>1. /\ m.reviews \in Seq(Entry)
      /\ \A i, j \in DOMAIN m.reviews :
            i < j => m.reviews[i].rated_at <= m.reviews[j].rated_at
  BY DEF MemOk, LogOk
<1>2. DOMAIN m.reviews \subseteq Nat /\ \A i \in DOMAIN m.reviews : m.reviews[i] \in Entry
  BY <1>1
<1>3. \A entry \in Entry :
         /\ StoredEntry(entry).card_id = entry.card_id
         /\ StoredEntry(entry).rated_at = Rfc3339(entry.rated_at)
         /\ entry.rated_at \in Times
  BY DEF Entry, StoredEntry
<1>4. /\ DOMAIN s.review_logs = DOMAIN m.reviews
      /\ \A i \in DOMAIN m.reviews : s.review_logs[i] = StoredEntry(m.reviews[i])
  BY DEF Agree
<1>5. instants = {Rfc3339(m.reviews[i].rated_at) : i \in of}
  <2>1. Sql!ToSet(s.review_logs) = {s.review_logs[i] : i \in DOMAIN m.reviews}
    BY <1>4 DEF Sql!ToSet
  <2>2. \A i \in DOMAIN m.reviews :
           /\ s.review_logs[i].card_id = m.reviews[i].card_id
           /\ s.review_logs[i].rated_at = Rfc3339(m.reviews[i].rated_at)
    BY <1>2, <1>3, <1>4
  <2>3. \A x : x \in instants <=> \E i \in DOMAIN m.reviews :
           s.review_logs[i].card_id = c /\ x = s.review_logs[i].rated_at
    BY <2>1 DEF InstantsOf
  <2>4. \A x : x \in instants <=> \E i \in of : x = Rfc3339(m.reviews[i].rated_at)
    BY <2>2, <2>3 DEF LogOf
  <2> HIDE DEF instants, of
  <2> QED
    BY <2>4
<1>6. /\ of \subseteq DOMAIN m.reviews /\ of \subseteq Nat
      /\ \A i \in of : m.reviews[i].rated_at \in Times
  BY <1>2, <1>3 DEF LogOf
<1> HIDE DEF instants, of
<1>7. ASSUME of # {}
      PROVE  /\ m.reviews[Mem!Min(of)].rated_at \in Times
             /\ Sql!Min(instants) = Rfc3339(m.reviews[Mem!Min(of)].rated_at)
  <2> DEFINE x == Mem!Min(of)
             v == Rfc3339(m.reviews[x].rated_at)
             w == Sql!Min(instants)
  <2>1. x \in of /\ \A j \in of : x <= j
    <3>1. \E i \in of : \A j \in of : i <= j
      BY <1>6, <1>7, LeastNat
    <3> QED
      BY <3>1 DEF Mem!Min
  <2> HIDE DEF x
  <2>2. \A i \in of : m.reviews[i].rated_at \in Times
    BY <1>6
  <2>3. \A i \in of : m.reviews[x].rated_at <= m.reviews[i].rated_at
    <3>1. ASSUME NEW i \in of PROVE m.reviews[x].rated_at <= m.reviews[i].rated_at
      <4>1. CASE i = x
        BY <2>1, <2>2, <4>1, TimesAreInt
      <4>2. CASE i # x
        BY <1>1, <1>6, <2>1, <4>2
      <4> QED
        BY <4>1, <4>2
    <3> QED
      BY <3>1
  <2>4. \A i \in of : Rfc3339(m.reviews[i].rated_at) \in Int
                      /\ v <= Rfc3339(m.reviews[i].rated_at)
    <3>1. ASSUME NEW i \in of
          PROVE  /\ Rfc3339(m.reviews[i].rated_at) \in Int
                 /\ v <= Rfc3339(m.reviews[i].rated_at)
      <4>1. PICK t \in Times : t = m.reviews[x].rated_at
        BY <2>1, <2>2
      <4>2. PICK u \in Times : u = m.reviews[i].rated_at
        BY <2>2
      <4>3. t <= u
        BY <2>3, <4>1, <4>2
      <4>4. t \in Int /\ u \in Int
        BY TimesAreInt
      <4>5. Rfc3339(t) <= Rfc3339(u) /\ Rfc3339(u) \in Int
        BY <4>3, <4>4, RoundingKeepsOrder
      <4> QED
        BY <4>1, <4>2, <4>5
    <3> QED
      BY <3>1
  <2>5. v \in instants
    BY <1>5, <2>1
  <2>6. instants \subseteq Int /\ \A y \in instants : v <= y
    BY <1>5, <2>4
  <2> HIDE DEF v
  <2>7. w \in instants /\ \A y \in instants : w <= y
    <3>1. \E y \in instants : \A z \in instants : y <= z
      BY <2>5, <2>6
    <3> QED
      BY <3>1 DEF Sql!Min
  <2> HIDE DEF w
  <2>8. v = w
    BY <2>5, <2>6, <2>7
  <2> QED
    BY <2>1, <2>2, <2>8 DEF v, w, x
<1>8. instants # {} <=> of # {}
  BY <1>5
<1> QED
  BY <1>7, <1>8 DEF instants, of

LEMMA FirstsAgree ==
    ASSUME NEW m, NEW s, NEW now, MemOk(m, now), Agree(m, s), NEW deck
    PROVE  LET firsts == Mem!FirstReviewsForDeck(m, deck)
           IN  /\ Sql!FirstReviewTimes(s, deck)
                    = [c \in DOMAIN firsts |-> Rfc3339(firsts[c])]
               /\ \A c \in DOMAIN firsts : firsts[c] \in Times
<1> DEFINE Of(c) == LogOf(m, c)
           Instants(c) == InstantsOf(s, c)
           reviewed == {c \in DOMAIN m.cards : m.cards[c].deck_id = deck /\ Of(c) # {}}
           firsts == Mem!FirstReviewsForDeck(m, deck)
<1>1. firsts = [c \in reviewed |-> m.reviews[Mem!Min(Of(c))].rated_at]
  BY DEF Mem!FirstReviewsForDeck, LogOf
<1>2. Sql!FirstReviewTimes(s, deck)
        = [c \in {c \in DOMAIN s.cards : s.cards[c].deck_id = deck /\ Instants(c) # {}}
             |-> Sql!Min(Instants(c))]
  BY DEF Sql!FirstReviewTimes, InstantsOf
<1>3. ASSUME NEW c
      PROVE  /\ Instants(c) # {} <=> Of(c) # {}
             /\ Of(c) # {} =>
                  /\ m.reviews[Mem!Min(Of(c))].rated_at \in Times
                  /\ Sql!Min(Instants(c)) = Rfc3339(m.reviews[Mem!Min(Of(c))].rated_at)
  BY FirstIsLeast
<1>4. /\ DOMAIN s.cards = DOMAIN m.cards
      /\ \A c \in DOMAIN m.cards : s.cards[c].deck_id = m.cards[c].deck_id
  <2>1. \A c \in DOMAIN m.cards :
           CardOk(m.cards[c]) /\ s.cards[c] = RowOf(m.cards[c])
    BY DEF MemOk, CardsOk, Agree
  <2>2. DOMAIN s.cards = DOMAIN m.cards
    BY DEF Agree
  <2> QED
    BY <2>1, <2>2, RowReads
<1> HIDE DEF Of, Instants
<1>5. {c \in DOMAIN s.cards : s.cards[c].deck_id = deck /\ Instants(c) # {}} = reviewed
  BY <1>3, <1>4
<1>6. \A c \in reviewed :
         /\ m.reviews[Mem!Min(Of(c))].rated_at \in Times
         /\ Sql!Min(Instants(c)) = Rfc3339(m.reviews[Mem!Min(Of(c))].rated_at)
  BY <1>3
<1> HIDE DEF reviewed
<1>7. Sql!FirstReviewTimes(s, deck) = [c \in reviewed |-> Sql!Min(Instants(c))]
  BY <1>2, <1>5
<1>8. DOMAIN firsts = reviewed
      /\ \A c \in reviewed : firsts[c] = m.reviews[Mem!Min(Of(c))].rated_at
  BY <1>1
<1> HIDE DEF firsts
<1>9. \A c \in reviewed : Sql!Min(Instants(c)) = Rfc3339(firsts[c]) /\ firsts[c] \in Times
  BY <1>6, <1>8
<1>10. Sql!FirstReviewTimes(s, deck) = [c \in DOMAIN firsts |-> Rfc3339(firsts[c])]
  BY <1>7, <1>8, <1>9
<1> QED
  BY <1>8, <1>9, <1>10 DEF firsts

LEMMA RoundedInputsAre ==
    ASSUME NEW name, NEW cards, NEW firsts
    PROVE  RoundedInputs([deck |-> name, cards |-> cards, first_reviewed_at |-> firsts])
             = [deck |-> name, cards |-> [c \in DOMAIN cards |-> Stored(cards[c])],
                first_reviewed_at |-> [c \in DOMAIN firsts |-> Rfc3339(firsts[c])]]
<1> DEFINE inputs == [deck |-> name, cards |-> cards, first_reviewed_at |-> firsts]
           stored == [c \in DOMAIN cards |-> Stored(cards[c])]
           times == [c \in DOMAIN firsts |-> Rfc3339(firsts[c])]
           rounded == [inputs EXCEPT !.cards = stored, !.first_reviewed_at = times]
<1>1. RoundedInputs(inputs) = rounded
  BY DEF RoundedInputs
<1> HIDE DEF stored, times
<1>2. /\ rounded.deck = name /\ rounded.cards = stored
      /\ rounded.first_reviewed_at = times
      /\ DOMAIN rounded = {"deck", "cards", "first_reviewed_at"}
  OBVIOUS
<1>3. rounded = [x \in DOMAIN rounded |-> rounded[x]]
  OBVIOUS
<1> HIDE DEF rounded
<1>4. rounded = [deck |-> name, cards |-> stored, first_reviewed_at |-> times]
  BY <1>2, <1>3
<1> QED
  BY <1>1, <1>4 DEF stored, times

LEMMA DeckInputsAgree ==
    ASSUME NEW m, NEW s, NEW now, MemOk(m, now), Agree(m, s), NEW deck \in DOMAIN m.decks
    PROVE  Sql!DeckInputs(s, deck) = RoundedInputs(Mem!DeckInputs(m, deck))
<1> DEFINE cards == Mem!CardsIn(m, deck)
           firsts == Mem!FirstReviewsForDeck(m, deck)
<1>1. Mem!DeckInputs(m, deck)
        = [deck |-> m.decks[deck], cards |-> cards, first_reviewed_at |-> firsts]
  BY DEF Mem!DeckInputs
<1>2. Sql!DeckInputs(s, deck)
        = [deck |-> s.decks[deck].name, cards |-> Sql!ListCardsInDeck(s, deck)[2],
           first_reviewed_at |-> Sql!FirstReviewTimes(s, deck)]
  BY DEF Sql!DeckInputs
<1>3. Sql!ListCardsInDeck(s, deck) = Ok(StoredCards(cards))
  BY DeckCardsAgree
<1>4. Sql!FirstReviewTimes(s, deck) = [c \in DOMAIN firsts |-> Rfc3339(firsts[c])]
  BY FirstsAgree
<1>5. s.decks[deck].name = m.decks[deck]
  <2>1. \A n, u : DeckRow(n, u).name = n
    BY DEF DeckRow
  <2> QED
    BY <2>1 DEF Agree
<1> HIDE DEF cards, firsts
<1>6. Sql!ListCardsInDeck(s, deck)[2] = [c \in DOMAIN cards |-> Stored(cards[c])]
  BY <1>3 DEF Ok, StoredCards
<1> QED
  BY <1>1, <1>2, <1>4, <1>5, <1>6, RoundedInputsAre

LEMMA HomeInputsAgree ==
    ASSUME NEW m, NEW s, NEW now, MemOk(m, now), Agree(m, s), NEW user
    PROVE  LET home == Mem!LoadHomeInputs(m, user)
           IN  /\ Sql!LoadHomeInputs(s, user) = RoundedHome(home)
               /\ DOMAIN home = {d \in DOMAIN m.decks : m.deck_owners[d] = user}
               /\ \A d \in DOMAIN home : home[d] = Mem!DeckInputs(m, d)
<1> DEFINE owned == {d \in DOMAIN m.decks : m.deck_owners[d] = user}
           home == Mem!LoadHomeInputs(m, user)
<1>1. Sql!OwnedDecks(s, user) = owned /\ \A d : Mem!OwnsDeck(m, user, d) <=> d \in owned
  BY Ownership
<1>2. {d \in DOMAIN m.decks : Mem!OwnsDeck(m, user, d)} = owned
  BY <1>1
<1>3. Sql!LoadHomeInputs(s, user) = [d \in owned |-> Sql!DeckInputs(s, d)]
  BY <1>1 DEF Sql!LoadHomeInputs
<1>4. home = [d \in owned |-> Mem!DeckInputs(m, d)]
  BY <1>2 DEF Mem!LoadHomeInputs
<1>5. \A d \in owned : Sql!DeckInputs(s, d) = RoundedInputs(Mem!DeckInputs(m, d))
  BY DeckInputsAgree
<1> HIDE DEF home
<1>6. DOMAIN home = owned /\ \A d \in owned : home[d] = Mem!DeckInputs(m, d)
  BY <1>4
<1> HIDE DEF owned
<1>7. \A d \in owned : Sql!DeckInputs(s, d) = RoundedInputs(home[d])
  BY <1>5, <1>6
<1>8. Sql!LoadHomeInputs(s, user) = RoundedHome(home)
  BY <1>3, <1>6, <1>7 DEF RoundedHome
<1> QED
  BY <1>6, <1>8 DEF home, owned

LEMMA CardTextsAgree ==
    ASSUME NEW m, NEW s, NEW now, MemOk(m, now), Agree(m, s), NEW user, NEW deck
    PROVE  Sql!ListCardTextInDeck(s, user, deck)
             = RoundedTexts(Mem!ListCardTextInDeck(m, user, deck))
<1> DEFINE cards == Mem!CardsIn(m, deck)
           rows == DeckRows(s, deck)
           Text(text, phase, due) == [text |-> text, phase |-> phase, due |-> due]
<1>1. /\ Sql!GetDeck(s, user, deck) = Mem!GetDeck(m, user, deck)
      /\ Mem!GetDeck(m, user, deck) # None <=> Mem!OwnsDeck(m, user, deck)
  BY Ownership
<1>2. CASE ~Mem!OwnsDeck(m, user, deck)
  <2>1. Sql!ListCardTextInDeck(s, user, deck) = <<>>
    BY <1>1, <1>2 DEF Sql!ListCardTextInDeck
  <2>2. Mem!ListCardTextInDeck(m, user, deck) = <<>>
    BY <1>2 DEF Mem!ListCardTextInDeck
  <2>3. RoundedTexts(<<>>) = <<>>
    BY DEF RoundedTexts
  <2> QED
    BY <2>1, <2>2, <2>3
<1>3. CASE Mem!OwnsDeck(m, user, deck)
  <2>1. (\A c \in DOMAIN cards : CardOk(cards[c])) /\ rows = RowsOf(cards)
    BY DeckCardsAgree
  <2>2. Mem!ListCardTextInDeck(m, user, deck)
          = [c \in DOMAIN cards |-> Text(cards[c].text, cards[c].phase, cards[c].due)]
    BY <1>3 DEF Mem!ListCardTextInDeck, Mem!CardTexts
  <2>3. Sql!ListCardTextInDeck(s, user, deck)
          = [c \in DOMAIN rows |-> Text(rows[c].text, Sql!PhaseFromDb(rows[c].phase),
                                        rows[c].due)]
    BY <1>1, <1>3 DEF Sql!ListCardTextInDeck, DeckRows
  <2> HIDE DEF cards, rows
  <2>4. ASSUME NEW c \in DOMAIN cards
        PROVE  /\ rows[c].text = cards[c].text
               /\ Sql!PhaseFromDb(rows[c].phase) = cards[c].phase
               /\ rows[c].due = Rfc3339(cards[c].due)
    <3>1. rows[c] = RowOf(cards[c]) /\ cards[c].phase \in Phases
      BY <2>1 DEF RowsOf, CardOk, CardRow
    <3>2. /\ RowOf(cards[c]).text = cards[c].text
          /\ RowOf(cards[c]).phase = PhaseToDb[cards[c].phase]
          /\ RowOf(cards[c]).due = Rfc3339(cards[c].due)
      BY DEF RowOf
    <3> QED
      BY <3>1, <3>2, SpellingIsInjective, SameRows
  <2>5. \A text, phase, due :
           [Text(text, phase, due) EXCEPT !.due = Rfc3339(due)] = Text(text, phase, Rfc3339(due))
    OBVIOUS
  <2>6. \A text, phase, due :
           [Text(text, phase, due) EXCEPT !.due = Rfc3339(@)] = Text(text, phase, Rfc3339(due))
    OBVIOUS
  <2> HIDE DEF Text
  <2>7. RoundedTexts([c \in DOMAIN cards |-> Text(cards[c].text, cards[c].phase, cards[c].due)])
          = [c \in DOMAIN cards |-> Text(cards[c].text, cards[c].phase, Rfc3339(cards[c].due))]
    BY <2>6 DEF RoundedTexts
  <2>8. DOMAIN rows = DOMAIN cards
    BY <2>1 DEF RowsOf
  <2>9. [c \in DOMAIN rows |-> Text(rows[c].text, Sql!PhaseFromDb(rows[c].phase), rows[c].due)]
          = [c \in DOMAIN cards |-> Text(cards[c].text, cards[c].phase, Rfc3339(cards[c].due))]
    BY <2>4, <2>8
  <2> QED
    BY <2>2, <2>3, <2>7, <2>9
<1> QED
  BY <1>2, <1>3

LEMMA StudyInputsAgree ==
    ASSUME NEW m, NEW s, NEW now, MemOk(m, now), Agree(m, s), NEW user, NEW deck
    PROVE  LET inputs == Mem!LoadStudyInputs(m, user, deck)
           IN  Sql!LoadStudyInputs(s, user, deck)
                 = IF Mem!OwnsDeck(m, user, deck) THEN RoundedInputs(inputs) ELSE inputs
<1>1. /\ Sql!GetDeck(s, user, deck) = Mem!GetDeck(m, user, deck)
      /\ Mem!GetDeck(m, user, deck) # None <=> Mem!OwnsDeck(m, user, deck)
  BY Ownership
<1>2. CASE ~Mem!OwnsDeck(m, user, deck)
  BY <1>1, <1>2 DEF Sql!LoadStudyInputs, Mem!LoadStudyInputs
<1>3. CASE Mem!OwnsDeck(m, user, deck)
  <2>1. deck \in DOMAIN m.decks
    BY <1>3 DEF Mem!OwnsDeck, MemOk, DecksOk
  <2>2. Sql!DeckInputs(s, deck) = RoundedInputs(Mem!DeckInputs(m, deck))
    BY <2>1, DeckInputsAgree
  <2> QED
    BY <1>1, <1>3, <2>2 DEF Sql!LoadStudyInputs, Mem!LoadStudyInputs
<1> QED
  BY <1>2, <1>3

(* One name belongs to at most one User, so that it does not matter which  *)
(* row a SELECT without an ORDER BY finds.                                 *)
LEMMA ByUsernameAgrees ==
    ASSUME NEW m, NEW s, NEW now, MemOk(m, now), Agree(m, s), NEW name
    PROVE  Sql!GetUserByUsername(s, name) = Mem!GetUserByUsername(m, name)
<1> DEFINE named == {u \in DOMAIN m.users : UsernamesEqual(m.users[u].username, name)}
           least == CHOOSE u \in named : \A v \in named : u <= v
           any == CHOOSE u \in named : TRUE
<1>1. Mem!GetUserByUsername(m, name)
        = IF named = {} THEN None ELSE <<least, m.users[least]>>
  BY DEF Mem!GetUserByUsername, Mem!UsernamesEqual, UsernamesEqual
<1>2. Sql!GetUserByUsername(s, name)
        = IF named = {} THEN None ELSE <<any, m.users[any]>>
  <2>1. s.users = m.users
    BY DEF Agree
  <2> QED
    BY <2>1 DEF Sql!GetUserByUsername, Sql!UsernamesEqual, UsernamesEqual
<1>3. /\ named \subseteq Nat
      /\ \A u, v \in named : u = v
  BY DEF MemOk, UsersOk, UsernamesEqual
<1> HIDE DEF named
<1>4. ASSUME named # {} PROVE least = any
  <2>1. \E u \in named : \A v \in named : u <= v
    BY <1>3, <1>4, LeastNat
  <2>2. least \in named /\ any \in named
    BY <1>4, <2>1
  <2> QED
    BY <1>3, <2>2
<1> HIDE DEF least, any
<1> QED
  BY <1>1, <1>2, <1>4

(* Until then, whoever asks for whatever id, of a row that is there, is    *)
(* gone or never was, reads the same from both Stores.                     *)
THEOREM SameReads == Spec => []ReadsAgree
<1>1. ASSUME IInv PROVE ReadsAgree
  <2> SUFFICES ASSUME ~apart PROVE ReadsAgree
    BY DEF ReadsAgree
  <2>1. MemOk(mem, clock) /\ Agree(mem, sql)
    BY <1>1 DEF IInv, Together
  <2>2. ASSUME NEW u
        PROVE  /\ Sql!GetUser(sql, u) = Mem!GetUser(mem, u)
               /\ LET home == Mem!LoadHomeInputs(mem, u)
                  IN  Sql!LoadHomeInputs(sql, u) = [d \in DOMAIN home |-> RoundedInputs(home[d])]
    <3>1. Sql!LoadHomeInputs(sql, u) = RoundedHome(Mem!LoadHomeInputs(mem, u))
      BY <2>1, HomeInputsAgree
    <3> QED
      BY <2>1, <3>1, Ownership DEF RoundedHome
  <2>3. ASSUME NEW u, NEW c
        PROVE  LET card == Mem!GetCard(mem, u, c)
               IN  Sql!GetCard(sql, u, c) = IF card = None THEN None ELSE Stored(card)
    BY <2>1, OwnCards
  <2>4. ASSUME NEW u, NEW d
        PROVE  LET inputs == Mem!LoadStudyInputs(mem, u, d) IN
               /\ Sql!GetDeck(sql, u, d) = Mem!GetDeck(mem, u, d)
               /\ Sql!ListCardTextInDeck(sql, u, d)
                     = RoundedTexts(Mem!ListCardTextInDeck(mem, u, d))
               /\ Sql!LoadStudyInputs(sql, u, d)
                     = IF Mem!OwnsDeck(mem, u, d) THEN RoundedInputs(inputs) ELSE inputs
    <3>1. Sql!GetDeck(sql, u, d) = Mem!GetDeck(mem, u, d)
      BY <2>1, Ownership
    <3> QED
      BY <2>1, <3>1, CardTextsAgree, StudyInputsAgree
  <2>5. ASSUME NEW name
        PROVE  Sql!GetUserByUsername(sql, name) = Mem!GetUserByUsername(mem, name)
    BY <2>1, ByUsernameAgrees
  <2>6. Sql!ListUsers(sql) = Mem!ListUsers(mem)
    BY <2>1 DEF Agree, Sql!ListUsers, Mem!ListUsers
  <2>7. ASSUME NEW i
        PROVE  LET session == Mem!GetSession(mem, i)
               IN  Sql!GetSession(sql, i)
                     = IF session = None THEN None ELSE StoredSession(session)
    <3>1. sql.sessions = [j \in DOMAIN mem.sessions |-> StoredSession(mem.sessions[j])]
      BY <2>1 DEF Agree
    <3>2. \A j \in DOMAIN mem.sessions : mem.sessions[j] # None
      BY <2>1, NoneIsNoRow DEF MemOk, SessionsOk
    <3> QED
      BY <3>1, <3>2 DEF Mem!GetSession, Sql!GetSession, Mem!Find, Sql!Find
  <2> QED
    BY <2>2, <2>3, <2>4, <2>5, <2>6, <2>7 DEF ReadsAgree
<1> QED
  BY <1>1, Invariant, PTL
=============================================================================
