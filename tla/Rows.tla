-------------------------------- MODULE Rows ---------------------------------
(***************************************************************************)
(* How a Card becomes a row of the table `cards` and is read back (db,     *)
(* lib.rs): phases are spelled in lower case, FSRS memory is two columns,  *)
(* and instants are text with whole milliseconds.                          *)
(***************************************************************************)
EXTENDS Scheduler

CONSTANTS
    Grain,      \* one millisecond in the unit of Times
    Illegible   \* TEXT in the column of an instant that is no RFC 3339 instant

ASSUME RowsAssumption ==
    /\ Grain \in Nat \ {0}
    /\ Memory \subseteq [stability : Int, difficulty : Int]
    /\ None \notin Int
    /\ Illegible \notin Int \cup {None}

(* rfc3339, and parse_utc of what it wrote. *)
Rfc3339(instant) == IF instant = None THEN None ELSE instant - (instant % Grain)

PhaseToDb ==
    [New |-> "new", Learning |-> "learning",
     Review |-> "review", Relearning |-> "relearning"]

(* INSERT INTO cards (deck_id, front, back): the other columns by default. *)
NewRow(deck_id, text) ==
    [deck_id |-> deck_id, text |-> text, phase |-> "new", learning_step |-> None,
     stability |-> None, difficulty |-> None, due |-> None, last_review |-> None]

(* Mutant: the step is left out of the UPDATE. *)
WriteReview_KeepsStep(row, card) ==
    [row EXCEPT
        !.phase = PhaseToDb[card.phase],
        !.stability = IF card.memory = None THEN None ELSE card.memory.stability,
        !.difficulty = IF card.memory = None THEN None ELSE card.memory.difficulty,
        !.due = Rfc3339(card.due), !.last_review = Rfc3339(card.last_review)]

(* The UPDATE of write_review_on. *)
WriteReview(row, card) ==
    [row EXCEPT
        !.phase = PhaseToDb[card.phase],
        !.learning_step = card.learning_step,
        !.stability = IF card.memory = None THEN None ELSE card.memory.stability,
        !.difficulty = IF card.memory = None THEN None ELSE card.memory.difficulty,
        !.due = Rfc3339(card.due),
        !.last_review = Rfc3339(card.last_review)]

(* The CHECK constraints of migration 0003. *)
RowChecks(row) ==
    /\ row.learning_step = None \/ row.learning_step >= 0
    /\ (row.stability = None) = (row.difficulty = None)
    /\ (row.due = None) = (row.last_review = None)
    /\ \/ /\ row.phase = "new"
          /\ row.stability = None /\ row.due = None /\ row.learning_step = None
       \/ /\ row.phase = "learning"
          /\ row.stability = None /\ row.due # None /\ row.learning_step # None
       \/ /\ row.phase = "review"
          /\ row.stability # None /\ row.due # None /\ row.learning_step = None
       \/ /\ row.phase = "relearning"
          /\ row.stability # None /\ row.due # None /\ row.learning_step # None

(* The rows card_from_row turns away, each with its error. *)
InvalidPhase(row) == \A phase \in Phases : PhaseToDb[phase] # row.phase
InvalidLearningStep(row) == row.learning_step # None /\ row.learning_step < 0
IncompleteFsrs(row) == (row.stability = None) # (row.difficulty = None)

InvalidTimestamp(row) == Illegible \in {row.due, row.last_review}

Readable(row) ==
    /\ ~InvalidPhase(row) /\ ~InvalidLearningStep(row)
    /\ ~IncompleteFsrs(row) /\ ~InvalidTimestamp(row)

(* The first of them is the one that is reported. *)
RowError(row) ==
    IF InvalidPhase(row) THEN "InvalidPhase"
    ELSE IF InvalidLearningStep(row) THEN "InvalidLearningStep"
    ELSE IF IncompleteFsrs(row) THEN "IncompleteFsrs" ELSE "InvalidTimestamp"

PhaseFromDb(value) == CHOOSE phase \in Phases : PhaseToDb[phase] = value

CardFromRow(row) ==
    [deck_id |-> row.deck_id,
     text |-> row.text,
     phase |-> PhaseFromDb(row.phase),
     learning_step |-> row.learning_step,
     memory |-> IF row.stability = None THEN None
                ELSE [stability |-> row.stability, difficulty |-> row.difficulty],
     due |-> row.due,
     last_review |-> row.last_review]

(* What is left of a Card that was stored and read back. *)
Stored(card) ==
    [card EXCEPT !.due = Rfc3339(card.due), !.last_review = Rfc3339(card.last_review)]
=============================================================================
