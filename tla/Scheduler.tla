------------------------------ MODULE Scheduler ------------------------------
(***************************************************************************)
(* How one Rating moves one Card: the pure policy of crates/domain         *)
(* (lib.rs, phase.rs, rating.rs, schedule.rs).  A Card is the row of the   *)
(* table `cards`; its texts are one opaque value.  Instants and durations  *)
(* are naturals in one unit (the model-checking modules use minutes).      *)
(***************************************************************************)
EXTENDS Integers, Sequences

CONSTANTS
    None,             \* Rust's None, SQL's NULL
    Texts,            \* the contents a Card's two sides can have
    Times,            \* the instants the wall clock can show
    MinutesPerDay,    \* length of a day in the unit of Times
    LearningSteps,    \* LEARNING_STEPS, 1 minute and 10 minutes in the code
    RelearningSteps,  \* RELEARNING_STEPS, 10 minutes in the code
    Memory,           \* FSRS memory states (stability and difficulty)
    Fsrs              \* FSRS::next_states, from the fsrs crate

Ratings == {"Again", "Hard", "Good", "Easy"}
Phases  == {"New", "Learning", "Review", "Relearning"}

(* Whole days since the last Review, truncated and never negative. *)
ElapsedDays(last, now) ==
    IF last = None \/ last > now THEN 0 ELSE (now - last) \div MinutesPerDay

Days == {ElapsedDays(last, now) : last \in Times \cup {None}, now \in Times}

ASSUME TimesAssumption ==
    /\ Times \subseteq Nat
    /\ None \notin Nat
    /\ None \notin Texts
    /\ MinutesPerDay \in Nat \ {0}

ASSUME StepsAssumption ==
    /\ LearningSteps \in Seq(Nat) \ {<<>>}
    /\ RelearningSteps \in Seq(Nat) \ {<<>>}

(* FSRS answers every query, and an interval is never negative:            *)
(* duration_from_fsrs_days takes millis.max(0).                            *)
ASSUME FsrsAssumption ==
    /\ None \notin Memory
    /\ Fsrs \in [(Memory \cup {None}) \X Days \X Ratings
                    -> [memory : Memory, interval : Nat]]

-----------------------------------------------------------------------------
Card == [text          : Texts,
         phase         : Phases,
         learning_step : Nat \cup {None},
         memory        : Memory \cup {None},
         due           : Nat \cup {None},
         last_review   : Times \cup {None}]

ASSUME CardAssumption == None \notin Card

NewCard(text) ==
    [text |-> text, phase |-> "New", learning_step |-> None,
     memory |-> None, due |-> None, last_review |-> None]

(* The CHECK constraints of migration 0003: an UPDATE or INSERT of a row   *)
(* that breaks them fails.                                                 *)
CardWF(card) ==
    /\ (card.due = None) = (card.last_review = None)
    /\ \/ /\ card.phase = "New"
          /\ card.memory = None /\ card.due = None /\ card.learning_step = None
       \/ /\ card.phase = "Learning"
          /\ card.memory = None /\ card.due # None /\ card.learning_step # None
       \/ /\ card.phase = "Review"
          /\ card.memory # None /\ card.due # None /\ card.learning_step = None
       \/ /\ card.phase = "Relearning"
          /\ card.memory # None /\ card.due # None /\ card.learning_step # None

-----------------------------------------------------------------------------
Schedule(memory, last_review, rating, now) ==
    LET next == Fsrs[<<memory, ElapsedDays(last_review, now), rating>>]
    IN  [memory |-> next.memory, due |-> now + next.interval]

(* Mutant: the step of the table the Card has left stays behind. *)
Graduate_KeepsStep(card, rating, now) ==
    LET scheduled == Schedule(card.memory, card.last_review, rating, now)
    IN  [card EXCEPT !.phase = "Review",
                     !.memory = scheduled.memory, !.due = scheduled.due]

Graduate(card, rating, now) ==
    LET scheduled == Schedule(card.memory, card.last_review, rating, now)
    IN  [card EXCEPT !.phase = "Review", !.learning_step = None,
                     !.memory = scheduled.memory, !.due = scheduled.due]

(* The step the Card is on, clamped to the table: a stored step may lie    *)
(* beyond a table that a later release made shorter.                       *)
CurrentStep(card, steps) ==
    LET step == IF card.learning_step = None THEN 0 ELSE card.learning_step
    IN  IF step < Len(steps) THEN step ELSE Len(steps) - 1

(* Mutant: Hard goes one step back. *)
ApplyStepRating_HardGoesBack(card, rating, now, steps, stay) ==
    LET i == CurrentStep(card, steps)
    IN  IF rating \in {"Again", "Hard"}
        THEN [card EXCEPT !.phase = stay, !.due = now + steps[1],
                          !.learning_step = IF rating = "Hard" THEN i - 1 ELSE 0]
        ELSE Graduate(card, rating, now)

ApplyStepRating(card, rating, now, steps, stay) ==
    LET i == CurrentStep(card, steps)
        AtStep(k) == [card EXCEPT !.phase = stay, !.learning_step = k,
                                  !.due = now + steps[k + 1]]
    IN  CASE rating = "Again" -> AtStep(0)
          [] rating = "Hard"  -> AtStep(i)
          [] rating = "Good" /\ i + 1 < Len(steps) -> AtStep(i + 1)
          [] OTHER -> Graduate(card, rating, now)

(* Mutant: a lapse starts over with Learning. *)
ApplyReviewRating_Forgets(card, rating, now) ==
    LET scheduled == Schedule(card.memory, card.last_review, rating, now)
    IN  IF rating = "Again"
        THEN [card EXCEPT !.phase = "Learning", !.learning_step = 0, !.memory = None,
                          !.due = now + LearningSteps[1]]
        ELSE [card EXCEPT !.memory = scheduled.memory, !.due = scheduled.due]

ApplyReviewRating(card, rating, now) ==
    LET scheduled == Schedule(card.memory, card.last_review, rating, now)
    IN  IF rating = "Again"
        THEN [card EXCEPT !.phase = "Relearning", !.learning_step = 0,
                          !.memory = scheduled.memory,
                          !.due = now + RelearningSteps[1]]
        ELSE [card EXCEPT !.phase = "Review", !.learning_step = None,
                          !.memory = scheduled.memory, !.due = scheduled.due]

ApplyRating(card, rating, now) ==
    LET started == IF card.phase = "New"
                   THEN [card EXCEPT !.phase = "Learning", !.learning_step = 0]
                   ELSE card
        rated ==
          CASE started.phase = "Learning" ->
                 ApplyStepRating(started, rating, now, LearningSteps, "Learning")
            [] started.phase = "Relearning" ->
                 ApplyStepRating(started, rating, now, RelearningSteps, "Relearning")
            [] OTHER -> ApplyReviewRating(started, rating, now)
    IN  [rated EXCEPT !.last_review = now]

(* What the Reviews of a log, each applied to the Card the one before it   *)
(* left, make of a New Card.                                               *)
Replay(entries, text) ==
    LET after[n \in 0..Len(entries)] ==
            IF n = 0 THEN NewCard(text)
            ELSE ApplyRating(after[n - 1], entries[n].rating, entries[n].rated_at)
    IN  after[Len(entries)]
=============================================================================
