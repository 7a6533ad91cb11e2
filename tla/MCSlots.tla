------------------------------- MODULE MCSlots -------------------------------
(* Study on one local day, with a record of the Cards introduced on it that *)
(* outlives the Cards.                                                     *)
EXTENDS Study, TLC

VARIABLE introduced   \* introduced[day]: the Cards whose first Rating was of it

(* Two instants of the same local day. *)
MCTimes == {780, 790}
MCLearningSteps == <<1, 10>>
MCRelearningSteps == <<10>>
MCMemory == {1}
MCFsrs == [q \in (MCMemory \cup {None}) \X Days \X Ratings |->
              [memory |-> 1, interval |-> 600]]

LocalDays == {LocalDay(t) : t \in Times}

SlotsInit == StudyInit /\ introduced = [day \in LocalDays |-> {}]

(* Ids are never reused, so a Card has one first Rating. *)
SlotsNext ==
    /\ StudyNext
    /\ introduced' = [day \in LocalDays |->
          introduced[day] \cup
              {c \in CardIds : /\ log[c] = <<>> /\ log'[c] # <<>>
                               /\ LocalDay(log'[c][1].rated_at) = day}]

SlotsSpec == SlotsInit /\ [][SlotsNext]_<<studyVars, introduced>>

(* What docs/SPEC-v1.2.md says: a first Rating always consumes one of the  *)
(* slots of the local day, whatever happens to its Card afterwards.        *)
FirstRatingTakesSlot ==
    \A day \in LocalDays : Cardinality(introduced[day]) <= NewCardsPerDay
=============================================================================
