------------------------------- MODULE MCStudy -------------------------------
(* Study with two tabs and three Cards over the turn of one local day.     *)
EXTENDS Study, TLC

CONSTANTS
    MaxReviews,   \* bound on the Reviews in all logs together
    MaxRemoved    \* bound on the Cards that are deleted

VARIABLE prompt       \* has every page load so far ended before midnight?

(* Local midnight is at 780: 779 is one local day, 785 and 1500 are the    *)
(* next one; UTC's day changes at 1440.  A Card rated Hard at 779 is due   *)
(* by 785, and one rated Hard at 785 falls due after it, before 1500; one  *)
(* rated Easy at 785 is due at 1500 to the minute.                         *)
MCTimes == {779, 785, 1500}
MCLearningSteps == <<1, 10>>
MCRelearningSteps == <<10>>
MCMemory == {1}
MCFsrs == [q \in (MCMemory \cup {None}) \X Days \X Ratings |->
              [memory |-> 1, interval |-> 715]]

AnyClient == Permutations(Clients)

TotalReviews == FoldFunctionOnSet(LAMBDA entries, n : n + Len(entries), 0, log', CardIds)

Bounded ==
    /\ TotalReviews <= MaxReviews
    /\ Cardinality({c \in used : cards'[c] = None}) <= MaxRemoved

(* Grades that the cap and the order cannot tell apart are left out.       *)
TwoGrades ==
    \A c \in CardIds : Len(log'[c]) > 0 =>
        log'[c][Len(log'[c])].rating \in {"Hard", "Easy"}

MCInit == StudyInit /\ prompt = TRUE

MCNext ==
    /\ StudyNext /\ Bounded /\ TwoGrades
    /\ prompt' = (prompt /\ LoadsEndBeforeMidnight)

MCSpec == MCInit /\ [][MCNext]_<<studyVars, prompt>>

(* As long as no page load lasted over local midnight, the cap is kept     *)
(* exactly.                                                                *)
PromptCap == prompt => DailyCap
=============================================================================
