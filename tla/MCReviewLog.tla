----------------------------- MODULE MCReviewLog -----------------------------
(* ReviewLog on a small instance: one or two Cards, the step tables of the *)
(* code, an FSRS stand-in and a bound on the length of each log.           *)
EXTENDS ReviewLog

CONSTANT MaxReviews   \* bound on the Reviews of one Card

MCTimes == {0, 11, 2900}
MCLearningSteps == <<1, 10>>
MCRelearningSteps == <<10>>
MCMemory == 1..9

(* FSRS as a strength that grows with the grade and shrinks with the days  *)
(* elapsed, so that two different histories give two different states.     *)
Grade(rating) == CASE rating = "Again" -> 1 [] rating = "Hard" -> 2
                   [] rating = "Good" -> 3 [] OTHER -> 4

MCFsrs ==
    [q \in (MCMemory \cup {None}) \X Days \X Ratings |->
        LET before == IF q[1] = None THEN 0 ELSE q[1]
            after == ((2 * before + Grade(q[3]) + q[2]) % 9) + 1
        IN  [memory |-> after, interval |-> after * MinutesPerDay]]

Bounded == \A c \in CardIds : Len(log'[c]) <= MaxReviews

BoundedSpec == Init /\ [][Next /\ Bounded]_vars

=============================================================================
