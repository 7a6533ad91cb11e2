------------------------------ MODULE MCReviews ------------------------------
(* Reviews with three concurrent requests on one Card that exists or is    *)
(* being created, the step tables of the code and an FSRS stand-in.        *)
EXTENDS Reviews

MCTimes == {0, 2900}
MCLearningSteps == <<1, 10>>
MCRelearningSteps == <<10>>
MCMemory == 1..9

Grade(rating) == CASE rating = "Again" -> 1 [] rating = "Hard" -> 2
                   [] rating = "Good" -> 3 [] OTHER -> 4

MCFsrs ==
    [q \in (MCMemory \cup {None}) \X Days \X Ratings |->
        LET before == IF q[1] = None THEN 0 ELSE q[1]
            after == ((2 * before + Grade(q[3]) + q[2]) % 9) + 1
        IN  [memory |-> after, interval |-> after * MinutesPerDay]]

(* Grades and texts have no part in the locks: every Rating is Good (two   *)
(* of them never leave a Card alike, and ReviewLog has all grades); the    *)
(* stored Card has one text, and what is written is the other.             *)
FirstText == CHOOSE t \in Texts : TRUE

MCInit == Init /\ \A c \in CardIds : cards[c] \in {NewCard(FirstText), None}

MCRequests ==
    \A r \in Requests :
        LET q == req'[r] IN
        q # None => /\ q.kind = "rate" => q.rating = "Good"
                    /\ q.kind \in {"create", "edit"} => q.text # FirstText

MCSpec == MCInit /\ [][Next /\ MCRequests]_vars /\ Fairness
=============================================================================
