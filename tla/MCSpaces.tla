------------------------------ MODULE MCSpaces ------------------------------
(* Spaces with two Users.  Two requests of any kind meet, or three that    *)
(* work on Cards.                                                          *)
EXTENDS Spaces, FiniteSets, TLC

CardWork == {"update_card", "delete_card", "create_card"}

Interchangeable == Permutations(Requests) \cup Permutations(UserIds)

FewOrOnCards ==
    LET arrived == {r \in Requests : req'[r] # None}
    IN  Cardinality(arrived) > 2 => \A r \in arrived : req'[r].kind \in CardWork

(* One or two Decks and one Card at the start, and free ids. *)
PopulatedInit ==
    /\ Init
    /\ usedDecks \in {{1}, {1, 2}}
    /\ usedCards = {1}

MeetingsSpec == PopulatedInit /\ [][Next /\ FewOrOnCards]_vars
=============================================================================
