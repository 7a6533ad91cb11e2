----------------------------- MODULE MCAccounts -----------------------------
(* Accounts on a database that is empty or holds the bootstrap admin and a *)
(* second User, with requests of the kinds that a run is about.            *)
EXTENDS Accounts, TLC

CONSTANT Kinds   \* the kinds of requests that arrive

TimedKinds == {"login", "resolve"}

(* Two requests of any kind meet, or more that are all of these kinds; and *)
(* more than two at different times only if they are of TimedKinds.        *)
FewOrOfKinds ==
    LET arrived == {r \in Requests : req'[r] # None}
    IN  Cardinality(arrived) > 2 =>
            \A r \in arrived :
                /\ req'[r].kind \in Kinds
                /\ clock' > 0 => req'[r].kind \in TimedKinds

(* Idle is 1: at 2 a Session of 0 has expired, unless it was used at 1. *)
MCTimes == 0..2
OneTime == {0}

SessionKinds == {"login", "resolve", "disable", "reset"}
CreateKinds == {"bootstrap", "create"}
CookieKinds == {"logout", "resolve"}

Interchangeable ==
    Permutations(Requests) \cup Permutations(Names \ {BootstrapName})
      \cup Permutations(Passwords) \cup Permutations(SessionIds)

OfKinds == \A r \in Requests : req'[r] # None => req'[r].kind \in Kinds

OrderlySpec == Init /\ [][Next /\ OfKinds]_vars

MeetingsSpec == Init /\ [][Next /\ FewOrOfKinds]_vars
=============================================================================
