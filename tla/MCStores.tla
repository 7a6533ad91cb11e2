------------------------------ MODULE MCStores -------------------------------
(* Stores from a populated state: two Users, each with a Session, one Deck *)
(* and three Cards between them, one of which was rated, all made by calls *)
(* that Stores can make.                                                   *)
EXTENDS Stores

CONSTANT MaxChanges   \* bound on the calls that change the tables

VARIABLE changes      \* the number of those calls so far

(* The first instant is half a millisecond after the millisecond, and the  *)
(* second half a millisecond before a day has passed since then.           *)
MCTimes == {601, 3480, 9001}
MCLearningSteps == <<2, 20>>
MCRelearningSteps == <<20>>
MCMemory == {[stability |-> 1, difficulty |-> 2], [stability |-> 3, difficulty |-> 2]}
Strength(memory) == IF memory = None THEN 1 ELSE memory.stability

MCFsrs ==
    [q \in (MCMemory \cup {None}) \X Days \X Ratings |->
        LET after == IF q[3] = "Again" THEN 1 ELSE 3
        IN  [memory |-> [stability |-> after, difficulty |-> 2],
             interval |-> MinutesPerDay * after * Strength(q[1]) + q[2]]]

Side(body) == <<body, FALSE>>
MCTexts == {<<Side("x"), Side("y")>>, <<Side("z"), Side("y")>>}
MCTypedSides ==
    {<<Side("x"), Side("y")>>, <<<<"z", TRUE>>, Side("y")>>, <<Side("x"), Side("")>>}
MCDeckNames == {Side("d"), <<"n", TRUE>>, Side("")}
MCUsernames == {<<"ann", TRUE>>} \cup {<<name, FALSE>> : name \in {"ann", "bob", "cy"}}

(* The same calls for either Store. *)
Earliest == CHOOSE t \in Times : \A u \in Times : t <= u

FirstCard == NewCardIn(1, <<Side("x"), Side("y")>>)

Populate(Empty, CreateUserIn(_, _, _, _), CreateSessionIn(_, _, _), CreateDeckIn(_, _, _),
         CreateCardIn(_, _, _, _), CommitReviewIn(_, _, _, _, _)) ==
    LET User(s, name, admin) == CreateUserIn(s, <<name, FALSE>>, "h1", admin).to
        Session(s, user) == CreateSessionIn(s, user, Earliest).to
        Deck(s, user) == CreateDeckIn(s, user, Side("d")).to
        NewIn(s, user, deck) == CreateCardIn(s, user, deck, FirstCard.text).to
        users == User(User(Empty, "ann", TRUE), "bob", FALSE)
        decks == Deck(Deck(Session(Session(users, 1), 2), 1), 2)
        cards == NewIn(NewIn(NewIn(decks, 1, 1), 1, 1), 2, 2)
    IN  CommitReviewIn(cards, 1, 1, ApplyRating(FirstCard, "Easy", Earliest),
                       [card_id |-> 1, rated_at |-> Earliest, rating |-> "Easy"]).to

Populated ==
    /\ mem = Populate(Mem!Empty, Mem!CreateUser, Mem!CreateSession, Mem!CreateDeck,
                      Mem!CreateCard, Mem!CommitReview)
    /\ sql = Populate(Sql!Empty, Sql!CreateUser, Sql!CreateSession, Sql!CreateDeck,
                      Sql!CreateCard, Sql!CommitReview)
    /\ clock = Earliest
    /\ dispute = None
    /\ apart = FALSE
    /\ changes = 0

BoundedNext ==
    /\ changes < MaxChanges
    /\ Next
    /\ changes' = IF mem' = mem /\ sql' = sql THEN changes ELSE changes + 1

BoundedSpec == Populated /\ [][BoundedNext]_<<vars, changes>>
=============================================================================
