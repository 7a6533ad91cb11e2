------------------------------ MODULE MemStore -------------------------------
(***************************************************************************)
(* The Store the tests of the use cases run on (domain, fake_store.rs):    *)
(* maps behind one lock, so that a call is one function of the state `s`.  *)
(* A Card's row carries its deck_id next to the fields of Scheduler.       *)
(***************************************************************************)
EXTENDS StoreApi

Empty ==
    [next_user |-> 1, next_deck |-> 1, next_card |-> 1, next_session |-> 1,
     users |-> <<>>, sessions |-> <<>>, decks |-> <<>>, deck_owners |-> <<>>,
     cards |-> <<>>, reviews |-> <<>>]

OwnsDeck(s, user, deck) == deck \in DOMAIN s.deck_owners /\ s.deck_owners[deck] = user

CardForUser(s, user, card) ==
    card \in DOMAIN s.cards /\ OwnsDeck(s, user, s.cards[card].deck_id)

(* The first log entry of each Card of the Deck. *)
FirstReviewsForDeck(s, deck) ==
    LET Of(c) == {i \in DOMAIN s.reviews : s.reviews[i].card_id = c}
        reviewed == {c \in DOMAIN s.cards : s.cards[c].deck_id = deck /\ Of(c) # {}}
    IN  [c \in reviewed |-> s.reviews[Min(Of(c))].rated_at]

CardsIn(s, deck) == Keep(s.cards, LAMBDA card : card.deck_id = deck)

-----------------------------------------------------------------------------
(* Decks and Cards. *)
GetDeck(s, user, deck) ==
    IF OwnsDeck(s, user, deck) THEN Find(s.decks, deck) ELSE None

CreateDeck(s, user, name) ==
    Return([s EXCEPT !.next_deck = @ + 1,
                     !.decks = Put(@, s.next_deck, name),
                     !.deck_owners = Put(@, s.next_deck, user)],
           Ok(<<s.next_deck, name>>))

RenameDeck(s, user, deck, name) ==
    IF GetDeck(s, user, deck) = None THEN Return(s, Err("DeckNotFound"))
    ELSE Return([s EXCEPT !.decks[deck] = name], Ok(<<deck, name>>))

DeleteDeck(s, user, deck) ==
    LET cards == Keep(s.cards, LAMBDA card : card.deck_id # deck) IN
    IF ~OwnsDeck(s, user, deck) THEN Return(s, Err("DeckNotFound"))
    ELSE Return([s EXCEPT !.decks = Drop(@, deck), !.deck_owners = Drop(@, deck),
                          !.cards = cards, !.reviews = Remaining(@, DOMAIN cards)],
                Ok(<<>>))

GetCard(s, user, card) == IF CardForUser(s, user, card) THEN s.cards[card] ELSE None

CardTexts(cards) ==
    [c \in DOMAIN cards |->
        [text |-> cards[c].text, phase |-> cards[c].phase, due |-> cards[c].due]]

ListCardTextInDeck(s, user, deck) ==
    IF OwnsDeck(s, user, deck) THEN CardTexts(CardsIn(s, deck)) ELSE <<>>

CreateCard(s, user, deck, text) ==
    LET card == NewCardIn(deck, text) IN
    IF ~OwnsDeck(s, user, deck) THEN Return(s, Err("DeckNotFound"))
    ELSE Return([s EXCEPT !.next_card = @ + 1, !.cards = Put(@, s.next_card, card)],
                Ok(<<s.next_card, card>>))

UpdateCard(s, user, card, text) ==
    IF ~CardForUser(s, user, card) THEN Return(s, Err("CardNotFound"))
    ELSE LET edited == [s.cards[card] EXCEPT !.text = text]
         IN  Return([s EXCEPT !.cards[card] = edited], Ok(<<card, edited>>))

DeleteCard(s, user, card) ==
    IF ~CardForUser(s, user, card) THEN Return(s, Err("CardNotFound"))
    ELSE Return([s EXCEPT !.cards = Drop(@, card),
                          !.reviews = Remaining(@, Nat \ {card})],
                Ok(s.cards[card].deck_id))

(* What Study and, for every Deck of the User, the home page work on. *)
DeckInputs(s, deck) ==
    [deck |-> s.decks[deck], cards |-> CardsIn(s, deck),
     first_reviewed_at |-> FirstReviewsForDeck(s, deck)]

LoadHomeInputs(s, user) ==
    [deck \in {d \in DOMAIN s.decks : OwnsDeck(s, user, d)} |-> DeckInputs(s, deck)]

LoadStudyInputs(s, user, deck) ==
    IF GetDeck(s, user, deck) = None THEN None ELSE DeckInputs(s, deck)

(* The Card is stored as the caller computed it. *)
CommitReview(s, user, card, updated, entry) ==
    IF ~CardForUser(s, user, card) THEN Return(s, Err("CardNotFound"))
    ELSE Return([s EXCEPT !.cards[card] = updated, !.reviews = Append(@, entry)],
                Ok(<<updated, entry>>))

-----------------------------------------------------------------------------
(* Users and Sessions. *)
GetUser(s, user) == Find(s.users, user)

GetUserByUsername(s, username) ==
    LET named == {u \in DOMAIN s.users : UsernamesEqual(s.users[u].username, username)}
    IN  IF named = {} THEN None
        ELSE LET u == CHOOSE u \in named : \A v \in named : u <= v IN <<u, s.users[u]>>

ListUsers(s) == s.users

CreateUser(s, username, password_hash, admin) ==
    LET user == [username |-> username, password_hash |-> password_hash,
                 admin |-> admin, disabled |-> FALSE] IN
    IF GetUserByUsername(s, username) # None THEN Return(s, Err("UsernameTaken"))
    ELSE Return([s EXCEPT !.next_user = @ + 1, !.users = Put(@, s.next_user, user)],
                Ok(<<s.next_user, user>>))

ChangeUser(s, user, changed) ==
    IF user \notin DOMAIN s.users THEN Return(s, Err("UserNotFound"))
    ELSE Return([s EXCEPT !.users[user] = changed], Ok(<<user, changed>>))

SetPasswordHash(s, user, password_hash) ==
    ChangeUser(s, user, [GetUser(s, user) EXCEPT !.password_hash = password_hash])

SetDisabled(s, user, disabled) ==
    ChangeUser(s, user, [GetUser(s, user) EXCEPT !.disabled = disabled])

DeleteUser(s, user) ==
    LET decks == {d \in DOMAIN s.decks : ~OwnsDeck(s, user, d)}
        cards == Keep(s.cards, LAMBDA card : ~OwnsDeck(s, user, card.deck_id)) IN
    IF user \notin DOMAIN s.users THEN Return(s, Err("UserNotFound"))
    ELSE Return([s EXCEPT !.users = Drop(@, user),
                          !.sessions = Keep(@, LAMBDA session : session.user_id # user),
                          !.decks = Restrict(@, decks),
                          !.deck_owners = Restrict(@, decks),
                          !.cards = cards, !.reviews = Remaining(@, DOMAIN cards)],
                Ok(<<>>))

CreateSession(s, user, now) ==
    LET session == [user_id |-> user, created_at |-> now, last_used_at |-> now] IN
    IF user \notin DOMAIN s.users THEN Return(s, Err("UserNotFound"))
    ELSE Return([s EXCEPT !.next_session = @ + 1,
                          !.sessions = Put(@, s.next_session, session)],
                Ok(<<s.next_session, session>>))

GetSession(s, session) == Find(s.sessions, session)

TouchSession(s, session, now) ==
    IF session \notin DOMAIN s.sessions THEN Return(s, Ok(None))
    ELSE LET touched == [s.sessions[session] EXCEPT !.last_used_at = now]
         IN  Return([s EXCEPT !.sessions[session] = touched], Ok(touched))

DeleteSession(s, session) == Return([s EXCEPT !.sessions = Drop(@, session)], Ok(<<>>))

DeleteSessionsForUser(s, user) ==
    Return([s EXCEPT !.sessions = Keep(@, LAMBDA session : session.user_id # user)],
           Ok(<<>>))
=============================================================================
