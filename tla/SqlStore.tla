------------------------------ MODULE SqlStore -------------------------------
(***************************************************************************)
(* The Store of the program (db, lib.rs, users.rs and store.rs): SQLite    *)
(* tables `t` with AUTOINCREMENT, UNIQUE, CHECK and FOREIGN KEY            *)
(* constraints, called by one client at a time.  Reviews, Spaces and       *)
(* Accounts have the interleavings of its statements.                      *)
(***************************************************************************)
EXTENDS StoreApi, Rows

Empty ==
    [sqlite_sequence |-> [users |-> 0, sessions |-> 0, decks |-> 0, cards |-> 0],
     users |-> <<>>, sessions |-> <<>>, decks |-> <<>>, cards |-> <<>>,
     review_logs |-> <<>>]

(* Mutant: ON DELETE CASCADE is missing from sessions. *)
Cascade_KeepsSessions(t) ==
    LET decks == Keep(t.decks, LAMBDA deck : deck.user_id \in DOMAIN t.users)
        cards == Keep(t.cards, LAMBDA card : card.deck_id \in DOMAIN decks)
    IN  [t EXCEPT !.decks = decks, !.cards = cards,
                  !.review_logs = Remaining(@, DOMAIN cards)]

(* ON DELETE CASCADE: no row outlives the row it references. *)
Cascade(t) ==
    LET decks == Keep(t.decks, LAMBDA deck : deck.user_id \in DOMAIN t.users)
        cards == Keep(t.cards, LAMBDA card : card.deck_id \in DOMAIN decks)
    IN  [t EXCEPT
            !.sessions = Keep(@, LAMBDA session : session.user_id \in DOMAIN t.users),
            !.decks = decks,
            !.cards = cards,
            !.review_logs = Remaining(@, DOMAIN cards)]

(* The next id of a table, and what every INSERT leaves behind.  The       *)
(* random id of a Session is only ever told apart from the others, so its  *)
(* number stands for it.                                                   *)
NextId(t, table) == t.sqlite_sequence[table] + 1

Insert(t, table, row) ==
    [t EXCEPT !.sqlite_sequence[table] = @ + 1, ![table] = Put(@, NextId(t, table), row)]

(* From<db::Error> for domain::Error: what the domain has no name for.     *)
FromDb(error) ==
    IF error \in {"Sqlx", "InvalidTimestamp", "IncompleteFsrs", "InvalidPhase",
                  "InvalidLearningStep"}
    THEN "Storage" ELSE error

-----------------------------------------------------------------------------
(* The functions of lib.rs, which know no owner. *)
CreateDeckRow(t, user, name) ==
    LET named == NormalizeDeckName(name) IN
    IF IsErr(named) THEN Return(t, named)
    ELSE IF user \notin DOMAIN t.users THEN Return(t, Err("UserNotFound"))
    ELSE Return(Insert(t, "decks", [name |-> named[2], user_id |-> user]),
                Ok(<<NextId(t, "decks"), named[2]>>))

RenameDeckRow(t, decks, deck, name) ==
    LET named == NormalizeDeckName(name) IN
    IF IsErr(named) THEN Return(t, named)
    ELSE IF deck \notin decks THEN Return(t, Err("DeckNotFound"))
    ELSE Return([t EXCEPT !.decks[deck].name = named[2]], Ok(<<deck, named[2]>>))

DeleteDeckRow(t, decks, deck) ==
    IF deck \notin decks THEN Return(t, Err("DeckNotFound"))
    ELSE Return(Cascade([t EXCEPT !.decks = Drop(@, deck)]), Ok(<<>>))

(* The row as a Card, or the error of card_from_row. *)
ReadCard(t, card) ==
    IF card \notin DOMAIN t.cards THEN Err("CardNotFound")
    ELSE IF Readable(t.cards[card]) THEN Ok(CardFromRow(t.cards[card]))
    ELSE Err(FromDb(RowError(t.cards[card])))

(* list_cards_in_deck, where one unreadable row fails the whole read. *)
ListCardsInDeck(t, deck) ==
    LET rows == Keep(t.cards, LAMBDA row : row.deck_id = deck) IN
    IF \E c \in DOMAIN rows : ~Readable(rows[c])
    THEN Err(FromDb(RowError(rows[CHOOSE c \in DOMAIN rows : ~Readable(rows[c])])))
    ELSE Ok([c \in DOMAIN rows |-> CardFromRow(rows[c])])

CreateCardRow(t, deck, text) ==
    LET sides == NormalizeCardSides(text)
        row == NewRow(deck, sides[2]) IN
    IF IsErr(sides) THEN Return(t, sides)
    ELSE IF deck \notin DOMAIN t.decks THEN Return(t, Err("DeckNotFound"))
    ELSE Return(Insert(t, "cards", row),
                Ok(<<NextId(t, "cards"), NewCardIn(deck, sides[2])>>))

UpdateCardRow(t, card, text) ==
    LET sides == NormalizeCardSides(text)
        to == [t EXCEPT !.cards[card].text = sides[2]] IN
    IF IsErr(sides) THEN Return(t, sides)
    ELSE IF card \notin DOMAIN t.cards THEN Return(t, Err("CardNotFound"))
    ELSE Return(to, Ok(<<card, ReadCard(to, card)[2]>>))

DeleteCardRow(t, card) ==
    IF card \notin DOMAIN t.cards THEN Return(t, Err("CardNotFound"))
    ELSE Return(Cascade([t EXCEPT !.cards = Drop(@, card)]), Ok(t.cards[card].deck_id))

(* Mutant: MAX instead of MIN. *)
FirstReviewTimes_Last(t, deck) ==
    LET Rated(c) == {log.rated_at : log \in {l \in ToSet(t.review_logs) : l.card_id = c}}
        reviewed == {c \in DOMAIN t.cards : t.cards[c].deck_id = deck /\ Rated(c) # {}}
    IN  [c \in reviewed |-> Max(Rated(c))]

(* MIN(rated_at) of each Card that has log rows. *)
FirstReviewTimes(t, deck) ==
    LET Rated(c) == {log.rated_at : log \in {l \in ToSet(t.review_logs) : l.card_id = c}}
        reviewed == {c \in DOMAIN t.cards : t.cards[c].deck_id = deck /\ Rated(c) # {}}
    IN  [c \in reviewed |-> Min(Rated(c))]

(* The Rating is applied to the row as it is now, and the Card and its log *)
(* row are written in one transaction.                                     *)
PersistReview(t, card, rating, now) ==
    LET fresh == ReadCard(t, card)
        updated == ApplyRating(fresh[2], rating, now)
        row == WriteReview(t.cards[card], updated)
        entry == [card_id |-> card, rated_at |-> now, rating |-> rating]
        stored == [entry EXCEPT !.rated_at = Rfc3339(now)] IN
    IF IsErr(fresh) THEN Return(t, fresh)
    ELSE IF ~RowChecks(row) THEN Return(t, Err(FromDb("Sqlx")))
    ELSE Return([t EXCEPT !.cards[card] = row, !.review_logs = Append(@, stored)],
                Ok(<<updated, entry>>))
-----------------------------------------------------------------------------
(* The owner-scoped functions of users.rs, which SqliteStore exposes. *)
GetUser(t, user) == Find(t.users, user)

OwnedDecks(t, user) ==
    IF GetUser(t, user) = None THEN {}
    ELSE {d \in DOMAIN t.decks : t.decks[d].user_id = user}

GetDeck(t, user, deck) ==
    IF deck \in OwnedDecks(t, user) THEN t.decks[deck].name ELSE None

GetCard(t, user, card) ==
    IF card \in DOMAIN t.cards /\ t.cards[card].deck_id \in OwnedDecks(t, user)
    THEN ReadCard(t, card)[2] ELSE None

CreateDeck(t, user, name) ==
    IF GetUser(t, user) = None THEN Return(t, Err("UserNotFound"))
    ELSE CreateDeckRow(t, user, name)

RenameDeck(t, user, deck, name) ==
    IF GetUser(t, user) = None THEN Return(t, Err("UserNotFound"))
    ELSE RenameDeckRow(t, OwnedDecks(t, user), deck, name)

DeleteDeck(t, user, deck) ==
    IF GetUser(t, user) = None THEN Return(t, Err("UserNotFound"))
    ELSE DeleteDeckRow(t, OwnedDecks(t, user), deck)

ListCardTextInDeck(t, user, deck) ==
    LET rows == Keep(t.cards, LAMBDA row : row.deck_id = deck) IN
    IF GetDeck(t, user, deck) = None THEN <<>>
    ELSE [c \in DOMAIN rows |-> [text |-> rows[c].text, due |-> rows[c].due,
                                 phase |-> PhaseFromDb(rows[c].phase)]]

CreateCard(t, user, deck, text) ==
    IF GetUser(t, user) = None THEN Return(t, Err("UserNotFound"))
    ELSE IF GetDeck(t, user, deck) = None THEN Return(t, Err("DeckNotFound"))
    ELSE CreateCardRow(t, deck, text)

UpdateCard(t, user, card, text) ==
    IF GetUser(t, user) = None THEN Return(t, Err("UserNotFound"))
    ELSE IF GetCard(t, user, card) = None THEN Return(t, Err("CardNotFound"))
    ELSE UpdateCardRow(t, card, text)

DeleteCard(t, user, card) ==
    IF GetUser(t, user) = None THEN Return(t, Err("UserNotFound"))
    ELSE IF GetCard(t, user, card) = None THEN Return(t, Err("CardNotFound"))
    ELSE DeleteCardRow(t, card)

DeckInputs(t, deck) ==
    [deck |-> t.decks[deck].name, cards |-> ListCardsInDeck(t, deck)[2],
     first_reviewed_at |-> FirstReviewTimes(t, deck)]

LoadHomeInputs(t, user) == [deck \in OwnedDecks(t, user) |-> DeckInputs(t, deck)]

LoadStudyInputs(t, user, deck) ==
    IF GetDeck(t, user, deck) = None THEN None ELSE DeckInputs(t, deck)

(* The Card the caller computed is not written, only its Rating counts. *)
CommitReview(t, user, card, updated, entry) ==
    IF GetUser(t, user) = None THEN Return(t, Err("UserNotFound"))
    ELSE IF GetCard(t, user, card) = None THEN Return(t, Err("CardNotFound"))
    ELSE PersistReview(t, card, entry.rating, entry.rated_at)

-----------------------------------------------------------------------------
(* Users and Sessions. *)
GetUserByUsername(t, username) ==
    LET named == {u \in DOMAIN t.users : UsernamesEqual(t.users[u].username, username)}
    IN  IF named = {} THEN None ELSE LET u == CHOOSE u \in named : TRUE IN <<u, t.users[u]>>

ListUsers(t) == t.users

CreateUser(t, username, password_hash, admin) ==
    LET row == [username |-> username, password_hash |-> password_hash,
                admin |-> admin, disabled |-> FALSE] IN
    IF \E u \in DOMAIN t.users : UsernamesEqual(t.users[u].username, username)
    THEN Return(t, Err("UsernameTaken"))
    ELSE Return(Insert(t, "users", row), Ok(<<NextId(t, "users"), row>>))

UpdateUser(t, user, row) ==
    IF user \notin DOMAIN t.users THEN Return(t, Err("UserNotFound"))
    ELSE Return([t EXCEPT !.users[user] = row], Ok(<<user, row>>))

SetPasswordHash(t, user, password_hash) ==
    UpdateUser(t, user, [GetUser(t, user) EXCEPT !.password_hash = password_hash])

SetDisabled(t, user, disabled) ==
    UpdateUser(t, user, [GetUser(t, user) EXCEPT !.disabled = disabled])

DeleteUser(t, user) ==
    IF user \notin DOMAIN t.users THEN Return(t, Err("UserNotFound"))
    ELSE Return(Cascade([t EXCEPT !.users = Drop(@, user)]), Ok(<<>>))

CreateSession(t, user, now) ==
    LET row == [user_id |-> user, created_at |-> Rfc3339(now),
                last_used_at |-> Rfc3339(now)] IN
    IF user \notin DOMAIN t.users THEN Return(t, Err("UserNotFound"))
    ELSE Return(Insert(t, "sessions", row), Ok(<<NextId(t, "sessions"), row>>))

GetSession(t, session) == Find(t.sessions, session)

TouchSession(t, session, now) ==
    IF session \notin DOMAIN t.sessions THEN Return(t, Ok(None))
    ELSE LET row == [t.sessions[session] EXCEPT !.last_used_at = Rfc3339(now)]
         IN  Return([t EXCEPT !.sessions[session] = row], Ok(row))

DeleteSession(t, session) == Return([t EXCEPT !.sessions = Drop(@, session)], Ok(<<>>))

DeleteSessionsForUser(t, user) ==
    Return([t EXCEPT !.sessions = Keep(@, LAMBDA row : row.user_id # user)], Ok(<<>>))
=============================================================================
