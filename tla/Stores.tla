------------------------------- MODULE Stores --------------------------------
(***************************************************************************)
(* The Store of the program and the Store of its tests, given the same     *)
(* calls in the same order.  The use cases are tested on MemStore and run  *)
(* on SqlStore: what the tests show is worth what this comparison holds.   *)
(*                                                                         *)
(* One client calls at a time.  Deck and Card operations are called for a  *)
(* User that exists, as the session gate sees to; instants are the clock's *)
(* and never go back.                                                      *)
(***************************************************************************)
EXTENDS StoreApi, Rows

CONSTANTS
    Usernames,       \* usernames that normalize_username lets through
    PasswordHashes,
    DeckNames,       \* typed names of Decks
    TypedSides,      \* typed fronts and backs of Cards
    Grades           \* the Ratings that are given

VARIABLES
    mem,      \* the state of MemStore
    sql,      \* the tables of SqlStore
    clock,    \* the wall clock
    dispute,  \* the answers to the last call if they differ, else None
    apart     \* has a Rating found another number of days in SqlStore?

vars == <<mem, sql, clock, dispute, apart>>

(* The rows both Stores answer with; the name of a Deck is what            *)
(* normalize_deck_name leaves of a typed one.                              *)
UserRow == [username : Usernames, password_hash : PasswordHashes,
            admin : BOOLEAN, disabled : BOOLEAN]
SessionRow == [user_id : Nat, created_at : Times, last_used_at : Times]
CardRow == [deck_id : Nat, text : Texts, phase : Phases,
            learning_step : Nat \cup {None}, memory : Memory \cup {None},
            due : Int \cup {None}, last_review : Int \cup {None}]
DeckName == {<<name[1], FALSE>> : name \in DeckNames}

ASSUME CallsAssumption ==
    /\ Grades \subseteq Ratings
    /\ \A typed \in TypedSides :
          LET sides == NormalizeCardSides(typed) IN ~IsErr(sides) => sides[2] \in Texts

ASSUME NoneIsNoRow ==
    None \notin UserRow \cup SessionRow \cup CardRow \cup DeckName
                 \cup (Nat \X UserRow) \cup (Nat \X SessionRow) \cup (Nat \X CardRow)

Mem == INSTANCE MemStore
Sql == INSTANCE SqlStore

(* The ids a call may name: those that exist, once existed or do not yet.  *)
Users    == 1..mem.next_user
Sessions == 1..mem.next_session
Decks    == 1..mem.next_deck
Cards    == 1..mem.next_card
Callers  == DOMAIN mem.users

StoredSession(session) ==
    [session EXCEPT !.created_at = Rfc3339(@), !.last_used_at = Rfc3339(@)]

-----------------------------------------------------------------------------
Init ==
    /\ mem = Mem!Empty
    /\ sql = Sql!Empty
    /\ clock \in {t \in Times : \A u \in Times : t <= u}
    /\ dispute = None
    /\ apart = FALSE

(* `m` and `s` are what the two Stores return; the answer of SqlStore      *)
(* should be that of MemStore, after SQLite has rounded it.                *)
Compare(Rounded(_), m, s) ==
    LET expected == IF IsErr(m.answer) \/ m.answer[2] = None THEN m.answer
                    ELSE Ok(Rounded(m.answer[2]))
    IN  /\ mem' = m.to
        /\ sql' = s.to
        /\ dispute' = IF s.answer = expected THEN None ELSE <<m.answer, s.answer>>
        /\ UNCHANGED clock

BothRounding(Rounded(_), m, s) == Compare(Rounded, m, s) /\ UNCHANGED apart

Same(value) == value

Both(m, s) == BothRounding(Same, m, s)

(* A use case that turns typed text away calls neither Store. *)
Refused(error) == Both(Return(mem, error), Return(sql, error))

CreateUser(username, hash, admin) ==
    Both(Mem!CreateUser(mem, username, hash, admin),
         Sql!CreateUser(sql, username, hash, admin))

SetPasswordHash(user, hash) ==
    Both(Mem!SetPasswordHash(mem, user, hash), Sql!SetPasswordHash(sql, user, hash))

SetDisabled(user, disabled) ==
    Both(Mem!SetDisabled(mem, user, disabled), Sql!SetDisabled(sql, user, disabled))

DeleteUser(user) == Both(Mem!DeleteUser(mem, user), Sql!DeleteUser(sql, user))

CreateSession(user) ==
    LET Rounded(answer) == <<answer[1], StoredSession(answer[2])>>
    IN  BothRounding(Rounded, Mem!CreateSession(mem, user, clock),
                              Sql!CreateSession(sql, user, clock))

TouchSession(session) ==
    BothRounding(StoredSession, Mem!TouchSession(mem, session, clock),
                                Sql!TouchSession(sql, session, clock))

DeleteSession(session) ==
    Both(Mem!DeleteSession(mem, session), Sql!DeleteSession(sql, session))

DeleteSessionsForUser(user) ==
    Both(Mem!DeleteSessionsForUser(mem, user), Sql!DeleteSessionsForUser(sql, user))

CreateDeck(user, name) ==
    LET named == NormalizeDeckName(name) IN
    IF IsErr(named) THEN Refused(named)
    ELSE Both(Mem!CreateDeck(mem, user, named[2]), Sql!CreateDeck(sql, user, named[2]))

RenameDeck(user, deck, name) ==
    LET named == NormalizeDeckName(name) IN
    IF IsErr(named) THEN Refused(named)
    ELSE Both(Mem!RenameDeck(mem, user, deck, named[2]),
              Sql!RenameDeck(sql, user, deck, named[2]))

DeleteDeck(user, deck) ==
    Both(Mem!DeleteDeck(mem, user, deck), Sql!DeleteDeck(sql, user, deck))

CreateCard(user, deck, text) ==
    LET sides == NormalizeCardSides(text) IN
    IF IsErr(sides) THEN Refused(sides)
    ELSE Both(Mem!CreateCard(mem, user, deck, sides[2]),
              Sql!CreateCard(sql, user, deck, sides[2]))

UpdateCard(user, card, text) ==
    LET sides == NormalizeCardSides(text)
        Rounded(answer) == <<answer[1], Stored(answer[2])>> IN
    IF IsErr(sides) THEN Refused(sides)
    ELSE BothRounding(Rounded, Mem!UpdateCard(mem, user, card, sides[2]),
                               Sql!UpdateCard(sql, user, card, sides[2]))

DeleteCard(user, card) ==
    Both(Mem!DeleteCard(mem, user, card), Sql!DeleteCard(sql, user, card))

(* The use case: the Card that was read is rated and committed. *)
Rated(store, read, commit) ==
    IF read = None THEN Return(store, Err("CardNotFound")) ELSE commit

(* The last Review is text without what is below a millisecond: of a Card  *)
(* that is rated in the last fraction of a millisecond of a day since then *)
(* SqlStore counts one day more, and FSRS is asked another question.       *)
DaysDiffer(read) ==
    /\ read # None
    /\ ElapsedDays(Rfc3339(read.last_review), clock) # ElapsedDays(read.last_review, clock)

Rate(user, card, rating) ==
    LET entry == [card_id |-> card, rated_at |-> clock, rating |-> rating]
        inMem == Mem!GetCard(mem, user, card)
        inSql == Sql!GetCard(sql, user, card)
    IN  /\ Compare(Same,
              Rated(mem, inMem,
                    Mem!CommitReview(mem, user, card, ApplyRating(inMem, rating, clock), entry)),
              Rated(sql, inSql,
                    Sql!CommitReview(sql, user, card, ApplyRating(inSql, rating, clock), entry)))
        /\ apart' = (apart \/ DaysDiffer(inMem))

Tick ==
    /\ \E t \in Times : t > clock /\ clock' = t
    /\ dispute' = None
    /\ UNCHANGED <<mem, sql, apart>>

UserCall ==
    \/ \E name \in Usernames, hash \in PasswordHashes, admin \in BOOLEAN :
          CreateUser(name, hash, admin)
    \/ \E user \in Users :
          \/ \E hash \in PasswordHashes : SetPasswordHash(user, hash)
          \/ \E disabled \in BOOLEAN : SetDisabled(user, disabled)
          \/ DeleteUser(user) \/ CreateSession(user) \/ DeleteSessionsForUser(user)
    \/ \E session \in Sessions : TouchSession(session) \/ DeleteSession(session)

DeckCall(user) ==
    \/ \E name \in DeckNames : CreateDeck(user, name)
    \/ \E deck \in Decks :
          \/ \E name \in DeckNames : RenameDeck(user, deck, name)
          \/ DeleteDeck(user, deck)

CardCall(user) ==
    \/ \E deck \in Decks, text \in TypedSides : CreateCard(user, deck, text)
    \/ \E card \in Cards :
          \/ \E text \in TypedSides : UpdateCard(user, card, text)
          \/ DeleteCard(user, card)
          \/ \E rating \in Grades : Rate(user, card, rating)

Next ==
    \/ UserCall
    \/ \E user \in Callers : DeckCall(user) \/ CardCall(user)
    \/ Tick

Spec == Init /\ [][Next]_vars

-----------------------------------------------------------------------------
(* Until a Rating falls into such a fraction of a millisecond, every call  *)
(* gets the same answer from both Stores: the same row, rounded to         *)
(* milliseconds, or the same error.  MemStore knows no storage errors, so  *)
(* no call ends in one either.                                             *)
AnswersAgree == ~apart => dispute = None

(* Until then, after any calls the tables hold what the maps hold: the     *)
(* cascades reach as far as the retains, AUTOINCREMENT counts like the     *)
(* next_* fields, and every row of `cards` can be read back as the Card    *)
(* that was stored.                                                        *)
TablesAgree ==
    ~apart =>
    /\ sql.users = mem.users
    /\ sql.sessions = [i \in DOMAIN mem.sessions |-> StoredSession(mem.sessions[i])]
    /\ DOMAIN sql.decks = DOMAIN mem.decks
    /\ DOMAIN mem.deck_owners = DOMAIN mem.decks
    /\ \A d \in DOMAIN sql.decks :
          sql.decks[d] = [name |-> mem.decks[d], user_id |-> mem.deck_owners[d]]
    /\ DOMAIN sql.cards = DOMAIN mem.cards
    /\ \A c \in DOMAIN sql.cards :
          Readable(sql.cards[c]) /\ CardFromRow(sql.cards[c]) = Stored(mem.cards[c])
    /\ sql.review_logs = [i \in DOMAIN mem.reviews |->
                             [mem.reviews[i] EXCEPT !.rated_at = Rfc3339(@)]]
    /\ sql.sqlite_sequence = [users |-> mem.next_user - 1, decks |-> mem.next_deck - 1,
                              cards |-> mem.next_card - 1,
                              sessions |-> mem.next_session - 1]

RoundedTexts(texts) == [c \in DOMAIN texts |-> [texts[c] EXCEPT !.due = Rfc3339(@)]]

RoundedInputs(inputs) ==
    [inputs EXCEPT !.cards = [c \in DOMAIN @ |-> Stored(@[c])],
                   !.first_reviewed_at = [c \in DOMAIN @ |-> Rfc3339(@[c])]]

(* Until then, whoever asks, for an id of whatever age, reads the same     *)
(* from both.                                                              *)
ReadsAgree ==
    ~apart =>
    /\ \A u \in Users :
        /\ Sql!GetUser(sql, u) = Mem!GetUser(mem, u)
        /\ LET home == Mem!LoadHomeInputs(mem, u)
           IN  Sql!LoadHomeInputs(sql, u) = [d \in DOMAIN home |-> RoundedInputs(home[d])]
        /\ \A c \in Cards :
              LET card == Mem!GetCard(mem, u, c)
              IN  Sql!GetCard(sql, u, c) = IF card = None THEN None ELSE Stored(card)
        /\ \A d \in Decks :
              LET inputs == Mem!LoadStudyInputs(mem, u, d) IN
              /\ Sql!GetDeck(sql, u, d) = Mem!GetDeck(mem, u, d)
              /\ Sql!ListCardTextInDeck(sql, u, d)
                    = RoundedTexts(Mem!ListCardTextInDeck(mem, u, d))
              /\ Sql!LoadStudyInputs(sql, u, d)
                    = IF Mem!OwnsDeck(mem, u, d) THEN RoundedInputs(inputs) ELSE inputs
    /\ \A name \in Usernames :
          Sql!GetUserByUsername(sql, name) = Mem!GetUserByUsername(mem, name)
    /\ Sql!ListUsers(sql) = Mem!ListUsers(mem)
    /\ \A i \in Sessions :
          LET session == Mem!GetSession(mem, i)
          IN  Sql!GetSession(sql, i)
                = IF session = None THEN None ELSE StoredSession(session)
=============================================================================
