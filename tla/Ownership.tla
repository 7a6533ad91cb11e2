------------------------------ MODULE Ownership ------------------------------
(***************************************************************************)
(* What the owner-scoped Store promises to the Users of one server: each   *)
(* request takes effect, or is refused, at one instant between its arrival *)
(* and its answer, judged by who owns what at that instant; and a row goes *)
(* together with the rows that refer to it.  Spaces is the implementation. *)
(***************************************************************************)
EXTENDS Naturals

CONSTANTS None, UserIds, DeckIds, CardIds, Names, Texts, Requests

VARIABLES
    users,    \* the Users that exist
    decks,    \* decks[d]: the row of Deck d, None when there is none
    cards,    \* cards[c]: the row of Card c
    req,      \* req[r]: what request r asks for, None before it arrives
    outcome   \* outcome[r]: idle, open, done, refused or lost

tables == <<users, decks, cards>>
vars == <<tables, req, outcome>>

Deck == [owner : UserIds, name : Names]

(* The schedule of a Card counts its Reviews here. *)
Card == [deck : DeckIds, text : Texts, reviews : Nat]

DeckKinds == {"rename_deck", "delete_deck", "create_card", "deck_page", "study_page"}
CardKinds == {"update_card", "delete_card", "rate"}
ReadKinds == {"home", "deck_page", "study_page"}

(* delete_user is the administrator's request about `user`. *)
Request ==
    [kind : {"home", "delete_user"}, user : UserIds]
      \cup [kind : {"create_deck"}, user : UserIds, name : Names]
      \cup [kind : {"rename_deck"}, user : UserIds, deck : DeckIds, name : Names]
      \cup [kind : {"delete_deck", "deck_page", "study_page"}, user : UserIds, deck : DeckIds]
      \cup [kind : {"create_card"}, user : UserIds, deck : DeckIds, text : Texts]
      \cup [kind : {"update_card"}, user : UserIds, card : CardIds, text : Texts]
      \cup [kind : {"delete_card", "rate"}, user : UserIds, card : CardIds]

OwnDeck(u, d) == decks[d] # None /\ decks[d].owner = u
OwnCard(u, c) == cards[c] # None /\ OwnDeck(u, cards[c].deck)

May(q) ==
    /\ q.kind \in {"create_deck", "delete_user"} => q.user \in users
    /\ q.kind \in DeckKinds => OwnDeck(q.user, q.deck)
    /\ q.kind \in CardKinds => OwnCard(q.user, q.card)

-----------------------------------------------------------------------------
(* Rows of the two tables that are gone, with all that refers to them. *)
Without(goneDecks, goneCards) ==
    /\ decks' = [d \in DeckIds |-> IF d \in goneDecks THEN None ELSE decks[d]]
    /\ cards' = [c \in CardIds |->
          IF cards[c] = None \/ c \in goneCards \/ cards[c].deck \in goneDecks
          THEN None ELSE cards[c]]

Effect(q) ==
    \/ /\ q.kind \in ReadKinds
       /\ UNCHANGED tables
    \/ /\ q.kind = "create_deck"
       /\ \E d \in DeckIds :
             /\ decks[d] = None
             /\ decks' = [decks EXCEPT ![d] = [owner |-> q.user, name |-> q.name]]
       /\ UNCHANGED <<users, cards>>
    \/ /\ q.kind = "rename_deck"
       /\ decks' = [decks EXCEPT ![q.deck].name = q.name]
       /\ UNCHANGED <<users, cards>>
    \/ /\ q.kind = "delete_deck"
       /\ Without({q.deck}, {})
       /\ UNCHANGED users
    \/ /\ q.kind = "create_card"
       /\ \E c \in CardIds :
             /\ cards[c] = None
             /\ cards' = [cards EXCEPT ![c] =
                             [deck |-> q.deck, text |-> q.text, reviews |-> 0]]
       /\ UNCHANGED <<users, decks>>
    \/ /\ q.kind = "update_card"
       /\ cards' = [cards EXCEPT ![q.card].text = q.text]
       /\ UNCHANGED <<users, decks>>
    \/ /\ q.kind = "rate"
       /\ cards' = [cards EXCEPT ![q.card].reviews = @ + 1]
       /\ UNCHANGED <<users, decks>>
    \/ /\ q.kind = "delete_card"
       /\ Without({}, {q.card})
       /\ UNCHANGED users
    \/ /\ q.kind = "delete_user"
       /\ users' = users \ {q.user}
       /\ Without({d \in DeckIds : OwnDeck(q.user, d)}, {})

-----------------------------------------------------------------------------
(* Some Users with some Decks and Cards, and no request yet. *)
Init ==
    /\ users = UserIds
    /\ decks \in [DeckIds -> Deck \cup {None}]
    /\ cards \in [CardIds -> [deck : DeckIds, text : Texts, reviews : {0}] \cup {None}]
    /\ \A c \in CardIds : cards[c] # None => decks[cards[c].deck] # None
    /\ req = [r \in Requests |-> None]
    /\ outcome = [r \in Requests |-> "idle"]

Arrive(r) ==
    /\ outcome[r] = "idle"
    /\ \E q \in Request : req' = [req EXCEPT ![r] = q]
    /\ outcome' = [outcome EXCEPT ![r] = "open"]
    /\ UNCHANGED tables

End(r, how) ==
    /\ outcome[r] = "open"
    /\ outcome' = [outcome EXCEPT ![r] = how]
    /\ UNCHANGED req

Perform(r) == End(r, "done") /\ May(req[r]) /\ Effect(req[r])
Refuse(r)  == End(r, "refused") /\ ~May(req[r]) /\ UNCHANGED tables
Lose(r)    == End(r, "lost") /\ UNCHANGED tables

Next == \E r \in Requests : Arrive(r) \/ Perform(r) \/ Refuse(r) \/ Lose(r)

Spec == Init /\ [][Next]_vars
=============================================================================
