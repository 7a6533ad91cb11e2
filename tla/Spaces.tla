-------------------------------- MODULE Spaces --------------------------------
(***************************************************************************)
(* Decks and Cards of several Users: the owner-scoped operations of db,    *)
(* users.rs, and the pages of web/decks.rs, cards.rs and study.rs, as      *)
(* sequences of SQL statements.  A write of a Card first looks the Card up *)
(* through its Deck and then acts by its id alone; a page is read in       *)
(* several statements.  Between two statements anything may happen.        *)
(*                                                                         *)
(* A request's pc names its next statement:                                *)
(*   card    get_owned_card of domain::rate                                *)
(*   user    require_user                                                  *)
(*   owned   get_owned_deck or get_owned_card before a write               *)
(*   write   the INSERT, UPDATE or DELETE; for a rating persist_review,    *)
(*           which Reviews shows to be one atomic step                     *)
(*   decks   list_owned_decks of the home page                             *)
(*   deck    get_owned_deck of a page about one Deck                       *)
(*   again   the second get_owned_deck of such a page                      *)
(*   cards   the Cards of the next Deck of the page                        *)
(* and then done, refused (404, nothing changed), gone (404 for the page   *)
(* after a change) or lost.                                                *)
(***************************************************************************)
EXTENDS Naturals

CONSTANTS None, UserIds, DeckIds, CardIds, Names, Texts, Requests

ASSUME SpacesAssumption ==
    /\ DeckIds \subseteq Nat
    /\ CardIds \subseteq Nat
    /\ None \notin DeckIds

VARIABLES
    users, decks, cards,    \* the tables
    usedDecks, usedCards,   \* the ids that AUTOINCREMENT has given out
    req, pc,                \* each request and its next statement
    at,                     \* at[r]: the Deck that r's page is about
    todo,                   \* todo[r]: the Decks whose Cards it has yet to read
    seen                    \* seen[r]: the Cards it has read

tables == <<users, decks, cards>>
used == <<usedDecks, usedCards>>
page == <<at, todo, seen>>
vars == <<tables, used, req, pc, page>>

PageSteps == {"decks", "deck", "again", "cards"}
CheckSteps == {"card", "user", "owned", "write"}
Final == {"done", "refused", "gone", "lost"}
ReadKinds == {"home", "deck_page", "study_page"}

Reads(r) == req[r] # None /\ req[r].kind \in ReadKinds

(* A change takes effect with its write, whatever becomes of the page that *)
(* follows it, and a page is granted or refused by the last look-up that   *)
(* can refuse it.                                                          *)
Open(r) ==
    \/ pc[r] \in CheckSteps
    \/ Reads(r) /\ pc[r] \in {"decks", "deck"}
    \/ Reads(r) /\ pc[r] = "again" /\ req[r].kind = "study_page"

Outcome == [r \in Requests |->
    CASE pc[r] \in {"idle", "refused", "lost"} -> pc[r]
      [] Open(r) -> "open"
      [] OTHER -> "done"]

Abstract == INSTANCE Ownership WITH outcome <- Outcome

DeckRow == Abstract!Deck
CardRow == Abstract!Card
Request == Abstract!Request
OwnDeck(u, d) == Abstract!OwnDeck(u, d)
OwnCard(u, c) == Abstract!OwnCard(u, c)

ASSUME NoneIsNoRow == None \notin DeckRow \cup CardRow \cup Request

TypeOK ==
    /\ users \subseteq UserIds
    /\ decks \in [DeckIds -> DeckRow \cup {None}]
    /\ cards \in [CardIds -> CardRow \cup {None}]
    /\ usedDecks \subseteq DeckIds
    /\ usedCards \subseteq CardIds
    /\ req \in [Requests -> Request \cup {None}]
    /\ pc \in [Requests -> CheckSteps \cup PageSteps \cup Final \cup {"idle"}]
    /\ at \in [Requests -> DeckIds \cup {None}]
    /\ todo \in [Requests -> SUBSET DeckIds]
    /\ seen \in [Requests -> SUBSET CardIds]
    /\ \A r \in Requests :
          /\ (req[r] = None) = (pc[r] = "idle")
          /\ pc[r] \in {"deck", "again"} => at[r] # None

-----------------------------------------------------------------------------
Goto(r, step) == pc' = [pc EXCEPT ![r] = step]

Look(r, step) == Goto(r, step) /\ UNCHANGED <<tables, used, req, page>>

Init ==
    /\ users = UserIds
    /\ usedDecks \in SUBSET DeckIds /\ usedCards \in SUBSET CardIds
    /\ \A d \in DeckIds, e \in usedDecks : d < e => d \in usedDecks
    /\ \A c \in CardIds, e \in usedCards : c < e => c \in usedCards
    /\ decks \in [DeckIds -> DeckRow \cup {None}]
    /\ cards \in [CardIds -> [deck : usedDecks, text : Texts, reviews : {0}] \cup {None}]
    /\ \A d \in DeckIds : (decks[d] # None) = (d \in usedDecks)
    /\ \A c \in CardIds : (cards[c] # None) = (c \in usedCards)
    /\ req = [r \in Requests |-> None]
    /\ pc = [r \in Requests |-> "idle"]
    /\ at = [r \in Requests |-> None]
    /\ todo = [r \in Requests |-> {}]
    /\ seen = [r \in Requests |-> {}]

(* Ids come from earlier pages: any that was ever given out. *)
Arrive(r) ==
    /\ pc[r] = "idle"
    /\ \E q \in Request :
          /\ q.kind \in Abstract!DeckKinds => q.deck \in usedDecks
          /\ q.kind \in Abstract!CardKinds => q.card \in usedCards
          /\ req' = [req EXCEPT ![r] = q]
          /\ at' = [at EXCEPT ![r] = IF q.kind \in {"deck_page", "study_page"}
                                     THEN q.deck ELSE None]
          /\ Goto(r, CASE q.kind = "home" -> "decks"
                       [] q.kind \in {"deck_page", "study_page"} -> "deck"
                       [] q.kind = "rate" -> "card"
                       [] q.kind = "delete_user" -> "write"
                       [] OTHER -> "user")
    /\ UNCHANGED <<tables, used, todo, seen>>

-----------------------------------------------------------------------------
(* The look-ups before a write. *)
GetCard(r) ==
    /\ pc[r] = "card"
    /\ Look(r, IF OwnCard(req[r].user, req[r].card) THEN "user" ELSE "refused")

RequireUser(r) ==
    /\ pc[r] = "user"
    /\ Look(r, IF req[r].user \notin users THEN "refused"
               ELSE IF req[r].kind \in {"create_deck", "rename_deck", "delete_deck"}
                    THEN "write" ELSE "owned")

CheckOwned(r) ==
    /\ pc[r] = "owned"
    /\ LET q == req[r]
           owned == IF q.kind = "create_card" THEN OwnDeck(q.user, q.deck)
                                              ELSE OwnCard(q.user, q.card)
       IN  Look(r, IF owned THEN "write" ELSE "refused")

-----------------------------------------------------------------------------
(* The writes.  Each is followed by a redirect, or by the page itself when *)
(* the browser asked for a fragment.                                       *)
Writes(r, kind) == pc[r] = "write" /\ req[r].kind = kind

Answer(r, next) ==
    /\ \E step \in {"done", next} : Goto(r, step)
    /\ UNCHANGED <<req, todo, seen>>

(* A statement that matches no row. *)
NotFound(r) == Look(r, "refused")

FreshDeck(d) ==
    /\ d \notin usedDecks
    /\ \A e \in DeckIds \ usedDecks : d <= e

InsertDeck(r) ==
    /\ Writes(r, "create_deck")
    /\ IF req[r].user \notin users
       THEN NotFound(r)
       ELSE /\ \E d \in DeckIds :
                  /\ FreshDeck(d)
                  /\ decks' = [decks EXCEPT ![d] =
                                  [owner |-> req[r].user, name |-> req[r].name]]
                  /\ usedDecks' = usedDecks \cup {d}
            /\ Answer(r, "decks")
            /\ UNCHANGED <<users, cards, usedCards, at>>

(* UPDATE decks ... WHERE id = ? AND user_id = ? *)
UpdateDeck(r) ==
    /\ Writes(r, "rename_deck")
    /\ IF ~OwnDeck(req[r].user, req[r].deck)
       THEN NotFound(r)
       ELSE /\ decks' = [decks EXCEPT ![req[r].deck].name = req[r].name]
            /\ Answer(r, "decks")
            /\ UNCHANGED <<users, cards, used, at>>

(* Mutant: foreign keys are off, a deletion leaves the Cards behind. *)
Remove_NoCascade(goneDecks, goneCards) ==
    /\ decks' = [d \in DeckIds |-> IF d \in goneDecks THEN None ELSE decks[d]]
    /\ cards' = [c \in CardIds |-> IF c \in goneCards THEN None ELSE cards[c]]

(* ON DELETE CASCADE. *)
Remove(goneDecks, goneCards) == Abstract!Without(goneDecks, goneCards)

(* Mutant: the owner is not part of the condition. *)
DeleteDeck_ById(r) ==
    /\ Writes(r, "delete_deck")
    /\ IF decks[req[r].deck] = None
       THEN NotFound(r)
       ELSE /\ Remove({req[r].deck}, {})
            /\ Answer(r, "decks")
            /\ UNCHANGED <<users, used, at>>

DeleteDeck(r) ==
    /\ Writes(r, "delete_deck")
    /\ IF ~OwnDeck(req[r].user, req[r].deck)
       THEN NotFound(r)
       ELSE /\ Remove({req[r].deck}, {})
            /\ Answer(r, "decks")
            /\ UNCHANGED <<users, used, at>>

(* Mutant: ids without AUTOINCREMENT, one more than the largest present. *)
FreshCard_Reuses(c) ==
    /\ \A e \in CardIds : cards[e] # None => e < c
    /\ \A b \in CardIds : b < c => \E e \in CardIds : cards[e] # None /\ b <= e

FreshCard(c) ==
    /\ c \notin usedCards
    /\ \A e \in CardIds \ usedCards : c <= e

(* The foreign key checks that the Deck is still there, not whose it is. *)
InsertCard(r) ==
    /\ Writes(r, "create_card")
    /\ IF decks[req[r].deck] = None
       THEN NotFound(r)
       ELSE /\ \E c \in CardIds :
                  /\ FreshCard(c)
                  /\ cards' = [cards EXCEPT ![c] =
                        [deck |-> req[r].deck, text |-> req[r].text, reviews |-> 0]]
                  /\ usedCards' = usedCards \cup {c}
            /\ at' = [at EXCEPT ![r] = req[r].deck]
            /\ Answer(r, "deck")
            /\ UNCHANGED <<users, decks, usedDecks>>

(* The statements on a Card act WHERE id = ? and return its deck_id.       *)
(* Mutant: the Deck is not returned.                                       *)
PageOfDeck_Nowhere(r) ==
    /\ UNCHANGED at
    /\ Answer(r, "deck")

PageOfDeck(r) ==
    /\ at' = [at EXCEPT ![r] = cards[req[r].card].deck]
    /\ Answer(r, "deck")

UpdateCard(r) ==
    /\ Writes(r, "update_card")
    /\ IF cards[req[r].card] = None
       THEN NotFound(r)
       ELSE /\ cards' = [cards EXCEPT ![req[r].card].text = req[r].text]
            /\ PageOfDeck(r)
            /\ UNCHANGED <<users, decks, used>>

CommitReview(r) ==
    /\ Writes(r, "rate")
    /\ IF cards[req[r].card] = None
       THEN NotFound(r)
       ELSE /\ cards' = [cards EXCEPT ![req[r].card].reviews = @ + 1]
            /\ PageOfDeck(r)
            /\ UNCHANGED <<users, decks, used>>

DeleteCard(r) ==
    /\ Writes(r, "delete_card")
    /\ IF cards[req[r].card] = None
       THEN NotFound(r)
       ELSE /\ Remove({}, {req[r].card})
            /\ PageOfDeck(r)
            /\ UNCHANGED <<users, used>>

DeleteUser(r) ==
    /\ Writes(r, "delete_user")
    /\ IF req[r].user \notin users
       THEN NotFound(r)
       ELSE /\ users' = users \ {req[r].user}
            /\ Remove({d \in DeckIds : OwnDeck(req[r].user, d)}, {})
            /\ Answer(r, "done")
            /\ UNCHANGED <<used, at>>

-----------------------------------------------------------------------------
(* The pages. *)
Missing(r) == IF Reads(r) THEN "refused" ELSE "gone"

(* Mutant: the unscoped list_decks of db, lib.rs. *)
ListDecks_Unscoped(r) ==
    /\ pc[r] = "decks"
    /\ LET all == {d \in DeckIds : decks[d] # None} IN
          /\ todo' = [todo EXCEPT ![r] = all]
          /\ Goto(r, IF all = {} THEN "done" ELSE "cards")
    /\ UNCHANGED <<tables, used, req, at, seen>>

ListDecks(r) ==
    /\ pc[r] = "decks"
    /\ LET own == {d \in DeckIds : OwnDeck(req[r].user, d)} IN
          /\ todo' = [todo EXCEPT ![r] = own]
          /\ Goto(r, IF own = {} THEN "done" ELSE "cards")
    /\ UNCHANGED <<tables, used, req, at, seen>>

(* Mutant: the page after a change finds its Deck through the Card. *)
GetDeck_ByCard(r) ==
    /\ pc[r] = "deck"
    /\ LET q == req[r]
           found == IF q.kind \in Abstract!CardKinds THEN OwnCard(q.user, q.card)
                                                     ELSE OwnDeck(q.user, at[r])
       IN  Look(r, IF found THEN "again" ELSE Missing(r))

(* After a rating the next Card is chosen first, and the Deck is looked up *)
(* again for the page; elsewhere it is looked up twice before the Cards.   *)
GetDeck(r) ==
    /\ pc[r] = "deck"
    /\ LET found == OwnDeck(req[r].user, at[r]) IN
          IF found /\ req[r].kind = "rate"
          THEN /\ todo' = [todo EXCEPT ![r] = {at[r]}]
               /\ Goto(r, "cards")
               /\ UNCHANGED <<tables, used, req, at, seen>>
          ELSE Look(r, IF found THEN "again" ELSE Missing(r))

(* A Deck that is gone by now is an empty list for list_owned_card_text    *)
(* and an error for load_study_inputs and render_review.                   *)
GetDeckAgain(r) ==
    /\ pc[r] = "again"
    /\ LET found == OwnDeck(req[r].user, at[r]) IN
          CASE req[r].kind = "rate" -> Look(r, IF found THEN "done" ELSE "gone")
            [] req[r].kind # "rate" /\ found ->
                  /\ todo' = [todo EXCEPT ![r] = {at[r]}]
                  /\ Goto(r, "cards")
                  /\ UNCHANGED <<tables, used, req, at, seen>>
            [] OTHER -> Look(r, IF req[r].kind = "study_page" THEN "refused" ELSE "done")

(* SELECT ... FROM cards WHERE deck_id = ?, one Deck after the other. *)
ReadCards(r) ==
    /\ pc[r] = "cards"
    /\ \E d \in todo[r] :
          /\ \A e \in todo[r] : d <= e
          /\ seen' = [seen EXCEPT ![r] =
                @ \cup {c \in CardIds : cards[c] # None /\ cards[c].deck = d}]
          /\ todo' = [todo EXCEPT ![r] = @ \ {d}]
          /\ Goto(r, IF todo[r] # {d} THEN "cards"
                     ELSE IF req[r].kind = "rate" THEN "again" ELSE "done")
    /\ UNCHANGED <<tables, used, req, at>>

-----------------------------------------------------------------------------
(* A request is lost between two statements.  After it took effect only    *)
(* the rest of its page is lost, which the tables do not show.             *)
Lose(r) ==
    /\ pc[r] \in CheckSteps \cup PageSteps
    /\ Look(r, IF Open(r) THEN "lost" ELSE "done")

Serve(r) ==
    \/ GetCard(r) \/ RequireUser(r) \/ CheckOwned(r)
    \/ InsertDeck(r) \/ UpdateDeck(r) \/ DeleteDeck(r)
    \/ InsertCard(r) \/ UpdateCard(r) \/ CommitReview(r) \/ DeleteCard(r)
    \/ DeleteUser(r)
    \/ ListDecks(r) \/ GetDeck(r) \/ GetDeckAgain(r) \/ ReadCards(r)

Next == \E r \in Requests : Arrive(r) \/ Serve(r) \/ Lose(r)

Spec == Init /\ [][Next]_vars

-----------------------------------------------------------------------------
(* A row never outlives the row it refers to. *)
ForeignKeys ==
    /\ \A d \in DeckIds : decks[d] # None => decks[d].owner \in users
    /\ \A c \in CardIds : cards[c] # None => decks[cards[c].deck] # None

(* A page shows a User's own Cards only, although it reads the Cards by    *)
(* the id of a Deck that was looked up in an earlier statement.            *)
OwnRowsOnly ==
    [][\A r \in Requests, c \in CardIds :
          c \in seen'[r] \ seen[r] => OwnCard(req[r].user, c)]_vars

(* When a change has been made and its page answers "not found", the Deck  *)
(* has been deleted since, and the change with it.                         *)
NotFoundMeansGone ==
    \A r \in Requests : pc[r] = "gone" => decks[at[r]] = None

(* Every request takes effect, or is refused, as if at one instant, judged *)
(* by the owners at that instant: nobody changes the rows of another User, *)
(* and nobody is refused what was his all the time.                        *)
Refinement == Abstract!Spec
=============================================================================
