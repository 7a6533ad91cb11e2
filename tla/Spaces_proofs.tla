---------------------------- MODULE Spaces_proofs ----------------------------
(***************************************************************************)
(* The safety properties of Spaces, and that its statements implement the  *)
(* atomic operations of Ownership, for any number of Users, Decks, Cards   *)
(* and overlapping requests.                                               *)
(*                                                                         *)
(* What a request has looked up may be gone by its next statement, but it  *)
(* can never belong to somebody else: a row under an id that was given out *)
(* is deleted or keeps its owner (Evolves).  The invariant says of every   *)
(* request past a look-up that its row is its User's or gone (Fits).       *)
(***************************************************************************)
EXTENDS Spaces, TLAPS

DeckKinds == Abstract!DeckKinds
CardKinds == Abstract!CardKinds

(* The Deck, or the Card, is the User's or gone. *)
Held(u, d) == decks[d] # None => decks[d].owner = u
HeldCard(u, c) == cards[c] # None => Held(u, cards[c].deck)

(* The requests that may be at a statement. *)
KindFits(q, step) ==
    /\ step = "card" => q.kind = "rate"
    /\ step \in {"user", "write"} => q.kind \notin ReadKinds
    /\ step = "user" => q.kind # "delete_user"
    /\ step = "owned" => q.kind \in CardKinds \cup {"create_card"}
    /\ step = "decks" => q.kind \in {"home", "create_deck", "rename_deck", "delete_deck"}
    /\ step \in {"deck", "again"} =>
          q.kind \in CardKinds \cup {"deck_page", "study_page", "create_card"}

(* Ids that a request names were given out before it arrived. *)
Known(q) ==
    /\ q.kind \in DeckKinds => q.deck \in usedDecks
    /\ q.kind \in CardKinds => q.card \in usedCards

(* What a request may do without looking again. *)
Checked(q, step) ==
    step = "write" =>
        /\ q.kind = "create_card" => Held(q.user, q.deck)
        /\ q.kind \in CardKinds => HeldCard(q.user, q.card)

(* The Decks that its page is about. *)
PageFits(q, step, a, ds) ==
    /\ a # None => a \in usedDecks
    /\ step \in {"deck", "again", "gone"} => a # None
    /\ q.kind \in {"deck_page", "study_page"} => a = q.deck
    /\ step = "deck" /\ q.kind \notin ReadKinds => Held(q.user, a)
    /\ step = "again" => Held(q.user, a)
    /\ step = "cards" /\ q.kind = "rate" => a # None /\ Held(q.user, a)
    /\ step = "gone" => decks[a] = None
    /\ step = "cards" => \A d \in ds : d \in usedDecks /\ Held(q.user, d)

Fits(q, step, a, ds) ==
    Known(q) /\ KindFits(q, step) /\ Checked(q, step) /\ PageFits(q, step, a, ds)

RequestsInv ==
    \A r \in Requests : req[r] # None => Fits(req[r], pc[r], at[r], todo[r])

(* Only ids that were given out have rows. *)
IdsInv ==
    /\ \A d \in DeckIds : decks[d] # None => d \in usedDecks
    /\ \A c \in CardIds : cards[c] # None => c \in usedCards

IInv == TypeOK /\ ForeignKeys /\ IdsInv /\ RequestsInv

-----------------------------------------------------------------------------
(* What a request carries. *)
LEMMA RequestFields ==
    ASSUME NEW q \in Request
    PROVE  /\ q # None
           /\ q.user \in UserIds
           /\ q.kind \in {"home", "deck_page", "study_page", "create_deck", "delete_user",
                          "rename_deck", "delete_deck", "create_card"} \cup CardKinds
           /\ q.kind \in DeckKinds => q.deck \in DeckIds
           /\ q.kind \in CardKinds => q.card \in CardIds
           /\ q.kind \in {"create_deck", "rename_deck"} => q.name \in Names
           /\ q.kind \in {"create_card", "update_card"} => q.text \in Texts
<1>1. q # None
  BY NoneIsNoRow
<1> QED
  BY <1>1 DEF Request, Abstract!Request, DeckKinds, CardKinds,
              Abstract!DeckKinds, Abstract!CardKinds

LEMMA RowFields ==
    /\ \A row \in DeckRow : row # None /\ row.owner \in UserIds /\ row.name \in Names
    /\ \A row \in CardRow : row # None /\ row.deck \in DeckIds /\ row.text \in Texts
                              /\ row.reviews \in Nat
<1>1. None \notin DeckRow /\ None \notin CardRow
  BY NoneIsNoRow
<1> QED
  BY <1>1 DEF DeckRow, CardRow, Abstract!Deck, Abstract!Card

-----------------------------------------------------------------------------
(* The ways in which a step may change the tables. *)
Evolves ==
    /\ usedDecks \subseteq usedDecks' /\ usedCards \subseteq usedCards'
    /\ \A d \in usedDecks :
          \/ decks'[d] = None
          \/ decks[d] # None /\ decks'[d] # None /\ decks'[d].owner = decks[d].owner
    /\ \A c \in usedCards :
          \/ cards'[c] = None
          \/ cards[c] # None /\ cards'[c] # None /\ cards'[c].deck = cards[c].deck

(* Whatever the others do, a request may rely on what it relied on. *)
LEMMA FitsStable ==
    ASSUME IInv, Evolves, NEW q \in Request, NEW step, NEW a, NEW ds,
           Fits(q, step, a, ds)
    PROVE  Fits(q, step, a, ds)'
<1>1. \A u : \A d \in usedDecks : Held(u, d) => Held(u, d)'
  BY DEF Held, Evolves
<1>2. ASSUME NEW u, NEW c \in usedCards, HeldCard(u, c)
      PROVE  HeldCard(u, c)'
  <2> SUFFICES ASSUME cards'[c] # None
               PROVE  decks'[cards'[c].deck] # None => decks'[cards'[c].deck].owner = u
    BY DEF HeldCard, Held
  <2>1. cards[c] # None /\ cards'[c].deck = cards[c].deck
    BY DEF Evolves
  <2>2. cards[c].deck \in usedDecks
    <3>1. c \in CardIds /\ cards[c] \in CardRow /\ cards[c].deck \in DeckIds
      BY <2>1, RowFields DEF IInv, TypeOK
    <3>2. decks[cards[c].deck] # None
      BY <2>1, <3>1 DEF IInv, ForeignKeys
    <3> QED
      BY <3>1, <3>2 DEF IInv, IdsInv
  <2> QED
    BY <1>2, <2>1, <2>2 DEF HeldCard, Held, Evolves
<1>3. Known(q)' /\ KindFits(q, step)'
  BY DEF Fits, Known, KindFits, Evolves
<1>4. Checked(q, step)'
  BY <1>1, <1>2 DEF Fits, Checked, Known, DeckKinds, Abstract!DeckKinds
<1>5. PageFits(q, step, a, ds)'
  BY <1>1 DEF Fits, PageFits, Evolves
<1> QED
  BY <1>3, <1>4, <1>5 DEF Fits

LEMMA FitsUnchanged ==
    ASSUME UNCHANGED <<tables, used>>, NEW q, NEW step, NEW a, NEW ds, Fits(q, step, a, ds)
    PROVE  Fits(q, step, a, ds)'
BY DEF tables, used, Fits, Known, KindFits, Checked, PageFits, Held, HeldCard

(* A request that has arrived. *)
LEMMA AtStep ==
    ASSUME IInv, NEW r \in Requests, pc[r] # "idle"
    PROVE  /\ req[r] \in Request /\ req[r] # None
           /\ at[r] \in DeckIds \cup {None} /\ todo[r] \in SUBSET DeckIds
           /\ Fits(req[r], pc[r], at[r], todo[r])
<1>1. req[r] # None /\ req[r] \in Request
  BY DEF IInv, TypeOK
<1> QED
  BY <1>1 DEF IInv, TypeOK, RequestsInv

-----------------------------------------------------------------------------
Steps == CheckSteps \cup PageSteps \cup Final

TablesTyped ==
    /\ users \subseteq UserIds
    /\ decks \in [DeckIds -> DeckRow \cup {None}]
    /\ cards \in [CardIds -> CardRow \cup {None}]
    /\ usedDecks \subseteq DeckIds
    /\ usedCards \subseteq CardIds

(* Request r goes on to another statement. *)
Moves(r, step, a, ds) ==
    /\ req' = req
    /\ pc' = [pc EXCEPT ![r] = step]
    /\ at' = [at EXCEPT ![r] = a]
    /\ todo' = [todo EXCEPT ![r] = ds]

(* Every step of a request keeps what the other requests rely on. *)
LEMMA StepOfRequest ==
    ASSUME IInv, NEW r \in Requests, pc[r] # "idle", NEW step \in Steps,
           NEW a \in DeckIds \cup {None}, NEW ds \in SUBSET DeckIds,
           Moves(r, step, a, ds), seen' \in [Requests -> SUBSET CardIds],
           TablesTyped', ForeignKeys', IdsInv', Evolves,
           Fits(req[r], step, a, ds)'
    PROVE  IInv'
<1>1. TypeOK'
  <2>1. step \in {"deck", "again"} => a # None
    BY DEF Fits, PageFits
  <2>2. req[r] # None /\ step # "idle"
    BY AtStep DEF Steps, CheckSteps, PageSteps, Final
  <2> QED
    BY <2>1, <2>2 DEF IInv, TypeOK, TablesTyped, Moves, Steps
<1>2. RequestsInv'
  <2> SUFFICES ASSUME NEW x \in Requests, req'[x] # None
               PROVE  Fits(req[x], pc[x], at[x], todo[x])'
    BY DEF RequestsInv
  <2>1. CASE x = r
    BY <2>1 DEF Moves, IInv, TypeOK
  <2>2. CASE x # r
    <3>1. /\ req'[x] = req[x] /\ pc'[x] = pc[x] /\ at'[x] = at[x] /\ todo'[x] = todo[x]
      BY <2>2 DEF Moves, IInv, TypeOK
    <3>2. Fits(req[x], pc[x], at[x], todo[x]) /\ req[x] \in Request
      BY <3>1 DEF IInv, TypeOK, RequestsInv
    <3>3. ASSUME NEW q \in Request, NEW p, NEW b, NEW es, Fits(q, p, b, es)
          PROVE  Fits(q, p, b, es)'
      BY <3>3, FitsStable
    <3> QED
      BY <3>1, <3>2, <3>3
  <2> QED
    BY <2>1, <2>2
<1> QED
  BY <1>1, <1>2 DEF IInv

(* A statement that leaves the tables alone. *)
LEMMA StepOfReader ==
    ASSUME IInv, NEW r \in Requests, pc[r] # "idle", NEW step \in Steps,
           NEW a \in DeckIds \cup {None}, NEW ds \in SUBSET DeckIds,
           Moves(r, step, a, ds), seen' \in [Requests -> SUBSET CardIds],
           UNCHANGED <<tables, used>>, Fits(req[r], step, a, ds)
    PROVE  IInv'
<1>1. Fits(req[r], step, a, ds)'
  <2>1. req' = req
    BY DEF Moves
  <2>2. ASSUME NEW q PROVE Fits(q, step, a, ds) => Fits(q, step, a, ds)'
    BY FitsUnchanged
  <2> QED
    BY <2>1, <2>2
<1>2. TablesTyped' /\ ForeignKeys' /\ IdsInv' /\ Evolves
  BY DEF IInv, TypeOK, TablesTyped, ForeignKeys, IdsInv, Evolves, tables, used
<1> QED
  BY <1>1, <1>2, StepOfRequest

LEMMA StepOfLook ==
    ASSUME IInv, NEW r \in Requests, pc[r] # "idle", NEW step \in Steps,
           Look(r, step), Fits(req[r], step, at[r], todo[r])
    PROVE  IInv'
<1>1. /\ Moves(r, step, at[r], todo[r]) /\ seen' \in [Requests -> SUBSET CardIds]
      /\ UNCHANGED <<tables, used>>
  BY DEF Look, Goto, page, Moves, IInv, TypeOK
<1> QED
  BY <1>1, AtStep, StepOfReader

LEMMA FitsAtEnd ==
    ASSUME NEW q, NEW step, NEW a, NEW ds, Fits(q, step, a, ds),
           NEW end \in {"done", "refused", "lost"}
    PROVE  Fits(q, end, a, ds)
BY DEF Fits, KindFits, Checked, PageFits

LEMMA StepOfEnd ==
    ASSUME IInv, NEW r \in Requests, pc[r] # "idle",
           NEW end \in {"done", "refused", "lost"}, Look(r, end)
    PROVE  IInv'
<1>1. Fits(req[r], end, at[r], todo[r])
  BY AtStep, FitsAtEnd
<1> QED
  BY <1>1, StepOfLook DEF Steps, Final

-----------------------------------------------------------------------------
(* A request arrives with ids that were given out. *)
LEMMA StepArrive ==
    ASSUME IInv, NEW r \in Requests, Arrive(r)
    PROVE  IInv'
<1>1. PICK q \in Request, step \in Steps, a \in DeckIds \cup {None} :
         /\ Known(q)
         /\ req' = [req EXCEPT ![r] = q]
         /\ pc' = [pc EXCEPT ![r] = step]
         /\ at' = [at EXCEPT ![r] = a]
         /\ a = IF q.kind \in {"deck_page", "study_page"} THEN q.deck ELSE None
         /\ step = CASE q.kind = "home" -> "decks"
                     [] q.kind \in {"deck_page", "study_page"} -> "deck"
                     [] q.kind = "rate" -> "card"
                     [] q.kind = "delete_user" -> "write"
                     [] OTHER -> "user"
  <2>1. PICK q \in Request :
           /\ q.kind \in DeckKinds => q.deck \in usedDecks
           /\ q.kind \in CardKinds => q.card \in usedCards
           /\ req' = [req EXCEPT ![r] = q]
           /\ at' = [at EXCEPT ![r] = IF q.kind \in {"deck_page", "study_page"}
                                      THEN q.deck ELSE None]
           /\ Goto(r, CASE q.kind = "home" -> "decks"
                        [] q.kind \in {"deck_page", "study_page"} -> "deck"
                        [] q.kind = "rate" -> "card"
                        [] q.kind = "delete_user" -> "write"
                        [] OTHER -> "user")
    BY DEF Arrive, DeckKinds, CardKinds
  <2> DEFINE step == CASE q.kind = "home" -> "decks"
                       [] q.kind \in {"deck_page", "study_page"} -> "deck"
                       [] q.kind = "rate" -> "card"
                       [] q.kind = "delete_user" -> "write"
                       [] OTHER -> "user"
             a == IF q.kind \in {"deck_page", "study_page"} THEN q.deck ELSE None
  <2>2. step \in {"decks", "deck", "card", "write", "user"}
    OBVIOUS
  <2>3. a \in DeckIds \cup {None}
    BY RequestFields DEF DeckKinds, Abstract!DeckKinds
  <2>4. step \in Steps
    BY <2>2 DEF Steps, CheckSteps, PageSteps
  <2> HIDE DEF step, a
  <2>5. /\ Known(q) /\ at' = [at EXCEPT ![r] = a] /\ pc' = [pc EXCEPT ![r] = step]
    BY <2>1 DEF Known, step, a, Goto
  <2> QED
    BY <2>1, <2>3, <2>4, <2>5 DEF step, a
<1>2. UNCHANGED <<tables, used, todo, seen>>
  BY DEF Arrive
<1>3. q.kind \in {"deck_page", "study_page"} => q.deck # None /\ q.deck \in usedDecks
  BY <1>1, RequestFields, SpacesAssumption DEF Known, DeckKinds, Abstract!DeckKinds
<1>4. Fits(q, step, a, todo[r])
  <2>1. KindFits(q, step)
    BY <1>1, RequestFields DEF KindFits, ReadKinds, CardKinds, Abstract!CardKinds
  <2>2. Checked(q, step)
    BY <1>1 DEF Checked, CardKinds, Abstract!CardKinds
  <2>3. PageFits(q, step, a, todo[r])
    BY <1>1, <1>3 DEF PageFits, ReadKinds
  <2> QED
    BY <1>1, <2>1, <2>2, <2>3 DEF Fits
<1>5. RequestsInv'
  <2> SUFFICES ASSUME NEW x \in Requests, req'[x] # None
               PROVE  Fits(req[x], pc[x], at[x], todo[x])'
    BY DEF RequestsInv
  <2>1. Fits(req'[x], pc'[x], at'[x], todo[x])
    BY <1>1, <1>4 DEF IInv, TypeOK, RequestsInv
  <2>2. ASSUME NEW p, NEW n, NEW b, NEW es, Fits(p, n, b, es)
        PROVE  Fits(p, n, b, es)'
    BY <1>2, <2>2, FitsUnchanged
  <2> QED
    BY <1>2, <2>1, <2>2
<1>6. TypeOK'
  <2>1. q # None /\ step # "idle" /\ (step \in {"deck", "again"} => a # None)
    BY <1>1, <1>3, RequestFields
  <2> QED
    BY <1>1, <1>2, <2>1 DEF IInv, TypeOK, tables, used, Steps
<1> QED
  BY <1>2, <1>5, <1>6 DEF IInv, ForeignKeys, IdsInv, tables, used

(* The look-ups before a write. *)
LEMMA StepGetCard ==
    ASSUME IInv, NEW r \in Requests, GetCard(r)
    PROVE  IInv'
<1>1. pc[r] = "card" /\ (Look(r, "user") \/ Look(r, "refused"))
  BY DEF GetCard
<1>2. Fits(req[r], "user", at[r], todo[r])
  BY <1>1, AtStep DEF Fits, KindFits, Checked, PageFits, ReadKinds
<1> QED
  BY <1>1, <1>2, StepOfLook, StepOfEnd DEF Steps, CheckSteps

LEMMA StepRequireUser ==
    ASSUME IInv, NEW r \in Requests, RequireUser(r)
    PROVE  IInv'
<1> DEFINE q == req[r]
<1>1. pc[r] = "user" /\ q \in Request /\ Fits(q, "user", at[r], todo[r])
  BY AtStep DEF RequireUser
<1>2. CASE Look(r, "refused")
  BY <1>1, <1>2, StepOfEnd
<1>3. CASE Look(r, "write") /\ q.kind \in {"create_deck", "rename_deck", "delete_deck"}
  <2>1. Fits(q, "write", at[r], todo[r])
    BY <1>1, <1>3 DEF Fits, KindFits, Checked, PageFits, CardKinds, Abstract!CardKinds
  <2> QED
    BY <1>1, <1>3, <2>1, StepOfLook DEF Steps, CheckSteps
<1>4. CASE Look(r, "owned") /\ q.kind \notin {"create_deck", "rename_deck", "delete_deck"}
  <2>1. q.kind \in CardKinds \cup {"create_card"}
    BY <1>1, <1>4, RequestFields DEF Fits, KindFits, ReadKinds
  <2>2. Fits(q, "owned", at[r], todo[r])
    BY <1>1, <2>1 DEF Fits, KindFits, Checked, PageFits
  <2> QED
    BY <1>1, <1>4, <2>2, StepOfLook DEF Steps, CheckSteps
<1> QED
  BY <1>2, <1>3, <1>4 DEF RequireUser

LEMMA StepCheckOwned ==
    ASSUME IInv, NEW r \in Requests, CheckOwned(r)
    PROVE  IInv'
<1> DEFINE q == req[r]
<1>1. pc[r] = "owned" /\ q \in Request /\ Fits(q, "owned", at[r], todo[r])
  BY AtStep DEF CheckOwned
<1>2. CASE Look(r, "refused")
  BY <1>1, <1>2, StepOfEnd
<1>3. CASE /\ Look(r, "write")
           /\ IF q.kind = "create_card" THEN OwnDeck(q.user, q.deck)
                                        ELSE OwnCard(q.user, q.card)
  <2>1. Checked(q, "write")
    BY <1>3 DEF Checked, OwnDeck, OwnCard, Abstract!OwnDeck, Abstract!OwnCard,
                Held, HeldCard, CardKinds, Abstract!CardKinds
  <2>2. Fits(q, "write", at[r], todo[r])
    BY <1>1, <2>1 DEF Fits, KindFits, PageFits, ReadKinds, CardKinds, Abstract!CardKinds
  <2> QED
    BY <1>1, <1>3, <2>2, StepOfLook DEF Steps, CheckSteps
<1> QED
  BY <1>2, <1>3 DEF CheckOwned

-----------------------------------------------------------------------------
(* The tables are in order, and nobody has lost what was his. *)
TablesKept == TablesTyped' /\ ForeignKeys' /\ IdsInv' /\ Evolves

(* A write, after which the browser is redirected or shown a page. *)
LEMMA StepOfWriter ==
    ASSUME IInv, NEW r \in Requests, pc[r] = "write", TablesKept,
           NEW step \in {"done", "decks", "deck"}, NEW a \in DeckIds \cup {None},
           Moves(r, step, a, todo[r]), seen' = seen,
           a # None => a \in usedDecks,
           step = "decks" =>
              req[r].kind \in {"create_deck", "rename_deck", "delete_deck"},
           step = "deck" =>
              /\ req[r].kind \in CardKinds \cup {"create_card"}
              /\ a # None /\ Held(req[r].user, a)
    PROVE  IInv'
<1> DEFINE q == req[r]
<1>1. q \in Request /\ Fits(q, "write", at[r], todo[r]) /\ todo[r] \in SUBSET DeckIds
  BY AtStep
<1>2. q.kind \notin ReadKinds
  BY <1>1 DEF Fits, KindFits
<1>3. Fits(q, step, a, todo[r])
  <2>1. KindFits(q, step) /\ Checked(q, step)
    BY <1>2 DEF KindFits, Checked
  <2>2. PageFits(q, step, a, todo[r])
    BY <1>2 DEF PageFits, ReadKinds
  <2> QED
    BY <1>1, <2>1, <2>2 DEF Fits
<1>4. PICK ds \in SUBSET DeckIds : ds = todo[r]
  BY <1>1
<1>5. Fits(q, step, a, ds)'
  <2>1. ASSUME NEW p \in Request, Fits(p, step, a, ds)
        PROVE  Fits(p, step, a, ds)'
    BY <2>1, FitsStable DEF TablesKept
  <2> QED
    BY <1>1, <1>3, <1>4, <2>1 DEF Moves
<1>6. seen' \in [Requests -> SUBSET CardIds]
  BY DEF IInv, TypeOK
<1> QED
  BY <1>4, <1>5, <1>6, StepOfRequest DEF TablesKept, Steps, Final, PageSteps

(* Rows that are deleted, with the rows that refer to them. *)
LEMMA RemoveKeeps ==
    ASSUME IInv, NEW goneDecks, NEW goneCards, Remove(goneDecks, goneCards),
           UNCHANGED used, users' \subseteq users,
           \A d \in DeckIds :
              (decks[d] # None /\ d \notin goneDecks) => decks[d].owner \in users'
    PROVE  TablesKept
<1>1. /\ decks' = [d \in DeckIds |-> IF d \in goneDecks THEN None ELSE decks[d]]
      /\ cards' = [c \in CardIds |->
            IF cards[c] = None \/ c \in goneCards \/ cards[c].deck \in goneDecks
            THEN None ELSE cards[c]]
  BY DEF Remove, Abstract!Without
<1>2. TablesTyped' /\ IdsInv'
  BY <1>1 DEF IInv, TypeOK, IdsInv, TablesTyped, used
<1>3. ForeignKeys'
  <2>1. \A d \in DeckIds : decks'[d] # None => decks'[d].owner \in users'
    BY <1>1
  <2>2. ASSUME NEW c \in CardIds, cards'[c] # None
        PROVE  decks'[cards'[c].deck] # None
    <3>1. cards[c] # None /\ cards'[c] = cards[c] /\ cards[c].deck \notin goneDecks
      BY <1>1, <2>2
    <3>2. cards[c].deck \in DeckIds /\ decks[cards[c].deck] # None
      BY <3>1, RowFields DEF IInv, TypeOK, ForeignKeys
    <3> QED
      BY <1>1, <3>1, <3>2
  <2> QED
    BY <2>1, <2>2 DEF ForeignKeys
<1>4. Evolves
  BY <1>1 DEF Evolves, used, IInv, TypeOK
<1> QED
  BY <1>2, <1>3, <1>4 DEF TablesKept

(* The variables that Answer leaves to a request, and the page it opens. *)
LEMMA AnswerMoves ==
    ASSUME IInv, NEW r \in Requests, NEW next, Answer(r, next),
           NEW a, at' = [at EXCEPT ![r] = a]
    PROVE  \E step \in {"done", next} : Moves(r, step, a, todo[r]) /\ seen' = seen
BY DEF Answer, Goto, Moves, IInv, TypeOK

(* The statements that change one Deck. *)
LEMMA StepInsertDeck ==
    ASSUME IInv, NEW r \in Requests, InsertDeck(r)
    PROVE  IInv'
<1> DEFINE q == req[r]
<1>1. /\ pc[r] = "write" /\ q.kind = "create_deck" /\ q \in Request
      /\ at[r] \in DeckIds \cup {None} /\ (at[r] # None => at[r] \in usedDecks)
  BY AtStep DEF InsertDeck, Writes, Fits, PageFits
<1>2. CASE NotFound(r)
  BY <1>1, <1>2, StepOfEnd DEF NotFound
<1>3. CASE q.user \in users /\ ~NotFound(r)
  <2>1. PICK d \in DeckIds :
           /\ FreshDeck(d)
           /\ decks' = [decks EXCEPT ![d] = [owner |-> q.user, name |-> q.name]]
           /\ usedDecks' = usedDecks \cup {d}
    BY <1>3 DEF InsertDeck
  <2>2. Answer(r, "decks") /\ UNCHANGED <<users, cards, usedCards, at>>
    BY <1>3 DEF InsertDeck
  <2>3. [owner |-> q.user, name |-> q.name] \in DeckRow
    BY <1>1, RequestFields DEF DeckRow, Abstract!Deck
  <2>4. d \notin usedDecks /\ decks[d] = None
    BY <2>1 DEF FreshDeck, IInv, IdsInv
  <2>5. TablesTyped' /\ IdsInv'
    BY <2>1, <2>2, <2>3 DEF TablesTyped, IInv, TypeOK, IdsInv
  <2>6. ForeignKeys'
    BY <1>3, <2>1, <2>2, <2>3, RowFields DEF IInv, TypeOK, ForeignKeys
  <2>7. Evolves
    BY <2>1, <2>2, <2>4 DEF Evolves, IInv, TypeOK
  <2>8. \E step \in {"done", "decks"} : Moves(r, step, at[r], todo[r]) /\ seen' = seen
    BY <2>2, AnswerMoves DEF IInv, TypeOK
  <2> QED
    BY <1>1, <2>5, <2>6, <2>7, <2>8, StepOfWriter DEF TablesKept
<1> QED
  BY <1>2, <1>3 DEF InsertDeck

LEMMA StepUpdateDeck ==
    ASSUME IInv, NEW r \in Requests, UpdateDeck(r)
    PROVE  IInv'
<1> DEFINE q == req[r]
<1>1. /\ pc[r] = "write" /\ q.kind = "rename_deck" /\ q \in Request
      /\ at[r] \in DeckIds \cup {None} /\ (at[r] # None => at[r] \in usedDecks)
  BY AtStep DEF UpdateDeck, Writes, Fits, PageFits
<1>2. CASE NotFound(r)
  BY <1>1, <1>2, StepOfEnd DEF NotFound
<1>3. CASE OwnDeck(q.user, q.deck) /\ ~NotFound(r)
  <2>1. /\ decks' = [decks EXCEPT ![q.deck].name = q.name]
        /\ Answer(r, "decks") /\ UNCHANGED <<users, cards, used, at>>
    BY <1>3 DEF UpdateDeck
  <2>2. q.deck \in DeckIds /\ q.name \in Names /\ decks[q.deck] \in DeckRow
    <3>1. decks[q.deck] # None
      BY <1>3 DEF OwnDeck, Abstract!OwnDeck
    <3> QED
      BY <1>1, <3>1, RequestFields DEF DeckKinds, Abstract!DeckKinds, IInv, TypeOK
  <2>3. /\ [decks[q.deck] EXCEPT !.name = q.name] \in DeckRow
        /\ [decks[q.deck] EXCEPT !.name = q.name].owner = decks[q.deck].owner
    BY <2>2 DEF DeckRow, Abstract!Deck
  <2>4. TablesTyped' /\ IdsInv'
    <3> DEFINE row == [decks[q.deck] EXCEPT !.name = q.name]
    <3>1. decks' = [decks EXCEPT ![q.deck] = row] /\ row \in DeckRow /\ row # None
      BY <2>1, <2>2, <2>3, RowFields DEF IInv, TypeOK
    <3>2. decks[q.deck] # None
      BY <2>2, RowFields
    <3> HIDE DEF row
    <3> QED
      BY <2>1, <2>2, <3>1, <3>2 DEF TablesTyped, IInv, TypeOK, IdsInv, used
  <2>5. \A d \in DeckIds : /\ (decks'[d] = None) = (decks[d] = None)
                           /\ decks[d] # None => decks'[d].owner = decks[d].owner
    BY <2>1, <2>2, <2>3, RowFields DEF IInv, TypeOK
  <2>6. ForeignKeys'
    BY <2>1, <2>5, RowFields DEF IInv, TypeOK, ForeignKeys
  <2>7. Evolves
    BY <2>1, <2>5 DEF Evolves, IInv, TypeOK, used
  <2>8. \E step \in {"done", "decks"} : Moves(r, step, at[r], todo[r]) /\ seen' = seen
    BY <2>1, AnswerMoves DEF IInv, TypeOK
  <2> QED
    BY <1>1, <2>4, <2>6, <2>7, <2>8, StepOfWriter DEF TablesKept
<1> QED
  BY <1>2, <1>3 DEF UpdateDeck

LEMMA StepDeleteDeck ==
    ASSUME IInv, NEW r \in Requests, DeleteDeck(r)
    PROVE  IInv'
<1> DEFINE q == req[r]
<1>1. /\ pc[r] = "write" /\ q.kind = "delete_deck" /\ q \in Request
      /\ at[r] \in DeckIds \cup {None} /\ (at[r] # None => at[r] \in usedDecks)
  BY AtStep DEF DeleteDeck, Writes, Fits, PageFits
<1>2. CASE NotFound(r)
  BY <1>1, <1>2, StepOfEnd DEF NotFound
<1>3. CASE ~NotFound(r)
  <2>1. /\ Remove({q.deck}, {}) /\ Answer(r, "decks") /\ UNCHANGED <<users, used, at>>
    BY <1>3 DEF DeleteDeck
  <2>2. TablesKept
    BY <2>1, RemoveKeeps DEF IInv, ForeignKeys
  <2>3. \E step \in {"done", "decks"} : Moves(r, step, at[r], todo[r]) /\ seen' = seen
    BY <2>1, AnswerMoves DEF IInv, TypeOK
  <2> QED
    BY <1>1, <2>2, <2>3, StepOfWriter
<1> QED
  BY <1>2, <1>3

(* The statements that change one Card. *)
LEMMA StepInsertCard ==
    ASSUME IInv, NEW r \in Requests, InsertCard(r)
    PROVE  IInv'
<1> DEFINE q == req[r]
           deck == q.deck
<1>1. /\ pc[r] = "write" /\ q.kind = "create_card" /\ q \in Request
      /\ deck \in DeckIds /\ q.text \in Texts /\ deck \in usedDecks /\ Held(q.user, deck)
  BY AtStep, RequestFields
     DEF InsertCard, Writes, Fits, Known, Checked, DeckKinds, Abstract!DeckKinds
<1>2. CASE NotFound(r)
  BY <1>1, <1>2, StepOfEnd DEF NotFound
<1>3. CASE decks[deck] # None /\ ~NotFound(r)
  <2>1. PICK c \in CardIds :
           /\ FreshCard(c)
           /\ cards' = [cards EXCEPT ![c] =
                           [deck |-> deck, text |-> q.text, reviews |-> 0]]
           /\ usedCards' = usedCards \cup {c}
    BY <1>3 DEF InsertCard
  <2>2. /\ at' = [at EXCEPT ![r] = deck] /\ Answer(r, "deck")
        /\ UNCHANGED <<users, decks, usedDecks>>
    BY <1>3 DEF InsertCard
  <2> DEFINE row == [deck |-> deck, text |-> q.text, reviews |-> 0]
  <2>3. row \in CardRow /\ row.deck = deck
    BY <1>1 DEF CardRow, Abstract!Card
  <2>4. c \notin usedCards /\ cards[c] = None
    BY <2>1 DEF FreshCard, IInv, IdsInv
  <2>5. TablesTyped' /\ IdsInv'
    BY <2>1, <2>2, <2>3 DEF TablesTyped, IInv, TypeOK, IdsInv
  <2>6. ForeignKeys'
    BY <1>3, <2>1, <2>2, <2>3 DEF IInv, TypeOK, ForeignKeys
  <2>7. Evolves
    BY <2>1, <2>2, <2>4 DEF Evolves, IInv, TypeOK
  <2>8. \E step \in {"done", "deck"} : Moves(r, step, deck, todo[r]) /\ seen' = seen
    BY <2>2, AnswerMoves
  <2>9. deck # None
    BY <1>1, SpacesAssumption
  <2> QED
    BY <1>1, <2>5, <2>6, <2>7, <2>8, <2>9, StepOfWriter DEF TablesKept
<1> QED
  BY <1>2, <1>3 DEF InsertCard

(* The statements on a Card that was looked up return its Deck. *)
LEMMA CardAtWrite ==
    ASSUME IInv, NEW r \in Requests, pc[r] = "write", req[r].kind \in CardKinds,
           cards[req[r].card] # None
    PROVE  /\ req[r].card \in CardIds /\ cards[req[r].card] \in CardRow
           /\ cards[req[r].card].deck \in usedDecks
           /\ cards[req[r].card].deck \in DeckIds /\ cards[req[r].card].deck # None
           /\ Held(req[r].user, cards[req[r].card].deck)
<1> DEFINE q == req[r]
<1>1. q \in Request /\ HeldCard(q.user, q.card)
  BY AtStep DEF Fits, Checked
<1>2. q.card \in CardIds /\ cards[q.card] \in CardRow
  BY <1>1, RequestFields DEF IInv, TypeOK
<1>3. cards[q.card].deck \in DeckIds
  BY <1>2, RowFields
<1>4. decks[cards[q.card].deck] # None
  BY <1>2 DEF IInv, ForeignKeys
<1> QED
  BY <1>1, <1>2, <1>3, <1>4, SpacesAssumption DEF HeldCard, IInv, IdsInv

LEMMA StepOfCardWriter ==
    ASSUME IInv, NEW r \in Requests, pc[r] = "write", req[r].kind \in CardKinds,
           cards[req[r].card] # None, PageOfDeck(r), TablesKept
    PROVE  IInv'
<1> DEFINE deck == cards[req[r].card].deck
<1>1. \E step \in {"done", "deck"} : Moves(r, step, deck, todo[r]) /\ seen' = seen
  BY AnswerMoves DEF PageOfDeck
<1>2. deck \in DeckIds /\ deck # None /\ deck \in usedDecks /\ Held(req[r].user, deck)
  BY CardAtWrite
<1> HIDE DEF deck
<1> QED
  BY <1>1, <1>2, StepOfWriter

(* A row that is rewritten under its id, for the same Deck. *)
LEMMA RewriteKeeps ==
    ASSUME IInv, NEW c \in CardIds, NEW row \in CardRow, cards[c] \in CardRow,
           row.deck = cards[c].deck, cards' = [cards EXCEPT ![c] = row],
           UNCHANGED <<users, decks, used>>
    PROVE  TablesKept
<1>1. TablesTyped' /\ ForeignKeys' /\ IdsInv'
  BY RowFields DEF TablesTyped, IInv, TypeOK, IdsInv, ForeignKeys, used
<1>2. Evolves
  BY RowFields DEF Evolves, IInv, TypeOK, used
<1> QED
  BY <1>1, <1>2 DEF TablesKept

LEMMA StepUpdateCard ==
    ASSUME IInv, NEW r \in Requests, UpdateCard(r)
    PROVE  IInv'
<1> DEFINE q == req[r]
<1>1. pc[r] = "write" /\ q.kind = "update_card" /\ q.kind \in CardKinds /\ q \in Request
  BY AtStep DEF UpdateCard, Writes, CardKinds, Abstract!CardKinds
<1>2. CASE NotFound(r)
  BY <1>1, <1>2, StepOfEnd DEF NotFound
<1>3. CASE cards[q.card] # None /\ ~NotFound(r)
  <2>1. /\ cards' = [cards EXCEPT ![q.card].text = q.text]
        /\ PageOfDeck(r) /\ UNCHANGED <<users, decks, used>>
    BY <1>3 DEF UpdateCard
  <2>2. q.card \in CardIds /\ cards[q.card] \in CardRow /\ q.text \in Texts
    BY <1>1, <1>3, CardAtWrite, RequestFields
  <2> DEFINE row == [cards[q.card] EXCEPT !.text = q.text]
  <2>3. row \in CardRow /\ row.deck = cards[q.card].deck
    BY <2>2 DEF CardRow, Abstract!Card
  <2>4. cards' = [cards EXCEPT ![q.card] = row]
    BY <2>1
  <2> HIDE DEF row
  <2>5. TablesKept
    BY <2>1, <2>2, <2>3, <2>4, RewriteKeeps
  <2> QED
    BY <1>1, <1>3, <2>1, <2>5, StepOfCardWriter
<1> QED
  BY <1>2, <1>3 DEF UpdateCard

LEMMA StepCommitReview ==
    ASSUME IInv, NEW r \in Requests, CommitReview(r)
    PROVE  IInv'
<1> DEFINE q == req[r]
<1>1. pc[r] = "write" /\ q.kind = "rate" /\ q.kind \in CardKinds /\ q \in Request
  BY AtStep DEF CommitReview, Writes, CardKinds, Abstract!CardKinds
<1>2. CASE NotFound(r)
  BY <1>1, <1>2, StepOfEnd DEF NotFound
<1>3. CASE cards[q.card] # None /\ ~NotFound(r)
  <2>1. /\ cards' = [cards EXCEPT ![q.card].reviews = @ + 1]
        /\ PageOfDeck(r) /\ UNCHANGED <<users, decks, used>>
    BY <1>3 DEF CommitReview
  <2>2. q.card \in CardIds /\ cards[q.card] \in CardRow
    BY <1>1, <1>3, CardAtWrite
  <2> DEFINE row == [cards[q.card] EXCEPT !.reviews = @ + 1]
  <2>3. row \in CardRow /\ row.deck = cards[q.card].deck
    BY <2>2 DEF CardRow, Abstract!Card
  <2>4. cards' = [cards EXCEPT ![q.card] = row]
    BY <2>1
  <2> HIDE DEF row
  <2>5. TablesKept
    BY <2>1, <2>2, <2>3, <2>4, RewriteKeeps
  <2> QED
    BY <1>1, <1>3, <2>1, <2>5, StepOfCardWriter
<1> QED
  BY <1>2, <1>3 DEF CommitReview

LEMMA StepDeleteCard ==
    ASSUME IInv, NEW r \in Requests, DeleteCard(r)
    PROVE  IInv'
<1> DEFINE q == req[r]
<1>1. pc[r] = "write" /\ q.kind = "delete_card" /\ q.kind \in CardKinds /\ q \in Request
  BY AtStep DEF DeleteCard, Writes, CardKinds, Abstract!CardKinds
<1>2. CASE NotFound(r)
  BY <1>1, <1>2, StepOfEnd DEF NotFound
<1>3. CASE cards[q.card] # None /\ ~NotFound(r)
  <2>1. Remove({}, {q.card}) /\ PageOfDeck(r) /\ UNCHANGED <<users, used>>
    BY <1>3 DEF DeleteCard
  <2>2. TablesKept
    BY <2>1, RemoveKeeps DEF IInv, ForeignKeys
  <2> QED
    BY <1>1, <1>3, <2>1, <2>2, StepOfCardWriter
<1> QED
  BY <1>2, <1>3 DEF DeleteCard

(* A User is deleted with his Decks and their Cards. *)
LEMMA StepDeleteUser ==
    ASSUME IInv, NEW r \in Requests, DeleteUser(r)
    PROVE  IInv'
<1> DEFINE q == req[r]
           own == {d \in DeckIds : OwnDeck(q.user, d)}
<1>1. /\ pc[r] = "write" /\ q.kind = "delete_user" /\ q \in Request
      /\ at[r] \in DeckIds \cup {None} /\ (at[r] # None => at[r] \in usedDecks)
  BY AtStep DEF DeleteUser, Writes, Fits, PageFits
<1>2. CASE NotFound(r)
  BY <1>1, <1>2, StepOfEnd DEF NotFound
<1>3. CASE q.user \in users /\ ~NotFound(r)
  <2>1. /\ users' = users \ {q.user} /\ Remove(own, {})
        /\ Answer(r, "done") /\ UNCHANGED <<used, at>>
    BY <1>3 DEF DeleteUser
  <2>2. \A d \in DeckIds :
           (decks[d] # None /\ d \notin own) => decks[d].owner \in users'
    BY <2>1 DEF OwnDeck, Abstract!OwnDeck, IInv, ForeignKeys
  <2>3. users' \subseteq users
    BY <2>1
  <2> HIDE DEF own
  <2>4. TablesKept
    BY <2>1, <2>2, <2>3, RemoveKeeps
  <2>5. Moves(r, "done", at[r], todo[r]) /\ seen' = seen
    BY <2>1, AnswerMoves DEF IInv, TypeOK
  <2> QED
    BY <1>1, <2>4, <2>5, StepOfWriter
<1> QED
  BY <1>2, <1>3 DEF DeleteUser

-----------------------------------------------------------------------------
(* The pages. *)
LEMMA OwnedDeck ==
    ASSUME IInv, NEW u, NEW d \in DeckIds, OwnDeck(u, d)
    PROVE  Held(u, d) /\ d \in usedDecks
BY DEF OwnDeck, Abstract!OwnDeck, Held, IInv, IdsInv

LEMMA StepListDecks ==
    ASSUME IInv, NEW r \in Requests, ListDecks(r)
    PROVE  IInv'
<1> DEFINE q == req[r]
           own == {d \in DeckIds : OwnDeck(q.user, d)}
           step == IF own = {} THEN "done" ELSE "cards"
<1>1. /\ pc[r] = "decks" /\ at[r] \in DeckIds \cup {None}
      /\ Fits(q, "decks", at[r], todo[r])
  BY AtStep DEF ListDecks
<1>2. /\ todo' = [todo EXCEPT ![r] = own] /\ pc' = [pc EXCEPT ![r] = step]
      /\ UNCHANGED <<tables, used, req, at, seen>>
  BY DEF ListDecks, Goto
<1>3. own \in SUBSET DeckIds /\ \A d \in own : d \in usedDecks /\ Held(q.user, d)
  BY OwnedDeck
<1>4. step \in {"done", "cards"}
  OBVIOUS
<1> HIDE DEF own, step
<1>5. Moves(r, step, at[r], own) /\ seen' \in [Requests -> SUBSET CardIds]
  BY <1>2 DEF Moves, IInv, TypeOK
<1>6. Fits(q, step, at[r], own)
  BY <1>1, <1>3, <1>4 DEF Fits, KindFits, Checked, PageFits
<1>7. step \in Steps
  BY <1>4 DEF Steps, PageSteps, Final
<1> QED
  BY <1>1, <1>2, <1>3, <1>5, <1>6, <1>7, StepOfReader

(* The Deck of the page is the User's: its Cards are next. *)
LEMMA StepToCards ==
    ASSUME IInv, NEW r \in Requests, pc[r] \in {"deck", "again"},
           OwnDeck(req[r].user, at[r]),
           todo' = [todo EXCEPT ![r] = {at[r]}], Goto(r, "cards"),
           UNCHANGED <<tables, used, req, at, seen>>
    PROVE  IInv'
<1>1. at[r] \in DeckIds /\ Fits(req[r], pc[r], at[r], todo[r])
  BY AtStep DEF IInv, TypeOK
<1>2. Held(req[r].user, at[r]) /\ at[r] \in usedDecks
  BY <1>1, OwnedDeck
<1>3. Moves(r, "cards", at[r], {at[r]}) /\ seen' \in [Requests -> SUBSET CardIds]
  BY DEF Moves, Goto, IInv, TypeOK
<1>4. Fits(req[r], "cards", at[r], {at[r]})
  BY <1>1, <1>2 DEF Fits, KindFits, Checked, PageFits
<1>5. "cards" \in Steps /\ {at[r]} \in SUBSET DeckIds
  BY <1>1 DEF Steps, PageSteps
<1> QED
  BY <1>1, <1>3, <1>4, <1>5, StepOfReader

(* A page that does not find its Deck. *)
LEMMA StepMissing ==
    ASSUME IInv, NEW r \in Requests, pc[r] \in {"deck", "again"},
           ~OwnDeck(req[r].user, at[r]), Held(req[r].user, at[r]), Look(r, "gone")
    PROVE  IInv'
<1>1. Fits(req[r], pc[r], at[r], todo[r]) /\ at[r] # None
  BY AtStep DEF IInv, TypeOK
<1>2. decks[at[r]] = None
  BY DEF OwnDeck, Abstract!OwnDeck, Held
<1>3. Fits(req[r], "gone", at[r], todo[r])
  BY <1>1, <1>2 DEF Fits, KindFits, Checked, PageFits
<1> QED
  BY <1>3, StepOfLook DEF Steps, Final

LEMMA StepGetDeck ==
    ASSUME IInv, NEW r \in Requests, GetDeck(r)
    PROVE  IInv'
<1> DEFINE q == req[r]
<1>1. /\ pc[r] = "deck" /\ q # None /\ at[r] \in DeckIds
      /\ Fits(q, "deck", at[r], todo[r])
  BY AtStep DEF GetDeck, IInv, TypeOK
<1>2. CASE OwnDeck(q.user, at[r]) /\ q.kind = "rate"
  BY <1>1, <1>2, StepToCards DEF GetDeck
<1>3. CASE OwnDeck(q.user, at[r]) /\ q.kind # "rate"
  <2>1. Look(r, "again")
    BY <1>3 DEF GetDeck
  <2>2. Fits(q, "again", at[r], todo[r])
    BY <1>1, <1>3, OwnedDeck DEF Fits, KindFits, Checked, PageFits
  <2> QED
    BY <1>1, <2>1, <2>2, StepOfLook DEF Steps, PageSteps
<1>4. CASE ~OwnDeck(q.user, at[r])
  <2>1. Look(r, Missing(r))
    BY <1>4 DEF GetDeck
  <2>2. CASE Reads(r)
    BY <1>1, <2>1, <2>2, StepOfEnd DEF Missing
  <2>3. CASE ~Reads(r)
    BY <1>1, <1>4, <2>1, <2>3, StepMissing DEF Missing, Reads, Fits, PageFits
  <2> QED
    BY <2>2, <2>3
<1> QED
  BY <1>2, <1>3, <1>4

LEMMA StepGetDeckAgain ==
    ASSUME IInv, NEW r \in Requests, GetDeckAgain(r)
    PROVE  IInv'
<1> DEFINE q == req[r]
           found == OwnDeck(q.user, at[r])
<1>1. pc[r] = "again" /\ Held(q.user, at[r])
  BY AtStep DEF GetDeckAgain, Fits, PageFits
<1>2. CASE q.kind = "rate"
  BY <1>1, <1>2, StepOfEnd, StepMissing DEF GetDeckAgain
<1>3. CASE q.kind # "rate" /\ found
  BY <1>1, <1>3, StepToCards DEF GetDeckAgain
<1>4. CASE q.kind # "rate" /\ ~found
  BY <1>1, <1>4, StepOfEnd DEF GetDeckAgain
<1> QED
  BY <1>2, <1>3, <1>4

LEMMA StepReadCards ==
    ASSUME IInv, NEW r \in Requests, ReadCards(r)
    PROVE  IInv'
<1> DEFINE q == req[r]
<1>1. /\ pc[r] = "cards" /\ at[r] \in DeckIds \cup {None} /\ todo[r] \in SUBSET DeckIds
      /\ Fits(q, "cards", at[r], todo[r])
  BY AtStep DEF ReadCards
<1>2. PICK d \in todo[r] :
         /\ seen' = [seen EXCEPT ![r] =
               @ \cup {c \in CardIds : cards[c] # None /\ cards[c].deck = d}]
         /\ todo' = [todo EXCEPT ![r] = @ \ {d}]
         /\ Goto(r, IF todo[r] # {d} THEN "cards"
                    ELSE IF q.kind = "rate" THEN "again" ELSE "done")
  BY DEF ReadCards
<1> DEFINE step == IF todo[r] # {d} THEN "cards"
                   ELSE IF q.kind = "rate" THEN "again" ELSE "done"
           rest == todo[r] \ {d}
<1>3. UNCHANGED <<tables, used, req, at>>
  BY DEF ReadCards
<1>4. Moves(r, step, at[r], rest) /\ seen' \in [Requests -> SUBSET CardIds]
  BY <1>2, <1>3 DEF Moves, Goto, IInv, TypeOK
<1>5. rest \in SUBSET DeckIds
  BY <1>1
<1>6. step \in Steps
  BY DEF Steps, PageSteps, Final
<1>7. Fits(q, step, at[r], rest)
  <2>1. CASE step = "again"
    <3>1. q.kind = "rate"
      BY <2>1
    <3> HIDE DEF step
    <3> QED
      BY <1>1, <2>1, <3>1
         DEF Fits, KindFits, Checked, PageFits, CardKinds, Abstract!CardKinds
  <2>2. CASE step # "again"
    BY <1>1, <2>2 DEF Fits, KindFits, Checked, PageFits
  <2> QED
    BY <2>1, <2>2
<1> HIDE DEF step, rest
<1> QED
  BY <1>1, <1>3, <1>4, <1>5, <1>6, <1>7, StepOfReader

LEMMA StepLose ==
    ASSUME IInv, NEW r \in Requests, Lose(r)
    PROVE  IInv'
<1>1. pc[r] # "idle" /\ (Look(r, "lost") \/ Look(r, "done"))
  BY DEF Lose, CheckSteps, PageSteps
<1> QED
  BY <1>1, StepOfEnd

LEMMA InitIInv == Init => IInv
<1> SUFFICES ASSUME Init PROVE IInv
  OBVIOUS
<1>1. TypeOK
  <2>1. cards \in [CardIds -> CardRow \cup {None}]
    BY DEF Init, CardRow, Abstract!Card
  <2> QED
    BY <2>1 DEF Init, TypeOK
<1>2. ForeignKeys
  BY RowFields DEF Init, ForeignKeys
<1>3. IdsInv /\ RequestsInv
  BY DEF Init, IdsInv, RequestsInv
<1> QED
  BY <1>1, <1>2, <1>3 DEF IInv

LEMMA NextIInv == IInv /\ [Next]_vars => IInv'
<1> SUFFICES ASSUME IInv, [Next]_vars PROVE IInv'
  OBVIOUS
<1>1. CASE UNCHANGED vars
  <2>1. UNCHANGED <<tables, used>>
    BY <1>1 DEF vars
  <2>2. ASSUME NEW q, NEW p, NEW a, NEW ds, Fits(q, p, a, ds)
        PROVE  Fits(q, p, a, ds)'
    BY <2>1, <2>2, FitsUnchanged
  <2>3. RequestsInv'
    BY <1>1, <2>2 DEF vars, page, IInv, RequestsInv
  <2> QED
    BY <1>1, <2>3 DEF vars, tables, used, page, IInv, TypeOK, ForeignKeys, IdsInv
<1>2. ASSUME NEW r \in Requests, Arrive(r) PROVE IInv'
  BY <1>2, StepArrive
<1>3. ASSUME NEW r \in Requests, Serve(r) PROVE IInv'
  BY <1>3, StepGetCard, StepRequireUser, StepCheckOwned, StepInsertDeck, StepUpdateDeck,
     StepDeleteDeck, StepInsertCard, StepUpdateCard, StepCommitReview, StepDeleteCard,
     StepDeleteUser, StepListDecks, StepGetDeck, StepGetDeckAgain, StepReadCards DEF Serve
<1>4. ASSUME NEW r \in Requests, Lose(r) PROVE IInv'
  BY <1>4, StepLose
<1> QED
  BY <1>1, <1>2, <1>3, <1>4 DEF Next

LEMMA Invariance == Spec => []IInv
BY InitIInv, NextIInv, PTL DEF Spec

(* Every variable keeps its type, and a page that looks up its Deck has    *)
(* one, for any overlap of requests.                                       *)
THEOREM TypeCorrect == Spec => []TypeOK
<1>1. IInv => TypeOK
  BY DEF IInv
<1> QED
  BY <1>1, Invariance, PTL

(* A Deck's owner exists, and a Card's Deck: create_deck races the         *)
(* deletion of the User and create_card that of the Deck, and the          *)
(* statements, not the look-ups before them, keep the rows consistent.     *)
THEOREM ForeignKeysHold == Spec => []ForeignKeys
<1>1. IInv => ForeignKeys
  BY DEF IInv
<1> QED
  BY <1>1, Invariance, PTL

(* A page that answers 404 after its change was made tells of a Deck that  *)
(* was deleted meanwhile, never of one that the User could still see.      *)
THEOREM NotFoundIsGone == Spec => []NotFoundMeansGone
<1>1. ASSUME IInv, NEW r \in Requests, pc[r] = "gone"
      PROVE  decks[at[r]] = None
  BY <1>1, AtStep DEF Fits, PageFits
<1>2. IInv => NotFoundMeansGone
  BY <1>1 DEF NotFoundMeansGone
<1> QED
  BY <1>2, Invariance, PTL

(* The Cards of a page, read by the id of a Deck that an earlier statement *)
(* looked up, are the User's own when they are read.                       *)
THEOREM OwnRows == Spec => OwnRowsOnly
<1> DEFINE A == \A r \in Requests, c \in CardIds :
                   c \in seen'[r] \ seen[r] => OwnCard(req[r].user, c)
<1>1. ASSUME IInv, NEW x \in Requests, ReadCards(x) PROVE A
  <2>1. PICK d \in todo[x] :
           seen' = [seen EXCEPT ![x] =
                      @ \cup {c \in CardIds : cards[c] # None /\ cards[c].deck = d}]
    BY <1>1 DEF ReadCards
  <2>2. pc[x] = "cards" /\ todo[x] \in SUBSET DeckIds /\ Held(req[x].user, d)
    BY <1>1, AtStep DEF ReadCards, Fits, PageFits
  <2>3. ASSUME NEW r \in Requests, NEW c \in CardIds, c \in seen'[r] \ seen[r]
        PROVE  OwnCard(req[r].user, c)
    <3>1. r = x /\ cards[c] # None /\ cards[c].deck = d
      BY <2>1, <2>3 DEF IInv, TypeOK
    <3>2. decks[d] # None
      BY <1>1, <3>1 DEF IInv, ForeignKeys
    <3> QED
      BY <2>2, <3>1, <3>2 DEF Held, OwnCard, Abstract!OwnCard, Abstract!OwnDeck
  <2> QED
    BY <2>3
<1>2. ASSUME UNCHANGED seen PROVE A
  BY <1>2
<1>3. ASSUME NEW r \in Requests, Arrive(r) \/ Serve(r) \/ Lose(r), ~ReadCards(r)
      PROVE  UNCHANGED seen
  BY <1>3 DEF Arrive, Serve, Lose, GetCard, RequireUser, CheckOwned, InsertDeck,
     UpdateDeck, DeleteDeck, InsertCard, UpdateCard, CommitReview, DeleteCard,
     DeleteUser, PageOfDeck, Answer, NotFound, ListDecks, GetDeck, GetDeckAgain,
     Look, page
<1>4. IInv /\ [Next]_vars => [A]_vars
  <2>1. ASSUME IInv, Next PROVE A
    BY <1>1, <1>2, <1>3, <2>1 DEF Next, Serve
  <2> QED
    BY <2>1
<1> QED
  BY <1>4, Invariance, PTL DEF Spec, OwnRowsOnly

-----------------------------------------------------------------------------
(* The implementation of Ownership: how far request q has come by the      *)
(* statement `step`.                                                       *)
OpenAt(q, step) ==
    \/ step \in CheckSteps
    \/ q.kind \in ReadKinds /\ step \in {"decks", "deck"}
    \/ q.kind = "study_page" /\ step = "again"

Result(q, step) ==
    IF step \in {"refused", "lost"} THEN step
    ELSE IF OpenAt(q, step) THEN "open" ELSE "done"

Shown(q, step) == IF step = "idle" THEN "idle" ELSE Result(q, step)

LEMMA ShownCases ==
    ASSUME NEW q, NEW step, (q = None) = (step = "idle")
    PROVE  Shown(q, step) =
             CASE step \in {"idle", "refused", "lost"} -> step
               [] \/ step \in CheckSteps
                  \/ (q # None /\ q.kind \in ReadKinds) /\ step \in {"decks", "deck"}
                  \/ (q # None /\ q.kind \in ReadKinds) /\ step = "again"
                                                        /\ q.kind = "study_page" -> "open"
               [] OTHER -> "done"
BY DEF Shown, Result, OpenAt, CheckSteps, ReadKinds

LEMMA OutcomeMoves ==
    ASSUME IInv, IInv', NEW r \in Requests, NEW q, NEW step,
           req' = [req EXCEPT ![r] = q], pc' = [pc EXCEPT ![r] = step]
    PROVE  Outcome' = [Outcome EXCEPT ![r] = Shown(q, step)]
<1>1. Outcome = [x \in Requests |-> Shown(req[x], pc[x])]
  <2>1. ASSUME NEW x \in Requests PROVE (req[x] = None) = (pc[x] = "idle")
    BY DEF IInv, TypeOK
  <2>2. ASSUME NEW x \in Requests PROVE Outcome[x] = Shown(req[x], pc[x])
    BY <2>1, ShownCases DEF Outcome, Open, Reads
  <2> QED
    BY <2>2 DEF Outcome
<1>2. Outcome' = [x \in Requests |-> Shown(req'[x], pc'[x])]
  <2>1. ASSUME NEW x \in Requests PROVE (req'[x] = None) = (pc'[x] = "idle")
    BY DEF IInv, TypeOK
  <2>2. ASSUME NEW x \in Requests PROVE Outcome'[x] = Shown(req'[x], pc'[x])
    BY <2>1, ShownCases DEF Outcome, Open, Reads
  <2> QED
    BY <2>2 DEF Outcome
<1> QED
  BY <1>1, <1>2 DEF IInv, TypeOK

(* A step of request r that Ownership does not see, or that ends r there. *)
Ends(r, step) == req' = req /\ Goto(r, step)

LEMMA OutcomeEnds ==
    ASSUME IInv, IInv', NEW r \in Requests, NEW step, Ends(r, step)
    PROVE  /\ Outcome[r] = Shown(req[r], pc[r])
           /\ Outcome' = [Outcome EXCEPT ![r] = Shown(req[r], step)]
<1>1. req' = [req EXCEPT ![r] = req[r]] /\ pc' = [pc EXCEPT ![r] = step]
  BY DEF Ends, Goto, IInv, TypeOK
<1>2. Outcome' = [Outcome EXCEPT ![r] = Shown(req[r], step)]
  BY <1>1, OutcomeMoves
<1>3. (req[r] = None) = (pc[r] = "idle")
  BY DEF IInv, TypeOK
<1> QED
  BY <1>2, <1>3, ShownCases DEF Outcome, Open, Reads

LEMMA Unseen ==
    ASSUME IInv, IInv', NEW r \in Requests, NEW step, Ends(r, step), UNCHANGED tables,
           Shown(req[r], step) = Shown(req[r], pc[r])
    PROVE  UNCHANGED Abstract!vars
<1>1. Outcome' = [Outcome EXCEPT ![r] = Outcome[r]]
  BY OutcomeEnds
<1>2. Outcome' = Outcome
  BY <1>1 DEF Outcome
<1> QED
  BY <1>2 DEF Abstract!vars, Abstract!tables, tables, Ends

LEMMA Refused ==
    ASSUME IInv, IInv', NEW r \in Requests, Ends(r, "refused"), UNCHANGED tables,
           Shown(req[r], pc[r]) = "open", ~Abstract!May(req[r])
    PROVE  Abstract!Next
<1>1. Shown(req[r], "refused") = "refused"
  BY DEF Shown, Result
<1>2. Abstract!Refuse(r)
  BY <1>1, OutcomeEnds DEF Abstract!Refuse, Abstract!End, Abstract!tables, tables, Ends
<1> QED
  BY <1>2 DEF Abstract!Next

LEMMA Performed ==
    ASSUME IInv, IInv', NEW r \in Requests, NEW step, Ends(r, step),
           Shown(req[r], pc[r]) = "open", Shown(req[r], step) = "done",
           Abstract!May(req[r]), Abstract!Effect(req[r])
    PROVE  Abstract!Next
<1>1. Abstract!Perform(r)
  BY OutcomeEnds DEF Abstract!Perform, Abstract!End, Ends
<1> QED
  BY <1>1 DEF Abstract!Next

LEMMA ArriveImplements ==
    ASSUME IInv, IInv', NEW r \in Requests, Arrive(r)
    PROVE  Abstract!Next
<1>1. PICK q \in Request :
         /\ req' = [req EXCEPT ![r] = q]
         /\ Goto(r, CASE q.kind = "home" -> "decks"
                      [] q.kind \in {"deck_page", "study_page"} -> "deck"
                      [] q.kind = "rate" -> "card"
                      [] q.kind = "delete_user" -> "write"
                      [] OTHER -> "user")
  BY DEF Arrive
<1> DEFINE step == CASE q.kind = "home" -> "decks"
                     [] q.kind \in {"deck_page", "study_page"} -> "deck"
                     [] q.kind = "rate" -> "card"
                     [] q.kind = "delete_user" -> "write"
                     [] OTHER -> "user"
<1>2. Shown(q, step) = "open"
  BY DEF Shown, Result, OpenAt, CheckSteps, ReadKinds
<1>3. Outcome' = [Outcome EXCEPT ![r] = "open"]
  <2>1. pc' = [pc EXCEPT ![r] = step]
    BY <1>1 DEF Goto
  <2> HIDE DEF step
  <2>2. Outcome' = [Outcome EXCEPT ![r] = Shown(q, step)]
    BY <1>1, <2>1, OutcomeMoves
  <2> QED
    BY <1>2, <2>2
<1>4. Outcome[r] = "idle"
  BY DEF Arrive, Outcome, Open, CheckSteps
<1>5. Abstract!Arrive(r)
  BY <1>1, <1>3, <1>4 DEF Arrive, Abstract!Arrive, Request, Abstract!tables, tables
<1> QED
  BY <1>5 DEF Abstract!Next

LEMMA LoseImplements ==
    ASSUME IInv, IInv', NEW r \in Requests, Lose(r)
    PROVE  [Abstract!Next]_(Abstract!vars)
<1>1. CASE Open(r) /\ Look(r, "lost")
  <2>1. Ends(r, "lost") /\ UNCHANGED tables
    BY <1>1 DEF Ends, Look
  <2>2. Outcome[r] = "open" /\ Shown(req[r], "lost") = "lost"
    BY <1>1 DEF Outcome, Open, CheckSteps, Shown, Result
  <2>3. Abstract!Lose(r)
    BY <2>1, <2>2, OutcomeEnds DEF Abstract!Lose, Abstract!End, Abstract!tables, tables, Ends
  <2> QED
    BY <2>3 DEF Abstract!Next
<1>2. CASE ~Open(r) /\ Look(r, "done")
  <2>1. Ends(r, "done") /\ UNCHANGED tables
    BY <1>2 DEF Ends, Look
  <2>2. Outcome[r] = "done" /\ Shown(req[r], "done") = "done"
    BY <1>2 DEF Lose, Outcome, Open, CheckSteps, PageSteps, Shown, Result, OpenAt
  <2> QED
    BY <2>1, <2>2, OutcomeEnds, Unseen
<1> QED
  BY <1>1, <1>2 DEF Lose

(* What a request has shown by a look-up, a write and the page after it. *)
LEMMA ShownOpen ==
    ASSUME NEW q, NEW step \in CheckSteps
    PROVE  Shown(q, step) = "open"
BY DEF Shown, Result, OpenAt, CheckSteps

LEMMA ShownDone ==
    ASSUME NEW q, q.kind \notin ReadKinds,
           NEW step \in {"done", "gone", "decks", "deck", "again", "cards"}
    PROVE  Shown(q, step) = "done"
BY DEF Shown, Result, OpenAt, CheckSteps, ReadKinds

LEMMA LookEnds ==
    ASSUME NEW r \in Requests, NEW step, Look(r, step)
    PROVE  Ends(r, step) /\ UNCHANGED tables
BY DEF Look, Ends

LEMMA RefusedLook ==
    ASSUME IInv, IInv', NEW r \in Requests, pc[r] \in CheckSteps, Look(r, "refused"),
           ~Abstract!May(req[r])
    PROVE  Abstract!Next
BY ShownOpen, LookEnds, Refused

LEMMA PassedLook ==
    ASSUME IInv, IInv', NEW r \in Requests, pc[r] \in CheckSteps,
           NEW step \in CheckSteps, Look(r, step)
    PROVE  UNCHANGED Abstract!vars
BY ShownOpen, LookEnds, Unseen

LEMMA PerformedWrite ==
    ASSUME IInv, IInv', NEW r \in Requests, pc[r] = "write",
           NEW next \in {"done", "decks", "deck"}, Answer(r, next),
           Abstract!May(req[r]), Abstract!Effect(req[r])
    PROVE  Abstract!Next
<1>1. req[r].kind \notin ReadKinds
  BY AtStep DEF Fits, KindFits
<1>2. PICK step \in {"done", "decks", "deck"} : Ends(r, step)
  BY DEF Answer, Ends
<1>3. Shown(req[r], pc[r]) = "open"
  BY ShownOpen DEF CheckSteps
<1>4. Shown(req[r], step) = "done"
  BY <1>1, <1>2, ShownDone
<1> QED
  BY <1>2, <1>3, <1>4, Performed

LEMMA LookupsImplement ==
    ASSUME IInv, IInv', NEW r \in Requests, GetCard(r) \/ RequireUser(r) \/ CheckOwned(r)
    PROVE  [Abstract!Next]_(Abstract!vars)
<1> DEFINE q == req[r]
<1>1. /\ q \in Request /\ Fits(q, pc[r], at[r], todo[r])
      /\ pc[r] \in CheckSteps /\ "user" \in CheckSteps /\ "owned" \in CheckSteps
      /\ "write" \in CheckSteps
  BY AtStep DEF GetCard, RequireUser, CheckOwned, CheckSteps
<1>2. CASE GetCard(r)
  <2>1. q.kind \in CardKinds
    BY <1>1, <1>2 DEF GetCard, Fits, KindFits, CardKinds, Abstract!CardKinds
  <2>2. ~OwnCard(q.user, q.card) => ~Abstract!May(q)
    BY <2>1 DEF OwnCard, Abstract!May, CardKinds
  <2> QED
    BY <1>1, <1>2, <2>2, RefusedLook, PassedLook DEF GetCard
<1>3. CASE RequireUser(r)
  <2>1. q.kind \in {"create_deck"} \cup DeckKinds \cup CardKinds
    BY <1>1, <1>3, RequestFields
       DEF RequireUser, Fits, KindFits, ReadKinds, DeckKinds, Abstract!DeckKinds
  <2>2. ASSUME q.user \notin users PROVE ~Abstract!May(q)
    <3>1. CASE q.kind = "create_deck"
      BY <2>2, <3>1 DEF Abstract!May
    <3>2. CASE q.kind \in DeckKinds
      <4>1. q.deck \in DeckIds
        BY <1>1, <3>2, RequestFields
      <4> QED
        BY <2>2, <3>2, <4>1 DEF Abstract!May, Abstract!OwnDeck, DeckKinds, IInv, ForeignKeys
    <3>3. CASE q.kind \in CardKinds
      <4>1. q.card \in CardIds
        BY <1>1, <3>3, RequestFields
      <4>2. cards[q.card] # None => cards[q.card].deck \in DeckIds
        BY <4>1, RowFields DEF IInv, TypeOK
      <4> QED
        BY <2>2, <3>3, <4>1, <4>2
           DEF Abstract!May, Abstract!OwnDeck, Abstract!OwnCard, CardKinds, IInv, ForeignKeys
    <3> QED
      BY <2>1, <3>1, <3>2, <3>3
  <2> QED
    BY <1>1, <1>3, <2>2, RefusedLook, PassedLook DEF RequireUser
<1>4. CASE CheckOwned(r)
  <2> DEFINE owned == IF q.kind = "create_card" THEN OwnDeck(q.user, q.deck)
                                                ELSE OwnCard(q.user, q.card)
  <2>1. q.kind \in CardKinds \cup {"create_card"}
    BY <1>1, <1>4 DEF CheckOwned, Fits, KindFits
  <2>2. ~owned => ~Abstract!May(q)
    BY <2>1 DEF OwnDeck, OwnCard, Abstract!May, CardKinds, Abstract!DeckKinds
  <2> QED
    BY <1>1, <1>4, <2>2, RefusedLook, PassedLook DEF CheckOwned
<1> QED
  BY <1>2, <1>3, <1>4

LEMMA DeckWritesImplement ==
    ASSUME IInv, IInv', NEW r \in Requests, InsertDeck(r) \/ UpdateDeck(r) \/ DeleteDeck(r)
    PROVE  Abstract!Next
<1> DEFINE q == req[r]
<1>1. pc[r] = "write" /\ "write" \in CheckSteps
  BY DEF InsertDeck, UpdateDeck, DeleteDeck, Writes, CheckSteps
<1>2. CASE InsertDeck(r)
  <2>1. q.kind = "create_deck" /\ (Abstract!May(q) <=> (q.user \in users))
    BY <1>2 DEF InsertDeck, Writes, Abstract!May, Abstract!DeckKinds, Abstract!CardKinds
  <2>2. CASE q.user \notin users
    BY <1>1, <1>2, <2>1, <2>2, RefusedLook DEF InsertDeck, NotFound
  <2>3. CASE q.user \in users
    <3>1. PICK d \in DeckIds :
             /\ FreshDeck(d)
             /\ decks' = [decks EXCEPT ![d] = [owner |-> q.user, name |-> q.name]]
      BY <1>2, <2>3 DEF InsertDeck
    <3>2. decks[d] = None
      BY <3>1 DEF FreshDeck, IInv, IdsInv
    <3>3. Answer(r, "decks") /\ UNCHANGED <<users, cards>>
      BY <1>2, <2>3 DEF InsertDeck
    <3>4. Abstract!Effect(q)
      BY <2>1, <3>1, <3>2, <3>3 DEF Abstract!Effect
    <3> QED
      BY <1>1, <2>1, <2>3, <3>3, <3>4, PerformedWrite
  <2> QED
    BY <2>2, <2>3
<1>3. CASE UpdateDeck(r)
  <2>1. q.kind = "rename_deck" /\ (Abstract!May(q) <=> OwnDeck(q.user, q.deck))
    BY <1>3 DEF UpdateDeck, Writes, OwnDeck, Abstract!May, Abstract!OwnDeck,
                Abstract!DeckKinds, Abstract!CardKinds
  <2>2. CASE ~OwnDeck(q.user, q.deck)
    BY <1>1, <1>3, <2>1, <2>2, RefusedLook DEF UpdateDeck, NotFound
  <2>3. CASE OwnDeck(q.user, q.deck)
    <3>1. Answer(r, "decks") /\ Abstract!Effect(q)
      BY <1>3, <2>1, <2>3 DEF UpdateDeck, Abstract!Effect
    <3> QED
      BY <1>1, <2>1, <2>3, <3>1, PerformedWrite
  <2> QED
    BY <2>2, <2>3
<1>4. CASE DeleteDeck(r)
  <2>1. q.kind = "delete_deck" /\ (Abstract!May(q) <=> OwnDeck(q.user, q.deck))
    BY <1>4 DEF DeleteDeck, Writes, OwnDeck, Abstract!May, Abstract!OwnDeck,
                Abstract!DeckKinds, Abstract!CardKinds
  <2>2. CASE ~OwnDeck(q.user, q.deck)
    BY <1>1, <1>4, <2>1, <2>2, RefusedLook DEF DeleteDeck, NotFound
  <2>3. CASE OwnDeck(q.user, q.deck)
    <3>1. Answer(r, "decks") /\ Abstract!Effect(q)
      BY <1>4, <2>1, <2>3 DEF DeleteDeck, Remove, Abstract!Effect
    <3> QED
      BY <1>1, <2>1, <2>3, <3>1, PerformedWrite
  <2> QED
    BY <2>2, <2>3
<1> QED
  BY <1>2, <1>3, <1>4

(* A statement on a Card that is still there is on a Card of the User. *)
LEMMA MayWriteCard ==
    ASSUME IInv, NEW r \in Requests, pc[r] = "write", req[r].kind \in CardKinds
    PROVE  Abstract!May(req[r]) <=> cards[req[r].card] # None
<1> DEFINE q == req[r]
<1>1. Abstract!May(q) <=> OwnCard(q.user, q.card)
  BY DEF Abstract!May, OwnCard, CardKinds, Abstract!CardKinds, Abstract!DeckKinds
<1>2. ASSUME cards[q.card] # None PROVE OwnCard(q.user, q.card)
  <2>1. q.card \in CardIds /\ Held(q.user, cards[q.card].deck)
    BY <1>2, CardAtWrite
  <2> QED
    BY <1>2, <2>1
       DEF IInv, ForeignKeys, Held, OwnCard, Abstract!OwnCard, Abstract!OwnDeck
<1> QED
  BY <1>1, <1>2 DEF OwnCard, Abstract!OwnCard

LEMMA CardWritesImplement ==
    ASSUME IInv, IInv', NEW r \in Requests,
           UpdateCard(r) \/ CommitReview(r) \/ DeleteCard(r)
    PROVE  Abstract!Next
<1> DEFINE q == req[r]
<1>1. pc[r] = "write" /\ "write" \in CheckSteps /\ q.kind \in CardKinds
  BY DEF UpdateCard, CommitReview, DeleteCard, Writes, CheckSteps,
         CardKinds, Abstract!CardKinds
<1>2. CASE cards[q.card] = None
  <2>1. Look(r, "refused")
    BY <1>2 DEF UpdateCard, CommitReview, DeleteCard, NotFound
  <2> QED
    BY <1>1, <1>2, <2>1, MayWriteCard, RefusedLook
<1>3. CASE cards[q.card] # None
  <2>1. Answer(r, "deck")
    BY <1>3 DEF UpdateCard, CommitReview, DeleteCard, PageOfDeck
  <2>2. CASE UpdateCard(r)
    BY <1>1, <1>3, <2>1, <2>2, MayWriteCard, PerformedWrite
       DEF UpdateCard, Writes, Abstract!Effect
  <2>3. CASE CommitReview(r)
    BY <1>1, <1>3, <2>1, <2>3, MayWriteCard, PerformedWrite
       DEF CommitReview, Writes, Abstract!Effect
  <2>4. CASE DeleteCard(r)
    BY <1>1, <1>3, <2>1, <2>4, MayWriteCard, PerformedWrite
       DEF DeleteCard, Writes, Remove, Abstract!Effect
  <2> QED
    BY <2>2, <2>3, <2>4
<1> QED
  BY <1>2, <1>3

LEMMA InsertCardImplements ==
    ASSUME IInv, IInv', NEW r \in Requests, InsertCard(r)
    PROVE  Abstract!Next
<1> DEFINE q == req[r]
<1>1. /\ pc[r] = "write" /\ "write" \in CheckSteps
      /\ q.kind = "create_card" /\ Held(q.user, q.deck)
  BY AtStep DEF InsertCard, Writes, CheckSteps, Fits, Checked
<1>2. Abstract!May(q) <=> decks[q.deck] # None
  BY <1>1 DEF Held, Abstract!May, Abstract!OwnDeck, Abstract!DeckKinds, Abstract!CardKinds
<1>3. CASE decks[q.deck] = None
  BY <1>1, <1>2, <1>3, RefusedLook DEF InsertCard, NotFound
<1>4. CASE decks[q.deck] # None
  <2>1. PICK c \in CardIds :
           /\ FreshCard(c)
           /\ cards' = [cards EXCEPT ![c] =
                           [deck |-> q.deck, text |-> q.text, reviews |-> 0]]
    BY <1>4 DEF InsertCard
  <2>2. cards[c] = None
    BY <2>1 DEF FreshCard, IInv, IdsInv
  <2>3. Answer(r, "deck") /\ UNCHANGED <<users, decks>>
    BY <1>4 DEF InsertCard
  <2>4. Abstract!Effect(q)
    BY <1>1, <2>1, <2>2, <2>3 DEF Abstract!Effect
  <2> QED
    BY <1>1, <1>2, <1>4, <2>3, <2>4, PerformedWrite
<1> QED
  BY <1>3, <1>4

LEMMA DeleteUserImplements ==
    ASSUME IInv, IInv', NEW r \in Requests, DeleteUser(r)
    PROVE  Abstract!Next
<1> DEFINE q == req[r]
<1>1. pc[r] = "write" /\ "write" \in CheckSteps /\ q.kind = "delete_user"
  BY DEF DeleteUser, Writes, CheckSteps
<1>2. Abstract!May(q) <=> q.user \in users
  BY <1>1 DEF Abstract!May, Abstract!DeckKinds, Abstract!CardKinds
<1>3. CASE q.user \notin users
  BY <1>1, <1>2, <1>3, RefusedLook DEF DeleteUser, NotFound
<1>4. CASE q.user \in users
  <2>1. Answer(r, "done") /\ Abstract!Effect(q)
    BY <1>1, <1>4 DEF DeleteUser, Remove, OwnDeck, Abstract!Effect
  <2> QED
    BY <1>1, <1>2, <1>4, <2>1, PerformedWrite
<1> QED
  BY <1>3, <1>4

-----------------------------------------------------------------------------
(* A page is granted or refused by the last look-up that can refuse it. *)
LEMMA PageGranted ==
    ASSUME IInv, IInv', NEW r \in Requests, req[r].kind \in ReadKinds, NEW step,
           Ends(r, step), UNCHANGED tables, Abstract!May(req[r]),
           Shown(req[r], pc[r]) = "open", Shown(req[r], step) = "done"
    PROVE  Abstract!Next
<1>1. Abstract!Effect(req[r])
  BY DEF Abstract!Effect, Abstract!tables, tables, ReadKinds, Abstract!ReadKinds
<1> QED
  BY <1>1, Performed

LEMMA ListDecksImplements ==
    ASSUME IInv, IInv', NEW r \in Requests, ListDecks(r)
    PROVE  [Abstract!Next]_(Abstract!vars)
<1> DEFINE q == req[r]
<1>1. pc[r] = "decks" /\ Fits(q, "decks", at[r], todo[r])
  BY AtStep DEF ListDecks
<1>2. UNCHANGED tables /\ (Ends(r, "done") \/ Ends(r, "cards"))
  BY DEF ListDecks, Ends
<1>3. CASE q.kind = "home"
  <2>1. Abstract!May(q)
    BY <1>3 DEF Abstract!May, Abstract!DeckKinds, Abstract!CardKinds
  <2>2. /\ Shown(q, "decks") = "open"
        /\ Shown(q, "done") = "done" /\ Shown(q, "cards") = "done"
    BY <1>3 DEF Shown, Result, OpenAt, CheckSteps, ReadKinds
  <2> QED
    BY <1>1, <1>2, <1>3, <2>1, <2>2, PageGranted DEF ReadKinds
<1>4. CASE q.kind # "home"
  <2>1. q.kind \notin ReadKinds
    BY <1>1, <1>4 DEF Fits, KindFits, ReadKinds
  <2> QED
    BY <1>1, <1>2, <2>1, ShownDone, Unseen
<1> QED
  BY <1>3, <1>4

(* What a page about one Deck may show is decided by who owns it. *)
LEMMA MayReadDeck ==
    ASSUME IInv, NEW r \in Requests, pc[r] # "idle",
           req[r].kind \in {"deck_page", "study_page"}
    PROVE  Abstract!May(req[r]) <=> OwnDeck(req[r].user, at[r])
<1>1. at[r] = req[r].deck
  BY AtStep DEF Fits, PageFits
<1> QED
  BY <1>1 DEF Abstract!May, OwnDeck, Abstract!DeckKinds, Abstract!CardKinds

LEMMA GetDeckImplements ==
    ASSUME IInv, IInv', NEW r \in Requests, GetDeck(r)
    PROVE  [Abstract!Next]_(Abstract!vars)
<1> DEFINE q == req[r]
           found == OwnDeck(q.user, at[r])
<1>1. pc[r] = "deck" /\ q # None /\ Fits(q, "deck", at[r], todo[r])
  BY AtStep DEF GetDeck
<1>2. CASE q.kind \in {"deck_page", "study_page"}
  <2>1. Reads(r) /\ q.kind \in ReadKinds /\ q.kind # "rate"
    BY <1>1, <1>2 DEF Reads, ReadKinds
  <2>2. Look(r, IF found THEN "again" ELSE "refused")
    BY <2>1 DEF GetDeck, Missing
  <2>3. Shown(q, "deck") = "open"
    BY <2>1 DEF Shown, Result, OpenAt
  <2>4. CASE ~found
    BY <1>1, <1>2, <2>2, <2>3, <2>4, MayReadDeck, LookEnds, Refused
  <2>5. CASE found /\ q.kind = "deck_page"
    <3>1. Shown(q, "again") = "done"
      BY <2>5 DEF Shown, Result, OpenAt, CheckSteps, ReadKinds
    <3> QED
      BY <1>1, <1>2, <2>1, <2>2, <2>3, <2>5, <3>1, MayReadDeck, LookEnds, PageGranted
  <2>6. CASE found /\ q.kind = "study_page"
    <3>1. Shown(q, "again") = "open"
      BY <2>6 DEF Shown, Result, OpenAt
    <3> QED
      BY <1>1, <2>2, <2>3, <2>6, <3>1, LookEnds, Unseen
  <2> QED
    BY <1>2, <2>4, <2>5, <2>6
<1>3. CASE q.kind \notin {"deck_page", "study_page"}
  <2>1. q.kind \notin ReadKinds
    BY <1>1, <1>3
       DEF Fits, KindFits, ReadKinds, CardKinds, Abstract!CardKinds
  <2>2. UNCHANGED tables /\ \E step \in {"cards", "again", "gone"} : Ends(r, step)
    BY <2>1 DEF GetDeck, Missing, Reads, Look, Ends
  <2> QED
    BY <1>1, <2>1, <2>2, ShownDone, Unseen
<1> QED
  BY <1>2, <1>3

LEMMA GetDeckAgainImplements ==
    ASSUME IInv, IInv', NEW r \in Requests, GetDeckAgain(r)
    PROVE  [Abstract!Next]_(Abstract!vars)
<1> DEFINE q == req[r]
           found == OwnDeck(q.user, at[r])
<1>1. pc[r] = "again"
  BY DEF GetDeckAgain
<1>2. CASE q.kind = "study_page"
  <2>1. /\ Shown(q, "again") = "open" /\ Shown(q, "cards") = "done"
        /\ q.kind \in ReadKinds
    BY <1>2 DEF Shown, Result, OpenAt, CheckSteps, ReadKinds
  <2>2. CASE found
    <3>1. Ends(r, "cards") /\ UNCHANGED tables
      BY <1>2, <2>2 DEF GetDeckAgain, Ends
    <3> QED
      BY <1>1, <1>2, <2>1, <2>2, <3>1, MayReadDeck, PageGranted
  <2>3. CASE ~found
    <3>1. Look(r, "refused")
      BY <1>2, <2>3 DEF GetDeckAgain
    <3> QED
      BY <1>1, <1>2, <2>1, <2>3, <3>1, MayReadDeck, LookEnds, Refused
  <2> QED
    BY <2>2, <2>3
<1>3. CASE q.kind # "study_page"
  <2>1. \A step \in {"done", "gone", "cards", "again"} : Shown(q, step) = "done"
    BY <1>3 DEF Shown, Result, OpenAt, CheckSteps
  <2>2. UNCHANGED tables /\ \E step \in {"done", "gone", "cards"} : Ends(r, step)
    BY <1>3 DEF GetDeckAgain, Look, Ends
  <2> QED
    BY <1>1, <2>1, <2>2, Unseen
<1> QED
  BY <1>2, <1>3

LEMMA ReadCardsImplements ==
    ASSUME IInv, IInv', NEW r \in Requests, ReadCards(r)
    PROVE  [Abstract!Next]_(Abstract!vars)
<1> DEFINE q == req[r]
<1>1. pc[r] = "cards" /\ UNCHANGED tables
  BY DEF ReadCards
<1>2. PICK step \in {"cards", "again", "done"} :
         Ends(r, step) /\ (step = "again" => q.kind = "rate")
  BY DEF ReadCards, Ends
<1>3. Shown(q, step) = "done" /\ Shown(q, "cards") = "done"
  BY <1>2 DEF Shown, Result, OpenAt, CheckSteps
<1> QED
  BY <1>1, <1>2, <1>3, Unseen

-----------------------------------------------------------------------------
LEMMA InitImplements == Init => Abstract!Init
<1> SUFFICES ASSUME Init PROVE Abstract!Init
  OBVIOUS
<1>1. Outcome = [r \in Requests |-> "idle"]
  BY DEF Init, Outcome, Open, CheckSteps
<1>2. /\ cards \in [CardIds -> [deck : DeckIds, text : Texts, reviews : {0}] \cup {None}]
      /\ \A c \in CardIds : cards[c] # None => decks[cards[c].deck] # None
  <2>1. ForeignKeys
    BY InitIInv DEF IInv
  <2> QED
    BY <2>1 DEF Init, ForeignKeys
<1> QED
  BY <1>1, <1>2 DEF Init, Abstract!Init, DeckRow

LEMMA NextImplements ==
    IInv /\ IInv' /\ [Next]_vars => [Abstract!Next]_(Abstract!vars)
<1> SUFFICES ASSUME IInv, IInv', [Next]_vars PROVE [Abstract!Next]_(Abstract!vars)
  OBVIOUS
<1>1. CASE UNCHANGED vars
  BY <1>1 DEF vars, tables, Outcome, Open, Reads, Abstract!vars, Abstract!tables
<1>2. ASSUME NEW r \in Requests, Serve(r) PROVE [Abstract!Next]_(Abstract!vars)
  BY <1>2, LookupsImplement, DeckWritesImplement, InsertCardImplements,
     CardWritesImplement, DeleteUserImplements, ListDecksImplements, GetDeckImplements,
     GetDeckAgainImplements, ReadCardsImplements DEF Serve
<1> QED
  BY <1>1, <1>2, ArriveImplements, LoseImplements DEF Next

(* Requests of any number of Users, each several statements long, behave   *)
(* like the atomic operations of Ownership: a write by the id of a Card    *)
(* that an earlier statement looked up, or a page of several reads, is     *)
(* allowed or refused as the owners at one instant demand.                 *)
THEOREM Implements == Spec => Refinement
BY Invariance, InitImplements, NextImplements, PTL
   DEF Spec, Refinement, Abstract!Spec
=============================================================================
