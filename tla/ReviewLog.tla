------------------------------ MODULE ReviewLog ------------------------------
(***************************************************************************)
(* What the Store promises about Cards and their Review logs: every        *)
(* operation is one atomic step on the two tables `cards` and              *)
(* `review_logs`.  A Review changes a Card and appends one log row         *)
(* together (docs/adr/0003), an edit leaves the schedule alone, and a      *)
(* deletion takes the Card's log with it.  Reviews is the implementation.  *)
(***************************************************************************)
EXTENDS Scheduler

CONSTANT CardIds

VARIABLES
    cards,  \* cards[c]: the row of Card c, None when there is none
    log     \* log[c]: the review_logs rows of Card c, in insertion order

vars == <<cards, log>>

LogEntry == [rated_at : Times, rating : Ratings]

TypeOK ==
    /\ cards \in [CardIds -> Card \cup {None}]
    /\ log \in [CardIds -> Seq(LogEntry)]

Init ==
    /\ cards \in [CardIds -> {NewCard(t) : t \in Texts} \cup {None}]
    /\ log = [c \in CardIds |-> <<>>]

(* Which free id an INSERT is given is left open here. *)
Create(c) ==
    /\ cards[c] = None
    /\ \E t \in Texts : cards' = [cards EXCEPT ![c] = NewCard(t)]
    /\ UNCHANGED log

(* Mutant: an edit stores the whole row of a new Card. *)
Edit_ResetsSchedule(c) ==
    /\ cards[c] # None
    /\ \E t \in Texts : cards' = [cards EXCEPT ![c] = NewCard(t)]
    /\ UNCHANGED log

Edit(c) ==
    /\ cards[c] # None
    /\ \E t \in Texts : cards' = [cards EXCEPT ![c].text = t]
    /\ UNCHANGED log

Rate(c, rating, now) ==
    /\ cards[c] # None
    /\ cards' = [cards EXCEPT ![c] = ApplyRating(cards[c], rating, now)]
    /\ log' = [log EXCEPT ![c] = Append(@, [rated_at |-> now, rating |-> rating])]

(* Mutant: foreign keys are off. *)
Delete_NoCascade(c) ==
    /\ cards[c] # None
    /\ cards' = [cards EXCEPT ![c] = None]
    /\ UNCHANGED log

(* ON DELETE CASCADE removes the log rows with the Card. *)
Delete(c) ==
    /\ cards[c] # None
    /\ cards' = [cards EXCEPT ![c] = None]
    /\ log' = [log EXCEPT ![c] = <<>>]

Next ==
    \E c \in CardIds :
        \/ Create(c)
        \/ Edit(c)
        \/ \E rating \in Ratings, now \in Times : Rate(c, rating, now)
        \/ Delete(c)

Spec == Init /\ [][Next]_vars

-----------------------------------------------------------------------------
(* Every stored row satisfies the CHECK constraints of the schema, so that *)
(* no Review is refused by the database for the values it computed.        *)
RowsWellFormed ==
    \A c \in CardIds : cards[c] # None => CardWF(cards[c])

(* A Card is New exactly as long as it has no Review, its last_review is   *)
(* the instant of its last log row, and a deleted Card leaves no rows.     *)
CardMatchesLog ==
    \A c \in CardIds :
        /\ cards[c] = None => log[c] = <<>>
        /\ cards[c] # None =>
              /\ (cards[c].phase = "New") = (log[c] = <<>>)
              /\ log[c] # <<>> =>
                    cards[c].last_review = log[c][Len(log[c])].rated_at

(* FSRS memory is only ever acquired through a Good or an Easy: a Card     *)
(* that was never passed is never scheduled by FSRS.                       *)
MemoryWasEarned ==
    \A c \in CardIds :
        cards[c] # None /\ cards[c].memory # None =>
            \E i \in DOMAIN log[c] : log[c][i].rating \in {"Good", "Easy"}

(* A rated Card falls due no earlier than the instant it was rated at. *)
DueAfterReview ==
    \A c \in CardIds :
        cards[c] # None /\ cards[c].due # None =>
            cards[c].due >= cards[c].last_review

(* The schedule of a Card is a function of its Review log: replaying the   *)
(* log from a New Card gives the stored row, so no Review was lost,        *)
(* applied twice or applied to another Card's state.                       *)
LogExplainsCard ==
    \A c \in CardIds :
        cards[c] # None => cards[c] = Replay(log[c], cards[c].text)

(* Reviews never take knowledge away: a Card that has FSRS memory keeps    *)
(* some for as long as it exists, leaves Review only by lapsing on Again,  *)
(* and never returns to New or to Learning.                                *)
LearnedStaysLearned ==
    [][\A c \in CardIds :
          (cards[c] # None /\ cards[c].memory # None /\ cards'[c] # None) =>
              /\ cards'[c].memory # None
              /\ cards'[c].phase \in {"Review", "Relearning"}
              /\ (cards[c].phase = "Review" /\ cards'[c].phase = "Relearning") =>
                    log'[c][Len(log'[c])].rating = "Again"]_vars
=============================================================================
