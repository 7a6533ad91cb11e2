------------------------------ MODULE StoreApi -------------------------------
(***************************************************************************)
(* What every Store promises (domain, store.rs, user.rs, error.rs): the    *)
(* form of its answers and the checks the use cases make on typed text     *)
(* before they call it.  A table is a function from the ids of its rows.   *)
(*                                                                         *)
(* Typed text is a pair <<body, padded>>; trimming takes the padding off.  *)
(* A username is a pair <<letters, upper>>.                                *)
(***************************************************************************)
EXTENDS Queue

CONSTANT Blank   \* the empty body

Put(table, id, row) ==
    [other \in DOMAIN table \cup {id} |-> IF other = id THEN row ELSE table[other]]
Keep(table, Test(_)) == Restrict(table, {id \in DOMAIN table : Test(table[id])})
Drop(table, id) == Restrict(table, DOMAIN table \ {id})
Find(table, id) == IF id \in DOMAIN table THEN table[id] ELSE None

Ok(value)  == <<"ok", value>>
Err(error) == <<"err", error>>
IsErr(answer) == answer[1] = "err"

(* The log rows of the Cards `ids`, in their order. *)
Remaining(log, ids) ==
    LET kept  == {i \in DOMAIN log : log[i].card_id \in ids}
        order == InOrder(kept, {pair \in kept \X kept : pair[1] < pair[2]})
    IN  [k \in DOMAIN order |-> log[order[k]]]

(* A Card as both Stores answer with it: the fields of Scheduler and its Deck. *)
NewCardIn(deck, text) ==
    [deck_id |-> deck, text |-> text, phase |-> "New", learning_step |-> None,
     memory |-> None, due |-> None, last_review |-> None]

(* A call leaves the state `to` and gives an answer. *)
Return(to, answer) == [to |-> to, answer |-> answer]

(* usernames_equal, and COLLATE NOCASE: the case of a letter is ignored. *)
UsernamesEqual(left, right) == left[1] = right[1]

Normalize(typed, error) ==
    IF typed[1] = Blank THEN Err(error) ELSE Ok(<<typed[1], FALSE>>)

NormalizeDeckName(name) == Normalize(name, "EmptyDeckName")

(* Both sides of a Card; the front is looked at first. *)
NormalizeCardSides(text) ==
    LET front == Normalize(text[1], "EmptyCardFront")
        back  == Normalize(text[2], "EmptyCardBack")
    IN  IF IsErr(front) THEN front
        ELSE IF IsErr(back) THEN back ELSE Ok(<<front[2], back[2]>>)
=============================================================================
