------------------------------ MODULE Interval -------------------------------
(***************************************************************************)
(* The interval labels of the pages (domain, interval.rs).  A label is a   *)
(* pair <<unit, count>>, the units ranked by length: 0 is "due now", 1 to  *)
(* 5 are m, h, d, mo and y; "<1m" is <<1, 0>>.                             *)
(***************************************************************************)
EXTENDS Scheduler

CONSTANT Minute   \* one minute in the unit of Times

Hour == 60 * Minute
Day  == 24 * Hour

ASSUME MinuteAssumption == Minute \in Nat \ {0} /\ Day = MinutesPerDay

HumanizeDueDelta(delta) ==
    LET days == delta \div Day IN
    IF delta < Minute                THEN <<1, 0>>
    ELSE IF delta \div Minute < 60   THEN <<1, delta \div Minute>>
    ELSE IF delta \div Hour < 24     THEN <<2, delta \div Hour>>
    ELSE IF days < 30                THEN <<3, days>>
    ELSE IF days < 365               THEN <<4, days \div 30>>
    ELSE                                  <<5, days \div 365>>

(* The due line of a Card in the list of its Deck; a New Card has none. *)
CardListDueLabel(phase, due, now) ==
    IF phase = "New" \/ due = None THEN None
    ELSE IF due <= now THEN <<0, 0>>
    ELSE HumanizeDueDelta(due - now)

(* The labels on the four buttons of a Study page: the Rating is tried on  *)
(* a copy of the Card.                                                     *)
PreviewDueDelta(card, rating, now) == ApplyRating(card, rating, now).due - now

IntervalLabel(card, rating, now) == HumanizeDueDelta(PreviewDueDelta(card, rating, now))

(* How a reader compares two labels. *)
NotLonger(label, other) ==
    \/ label[1] < other[1]
    \/ label[1] = other[1] /\ label[2] <= other[2]
=============================================================================
