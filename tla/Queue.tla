-------------------------------- MODULE Queue --------------------------------
(***************************************************************************)
(* Which Cards a Deck offers at an instant: the study queue and the counts *)
(* of the home page (domain, queue.rs and home.rs).  `cards` maps the ids  *)
(* of a Deck's Cards to their rows, None where there is none; `firsts`     *)
(* maps each reviewed Card to the instant of its first Review.             *)
(***************************************************************************)
EXTENDS Scheduler, FiniteSets, SequencesExt

CONSTANTS
    NewCardsPerDay,    \* NEW_CARDS_PER_LOCAL_DAY, 20 in the code
    LocalOffset        \* local time is UTC plus this

ASSUME QueueAssumption ==
    /\ NewCardsPerDay \in Nat
    /\ LocalOffset \in Int

LocalDay(instant) == (instant + LocalOffset) \div MinutesPerDay

(* Mutant: the day begins at midnight UTC. *)
IntroducedOn_Utc(firsts, now) ==
    {c \in DOMAIN firsts : firsts[c] \div MinutesPerDay = now \div MinutesPerDay}

IntroducedOn(firsts, now) ==
    {c \in DOMAIN firsts : LocalDay(firsts[c]) = LocalDay(now)}

RemainingSlots(introduced) ==
    IF introduced < NewCardsPerDay THEN NewCardsPerDay - introduced ELSE 0

(* Mutant: a Card becomes due only after its instant. *)
IsDue_Strict(card, now) == card # None /\ card.due # None /\ card.due < now

IsDue(card, now) == card # None /\ card.due # None /\ card.due <= now

IsNew(card) == card # None /\ card.phase = "New"

(* A set as a sequence in which an element comes before those it precedes. *)
InOrder(S, precedes) ==
    CHOOSE order \in SetToSeqs(S) :
        \A i, j \in DOMAIN order : i < j => <<order[i], order[j]>> \in precedes

(* Mutant: the Card that fell due last comes first. *)
DueFirst_LatestFirst(cards, now) ==
    LET due == {c \in DOMAIN cards : IsDue(cards[c], now)}
    IN  InOrder(due, {pair \in due \X due :
                          \/ cards[pair[1]].due > cards[pair[2]].due
                          \/ cards[pair[1]].due = cards[pair[2]].due /\ pair[1] < pair[2]})

(* due.sort_by_key((due, id)) and new_cards.sort_by_key(id). *)
DueFirst(cards, now) ==
    LET due == {c \in DOMAIN cards : IsDue(cards[c], now)}
        Earlier(c, d) == \/ cards[c].due < cards[d].due
                         \/ cards[c].due = cards[d].due /\ c < d
    IN  InOrder(due, {pair \in due \X due : Earlier(pair[1], pair[2])})

NewFirst(cards) ==
    LET new == {c \in DOMAIN cards : IsNew(cards[c])}
    IN  InOrder(new, {pair \in new \X new : pair[1] < pair[2]})

(* new_cards.truncate and the cap of the home page. *)
Capped(count, introduced) ==
    LET slots == RemainingSlots(introduced) IN IF count < slots THEN count ELSE slots

(* Mutants: the cap forgets the Cards introduced already; the newest Cards *)
(* come first.                                                             *)
SelectStudyQueue_ForgetsIntroduced(cards, firsts, now) ==
    LET new == NewFirst(cards)
    IN  DueFirst(cards, now) \o SubSeq(new, 1, Capped(Len(new), 0))

SelectStudyQueue_NewestFirst(cards, firsts, now) ==
    LET new == Reverse(NewFirst(cards))
        introduced == Cardinality(IntroducedOn(firsts, now))
    IN  DueFirst(cards, now) \o SubSeq(new, 1, Capped(Len(new), introduced))

SelectStudyQueue(cards, firsts, now) ==
    LET new == NewFirst(cards)
        introduced == Cardinality(IntroducedOn(firsts, now))
    IN  DueFirst(cards, now) \o SubSeq(new, 1, Capped(Len(new), introduced))

(* One line of summarize_home. *)
Summary(cards, firsts, now) ==
    [due_count |-> Cardinality({c \in DOMAIN cards : IsDue(cards[c], now)}),
     new_count |-> Capped(Cardinality({c \in DOMAIN cards : IsNew(cards[c])}),
                          Cardinality(IntroducedOn(firsts, now)))]
=============================================================================
