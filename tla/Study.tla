-------------------------------- MODULE Study --------------------------------
(***************************************************************************)
(* Study sessions on one Deck: which Card the queue offers (domain,        *)
(* queue.rs), how a page loads its inputs from the Store, and how browsers *)
(* with pages of any age rate the Cards they show.                         *)
(*                                                                         *)
(* The tables are those of ReviewLog, changed by its atomic operations,    *)
(* which Reviews implements.  A page takes the time when its request       *)
(* arrives and then reads the Cards and the first Reviews in two           *)
(* statements, between which anything may happen.                          *)
(***************************************************************************)
EXTENDS ReviewLog, Queue, Interval

CONSTANT Clients   \* browser tabs

VARIABLES
    clock,   \* the wall clock, UTC
    used,    \* the ids that were ever given to a Card; they are never reused
    pc,      \* pc[k]: what client k waits for
    asked,   \* asked[k]: the instant its request took as `now`
    view,    \* view[k]: the Cards its page read, None when it holds none
    shown    \* shown[k]: the Card its page shows, None when it shows none

pages == <<pc, asked, view, shown>>
studyVars == <<cards, log, clock, used, pages>>

(* Ids are 64-bit integers that SQLite counts up from 1. *)
ASSUME StudyAssumption ==
    /\ CardIds \subseteq Nat
    /\ IsFiniteSet(CardIds)
    /\ None \notin CardIds

Row == [CardIds -> Card \cup {None}]

(* A bound that counts tabs needs them to be finitely many. *)
ASSUME TabsAssumption == IsFiniteSet(Clients) /\ Clients # {}

ASSUME NoneIsNoView == None \notin Row

StudyTypeOK ==
    /\ TypeOK
    /\ clock \in Times
    /\ used \subseteq CardIds
    /\ pc \in [Clients -> {"away", "cards", "firsts", "shown", "rating"}]
    /\ asked \in [Clients -> Times]
    /\ view \in [Clients -> Row \cup {None}]
    /\ shown \in [Clients -> CardIds \cup {None}]
    /\ \A k \in Clients : /\ (view[k] # None) = (pc[k] = "firsts")
                          /\ (shown[k] # None) = (pc[k] \in {"shown", "rating"})

-----------------------------------------------------------------------------
(* first_review_times: MIN(rated_at) of each Card that has log rows. *)
FirstReview(entries) ==
    LET instants == {entries[i].rated_at : i \in DOMAIN entries}
    IN  CHOOSE t \in instants : \A u \in instants : t <= u

FirstReviews(logs) ==
    [c \in {d \in CardIds : logs[d] # <<>>} |-> FirstReview(logs[c])]

StudyQueue(table, logs, now) == SelectStudyQueue(table, FirstReviews(logs), now)

(* The line of the Deck on the home page, which loads the same inputs. *)
HomeLine(table, logs, now) == Summary(table, FirstReviews(logs), now)

-----------------------------------------------------------------------------
StudyInit ==
    /\ \E fresh \in SUBSET CardIds :
          /\ \A c \in fresh : \A d \in CardIds : d < c => d \in fresh
          /\ cards \in [CardIds -> {NewCard(t) : t \in Texts} \cup {None}]
          /\ \A c \in CardIds : (cards[c] # None) = (c \in fresh)
          /\ used = fresh
    /\ log = [c \in CardIds |-> <<>>]
    /\ clock \in {t \in Times : \A u \in Times : t <= u}
    /\ pc = [k \in Clients |-> "away"]
    /\ asked = [k \in Clients |-> clock]
    /\ view = [k \in Clients |-> None]
    /\ shown = [k \in Clients |-> None]

(* GET /decks/{id}/study, and the page that answers a rating. *)
OpenPage(k) ==
    /\ pc[k] = "away"
    /\ pc' = [pc EXCEPT ![k] = "cards"]
    /\ asked' = [asked EXCEPT ![k] = clock]
    /\ UNCHANGED <<cards, log, clock, used, view, shown>>

LoadCards(k) ==
    /\ pc[k] = "cards"
    /\ pc' = [pc EXCEPT ![k] = "firsts"]
    /\ view' = [view EXCEPT ![k] = cards]
    /\ UNCHANGED <<cards, log, clock, used, asked, shown>>

(* The first Reviews are read later than the Cards; the page shows the     *)
(* head of the queue.                                                      *)
LoadFirsts(k) ==
    /\ pc[k] = "firsts"
    /\ LET queue == StudyQueue(view[k], log, asked[k]) IN
          IF queue = <<>>
          THEN pc' = [pc EXCEPT ![k] = "away"] /\ UNCHANGED shown
          ELSE /\ pc' = [pc EXCEPT ![k] = "shown"]
               /\ shown' = [shown EXCEPT ![k] = Head(queue)]
    /\ view' = [view EXCEPT ![k] = None]
    /\ UNCHANGED <<cards, log, clock, used, asked>>

(* POST /cards/{id}/rate: the instant of the Review is taken first. *)
SendRating(k) ==
    /\ pc[k] = "shown"
    /\ pc' = [pc EXCEPT ![k] = "rating"]
    /\ asked' = [asked EXCEPT ![k] = clock]
    /\ UNCHANGED <<cards, log, clock, used, view, shown>>

CommitRating(k) ==
    /\ pc[k] = "rating"
    /\ IF cards[shown[k]] = None
       THEN UNCHANGED <<cards, log>>
       ELSE \E rating \in Ratings : Rate(shown[k], rating, asked[k])
    /\ pc' = [pc EXCEPT ![k] = "away"]
    /\ shown' = [shown EXCEPT ![k] = None]
    /\ UNCHANGED <<clock, used, asked, view>>

(* The tab is closed or its request fails; nothing was written. *)
ClosePage(k) ==
    /\ pc[k] # "away"
    /\ pc' = [pc EXCEPT ![k] = "away"]
    /\ view' = [view EXCEPT ![k] = None]
    /\ shown' = [shown EXCEPT ![k] = None]
    /\ UNCHANGED <<cards, log, clock, used, asked>>

(* From the Deck page: AUTOINCREMENT gives every new Card a larger id. *)
AddCard(c) ==
    /\ \A d \in CardIds : d <= c => (d \in used) = (d < c)
    /\ Create(c)
    /\ used' = used \cup {c}
    /\ UNCHANGED <<clock, pages>>

RemoveCard(c) ==
    /\ Delete(c)
    /\ UNCHANGED <<clock, used, pages>>

Tick ==
    /\ \E t \in Times : t > clock /\ clock' = t
    /\ UNCHANGED <<cards, log, used, pages>>

Page(k) ==
    OpenPage(k) \/ LoadCards(k) \/ LoadFirsts(k) \/ SendRating(k) \/ CommitRating(k)

StudyNext ==
    \/ \E k \in Clients : Page(k) \/ ClosePage(k)
    \/ \E c \in CardIds : AddCard(c) \/ RemoveCard(c)
    \/ Tick

StudySpec == StudyInit /\ [][StudyNext]_studyVars

(* No page load lasts over local midnight. *)
LoadsEndBeforeMidnight ==
    LocalDay(clock') # LocalDay(clock) =>
        \A k \in Clients : pc[k] \notin {"cards", "firsts"}

PromptSpec == StudyInit /\ [][StudyNext /\ LoadsEndBeforeMidnight]_studyVars

-----------------------------------------------------------------------------
(* The Cards whose first Review is of a local day. *)
IntroducedThat(day) ==
    {c \in CardIds : log[c] # <<>> /\ LocalDay(FirstReview(log[c])) = day}

(* No more of the Cards that a Deck has were introduced on one local day   *)
(* than the cap allows, although the rating endpoint does not look at the  *)
(* cap, pages of yesterday can still be rated and late commits move a      *)
(* first Review to an earlier day.  Like the queue this counts the stored  *)
(* Cards only: who deletes a Card gets its slot back, see MCSlots.         *)
DailyCap ==
    \A day \in {LocalDay(t) : t \in Times} :
        Cardinality(IntroducedThat(day)) <= NewCardsPerDay

(* A page load that lasts over local midnight counts the Cards introduced  *)
(* on the day before and offers a New Card that today has no room for.     *)
(* Even so each tab but one can exceed the cap by one Card a day: its next *)
(* page counts today.                                                      *)
CapWithinTabs ==
    \A day \in {LocalDay(t) : t \in Times} :
        Cardinality(IntroducedThat(day)) < NewCardsPerDay + Cardinality(Clients)

(* New Cards are introduced oldest first, whatever pages are open: as long *)
(* as a Card is New, so is every younger one.                              *)
NewInOrder ==
    \A c, d \in CardIds : (c < d /\ IsNew(cards[c]) /\ cards[d] # None) => IsNew(cards[d])

(* The pages agree about a Deck: the home page promises exactly the Cards  *)
(* that Study would offer; the Deck page calls "due now" exactly those     *)
(* that Study offers before any New one, and never labels a Card as due    *)
(* sooner than one that is due earlier; and the interval on a Study button *)
(* is what the Deck page shows once the button was pressed.                *)
PagesAgree ==
    LET queue == StudyQueue(cards, log, clock)
        home  == HomeLine(cards, log, clock)
        Label(card) == CardListDueLabel(card.phase, card.due, clock)
        due   == {c \in CardIds : cards[c] # None /\ cards[c].due # None}
    IN  /\ home.due_count + home.new_count = Len(queue)
        /\ {queue[i] : i \in 1..home.due_count} = {c \in due : Label(cards[c]) = <<0, 0>>}
        /\ \A c, d \in due :
              cards[c].due <= cards[d].due => NotLonger(Label(cards[c]), Label(cards[d]))
        /\ \A c \in CardIds, rating \in Ratings : cards[c] # None =>
              LET after == ApplyRating(cards[c], rating, clock) IN
              after.due > clock => IntervalLabel(cards[c], rating, clock) = Label(after)

(* The Cards that a queue has before Card c. *)
Ahead(queue, c) ==
    {queue[i] : i \in {j \in DOMAIN queue :
                           \E n \in DOMAIN queue : j < n /\ queue[n] = c}}

(* While a Card is due and not rated, no other gets in front of it: not    *)
(* one that falls due later, not a New one and not one that is rated again *)
(* and again.  Only a Rating that took its instant before the Card was due *)
(* can be committed late and put its own Card in front.  So the Cards      *)
(* around it do not put a due Card off for ever.                           *)
NobodyPushesIn ==
    [][LET before == StudyQueue(cards, log, clock)
           after  == StudyQueue(cards', log', clock')
       IN  \A c \in CardIds :
              (IsDue(cards[c], clock) /\ cards'[c] # None /\ log'[c] = log[c])
              => \A d \in Ahead(after, c) :
                    \/ d \in Ahead(before, c) /\ log'[d] = log[d]
                    \/ \E k \in Clients : /\ pc[k] = "rating" /\ shown[k] = d
                                          /\ asked[k] <= cards[c].due
      ]_<<cards, log, clock>>
=============================================================================
