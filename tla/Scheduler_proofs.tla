--------------------------- MODULE Scheduler_proofs ---------------------------
(***************************************************************************)
(* What the proofs about several modules cite: facts about one Rating of   *)
(* one Card, for every step table and every FSRS, and about the listing of *)
(* a set in order.                                                         *)
(***************************************************************************)
EXTENDS Scheduler, SequencesExt, FiniteSetTheorems, TLAPS

(* schedule() returns a memory and never a due instant before now. *)
LEMMA ScheduleType ==
    ASSUME NEW memory \in Memory \cup {None}, NEW last \in Times \cup {None},
           NEW rating \in Ratings, NEW now \in Times
    PROVE  LET s == Schedule(memory, last, rating, now)
           IN  s.memory \in Memory /\ s.due \in Nat /\ s.due >= now
<1> DEFINE q == <<memory, ElapsedDays(last, now), rating>>
<1>1. ElapsedDays(last, now) \in Days
  BY DEF Days
<1>2. q \in (Memory \cup {None}) \X Days \X Ratings
  BY <1>1
<1>3. Fsrs[q] \in [memory : Memory, interval : Nat]
  BY <1>2, FsrsAssumption
<1>4. now \in Nat
  BY TimesAssumption
<1>5. Schedule(memory, last, rating, now)
        = [memory |-> Fsrs[q].memory, due |-> now + Fsrs[q].interval]
  BY DEF Schedule
<1> QED
  BY <1>3, <1>4, <1>5

(* The step of a Card is an index of the table. *)
LEMMA CurrentStepInTable ==
    ASSUME NEW card \in Card, NEW steps \in Seq(Nat), steps # <<>>
    PROVE  CurrentStep(card, steps) \in 0 .. Len(steps) - 1
<1>1. Len(steps) \in Nat \ {0}
  OBVIOUS
<1>2. card.learning_step \in Nat \cup {None}
  BY DEF Card
<1> QED
  BY <1>1, <1>2, TimesAssumption DEF CurrentStep

(* What a rated Card looks like, whatever it was rated. *)
RatedCard(card, rating, now, rated) ==
    /\ rated \in Card
    /\ CardWF(rated)
    /\ rated.text = card.text
    /\ rated.phase # "New"
    /\ rated.last_review = now
    /\ rated.due >= now
    /\ card.memory # None =>
          rated.memory # None /\ rated.phase \in {"Review", "Relearning"}
    /\ (card.memory = None /\ rated.memory # None) => rating \in {"Good", "Easy"}
    /\ (card.phase = "Review" /\ rated.phase = "Relearning") => rating = "Again"

(* Graduation: the Card enters Review with the memory FSRS gives it. *)
LEMMA GraduateCorrect ==
    ASSUME NEW card \in Card, NEW rating \in Ratings, NEW now \in Times
    PROVE  LET g == Graduate(card, rating, now)
           IN  /\ g \in Card
               /\ g.phase = "Review" /\ g.learning_step = None
               /\ g.memory # None /\ g.due # None /\ g.due >= now
               /\ g.text = card.text /\ g.last_review = card.last_review
<1> DEFINE s == Schedule(card.memory, card.last_review, rating, now)
<1>1. card.memory \in Memory \cup {None} /\ card.last_review \in Times \cup {None}
  BY DEF Card
<1>2. s.memory \in Memory /\ s.due \in Nat /\ s.due >= now
  BY <1>1, ScheduleType
<1>3. Graduate(card, rating, now)
        = [card EXCEPT !.phase = "Review", !.learning_step = None,
                       !.memory = s.memory, !.due = s.due]
  BY DEF Graduate
<1>4. s.memory # None /\ s.due # None
  BY <1>2, TimesAssumption, FsrsAssumption
<1> DEFINE memory == s.memory
           due == s.due
           g == [card EXCEPT !.phase = "Review", !.learning_step = None,
                             !.memory = memory, !.due = due]
<1>5. memory \in Memory /\ due \in Nat /\ due >= now /\ memory # None /\ due # None
  BY <1>2, <1>4
<1> HIDE DEF memory, due
<1>6. g \in Card
  BY <1>5 DEF Card, Phases
<1>7. /\ g.phase = "Review" /\ g.learning_step = None
      /\ g.memory = memory /\ g.due = due
      /\ g.text = card.text /\ g.last_review = card.last_review
  BY DEF Card
<1>8. Graduate(card, rating, now) = g
  BY <1>3 DEF memory, due
<1> HIDE DEF g
<1> QED
  BY <1>5, <1>6, <1>7, <1>8

(* A Rating of a Card that is on a table of steps keeps it on the table or *)
(* graduates it; Again and Hard never graduate.                            *)
LEMMA ApplyStepRatingCorrect ==
    ASSUME NEW card \in Card, NEW rating \in Ratings, NEW now \in Times,
           NEW steps \in Seq(Nat), steps # <<>>, NEW stay \in Phases
    PROVE  LET a == ApplyStepRating(card, rating, now, steps, stay)
           IN  /\ a \in Card
               /\ a.due # None /\ a.due >= now
               /\ a.text = card.text /\ a.last_review = card.last_review
               /\ \/ /\ a.phase = stay /\ a.learning_step # None
                     /\ a.memory = card.memory
                  \/ /\ a.phase = "Review" /\ a.learning_step = None
                     /\ a.memory # None /\ rating \in {"Good", "Easy"}
<1> DEFINE a == ApplyStepRating(card, rating, now, steps, stay)
           i == CurrentStep(card, steps)
           AtStep(k) == [card EXCEPT !.phase = stay, !.learning_step = k,
                                     !.due = now + steps[k + 1]]
<1>1. i \in 0 .. Len(steps) - 1 /\ Len(steps) \in Nat \ {0}
  BY CurrentStepInTable
<1>2. ASSUME NEW k \in 0 .. Len(steps) - 1
      PROVE  /\ AtStep(k) \in Card
             /\ AtStep(k).due # None /\ AtStep(k).due >= now
             /\ AtStep(k).text = card.text
             /\ AtStep(k).last_review = card.last_review
             /\ AtStep(k).phase = stay /\ AtStep(k).learning_step # None
             /\ AtStep(k).memory = card.memory
  <2>1. steps[k + 1] \in Nat /\ now \in Nat /\ k \in Nat
    BY <1>1, TimesAssumption
  <2> DEFINE due == now + steps[k + 1]
             r == [card EXCEPT !.phase = stay, !.learning_step = k, !.due = due]
  <2>2. due \in Nat /\ due >= now /\ due # None /\ k # None
    BY <2>1, TimesAssumption
  <2> HIDE DEF due
  <2>3. r \in Card
    BY <2>1, <2>2 DEF Card
  <2>4. /\ r.phase = stay /\ r.learning_step = k /\ r.due = due
        /\ r.text = card.text /\ r.last_review = card.last_review
        /\ r.memory = card.memory
    BY DEF Card
  <2>5. AtStep(k) = r
    BY DEF due
  <2> HIDE DEF r, AtStep
  <2> QED
    BY <2>2, <2>3, <2>4, <2>5
<1>3. CASE rating = "Again"
  <2>1. a = AtStep(0)
    BY <1>3 DEF ApplyStepRating
  <2> HIDE DEF AtStep, i
  <2> QED
    BY <1>1, <1>2, <2>1
<1>4. CASE rating = "Hard"
  <2>1. a = AtStep(i)
    BY <1>4 DEF ApplyStepRating
  <2> HIDE DEF AtStep, i
  <2> QED
    BY <1>1, <1>2, <2>1
<1>5. CASE rating = "Good" /\ i + 1 < Len(steps)
  <2>1. a = AtStep(i + 1)
    BY <1>5 DEF ApplyStepRating
  <2>2. i + 1 \in 0 .. Len(steps) - 1
    BY <1>1, <1>5
  <2> HIDE DEF AtStep, i
  <2> QED
    BY <1>2, <2>1, <2>2
<1>6. CASE rating = "Easy" \/ (rating = "Good" /\ ~(i + 1 < Len(steps)))
  <2>1. a = Graduate(card, rating, now)
    BY <1>6 DEF ApplyStepRating
  <2> QED
    BY <1>6, <2>1, GraduateCorrect
<1> QED
  BY <1>3, <1>4, <1>5, <1>6 DEF Ratings

(* A Rating of a Card in Review keeps it there or lapses it on Again. *)
LEMMA ApplyReviewRatingCorrect ==
    ASSUME NEW card \in Card, NEW rating \in Ratings, NEW now \in Times
    PROVE  LET a == ApplyReviewRating(card, rating, now)
           IN  /\ a \in Card
               /\ a.due # None /\ a.due >= now
               /\ a.text = card.text /\ a.last_review = card.last_review
               /\ a.memory # None
               /\ \/ a.phase = "Review" /\ a.learning_step = None
                  \/ /\ a.phase = "Relearning" /\ a.learning_step # None
                     /\ rating = "Again"
<1> DEFINE s == Schedule(card.memory, card.last_review, rating, now)
<1>1. card.memory \in Memory \cup {None} /\ card.last_review \in Times \cup {None}
  BY DEF Card
<1>2. s.memory \in Memory /\ s.due \in Nat /\ s.due >= now
  BY <1>1, ScheduleType
<1>3. RelearningSteps[1] \in Nat /\ now \in Nat
  BY StepsAssumption, TimesAssumption
<1> DEFINE step == IF rating = "Again" THEN 0 ELSE None
           phase == IF rating = "Again" THEN "Relearning" ELSE "Review"
           due == IF rating = "Again" THEN now + RelearningSteps[1] ELSE s.due
<1>4. ApplyReviewRating(card, rating, now)
        = [text |-> card.text, phase |-> phase, learning_step |-> step,
           memory |-> s.memory, due |-> due, last_review |-> card.last_review]
  BY DEF ApplyReviewRating, Card
<1>5. due \in Nat /\ due >= now /\ due # None /\ s.memory # None /\ 0 # None
  BY <1>2, <1>3, TimesAssumption, FsrsAssumption
<1>6. /\ step \in Nat \cup {None} /\ phase \in Phases /\ card.text \in Texts
      /\ \/ phase = "Review" /\ step = None
         \/ phase = "Relearning" /\ step # None /\ rating = "Again"
  BY <1>5 DEF Phases, Card
<1> HIDE DEF s, step, phase, due
<1>7. ApplyReviewRating(card, rating, now) \in Card
  BY <1>1, <1>2, <1>4, <1>5, <1>6 DEF Card
<1> QED
  BY <1>4, <1>5, <1>6, <1>7

(* Every Rating of every well-formed Card gives a well-formed Card, due no *)
(* earlier than now, that remembers the instant and keeps its texts; New   *)
(* is left for good and so is the time before FSRS memory.                 *)
THEOREM ApplyRatingCorrect ==
    ASSUME NEW card \in Card, CardWF(card), NEW rating \in Ratings, NEW now \in Times
    PROVE  RatedCard(card, rating, now, ApplyRating(card, rating, now))
<1> DEFINE started == IF card.phase = "New"
                      THEN [card EXCEPT !.phase = "Learning", !.learning_step = 0]
                      ELSE card
           rated ==
             CASE started.phase = "Learning" ->
                    ApplyStepRating(started, rating, now, LearningSteps, "Learning")
               [] started.phase = "Relearning" ->
                    ApplyStepRating(started, rating, now, RelearningSteps, "Relearning")
               [] OTHER -> ApplyReviewRating(started, rating, now)
<1>1. ApplyRating(card, rating, now) = [rated EXCEPT !.last_review = now]
  BY DEF ApplyRating
<1>2. /\ started \in Card /\ started.text = card.text
      /\ started.memory = card.memory
      /\ started.phase = IF card.phase = "New" THEN "Learning" ELSE card.phase
  BY DEF Card, Phases
<1>3. now \in Nat /\ now # None
  BY TimesAssumption
<1>4. ASSUME NEW r \in Card,
             /\ r.due # None /\ r.due >= now /\ r.text = card.text
             /\ r.phase # "New"
             /\ r.phase = "Learning" => r.memory = None /\ r.learning_step # None
             /\ r.phase = "Review" => r.memory # None /\ r.learning_step = None
             /\ r.phase = "Relearning" => r.memory # None /\ r.learning_step # None
      PROVE  LET a == [r EXCEPT !.last_review = now]
             IN  /\ a \in Card /\ CardWF(a)
                 /\ a.text = card.text /\ a.phase = r.phase /\ a.memory = r.memory
                 /\ a.due = r.due /\ a.due >= now /\ a.last_review = now
  BY <1>3, <1>4 DEF Card, CardWF, Phases
<1> HIDE DEF started
<1>5. CASE started.phase = "Learning"
  <2>1. rated = ApplyStepRating(started, rating, now, LearningSteps, "Learning")
    BY <1>5
  <2>2. card.memory = None /\ card.phase \in {"New", "Learning"}
    BY <1>2, <1>5 DEF CardWF, Card, Phases
  <2>3. /\ LearningSteps \in Seq(Nat) /\ LearningSteps # <<>>
        /\ "Learning" \in Phases
    BY StepsAssumption DEF Phases
  <2> HIDE DEF rated
  <2> QED
    BY <1>1, <1>2, <1>4, <2>1, <2>2, <2>3, ApplyStepRatingCorrect DEF RatedCard
<1>6. CASE started.phase = "Relearning"
  <2>1. rated = ApplyStepRating(started, rating, now, RelearningSteps, "Relearning")
    BY <1>6
  <2>2. card.memory # None /\ card.phase = "Relearning"
    BY <1>2, <1>6 DEF CardWF, Card, Phases
  <2>3. /\ RelearningSteps \in Seq(Nat) /\ RelearningSteps # <<>>
        /\ "Relearning" \in Phases
    BY StepsAssumption DEF Phases
  <2> HIDE DEF rated
  <2> QED
    BY <1>1, <1>2, <1>4, <2>1, <2>2, <2>3, ApplyStepRatingCorrect DEF RatedCard
<1>7. CASE started.phase = "Review"
  <2>1. rated = ApplyReviewRating(started, rating, now)
    BY <1>7
  <2>2. card.memory # None /\ card.phase = "Review"
    BY <1>2, <1>7 DEF CardWF, Card, Phases
  <2> HIDE DEF rated
  <2> QED
    BY <1>1, <1>2, <1>4, <2>1, <2>2, ApplyReviewRatingCorrect DEF RatedCard
<1> QED
  BY <1>2, <1>5, <1>6, <1>7 DEF Card, Phases
-----------------------------------------------------------------------------
(* Sorting.  Sets and sequences of any length: where an induction is due,  *)
(* there is a least counterexample.                                        *)
LEMMA LeastNat ==
    ASSUME NEW T, T \subseteq Nat, T # {}
    PROVE  \E x \in T : \A y \in T : x <= y
<1> DEFINE R == OpToRel(<, Nat)
<1>1. \A x, y \in Nat : <<y, x>> \in R <=> y < x
  BY DEF OpToRel
<1>2. IsWellFoundedOn(R, Nat)
  BY NatLessThanWellFounded
<1> HIDE DEF R
<1>3. PICK x \in T : \A y \in T : ~(<<y, x>> \in R)
  BY <1>2, WFMin
<1>4. ASSUME NEW y \in T PROVE x <= y
  <2>1. x \in Nat /\ y \in Nat /\ ~(y < x)
    BY <1>1, <1>3
  <2> QED
    BY <2>1
<1> QED
  BY <1>4

(* A finite set whose non-empty subsets all have an element that comes     *)
(* before the others can be listed in that order.                          *)
LEMMA SortExists ==
    ASSUME NEW S, IsFiniteSet(S), NEW R,
           \A U \in SUBSET S : U # {} => \E m \in U : \A x \in U \ {m} : <<m, x>> \in R
    PROVE  \E order \in SetToSeqs(S) :
              \A i, j \in DOMAIN order : i < j => <<order[i], order[j]>> \in R
<1> DEFINE Sorted(U) == \E order \in [1..Cardinality(U) -> U] :
                           /\ \A i, j \in 1..Cardinality(U) : i # j => order[i] # order[j]
                           /\ \A i, j \in 1..Cardinality(U) :
                                 i < j => <<order[i], order[j]>> \in R
           bad == {U \in SUBSET S : ~Sorted(U)}
           sizes == {Cardinality(U) : U \in bad}
<1>1. \A U \in SUBSET S : IsFiniteSet(U) /\ Cardinality(U) \in Nat
  BY FS_Subset, FS_CardinalityType
<1>2. SUFFICES ASSUME bad # {} PROVE FALSE
  <2>1. Sorted(S)
    BY <1>2
  <2> QED
    BY <2>1, <1>1 DEF SetToSeqs
<1>3. PICK U \in bad : \A V \in bad : Cardinality(U) <= Cardinality(V)
  <2>1. sizes \subseteq Nat /\ sizes # {}
    BY <1>1, <1>2
  <2>2. PICK n \in sizes : \A m \in sizes : n <= m
    BY <2>1, LeastNat
  <2> QED
    BY <2>2
<1>4. U # {}
  <2> SUFFICES ASSUME U = {} PROVE FALSE
    OBVIOUS
  <2>1. Cardinality(U) = 0 /\ 1..Cardinality(U) = {}
    BY FS_EmptySet
  <2>2. [i \in {} |-> i] \in [1..Cardinality(U) -> U]
    BY <2>1
  <2> QED
    BY <1>3, <2>1, <2>2
<1>5. PICK m \in U : \A x \in U \ {m} : <<m, x>> \in R
  BY <1>3, <1>4
<1> DEFINE V == U \ {m}
           n == Cardinality(V)
<1>6. Cardinality(U) = n + 1 /\ n \in Nat /\ V \in SUBSET S
  BY <1>1, <1>3, <1>5, FS_RemoveElement
<1>7. PICK rest \in [1..n -> V] :
         /\ \A i, j \in 1..n : i # j => rest[i] # rest[j]
         /\ \A i, j \in 1..n : i < j => <<rest[i], rest[j]>> \in R
  <2>1. ASSUME V \in bad PROVE FALSE
    <3> HIDE DEF bad, V
    <3>1. Cardinality(U) <= n
      BY <1>3, <2>1
    <3> QED
      BY <1>6, <3>1
  <2> QED
    BY <1>6, <2>1
<1> DEFINE order == [i \in 1..(n + 1) |-> IF i = 1 THEN m ELSE rest[i - 1]]
<1> HIDE DEF n, V
<1>8. \A i \in 1..(n + 1) : i # 1 => i - 1 \in 1..n /\ rest[i - 1] \in V
  BY <1>6, <1>7
<1>9. m \in U /\ V \subseteq U /\ m \notin V /\ \A x \in V : <<m, x>> \in R
  BY <1>5 DEF V
<1>10. order \in [1..(n + 1) -> U]
  BY <1>8, <1>9
<1>11. \A i, j \in 1..(n + 1) : i < j => <<order[i], order[j]>> \in R /\ order[i] # order[j]
  <2> SUFFICES ASSUME NEW i \in 1..(n + 1), NEW j \in 1..(n + 1), i < j
               PROVE  <<order[i], order[j]>> \in R /\ order[i] # order[j]
    OBVIOUS
  <2>1. order[j] = rest[j - 1] /\ rest[j - 1] \in V /\ j - 1 \in 1..n
    BY <1>6, <1>8
  <2>2. CASE i = 1
    BY <1>9, <2>1, <2>2
  <2>3. CASE i # 1
    BY <1>6, <1>7, <1>8, <2>1, <2>3
  <2> QED
    BY <2>2, <2>3
<1> HIDE DEF order
<1>12. \A i, j \in 1..(n + 1) : i # j => order[i] # order[j]
  <2>1. \A i, j \in 1..(n + 1) : i # j => i < j \/ j < i
    BY <1>6
  <2> QED
    BY <1>11, <2>1
<1>13. Sorted(U)
  BY <1>6, <1>10, <1>11, <1>12
<1> QED
  BY <1>3, <1>13

(* A listing of a set reaches every element. *)
LEMMA ListsAll ==
    ASSUME NEW S, IsFiniteSet(S), NEW order \in SetToSeqs(S)
    PROVE  /\ Cardinality(S) \in Nat /\ order \in [1..Cardinality(S) -> S]
           /\ order \in Seq(S) /\ Len(order) = Cardinality(S)
           /\ \A x \in S : \E i \in 1..Cardinality(S) : order[i] = x
<1> DEFINE n == Cardinality(S)
<1>1. n \in Nat
  BY FS_CardinalityType
<1>2. order \in [1..n -> S] /\ \A i, j \in 1..n : i # j => order[i] # order[j]
  BY DEF SetToSeqs
<1>3. ASSUME NEW x \in S, \A i \in 1..n : order[i] # x
      PROVE  FALSE
  <2>1. IsFiniteSet(S \ {x}) /\ Cardinality(S \ {x}) < n
    <3>1. x \in S
      BY <1>3
    <3>2. IsFiniteSet(S \ {x}) /\ Cardinality(S \ {x}) = n - 1
      BY <3>1, FS_RemoveElement
    <3> QED
      BY <1>1, <3>2
  <2>2. order \in [1..n -> S \ {x}]
    BY <1>2, <1>3
  <2>3. IsFiniteSet(1..n) /\ Cardinality(1..n) = n
    BY <1>1, FS_Interval
  <2> HIDE DEF n
  <2>4. \E i, j \in 1..n : i # j /\ order[i] = order[j]
    BY <2>1, <2>2, <2>3, FS_PigeonHole
  <2> QED
    BY <1>2, <2>4
<1>4. order \in Seq(S) /\ Len(order) = n
  BY <1>1, <1>2
<1> QED
  BY <1>1, <1>2, <1>3, <1>4

-----------------------------------------------------------------------------
(* Replaying a log.  `after` lists the Cards a replay goes through.        *)
IsReplay(after, entries, text) ==
    after = [n \in 0..Len(entries) |->
                IF n = 0 THEN NewCard(text)
                ELSE ApplyRating(after[n - 1], entries[n].rating, entries[n].rated_at)]

(* There is one replay of a log at most, and Replay ends where it ends. *)
LEMMA ReplayIs ==
    ASSUME NEW S, NEW entries \in Seq(S), NEW text, NEW after,
           IsReplay(after, entries, text)
    PROVE  Replay(entries, text) = after[Len(entries)]
<1> DEFINE other == CHOOSE f : IsReplay(f, entries, text)
           differ == {n \in 0..Len(entries) : other[n] # after[n]}
<1>1. IsReplay(other, entries, text)
  OBVIOUS
<1>2. Replay(entries, text) = other[Len(entries)]
  BY DEF Replay, IsReplay
<1> HIDE DEF other
<1>3. Len(entries) \in Nat
  OBVIOUS
<1>4. \A n \in 0..Len(entries) :
        /\ after[n] = IF n = 0 THEN NewCard(text)
                      ELSE ApplyRating(after[n - 1], entries[n].rating, entries[n].rated_at)
        /\ other[n] = IF n = 0 THEN NewCard(text)
                      ELSE ApplyRating(other[n - 1], entries[n].rating, entries[n].rated_at)
  BY <1>1 DEF IsReplay
<1>5. differ = {}
  <2> SUFFICES ASSUME differ # {} PROVE FALSE
    OBVIOUS
  <2>1. PICK n \in differ : \A m \in differ : n <= m
    <3>1. differ \subseteq Nat
      BY <1>3
    <3> HIDE DEF differ
    <3> QED
      BY <3>1, LeastNat
  <2>2. n \in 0..Len(entries) /\ other[n] # after[n]
    BY <2>1
  <2>3. CASE n = 0
    BY <1>4, <2>2, <2>3
  <2>4. CASE n # 0
    <3>1. n - 1 \in 0..Len(entries) /\ ~(n <= n - 1)
      BY <1>3, <2>2, <2>4
    <3>2. other[n - 1] = after[n - 1]
      BY <2>1, <3>1
    <3> QED
      BY <1>4, <2>2, <2>4, <3>2
  <2> QED
    BY <2>3, <2>4
<1>6. Len(entries) \in 0..Len(entries)
  BY <1>3
<1> QED
  BY <1>2, <1>5, <1>6

(* A Card is explained by a log: some replay of the log, through           *)
(* well-formed Cards, ends with it.                                        *)
Explained(card, entries) ==
    \E after : /\ IsReplay(after, entries, card.text)
               /\ \A n \in 0..Len(entries) : after[n] \in Card /\ CardWF(after[n])
               /\ card = after[Len(entries)]

LEMMA ExplainedIsReplay ==
    ASSUME NEW S, NEW entries \in Seq(S), NEW card, Explained(card, entries)
    PROVE  card = Replay(entries, card.text)
<1>1. PICK after : IsReplay(after, entries, card.text) /\ card = after[Len(entries)]
  BY DEF Explained
<1> QED
  BY <1>1, ReplayIs

LEMMA NewIsExplained ==
    ASSUME NEW text \in Texts
    PROVE  Explained(NewCard(text), <<>>)
<1> DEFINE card == NewCard(text)
           after == [n \in 0..0 |-> card]
<1>1. card \in Card /\ CardWF(card) /\ card.text = text
  BY DEF NewCard, Card, CardWF, Phases
<1>2. Len(<<>>) = 0 /\ \A n \in 0..0 : n = 0
  OBVIOUS
<1>3. IsReplay(after, <<>>, text)
  BY <1>2 DEF IsReplay
<1>4. after[0] = card
  OBVIOUS
<1> HIDE DEF card, after
<1> QED
  BY <1>1, <1>2, <1>3, <1>4 DEF Explained, card

(* A Review adds one step to the replay. *)
LEMMA RatedIsExplained ==
    ASSUME NEW S, NEW entries \in Seq(S), NEW card, Explained(card, entries),
           NEW rating \in Ratings, NEW now \in Times,
           [rated_at |-> now, rating |-> rating] \in S
    PROVE  Explained(ApplyRating(card, rating, now),
                     Append(entries, [rated_at |-> now, rating |-> rating]))
<1> DEFINE rated == ApplyRating(card, rating, now)
           entry == [rated_at |-> now, rating |-> rating]
           longer == Append(entries, entry)
           last == Len(entries)
<1>1. PICK after : /\ IsReplay(after, entries, card.text)
                   /\ \A n \in 0..last : after[n] \in Card /\ CardWF(after[n])
                   /\ card = after[last]
  BY DEF Explained
<1>2. /\ last \in Nat /\ longer \in Seq(S) /\ Len(longer) = last + 1
      /\ longer[last + 1] = entry /\ \A n \in 1..last : longer[n] = entries[n]
  OBVIOUS
<1>3. /\ rated \in Card /\ CardWF(rated) /\ rated.text = card.text
  <2>1. card \in Card /\ CardWF(card)
    BY <1>1, <1>2
  <2> QED
    BY <2>1, ApplyRatingCorrect DEF RatedCard
<1>4. entry.rating = rating /\ entry.rated_at = now
  OBVIOUS
<1> DEFINE further == [n \in 0..(last + 1) |-> IF n = last + 1 THEN rated ELSE after[n]]
<1>5. /\ further[last + 1] = rated
      /\ \A n \in 0..last : further[n] = after[n]
  BY <1>2
<1>6. \A n \in 0..last :
        after[n] = IF n = 0 THEN NewCard(card.text)
                   ELSE ApplyRating(after[n - 1], entries[n].rating, entries[n].rated_at)
  BY <1>1 DEF IsReplay
<1>7. ASSUME NEW n \in 0..(last + 1)
      PROVE  further[n] = IF n = 0 THEN NewCard(card.text)
                          ELSE ApplyRating(further[n - 1], longer[n].rating, longer[n].rated_at)
  <2> HIDE DEF further, longer, entry
  <2>1. CASE n = last + 1
    <3>1. further[n] = rated /\ further[n - 1] = card /\ n # 0 /\ longer[n] = entry
      BY <1>1, <1>2, <1>5, <2>1
    <3> QED
      BY <1>4, <3>1
  <2>2. CASE n = 0
    <3>1. n \in 0..last
      BY <1>2, <2>2
    <3> QED
      BY <1>5, <1>6, <2>2, <3>1
  <2>3. CASE n # 0 /\ n # last + 1
    <3>1. n \in 1..last /\ n \in 0..last /\ n - 1 \in 0..last
      BY <1>2, <2>3
    <3>2. /\ further[n] = after[n] /\ further[n - 1] = after[n - 1]
          /\ longer[n] = entries[n]
      BY <1>2, <1>5, <3>1
    <3> QED
      BY <1>6, <2>3, <3>1, <3>2
  <2> QED
    BY <2>1, <2>2, <2>3
<1>8. IsReplay(further, longer, card.text)
  <2>1. further = [n \in 0..(last + 1) |-> further[n]]
    OBVIOUS
  <2> HIDE DEF further, longer
  <2>2. further = [n \in 0..(last + 1) |->
                     IF n = 0 THEN NewCard(card.text)
                     ELSE ApplyRating(further[n - 1], longer[n].rating, longer[n].rated_at)]
    BY <1>7, <2>1
  <2> QED
    BY <1>2, <2>2 DEF IsReplay
<1>9. \A n \in 0..(last + 1) : further[n] \in Card /\ CardWF(further[n])
  <2> HIDE DEF further, rated
  <2>1. \A n \in 0..(last + 1) : n = last + 1 \/ n \in 0..last
    BY <1>2
  <2> QED
    BY <1>1, <1>3, <1>5, <2>1
<1> HIDE DEF further, longer, rated
<1>10. rated = further[Len(longer)]
  BY <1>2, <1>5
<1> QED
  BY <1>2, <1>3, <1>8, <1>9, <1>10 DEF Explained, rated, longer

(* The schedule does not look at the texts. *)
WithText(card, text) == [card EXCEPT !.text = text]

(* What the assignments of the policy leave of a row. *)
IsRow(row) ==
    row = [text |-> row.text, phase |-> row.phase, learning_step |-> row.learning_step,
           memory |-> row.memory, due |-> row.due, last_review |-> row.last_review]

Scheduled(row, phase, step, memory, due) ==
    [row EXCEPT !.phase = phase, !.learning_step = step, !.memory = memory, !.due = due]

OnStep(row, phase, step, due) ==
    [row EXCEPT !.phase = phase, !.learning_step = step, !.due = due]

LEMMA Rescheduled ==
    ASSUME NEW row, IsRow(row), NEW phase, NEW step, NEW memory, NEW due
    PROVE  /\ Scheduled(row, phase, step, memory, due)
                = [text |-> row.text, phase |-> phase, learning_step |-> step,
                   memory |-> memory, due |-> due, last_review |-> row.last_review]
           /\ OnStep(row, phase, step, due)
                = [text |-> row.text, phase |-> phase, learning_step |-> step,
                   memory |-> row.memory, due |-> due, last_review |-> row.last_review]
<1> DEFINE fields == {"text", "phase", "learning_step", "memory", "due", "last_review"}
           moved == [row EXCEPT !.phase = phase, !.learning_step = step,
                                !.memory = memory, !.due = due]
           put == [row EXCEPT !.phase = phase, !.learning_step = step, !.due = due]
<1>1. DOMAIN row = fields
  BY DEF IsRow
<1>2. /\ DOMAIN moved = fields /\ DOMAIN put = fields
      /\ moved = [x \in DOMAIN moved |-> moved[x]]
      /\ put = [x \in DOMAIN put |-> put[x]]
  BY <1>1
<1>3. /\ moved.text = row.text /\ moved.phase = phase /\ moved.learning_step = step
      /\ moved.memory = memory /\ moved.due = due /\ moved.last_review = row.last_review
  BY <1>1
<1>4. /\ put.text = row.text /\ put.phase = phase /\ put.learning_step = step
      /\ put.memory = row.memory /\ put.due = due /\ put.last_review = row.last_review
  BY <1>1
<1> HIDE DEF moved, put
<1>5. moved = [text |-> row.text, phase |-> phase, learning_step |-> step,
               memory |-> memory, due |-> due, last_review |-> row.last_review]
  BY <1>2, <1>3
<1>6. put = [text |-> row.text, phase |-> phase, learning_step |-> step,
             memory |-> row.memory, due |-> due, last_review |-> row.last_review]
  BY <1>2, <1>4
<1> QED
  BY <1>5, <1>6 DEF moved, put, Scheduled, OnStep

LEMMA TextFields ==
    ASSUME NEW card \in Card, NEW text \in Texts
    PROVE  LET with == WithText(card, text)
           IN  /\ IsRow(card) /\ IsRow(with) /\ with \in Card
               /\ with.text = text /\ with.phase = card.phase
               /\ with.learning_step = card.learning_step
               /\ with.memory = card.memory /\ with.due = card.due
               /\ with.last_review = card.last_review
BY DEF IsRow, WithText, Card

LEMMA GraduateKeepsText ==
    ASSUME NEW card \in Card, NEW text \in Texts, NEW rating, NEW now
    PROVE  Graduate(WithText(card, text), rating, now)
             = WithText(Graduate(card, rating, now), text)
<1> DEFINE with == WithText(card, text)
           s == Schedule(card.memory, card.last_review, rating, now)
           memory == s.memory
           due == s.due
<1>1. /\ IsRow(card) /\ IsRow(with) /\ with.text = text
      /\ with.memory = card.memory /\ with.last_review = card.last_review
  BY TextFields
<1>2. /\ Graduate(card, rating, now) = Scheduled(card, "Review", None, memory, due)
      /\ Graduate(with, rating, now) = Scheduled(with, "Review", None, memory, due)
  BY <1>1 DEF Graduate, Scheduled
<1> HIDE DEF with, memory, due
<1>3. Scheduled(with, "Review", None, memory, due)
        = WithText(Scheduled(card, "Review", None, memory, due), text)
  BY <1>1, Rescheduled DEF WithText
<1> QED
  BY <1>2, <1>3 DEF with

LEMMA StepKeepsText ==
    ASSUME NEW card \in Card, NEW text \in Texts, NEW rating \in Ratings, NEW now,
           NEW steps, NEW stay
    PROVE  ApplyStepRating(WithText(card, text), rating, now, steps, stay)
             = WithText(ApplyStepRating(card, rating, now, steps, stay), text)
<1> DEFINE with == WithText(card, text)
           i == CurrentStep(card, steps)
           At(c, k) == OnStep(c, stay, k, now + steps[k + 1])
<1>0. /\ IsRow(card) /\ IsRow(with) /\ with.text = text
      /\ with.memory = card.memory /\ with.last_review = card.last_review
      /\ with.learning_step = card.learning_step
  BY TextFields
<1>1. CurrentStep(with, steps) = i
  BY <1>0 DEF CurrentStep
<1>2. \A k : At(with, k) = WithText(At(card, k), text)
  <2> HIDE DEF with
  <2> QED
    BY <1>0, Rescheduled DEF WithText
<1>3. Graduate(with, rating, now) = WithText(Graduate(card, rating, now), text)
  BY GraduateKeepsText
<1>4. ASSUME NEW c, CurrentStep(c, steps) = i
      PROVE  /\ rating = "Again" => ApplyStepRating(c, rating, now, steps, stay) = At(c, 0)
             /\ rating = "Hard" => ApplyStepRating(c, rating, now, steps, stay) = At(c, i)
             /\ (rating = "Good" /\ i + 1 < Len(steps)) =>
                   ApplyStepRating(c, rating, now, steps, stay) = At(c, i + 1)
             /\ (rating = "Easy" \/ (rating = "Good" /\ ~(i + 1 < Len(steps)))) =>
                   ApplyStepRating(c, rating, now, steps, stay) = Graduate(c, rating, now)
  <2>1. CASE rating = "Again"
    BY <1>4, <2>1 DEF ApplyStepRating, OnStep
  <2>2. CASE rating = "Hard"
    BY <1>4, <2>2 DEF ApplyStepRating, OnStep
  <2>3. CASE rating = "Good"
    BY <1>4, <2>3 DEF ApplyStepRating, OnStep
  <2>4. CASE rating = "Easy"
    BY <1>4, <2>4 DEF ApplyStepRating, OnStep
  <2> QED
    BY <2>1, <2>2, <2>3, <2>4 DEF Ratings
<1> HIDE DEF with, i, At
<1>5. CurrentStep(card, steps) = i
  BY DEF i
<1>6. \/ rating = "Again" \/ rating = "Hard" \/ (rating = "Good" /\ i + 1 < Len(steps))
      \/ (rating = "Easy" \/ (rating = "Good" /\ ~(i + 1 < Len(steps))))
  BY DEF Ratings
<1> QED
  BY <1>1, <1>2, <1>3, <1>4, <1>5, <1>6 DEF with

LEMMA ReviewKeepsText ==
    ASSUME NEW card \in Card, NEW text \in Texts, NEW rating, NEW now
    PROVE  ApplyReviewRating(WithText(card, text), rating, now)
             = WithText(ApplyReviewRating(card, rating, now), text)
<1> DEFINE with == WithText(card, text)
           s == Schedule(card.memory, card.last_review, rating, now)
           step == IF rating = "Again" THEN 0 ELSE None
           phase == IF rating = "Again" THEN "Relearning" ELSE "Review"
           due == IF rating = "Again" THEN now + RelearningSteps[1] ELSE s.due
           Rated(t) == [text |-> t, phase |-> phase, learning_step |-> step,
                        memory |-> s.memory, due |-> due, last_review |-> card.last_review]
<1>1. ApplyReviewRating(card, rating, now) = Rated(card.text)
  BY DEF ApplyReviewRating, Card
<1>2. with \in Card /\ with.text = text /\ with.memory = card.memory
        /\ with.last_review = card.last_review
  BY TextFields
<1>3. ApplyReviewRating(with, rating, now) = Rated(with.text)
  BY <1>2 DEF ApplyReviewRating, Card
<1> HIDE DEF step, phase, due, s
<1>4. WithText(Rated(card.text), text) = Rated(text)
  BY DEF WithText
<1> QED
  BY <1>1, <1>2, <1>3, <1>4

LEMMA RatingKeepsText ==
    ASSUME NEW card \in Card, NEW text \in Texts, NEW rating \in Ratings, NEW now \in Times
    PROVE  ApplyRating(WithText(card, text), rating, now)
             = WithText(ApplyRating(card, rating, now), text)
<1> DEFINE Started(c) == IF c.phase = "New"
                         THEN [c EXCEPT !.phase = "Learning", !.learning_step = 0]
                         ELSE c
           Rated(c) ==
             CASE c.phase = "Learning" ->
                    ApplyStepRating(c, rating, now, LearningSteps, "Learning")
               [] c.phase = "Relearning" ->
                    ApplyStepRating(c, rating, now, RelearningSteps, "Relearning")
               [] OTHER -> ApplyReviewRating(c, rating, now)
           with == WithText(card, text)
           started == Started(card)
           rated == Rated(started)
<1>1. /\ ApplyRating(card, rating, now) = [rated EXCEPT !.last_review = now]
      /\ ApplyRating(with, rating, now) = [Rated(Started(with)) EXCEPT !.last_review = now]
  BY DEF ApplyRating
<1>2. started \in Card /\ Started(with) = WithText(started, text)
  <2>1. 0 \in Nat \cup {None} /\ "Learning" \in Phases
    BY DEF Phases
  <2>2. /\ with \in Card /\ with.phase = card.phase
        /\ card.phase = "New" =>
              [with EXCEPT !.phase = "Learning", !.learning_step = 0]
                = WithText([card EXCEPT !.phase = "Learning", !.learning_step = 0], text)
    BY DEF WithText, Card
  <2>3. started \in Card
    BY <2>1 DEF Card
  <2> HIDE DEF with
  <2> QED
    BY <2>2, <2>3 DEF with
<1> HIDE DEF started
<1>3. rated \in Card /\ Rated(WithText(started, text)) = WithText(rated, text)
  <2>1. WithText(started, text).phase = started.phase
    BY <1>2, TextFields
  <2>2. /\ LearningSteps \in Seq(Nat) /\ LearningSteps # <<>>
        /\ RelearningSteps \in Seq(Nat) /\ RelearningSteps # <<>>
        /\ "Learning" \in Phases /\ "Relearning" \in Phases
    BY StepsAssumption DEF Phases
  <2>3. CASE started.phase = "Learning"
    <3>1. /\ rated = ApplyStepRating(started, rating, now, LearningSteps, "Learning")
          /\ Rated(WithText(started, text))
               = ApplyStepRating(WithText(started, text), rating, now, LearningSteps, "Learning")
      BY <2>1, <2>3
    <3> HIDE DEF rated, Rated
    <3> QED
      BY <1>2, <2>2, <3>1, StepKeepsText, ApplyStepRatingCorrect
  <2>4. CASE started.phase = "Relearning"
    <3>1. /\ rated = ApplyStepRating(started, rating, now, RelearningSteps, "Relearning")
          /\ Rated(WithText(started, text))
               = ApplyStepRating(WithText(started, text), rating, now,
                                 RelearningSteps, "Relearning")
      BY <2>1, <2>4
    <3> HIDE DEF rated, Rated
    <3> QED
      BY <1>2, <2>2, <3>1, StepKeepsText, ApplyStepRatingCorrect
  <2>5. CASE started.phase \notin {"Learning", "Relearning"}
    <3>1. /\ rated = ApplyReviewRating(started, rating, now)
          /\ Rated(WithText(started, text))
               = ApplyReviewRating(WithText(started, text), rating, now)
      BY <2>1, <2>5
    <3> HIDE DEF rated, Rated
    <3> QED
      BY <1>2, <3>1, ReviewKeepsText, ApplyReviewRatingCorrect
  <2> QED
    BY <2>3, <2>4, <2>5
<1> HIDE DEF rated, Rated, Started
<1>4. [WithText(rated, text) EXCEPT !.last_review = now]
        = WithText([rated EXCEPT !.last_review = now], text)
  BY <1>3 DEF WithText, Card
<1> QED
  BY <1>1, <1>2, <1>3, <1>4 DEF with

(* An edit is an edit of every Card the replay goes through. *)
LEMMA EditedIsExplained ==
    ASSUME NEW S, NEW entries \in Seq(S), S \subseteq [rated_at : Times, rating : Ratings],
           NEW card, Explained(card, entries), NEW text \in Texts
    PROVE  Explained([card EXCEPT !.text = text], entries)
<1> DEFINE edited == WithText(card, text)
           last == Len(entries)
<1>1. PICK after : /\ IsReplay(after, entries, card.text)
                   /\ \A n \in 0..last : after[n] \in Card /\ CardWF(after[n])
                   /\ card = after[last]
  BY DEF Explained
<1>2. last \in Nat /\ \A n \in 1..last : entries[n].rating \in Ratings /\ entries[n].rated_at \in Times
  <2>1. last \in Nat /\ \A n \in 1..last : entries[n] \in S
    OBVIOUS
  <2> QED
    BY <2>1
<1>3. card \in Card /\ edited \in Card /\ edited.text = text /\ card.text \in Texts
  <2>1. card \in Card
    BY <1>1, <1>2
  <2> QED
    BY <2>1, TextFields DEF Card
<1>4. \A n \in 0..last :
        after[n] = IF n = 0 THEN NewCard(card.text)
                   ELSE ApplyRating(after[n - 1], entries[n].rating, entries[n].rated_at)
  BY <1>1 DEF IsReplay
<1> DEFINE texted == [n \in 0..last |-> WithText(after[n], text)]
<1>5. ASSUME NEW n \in 0..last
      PROVE  texted[n] = IF n = 0 THEN NewCard(text)
                         ELSE ApplyRating(texted[n - 1], entries[n].rating, entries[n].rated_at)
  <2>1. CASE n = 0
    <3>1. WithText(NewCard(card.text), text) = NewCard(text)
      BY DEF WithText, NewCard
    <3> QED
      BY <1>4, <2>1, <3>1
  <2>2. CASE n # 0
    <3>1. n \in 1..last /\ n - 1 \in 0..last
      BY <1>2, <2>2
    <3>2. /\ texted[n] = WithText(after[n], text)
          /\ texted[n - 1] = WithText(after[n - 1], text)
      BY <3>1
    <3>3. /\ after[n - 1] \in Card
          /\ after[n] = ApplyRating(after[n - 1], entries[n].rating, entries[n].rated_at)
      BY <1>1, <1>4, <2>2, <3>1
    <3> HIDE DEF texted
    <3> QED
      BY <1>2, <2>2, <3>1, <3>2, <3>3, RatingKeepsText
  <2> QED
    BY <2>1, <2>2
<1>6. IsReplay(texted, entries, text)
  <2>1. texted = [n \in 0..last |-> texted[n]]
    OBVIOUS
  <2> HIDE DEF texted
  <2> QED
    BY <1>5, <2>1 DEF IsReplay
<1>7. ASSUME NEW n \in 0..last PROVE texted[n] \in Card /\ CardWF(texted[n])
  <2>1. after[n] \in Card /\ CardWF(after[n]) /\ texted[n] = WithText(after[n], text)
    BY <1>1
  <2> HIDE DEF texted
  <2> QED
    BY <2>1, TextFields DEF CardWF
<1>8. edited = texted[last]
  BY <1>1, <1>2
<1> HIDE DEF texted, edited
<1>9. Explained(edited, entries)
  BY <1>3, <1>6, <1>7, <1>8 DEF Explained
<1> QED
  BY <1>9 DEF edited, WithText
=============================================================================
