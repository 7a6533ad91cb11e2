-------------------------- MODULE Migrations_proofs --------------------------
(***************************************************************************)
(* The migrations, for any rows and any number of processes that open the  *)
(* database.  The invariant is that every Card is a row of the present     *)
(* version and that no row has lost its parent; that a row of version 2    *)
(* becomes one of version 3 is a fact about the CHECKs alone.              *)
(***************************************************************************)
EXTENDS Migrations, TLAPS

IInv == TypeOK /\ ForeignKeys

LEMMA EmptyTables ==
    /\ NoDecks \in [DeckIds -> UserIds \cup {"nobody", None}]
    /\ \A v \in 0..Latest : NoCards \in [CardIds -> Rows(v) \cup {None}]
    /\ NoLogs \in [CardIds -> 0..MaxLogs]
BY MigrationsAssumption DEF NoDecks, NoCards, NoLogs

(* A row that the CHECKs of 0002 accept gets the phase of its columns. *)
LEMMA BackfillFits ==
    ASSUME NEW row \in Rows(2)
    PROVE  Backfill(row) \in Rows(3) /\ Accepts(3, Backfill(row))
<1>1. /\ row \in Row /\ row.phase = None
      /\ row.given \in {{}, Memory \cup Dates}
  BY DEF Rows, Accepts
<1>2. Backfill(row) = [deck |-> row.deck, given |-> row.given,
                       phase |-> IF "stability" \in row.given THEN "review" ELSE "new"]
  BY <1>1 DEF Backfill, Row
<1>3. CASE row.given = {}
  BY <1>1, <1>2, <1>3, MigrationsAssumption
     DEF Rows, Row, Accepts, PhaseColumns, Phases
<1>4. CASE row.given = Memory \cup Dates
  <2>1. Backfill(row).phase = "review"
    BY <1>2, <1>4 DEF Memory
  <2>2. Accepts(3, Backfill(row))
    BY <1>2, <1>4, <2>1 DEF Accepts, PhaseColumns
  <2>3. Backfill(row) \in Row /\ Backfill(row).phase # None
    BY <1>1, <1>2, <2>1, MigrationsAssumption DEF Row, Phases
  <2> QED BY <2>2, <2>3 DEF Rows
<1> QED BY <1>1, <1>3, <1>4

(* What a migration that can copy the Cards makes of the tables. *)
LEMMA MigrateFits ==
    ASSUME IInv, version < Latest, Copies(version + 1), Migrate(version + 1),
           version' = version + 1
    PROVE  /\ decks' \in [DeckIds -> UserIds \cup {"nobody", None}]
           /\ cards' \in [CardIds -> Rows(version') \cup {None}]
           /\ logs' \in [CardIds -> 0..MaxLogs]
           /\ ForeignKeys'
<1> USE MigrationsAssumption DEF IInv
<1>1. version \in 0..3
  BY DEF TypeOK, Latest
<1>2. CASE version = 0
  <2>1. UNCHANGED tables
    BY <1>2 DEF Migrate
  <2>2. Rows(0) \subseteq Rows(1)
    BY DEF Rows, Accepts
  <2> QED BY <1>2, <2>1, <2>2 DEF TypeOK, ForeignKeys, tables
<1>3. CASE version = 1
  <2>1. UNCHANGED <<decks, cards>> /\ logs' = NoLogs
    BY <1>3 DEF Migrate, RebuildCards, Converted, TypeOK
  <2>2. \A c \in CardIds : cards[c] # None => Accepts(2, cards[c])
    BY <1>3 DEF Copies, Converted
  <2>3. \A row \in Rows(1) : Accepts(2, row) => row \in Rows(2)
    BY DEF Rows
  <2>4. cards' \in [CardIds -> Rows(2) \cup {None}]
    BY <1>3, <2>1, <2>2, <2>3 DEF TypeOK
  <2> QED BY <1>3, <2>1, <2>4, EmptyTables DEF TypeOK, ForeignKeys, NoLogs
<1>4. CASE version = 2
  <2>1. /\ UNCHANGED decks /\ logs' = NoLogs
        /\ cards' = [c \in CardIds |-> IF cards[c] # None THEN Backfill(cards[c]) ELSE cards[c]]
    BY <1>4 DEF Migrate, RebuildCards, Converted
  <2>2. ASSUME NEW c \in CardIds, cards[c] # None
        PROVE  cards'[c] \in Rows(3) /\ cards'[c].deck = cards[c].deck
    <3>1. cards[c] \in Rows(2)
      BY <1>4, <2>2 DEF TypeOK
    <3>2. Backfill(cards[c]).deck = cards[c].deck
      BY <3>1 DEF Backfill, Rows, Row
    <3> QED BY <2>1, <2>2, <3>1, <3>2, BackfillFits
  <2>3. cards' \in [CardIds -> Rows(3) \cup {None}]
    BY <2>1, <2>2 DEF TypeOK
  <2>4. ForeignKeys'
    BY <2>1, <2>2 DEF ForeignKeys, NoLogs
  <2> QED BY <1>4, <2>1, <2>3, <2>4, EmptyTables DEF TypeOK
<1>5. CASE version = 3
  <2>1. decks' = NoDecks /\ cards' = NoCards /\ logs' = NoLogs
    BY <1>5 DEF Migrate, WipeDecks
  <2> QED BY <1>5, <2>1, EmptyTables DEF Latest, ForeignKeys, NoCards, NoLogs
<1> QED BY <1>1, <1>2, <1>3, <1>4, <1>5

-----------------------------------------------------------------------------
(* The step of an opener. *)
LEMMA ApplyKeeps ==
    ASSUME IInv, NEW o \in Openers, Apply(o)
    PROVE  IInv'
<1> DEFINE v == applied[o] + 1
<1>1. CASE \/ applied[o] # version
           \/ applied[o] = version /\ ~Copies(v)
  BY <1>1 DEF Apply, Enter, IInv, TypeOK, ForeignKeys, tables
<1>2. CASE applied[o] = version /\ Copies(v)
  <2>1. /\ Migrate(v) /\ version' = v /\ version < Latest
        /\ applied' = [applied EXCEPT ![o] = v] /\ UNCHANGED pc
    BY <1>2 DEF Apply
  <2>2. version' \in 0..Latest /\ applied' \in [Openers -> 0..Latest]
    BY <1>2, <2>1 DEF IInv, TypeOK, Latest
  <2> QED BY <1>2, <2>1, <2>2, MigrateFits DEF IInv, TypeOK
<1> QED BY <1>1, <1>2

(* The steps of the servers. *)
LEMMA UseKeeps ==
    ASSUME IInv, \/ \E d \in DeckIds : AddDeck(d)
                 \/ \E c \in CardIds : WriteCard(c) \/ AddLog(c)
    PROVE  IInv'
<1> USE MigrationsAssumption DEF IInv, Used
<1>1. ASSUME NEW d \in DeckIds, AddDeck(d)
      PROVE  IInv'
  BY <1>1 DEF AddDeck, TypeOK, ForeignKeys
<1>2. ASSUME NEW c \in CardIds, WriteCard(c)
      PROVE  IInv'
  <2>1. PICK row \in Rows(version) : decks[row.deck] # None
                                     /\ cards' = [cards EXCEPT ![c] = row]
    BY <1>2 DEF WriteCard
  <2>2. row # None
    BY DEF Rows
  <2> QED BY <1>2, <2>1, <2>2 DEF WriteCard, TypeOK, ForeignKeys
<1>3. ASSUME NEW c \in CardIds, AddLog(c)
      PROVE  IInv'
  BY <1>3 DEF AddLog, TypeOK, ForeignKeys
<1> QED BY <1>1, <1>2, <1>3

LEMMA Invariance == Spec => []IInv
<1>1. Init => IInv
  BY EmptyTables DEF Init, IInv, TypeOK, ForeignKeys, Latest, NoLogs, NoCards
<1>2. IInv /\ [Next]_vars => IInv'
  <2> SUFFICES ASSUME IInv, [Next]_vars PROVE IInv'
    OBVIOUS
  <2>1. ASSUME NEW o \in Openers, List(o) \/ Serve(o) \/ Stop(o)
        PROVE  IInv'
    BY <2>1 DEF List, Serve, Stop, Enter, IInv, TypeOK, ForeignKeys, tables
  <2>2. CASE UNCHANGED vars
    BY <2>2 DEF vars, tables, IInv, TypeOK, ForeignKeys
  <2> QED BY <2>1, <2>2, ApplyKeeps, UseKeeps DEF Next
<1> QED BY <1>1, <1>2, PTL DEF Spec

-----------------------------------------------------------------------------
(* The tables keep the types of their version through every migration. *)
THEOREM TypeCorrect == Spec => []TypeOK
<1>1. IInv => TypeOK
  BY DEF IInv
<1> QED BY <1>1, Invariance, PTL

(* A row never outlives the row it refers to, whatever is dropped. *)
THEOREM ForeignKeysHold == Spec => []ForeignKeys
<1>1. IInv => ForeignKeys
  BY DEF IInv
<1> QED BY <1>1, Invariance, PTL

(* Only a Card of version 1 with part of a schedule stops a migration: the *)
(* backfill of 0003 fits every row that the CHECKs of 0002 accept.         *)
THEOREM UpgradesWork == Spec => OnlyPartialRowsBlock
<1>1. ASSUME IInv, [Next]_vars, NEW o \in Openers, pc[o] # "blocked", pc'[o] = "blocked"
      PROVE  /\ version = 1
             /\ \E c \in CardIds : cards[c] # None /\ ~Accepts(2, cards[c])
  <2>1. Apply(o) /\ applied[o] = version /\ ~Copies(version + 1)
    BY <1>1 DEF IInv, TypeOK, Next, vars, Used, AddDeck, WriteCard, AddLog, List,
                Apply, Serve, Stop, Enter
  <2>2. version \in 1..2
    BY <1>1, <2>1 DEF Copies, IInv, TypeOK, Latest
  <2>3. version # 2
    <3>1. SUFFICES ASSUME version = 2 PROVE Copies(3)
      BY <2>1
    <3>2. ASSUME NEW c \in CardIds, cards[c] # None
          PROVE  Accepts(3, Converted(3)[c])
      BY <1>1, <3>1, <3>2, BackfillFits DEF Converted, IInv, TypeOK
    <3> QED BY <3>2 DEF Copies
  <2>4. version = 1
    BY <2>2, <2>3
  <2>5. \E c \in CardIds : cards[c] # None /\ ~Accepts(2, cards[c])
    BY <2>1, <2>4 DEF Copies, Converted
  <2> QED BY <2>4, <2>5
<1>2. IInv /\ [Next]_vars =>
        [\A o \in Openers : pc[o] # "blocked" /\ pc'[o] = "blocked" =>
            /\ version = 1
            /\ \E c \in CardIds : cards[c] # None /\ ~Accepts(2, cards[c])]_vars
  BY <1>1
<1> QED BY <1>2, Invariance, PTL DEF Spec, OnlyPartialRowsBlock

(* A migration changes the tables only when it makes the next version. *)
THEOREM AppliedOnce == Spec => MigratesOnce
<1>1. ASSUME IInv, [Next]_vars, applied' # applied, tables' # tables
      PROVE  version' = version + 1
  BY <1>1 DEF Next, vars, Used, AddDeck, WriteCard, AddLog, List, Apply, Serve, Stop
<1>2. IInv /\ [Next]_vars =>
        [applied' # applied /\ tables' # tables => version' = version + 1]_vars
  BY <1>1
<1> QED BY <1>2, Invariance, PTL DEF Spec, MigratesOnce

(* 0002 and 0003 lose no Card and no schedule, and the phase that the      *)
(* backfill gives tells whether there is memory.                           *)
THEOREM CardsStay == Spec => CardsKept
<1> DEFINE Kept(c) ==
             /\ (cards[c] = None) = (cards'[c] = None)
             /\ cards[c] # None =>
                   /\ cards'[c].deck = cards[c].deck
                   /\ cards'[c].given = cards[c].given
                   /\ version' = 3 => (cards'[c].phase = "review")
                                         = ("stability" \in cards[c].given)
<1>1. ASSUME IInv, [Next]_vars, version' \in {2, 3}, version' # version
      PROVE  decks' = decks /\ \A c \in CardIds : Kept(c)
  <2>1. PICK o \in Openers : Apply(o)
    BY <1>1 DEF Next, vars, Used, AddDeck, WriteCard, AddLog, List, Serve, Stop
  <2>2. /\ applied[o] = version /\ version' = version + 1 /\ Migrate(version')
        /\ version \in 0..Latest /\ cards \in [CardIds -> Rows(version) \cup {None}]
    BY <1>1, <2>1 DEF Apply, IInv, TypeOK
  <2>3. decks' = decks /\ cards' = Converted(version')
    BY <1>1, <2>2 DEF Migrate, RebuildCards
  <2>4. ASSUME NEW c \in CardIds PROVE Kept(c)
    <3>1. CASE version' = 2 \/ cards[c] = None
      <4>1. cards'[c] = cards[c]
        BY <2>3, <3>1 DEF Converted
      <4>2. version' = 3 => cards[c] = None
        BY <3>1
      <4> QED BY <4>1, <4>2
    <3>2. CASE version' = 3 /\ cards[c] # None
      <4>1. cards[c] \in Rows(2)
        <5>1. version = 2
          BY <2>2, <3>2 DEF Latest
        <5> QED BY <2>2, <3>2, <5>1
      <4>2. cards'[c] = Backfill(cards[c])
        BY <2>3, <3>2 DEF Converted
      <4>3. Backfill(cards[c]) # None
        BY <4>1, BackfillFits, MigrationsAssumption DEF Rows
      <4>4. /\ Backfill(cards[c]).deck = cards[c].deck
            /\ Backfill(cards[c]).given = cards[c].given
            /\ Backfill(cards[c]).phase
                 = IF "stability" \in cards[c].given THEN "review" ELSE "new"
        BY <4>1 DEF Backfill, Rows, Row
      <4> QED BY <3>2, <4>2, <4>3, <4>4
    <3> QED BY <1>1, <3>1, <3>2
  <2> QED BY <2>3, <2>4
<1> HIDE DEF Kept
<1>2. IInv /\ [Next]_vars =>
        [version' \in {2, 3} /\ version' # version =>
            /\ decks' = decks
            /\ \A c \in CardIds : Kept(c)]_vars
  BY <1>1
<1>3. Spec => [][version' \in {2, 3} /\ version' # version =>
                    /\ decks' = decks
                    /\ \A c \in CardIds : Kept(c)]_vars
  BY <1>2, Invariance, PTL DEF Spec
<1> QED BY <1>3 DEF CardsKept, Kept
=============================================================================
