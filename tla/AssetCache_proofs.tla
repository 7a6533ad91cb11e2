-------------------------- MODULE AssetCache_proofs --------------------------
(***************************************************************************)
(* The cache of asset hashes is right for any number of renders, versions  *)
(* of the file and interleavings, as long as no time is used twice.        *)
(*                                                                         *)
(* The argument is about entries (t, h), those that are stored and those   *)
(* that a render is about to store.  An entry need not be right: its hash  *)
(* may be of bytes newer than its time.  But then the file has left time t *)
(* and never comes back to it, so that only renders that saw t can hit it; *)
(* these began before the file left t, and the bytes came after.           *)
(***************************************************************************)
EXTENDS AssetCache, TLAPS

Entry(t, h) ==
    /\ t \in spent
    /\ disk # None /\ disk.mtime = t => h = disk.content
    /\ \A r \in Renders : pc[r] = "lookup" /\ mtime[r] = t => h \in during[r]

DiskInv == disk # None => disk.mtime \in spent

BusyInv ==
    \A r \in Renders : pc[r] \in Busy =>
        /\ mtime[r] \in spent
        /\ Content \in during[r]

StoredInv == cache # None => Entry(cache.mtime, cache.hex)

PendingInv ==
    \A r \in Renders : pc[r] = "insert" =>
        /\ hex[r] \in Contents \cap during[r]
        /\ Entry(mtime[r], hex[r])

IInv == TypeOK /\ DiskInv /\ BusyInv /\ StoredInv /\ PendingInv /\ HrefWasCurrent

-----------------------------------------------------------------------------
(* A render that begins sees the time of the file, and every entry under   *)
(* that time holds the bytes the file has now.                             *)
LEMMA StatKeeps ==
    ASSUME IInv, NEW s \in Renders, Stat(s)
    PROVE  IInv'
<1> USE NoneIsNoValue DEF IInv, Stat, Answer, Content
<1>1. CASE disk = None
  <2>1. TypeOK'
    BY <1>1 DEF TypeOK, Busy
  <2>2. DiskInv' /\ BusyInv' /\ StoredInv' /\ PendingInv'
    BY <1>1 DEF TypeOK, Busy, DiskInv, BusyInv, StoredInv, PendingInv, Entry
  <2>3. HrefWasCurrent'
    BY <1>1 DEF TypeOK, HrefWasCurrent
  <2> QED BY <2>1, <2>2, <2>3
<1>2. CASE disk # None
  <2>1. TypeOK'
    BY <1>2 DEF TypeOK, Busy, File
  <2>2. DiskInv' /\ BusyInv'
    BY <1>2 DEF TypeOK, Busy, DiskInv, BusyInv
  <2>3. ASSUME NEW t, NEW h, Entry(t, h)
        PROVE  Entry(t, h)'
    BY <1>2, <2>3 DEF TypeOK, Entry
  <2>4. StoredInv' /\ PendingInv'
    BY <1>2, <2>3 DEF TypeOK, StoredInv, PendingInv
  <2>5. HrefWasCurrent'
    BY <1>2 DEF TypeOK, HrefWasCurrent
  <2> QED BY <2>1, <2>2, <2>4, <2>5
<1> QED BY <1>1, <1>2

(* A hit is an entry under the time that the render saw. *)
LEMMA LookupKeeps ==
    ASSUME IInv, NEW s \in Renders, Lookup(s)
    PROVE  IInv'
<1> USE NoneIsNoValue DEF IInv, Lookup, Answer
<1>1. TypeOK'
  BY DEF TypeOK, Busy, CachedHash
<1>2. DiskInv' /\ BusyInv'
  BY DEF TypeOK, DiskInv, BusyInv, Busy, Content
<1>3. ASSUME NEW t, NEW h, Entry(t, h)
      PROVE  Entry(t, h)'
  BY <1>3 DEF TypeOK, Entry
<1>4. StoredInv' /\ PendingInv'
  BY <1>3 DEF TypeOK, StoredInv, PendingInv
<1>5. HrefWasCurrent'
  BY DEF TypeOK, HrefWasCurrent, StoredInv, Entry
<1> QED BY <1>1, <1>2, <1>4, <1>5

(* The bytes that are read now belong to every render under way. *)
LEMMA ReadKeeps ==
    ASSUME IInv, NEW s \in Renders, Read(s)
    PROVE  IInv'
<1> USE NoneIsNoValue DEF IInv, Read, Answer
<1>1. TypeOK'
  BY DEF TypeOK, Busy, Content, File
<1>2. DiskInv' /\ BusyInv'
  BY DEF TypeOK, DiskInv, BusyInv, Busy, Content
<1>3. ASSUME NEW t, NEW h, Entry(t, h)
      PROVE  Entry(t, h)'
  BY <1>3 DEF TypeOK, Entry
<1>4. StoredInv'
  BY <1>3 DEF StoredInv
<1>5. PendingInv'
  <2> SUFFICES ASSUME NEW r \in Renders, pc'[r] = "insert"
               PROVE  /\ hex'[r] \in Contents \cap during'[r]
                      /\ Entry(mtime[r], hex[r])'
    BY DEF PendingInv
  <2>1. CASE r = s
    <3>1. disk # None /\ hex'[s] = disk.content
      BY <2>1 DEF TypeOK, Content
    <3>2. Content \in during[s] /\ mtime[s] \in spent
      BY DEF BusyInv, Busy
    <3>3. \A q \in Renders : pc[q] = "lookup" => Content \in during[q]
      BY DEF BusyInv, Busy
    <3>4. Entry(mtime[s], disk.content)
      BY <3>1, <3>2, <3>3 DEF Entry, Content
    <3> QED BY <2>1, <1>3, <3>1, <3>2, <3>4 DEF TypeOK, File, Content
  <2>2. CASE r # s
    <3>1. pc[r] = "insert" /\ hex'[r] = hex[r]
      BY <2>2 DEF TypeOK
    <3> QED BY <3>1, <1>3 DEF PendingInv
  <2> QED BY <2>1, <2>2
<1>6. HrefWasCurrent'
  BY DEF TypeOK, HrefWasCurrent, BusyInv, Busy, Content
<1> QED BY <1>1, <1>2, <1>4, <1>5, <1>6

(* What is stored is what was pending. *)
LEMMA InsertKeeps ==
    ASSUME IInv, NEW s \in Renders, Insert(s)
    PROVE  IInv'
<1> USE NoneIsNoValue DEF IInv, Insert, Answer
<1>1. mtime[s] \in Times /\ hex[s] \in Contents
  BY DEF TypeOK, PendingInv, BusyInv, Busy
<1>2. TypeOK'
  BY <1>1 DEF TypeOK, CachedHash
<1>3. DiskInv' /\ BusyInv'
  BY DEF TypeOK, DiskInv, BusyInv, Busy, Content
<1>4. ASSUME NEW t, NEW h, Entry(t, h)
      PROVE  Entry(t, h)'
  BY <1>4 DEF TypeOK, Entry
<1>5. StoredInv' /\ PendingInv'
  BY <1>4 DEF TypeOK, StoredInv, PendingInv
<1>6. HrefWasCurrent'
  BY DEF TypeOK, HrefWasCurrent, PendingInv
<1> QED BY <1>2, <1>3, <1>5, <1>6

(* A deployment makes no entry right or wrong: its time is a new one. *)
LEMMA ChangeKeeps ==
    ASSUME IInv, Deploy \/ Remove
    PROVE  IInv'
<1> USE NoneIsNoValue DEF IInv, Observe
<1>1. TypeOK'
  BY DEF TypeOK, Deploy, Remove, File, Busy
<1>2. DiskInv' /\ BusyInv'
  <2>1. CASE Deploy
    BY <2>1 DEF TypeOK, Deploy, DiskInv, BusyInv, Busy, Content, File
  <2>2. CASE Remove
    BY <2>2 DEF TypeOK, Remove, DiskInv, BusyInv, Busy, Content
  <2> QED BY <2>1, <2>2
<1>3. ASSUME NEW t, NEW h, Entry(t, h)
      PROVE  Entry(t, h)'
  <2>1. CASE Deploy
    BY <1>3, <2>1 DEF TypeOK, Deploy, Entry, Busy
  <2>2. CASE Remove
    BY <1>3, <2>2 DEF TypeOK, Remove, Entry, Busy
  <2> QED BY <2>1, <2>2
<1>4. UNCHANGED <<cache, pc, mtime, hex>>
  BY DEF Deploy, Remove
<1>5. \A r \in Renders : during[r] \subseteq during'[r]
  BY DEF TypeOK, Deploy, Remove
<1>6. StoredInv' /\ PendingInv'
  BY <1>3, <1>4, <1>5 DEF StoredInv, PendingInv
<1>7. HrefWasCurrent'
  BY <1>4, <1>5 DEF HrefWasCurrent
<1> QED BY <1>1, <1>2, <1>6, <1>7

-----------------------------------------------------------------------------
(* The invariant holds in every reachable state. *)
LEMMA Invariance == Spec => []IInv
<1>1. Init => IInv
  BY NoneIsNoValue DEF Init, IInv, TypeOK, File, DiskInv, BusyInv, Busy,
                       StoredInv, PendingInv, HrefWasCurrent
<1>2. IInv /\ [Next]_vars => IInv'
  <2> SUFFICES ASSUME IInv, [Next]_vars PROVE IInv'
    OBVIOUS
  <2>1. CASE Deploy \/ Remove
    BY <2>1, ChangeKeeps
  <2>2. ASSUME NEW r \in Renders, Render(r) PROVE IInv'
    BY <2>2, StatKeeps, LookupKeeps, ReadKeeps, InsertKeeps DEF Render
  <2>3. CASE UNCHANGED vars
    BY <2>3 DEF vars, IInv, TypeOK, DiskInv, BusyInv, Content, StoredInv,
                PendingInv, Entry, HrefWasCurrent
  <2> QED BY <2>1, <2>2, <2>3 DEF Next
<1> QED BY <1>1, <1>2, PTL DEF Spec

(* Every render and every entry of the cache keeps its type. *)
THEOREM TypeCorrect == Spec => []TypeOK
<1>1. IInv => TypeOK
  BY DEF IInv
<1> QED BY <1>1, Invariance, PTL

(* An entry under the present time of the file holds its present hash.     *)
(* hashed_href_in stores the time it read before the bytes for this reason.*)
THEOREM CacheIsHonest == Spec => []CacheHonest
<1>1. IInv => CacheHonest
  BY DEF IInv, StoredInv, Entry, CacheHonest
<1> QED BY <1>1, Invariance, PTL

(* Whatever other renders and deployments do, a page names bytes that the  *)
(* file had while hashed_href_in ran for it.                               *)
THEOREM HrefIsCurrent == Spec => []HrefWasCurrent
<1>1. IInv => HrefWasCurrent
  BY DEF IInv
<1> QED BY <1>1, Invariance, PTL
=============================================================================
