----------------------------- MODULE AssetCache -----------------------------
(***************************************************************************)
(* The cache of asset hashes in web, assets.rs.  A page names a static     *)
(* file by the hash of its bytes.  A render reads the modification time of *)
(* the file, looks the cache up under the lock, and on a miss reads the    *)
(* bytes and stores their hash under the time it read first.  The file may *)
(* be replaced or removed between any two of these steps.                  *)
(*                                                                         *)
(* A content stands for its hash.  Head::new does the same for three files *)
(* one after the other; the files, and their entries, are independent.     *)
(***************************************************************************)
CONSTANTS None, Renders, Contents, Times

VARIABLES
    disk,      \* the file: its time and content, None when it is missing
    spent,     \* the times the file has had
    cache,     \* the entry of HASHES, None when there is none
    pc,        \* each render's next step
    mtime,     \* mtime[r]: the time r has read
    hex,       \* hex[r]: the hash r has computed, or answers with
    during     \* during[r]: what the file was since r began (history)

vars == <<disk, spent, cache, pc, mtime, hex, during>>

File == [mtime : Times, content : Contents]
CachedHash == [mtime : Times, hex : Contents]

ASSUME NoneIsNoValue == None \notin Contents \cup Times \cup File \cup CachedHash

Busy == {"lookup", "read", "insert"}

Content == IF disk = None THEN None ELSE disk.content

TypeOK ==
    /\ disk \in File \cup {None}
    /\ spent \subseteq Times
    /\ cache \in CachedHash \cup {None}
    /\ pc \in [Renders -> Busy \cup {"idle", "done"}]
    /\ mtime \in [Renders -> Times \cup {None}]
    /\ hex \in [Renders -> Contents \cup {None}]
    /\ during \in [Renders -> SUBSET (Contents \cup {None})]

Init ==
    /\ disk \in File
    /\ spent = {disk.mtime}
    /\ cache = None
    /\ pc = [r \in Renders |-> "idle"]
    /\ mtime = [r \in Renders |-> None]
    /\ hex = [r \in Renders |-> None]
    /\ during = [r \in Renders |-> {}]

-----------------------------------------------------------------------------
(* A render that fails answers with None. *)
Answer(r, h) ==
    /\ pc' = [pc EXCEPT ![r] = "done"]
    /\ hex' = [hex EXCEPT ![r] = h]

(* fs::metadata *)
Stat(r) ==
    /\ pc[r] \in {"idle", "done"}
    /\ during' = [during EXCEPT ![r] = {Content}]
    /\ IF disk = None
       THEN Answer(r, None) /\ UNCHANGED mtime
       ELSE /\ mtime' = [mtime EXCEPT ![r] = disk.mtime]
            /\ pc' = [pc EXCEPT ![r] = "lookup"]
            /\ UNCHANGED hex
    /\ UNCHANGED <<disk, spent, cache>>

(* Mutant: any entry is a hit. *)
Lookup_AnyEntry(r) ==
    /\ pc[r] = "lookup"
    /\ IF cache # None
       THEN Answer(r, cache.hex)
       ELSE pc' = [pc EXCEPT ![r] = "read"] /\ UNCHANGED hex
    /\ UNCHANGED <<disk, spent, cache, mtime, during>>

(* The first critical section. *)
Lookup(r) ==
    /\ pc[r] = "lookup"
    /\ IF cache # None /\ cache.mtime = mtime[r]
       THEN Answer(r, cache.hex)
       ELSE pc' = [pc EXCEPT ![r] = "read"] /\ UNCHANGED hex
    /\ UNCHANGED <<disk, spent, cache, mtime, during>>

(* fs::read and sha256_prefix16 *)
Read(r) ==
    /\ pc[r] = "read"
    /\ IF disk = None
       THEN Answer(r, None)
       ELSE /\ hex' = [hex EXCEPT ![r] = Content]
            /\ pc' = [pc EXCEPT ![r] = "insert"]
    /\ UNCHANGED <<disk, spent, cache, mtime, during>>

(* Mutant: the entry gets the time the file has when it is stored. *)
Insert_StatsAgain(r) ==
    /\ pc[r] = "insert"
    /\ cache' = [mtime |-> IF disk = None THEN mtime[r] ELSE disk.mtime, hex |-> hex[r]]
    /\ Answer(r, hex[r])
    /\ UNCHANGED <<disk, spent, mtime, during>>

(* The second critical section.  It replaces whatever entry there is. *)
Insert(r) ==
    /\ pc[r] = "insert"
    /\ cache' = [mtime |-> mtime[r], hex |-> hex[r]]
    /\ Answer(r, hex[r])
    /\ UNCHANGED <<disk, spent, mtime, during>>

-----------------------------------------------------------------------------
(* The file changes.  Every version has a time the file never had before:  *)
(* versions are further apart than the clock of the file system ticks, and *)
(* no old time is restored.                                                *)
Observe(content) ==
    during' = [r \in Renders |->
        IF pc[r] \in Busy THEN during[r] \cup {content} ELSE during[r]]

Deploy ==
    /\ \E t \in Times \ spent, c \in Contents :
          /\ disk' = [mtime |-> t, content |-> c]
          /\ spent' = spent \cup {t}
          /\ Observe(c)
    /\ UNCHANGED <<cache, pc, mtime, hex>>

Remove ==
    /\ disk # None
    /\ disk' = None
    /\ Observe(None)
    /\ UNCHANGED <<spent, cache, pc, mtime, hex>>

Render(r) == Stat(r) \/ Lookup(r) \/ Read(r) \/ Insert(r)

Next == Deploy \/ Remove \/ \E r \in Renders : Render(r)

Spec == Init /\ [][Next]_vars

-----------------------------------------------------------------------------
(* An entry under the time the file has now holds the hash it has now: a   *)
(* stale hash is never taken for a fresh one, whoever stored it last.      *)
CacheHonest ==
    cache # None /\ disk # None /\ cache.mtime = disk.mtime
        => cache.hex = disk.content

(* A page names the hash of bytes that the file had at some instant of the *)
(* render, and fails only when the file was missing at one.  A render that *)
(* begins after the last deployment thus names the deployed bytes.         *)
HrefWasCurrent == \A r \in Renders : pc[r] = "done" => hex[r] \in during[r]
=============================================================================
