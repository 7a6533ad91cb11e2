--------------------------- MODULE Accounts_proofs ---------------------------
(***************************************************************************)
(* The safety properties of Accounts for any number of Users, Sessions and *)
(* overlapping requests.                                                   *)
(*                                                                         *)
(* The invariant says of every request what it may still rely on: whom it  *)
(* has found, that the Session it read still belongs to him, that whoever  *)
(* it will disable or delete is no admin.  Other requests cannot take that *)
(* away, because rows only change in a few ways (Evolves) and no id is     *)
(* given out twice.  What was written of a Session's uses is a second      *)
(* invariant (IdleInv), which builds on the first.                         *)
(***************************************************************************)
EXTENDS Accounts, TLAPS, FiniteSetTheorems

SessionKinds == {"resolve", "logout"}
TargetKinds == {"logout_everywhere", "change", "disable", "delete", "reset"}
ActorKinds == {"create", "disable", "delete", "reset"}
WriteKinds == {"change", "reset", "disable"}

(* The requests that may be at a call. *)
KindFits(q, call) ==
    /\ call = "list_users" => q.kind \in {"bootstrap", "login"}
    /\ call \in {"find", "create_session"} => q.kind = "login"
    /\ call \in {"get_session", "get_owner", "touch"} => q.kind = "resolve" /\ q.session # None
    /\ call = "implicit" => q.kind = "resolve"
    /\ call = "delete_session" => q.kind \in SessionKinds /\ q.session # None
    /\ call = "get_actor" => q.kind \in ActorKinds
    /\ call = "get_target" => q.kind \in TargetKinds \ {"logout_everywhere"}
    /\ call = "count_admins" => q.kind \in {"disable", "delete"}
    /\ call = "name_free" => q.kind = "create"
    /\ call \in {"create_user", "create_deck"} => q.kind \in {"bootstrap", "create"}
    /\ call = "set_password" => q.kind \in {"change", "reset"}
    /\ call = "set_disabled" => q.kind = "disable"
    /\ call = "delete_user" => q.kind = "delete"
    /\ call = "wipe" => q.kind \in {"resolve", "logout_everywhere"} \cup WriteKinds

(* Ids that a request names were given out before it arrived. *)
Known(q) ==
    /\ q.kind \in SessionKinds /\ q.session # None => q.session \in issued
    /\ q.kind \in TargetKinds => q.target \in issued
    /\ q.kind \in ActorKinds => q.actor \in issued

(* The User that a request has found. *)
Found(q, call, u) ==
    /\ u # None => u \in issued
    /\ call \in {"create_deck", "create_session", "get_owner", "touch", "wipe"} => u # None
    /\ call \in {"count_admins", "set_password", "set_disabled", "delete_user"} => u = q.target
    /\ call \in {"set_disabled", "delete_user"} => (users[u] = None \/ ~users[u].admin)

(* Nobody who was disabled when the request arrived is let in. *)
KeptOut(q, call, u, l) ==
    /\ \A v \in l : v \in issued /\ (users[v] = None \/ users[v].disabled)
    /\ (/\ q.kind \in {"login", "resolve", "change"}
        /\ \/ call \in {"create_session", "touch", "set_password", "done"}
           \/ call = "wipe" /\ q.kind = "change") => u \notin l

(* The Session that a request shows is its User's, or gone. *)
Shown(q, call, u) ==
    (q.kind = "resolve" /\ q.session # None) =>
        LET session == sessions[q.session] IN
        /\ call \in {"get_owner", "touch", "wipe", "done"} =>
              (session = None \/ session.user = u)
        /\ call = "implicit" => session = None

(* What a write of the password or the disabled flag leaves behind. *)
Written(q, call, u, m) ==
    (q.kind \in WriteKinds /\ call \in {"wipe", "done"}) =>
        /\ u # None
        /\ users[u] = None \/ users[u].version >= m
        /\ call = "done" =>
              \A s \in SessionIds :
                  (sessions[s] # None /\ sessions[s].user = u) => sessions[s].version >= m

Fits(q, call, u, l, m) ==
    /\ Known(q) /\ KindFits(q, call) /\ Found(q, call, u)
    /\ KeptOut(q, call, u, l) /\ Shown(q, call, u) /\ Written(q, call, u, m)

RequestsInv ==
    \A r \in Requests : req[r] # None => Fits(req[r], pc[r], who[r], late[r], mark[r])

IdsInv ==
    /\ \A u \in UserIds : users[u] # None => u \in issued
    /\ \A s \in SessionIds : sessions[s] # None => s \in issued

OwnersInv == \A s \in SessionIds : sessions[s] # None => sessions[s].user \in issued

AdminInv ==
    \/ issued \cap UserIds = {}
    \/ \E u \in UserIds :
          /\ Active(u) /\ users[u].name = BootstrapName
          /\ \A v \in UserIds : users[v] # None => (users[v].admin = (v = u))

IInv == TypeOK /\ RequestsInv /\ IdsInv /\ OwnersInv /\ AdminInv /\ DefaultSeeded

-----------------------------------------------------------------------------
(* What a request carries. *)
LEMMA RequestFields ==
    ASSUME NEW q \in Request
    PROVE  /\ q # None
           /\ q.kind \in {"bootstrap", "login"} => q.name \in Names /\ q.password \in Passwords
           /\ q.kind = "bootstrap" => q.name = BootstrapName
           /\ q.kind = "resolve" => q.session \in SessionIds \cup {None}
           /\ q.kind = "logout" => q.session \in SessionIds
           /\ q.kind \in TargetKinds => q.target \in UserIds
           /\ q.kind \in ActorKinds => q.actor \in UserIds
           /\ q.kind \in {"change", "reset"} => q.new \in Passwords
           /\ q.kind = "create" => q.name \in Names /\ q.password \in Passwords
           /\ q.kind \in {"bootstrap", "login", "create"} \cup SessionKinds \cup TargetKinds
<1>1. q # None
  BY NoneIsNoRow
<1> QED
  BY <1>1, AccountsAssumption DEF Request, SessionKinds, TargetKinds, ActorKinds

-----------------------------------------------------------------------------
(* The ways in which a step may change the tables. *)
Evolves ==
    /\ issued \subseteq issued'
    /\ \A u \in UserIds :
          \/ users'[u] = None
          \/ /\ users[u] # None
             /\ users'[u].admin = users[u].admin
             /\ users[u].disabled => users'[u].disabled
             /\ users'[u].version >= users[u].version
          \/ u \notin issued /\ u \in issued'
    /\ \A s \in SessionIds :
          \/ sessions'[s] = None
          \/ /\ sessions[s] # None
             /\ sessions'[s].user = sessions[s].user
             /\ sessions'[s].version = sessions[s].version
          \/ /\ s \notin issued /\ s \in issued'
             /\ users[sessions'[s].user] # None
             /\ sessions'[s].version = users[sessions'[s].user].version

Tables == <<users, sessions, issued>>

TablesTyped ==
    /\ users \in [UserIds -> User \cup {None}]
    /\ sessions \in [SessionIds -> Session \cup {None}]
    /\ issued \subseteq UserIds \cup SessionIds
    /\ seeded \subseteq UserIds

TimesTyped == clock \in Times /\ asked \in [Requests -> Times]

LEMMA TimesStay == ASSUME IInv, UNCHANGED times PROVE TimesTyped'
BY DEF IInv, TypeOK, times, TimesTyped

(* What a request may rely on survives every such change. *)
LEMMA FitsStable ==
    ASSUME TypeOK, TablesTyped', Evolves,
           NEW q \in Request, NEW call, NEW u \in UserIds \cup {None},
           NEW l \in SUBSET UserIds, NEW m \in Nat,
           Fits(q, call, u, l, m)
    PROVE  Fits(q, call, u, l, m)'
<1>1. Known(q)' /\ KindFits(q, call)'
  BY DEF Fits, Known, KindFits, Evolves
<1>2. Found(q, call, u)'
  BY RequestFields, AccountsAssumption DEF Fits, Found, Evolves, KindFits, TargetKinds
<1>3. KeptOut(q, call, u, l)'
  BY DEF Fits, KeptOut, Evolves
<1>4. Shown(q, call, u)'
  BY RequestFields, AccountsAssumption DEF Fits, Shown, Known, Evolves, SessionKinds
<1>5. ASSUME q.kind \in WriteKinds, call \in {"wipe", "done"}
      PROVE  Written(q, call, u, m)'
  <2>1. u \in UserIds /\ u \in issued
    BY <1>5 DEF Fits, Found, Written
  <2>2. users[u] = None \/ users[u].version >= m
    BY <1>5 DEF Fits, Written
  <2>3. users'[u] = None \/ (users[u] # None /\ users'[u].version >= users[u].version)
    BY <2>1 DEF Evolves
  <2>4. users'[u] = None \/ users'[u].version >= m
    BY <2>1, <2>2, <2>3, NoneIsNoRow DEF TypeOK, TablesTyped, User
  <2>5. ASSUME call = "done", NEW s \in SessionIds,
               sessions'[s] # None, sessions'[s].user = u
        PROVE  sessions'[s].version >= m
    <3>1. CASE sessions[s] # None /\ sessions'[s].user = sessions[s].user
                 /\ sessions'[s].version = sessions[s].version
      BY <1>5, <2>5, <3>1 DEF Fits, Written
    <3>2. CASE users[sessions'[s].user] # None
                 /\ sessions'[s].version = users[sessions'[s].user].version
      BY <2>2, <2>5, <3>2
    <3> QED
      BY <2>5, <3>1, <3>2 DEF Evolves
  <2> QED
    BY <2>1, <2>4, <2>5, AccountsAssumption DEF Written
<1>6. Written(q, call, u, m)'
  BY <1>5 DEF Written
<1> QED
  BY <1>1, <1>2, <1>3, <1>4, <1>6 DEF Fits

LEMMA FitsUnchanged ==
    ASSUME UNCHANGED Tables, NEW q, NEW call, NEW u, NEW l, NEW m,
           Fits(q, call, u, l, m)
    PROVE  Fits(q, call, u, l, m)'
BY DEF Tables, Fits, Known, KindFits, Found, KeptOut, Shown, Written

(* Request r goes on with another call. *)
Moves(r, call, u, m) ==
    /\ req' = req /\ late' = late
    /\ pc' = [pc EXCEPT ![r] = call]
    /\ who' = [who EXCEPT ![r] = u]
    /\ mark' = [mark EXCEPT ![r] = m]

(* Every step of a request keeps what the other requests rely on. *)
LEMMA StepOfRequest ==
    ASSUME IInv, NEW r \in Requests, NEW call \in Calls \cup Final,
           NEW u \in UserIds \cup {None}, NEW m \in Nat,
           pc[r] \in Calls, Moves(r, call, u, m), TablesTyped', Evolves,
           Fits(req[r], call, u, late[r], m)',
           AdminInv', DefaultSeeded', TimesTyped'
    PROVE  IInv'
<1> USE DEF IInv
<1>1. TypeOK'
  <2>1. call \in {"create_deck", "create_session", "get_owner", "touch", "wipe"} => u # None
    BY DEF Fits, Found
  <2>2. req[r] # None /\ call # "idle"
    BY DEF TypeOK, Calls, Final
  <2> QED
    BY <2>1, <2>2 DEF TypeOK, TablesTyped, TimesTyped, Moves
<1>2. RequestsInv'
  <2> SUFFICES ASSUME NEW x \in Requests, req'[x] # None
               PROVE  Fits(req[x], pc[x], who[x], late[x], mark[x])'
    BY DEF RequestsInv
  <2>1. CASE x = r
    BY <2>1 DEF Moves, TypeOK
  <2>2. CASE x # r
    <3>1. /\ req'[x] = req[x] /\ pc'[x] = pc[x] /\ who'[x] = who[x]
          /\ late'[x] = late[x] /\ mark'[x] = mark[x]
      BY <2>2 DEF Moves, TypeOK
    <3>2. Fits(req[x], pc[x], who[x], late[x], mark[x])'
      <4>1. req[x] \in Request /\ who[x] \in UserIds \cup {None}
              /\ late[x] \in SUBSET UserIds /\ mark[x] \in Nat
        BY <3>1 DEF TypeOK
      <4>2. Fits(req[x], pc[x], who[x], late[x], mark[x])
        BY <3>1 DEF RequestsInv
      <4> QED
        BY <3>1, <4>1, <4>2, FitsStable
    <3> QED
      BY <3>1, <3>2
  <2> QED
    BY <2>1, <2>2
<1>3. IdsInv' /\ OwnersInv'
  BY DEF IdsInv, OwnersInv, Evolves, TablesTyped, Session
<1> QED
  BY <1>1, <1>2, <1>3

-----------------------------------------------------------------------------
(* A new witness is never needed while no User is added. *)
LEMMA SeededStays ==
    ASSUME IInv, NEW r \in Requests, NEW call, NEW u, NEW m, Moves(r, call, u, m),
           pc[r] # "lost", pc[r] # "create_deck" \/ (call = "lost" /\ u = who[r]),
           seeded' = seeded,
           \A v \in UserIds : users'[v] # None => users[v] # None
    PROVE  DefaultSeeded'
<1> SUFFICES ASSUME NEW v \in UserIds, users'[v] # None, v \notin seeded
             PROVE  \E x \in Requests : who'[x] = v /\ pc'[x] \in {"create_deck", "lost"}
  BY DEF DefaultSeeded
<1>1. PICK x \in Requests : who[x] = v /\ pc[x] \in {"create_deck", "lost"}
  BY DEF IInv, DefaultSeeded
<1>2. CASE x = r
  BY <1>1, <1>2 DEF Moves, IInv, TypeOK
<1>3. CASE x # r
  BY <1>1, <1>3 DEF Moves, IInv, TypeOK
<1> QED
  BY <1>2, <1>3

(* A call that leaves the tables alone. *)
LEMMA StepOfReader ==
    ASSUME IInv, NEW r \in Requests, NEW call \in Calls \cup Final,
           NEW u \in UserIds \cup {None},
           pc[r] \in Calls, Read(r, call), who' = [who EXCEPT ![r] = u],
           pc[r] # "create_deck" \/ (call = "lost" /\ u = who[r]),
           Fits(req[r], call, u, late[r], mark[r])
    PROVE  IInv'
<1>0. Moves(r, call, u, mark[r]) /\ UNCHANGED Tables /\ seeded' = seeded
  BY DEF Read, Goto, Moves, Tables, IInv, TypeOK
<1>1. Fits(req[r], call, u, late[r], mark[r])'
  BY <1>0, FitsUnchanged DEF Moves
<1>2. Evolves
  BY <1>0 DEF Evolves, Tables, IInv, TypeOK, User
<1>3. TablesTyped' /\ AdminInv'
  BY <1>0 DEF IInv, TypeOK, TablesTyped, Tables, AdminInv, Active
<1>4. req[r] \in Request /\ mark[r] \in Nat
  BY DEF IInv, TypeOK, Calls
<1>5. DefaultSeeded'
  BY <1>0, SeededStays DEF Tables, Calls
<1>6. TimesTyped'
  BY TimesStay DEF Read
<1>7. mark'[r] = mark[r]
  BY <1>0 DEF Moves, IInv, TypeOK
<1> QED
  BY <1>0, <1>1, <1>2, <1>3, <1>4, <1>5, <1>6, <1>7, StepOfRequest

LEMMA ReaderGoesOn ==
    ASSUME IInv, NEW r \in Requests, NEW call \in Calls \cup Final,
           pc[r] \in Calls, Read(r, call), who' = who,
           pc[r] # "create_deck" \/ call = "lost",
           Fits(req[r], call, who[r], late[r], mark[r])
    PROVE  IInv'
<1>1. who' = [who EXCEPT ![r] = who[r]] /\ who[r] \in UserIds \cup {None}
  BY DEF IInv, TypeOK
<1> QED
  BY <1>1, StepOfReader

LEMMA ReaderFinds ==
    ASSUME IInv, NEW r \in Requests, NEW call \in Calls \cup Final,
           NEW u \in UserIds \cup {None},
           pc[r] \in Calls \ {"create_deck"}, Read(r, call), who' = [who EXCEPT ![r] = u],
           Fits(req[r], call, u, late[r], mark[r])
    PROVE  IInv'
BY StepOfReader

-----------------------------------------------------------------------------
LEMMA AtCall ==
    ASSUME IInv, NEW r \in Requests, pc[r] \in Calls
    PROVE  /\ req[r] \in Request /\ who[r] \in UserIds \cup {None}
           /\ late[r] \in SUBSET UserIds /\ mark[r] \in Nat
           /\ Fits(req[r], pc[r], who[r], late[r], mark[r])
BY DEF IInv, TypeOK, RequestsInv, Calls

LEMMA StepListUsers ==
    ASSUME IInv, NEW r \in Requests, ListUsers(r)
    PROVE  IInv'
<1>1. pc[r] = "list_users" /\ pc[r] \in Calls
  BY DEF ListUsers, Calls
<1>2. PICK call \in {"create_user", "refused", "find"} :
         /\ Goto(r, call)
         /\ call = "create_user" => req[r].kind = "bootstrap"
         /\ call = "find" => req[r].kind # "bootstrap"
  BY DEF ListUsers
<1>3. /\ Moves(r, call, who[r], mark[r]) /\ UNCHANGED Tables /\ seeded' = seeded
      /\ mark'[r] = mark[r] /\ mark[r] \in Nat /\ who[r] \in UserIds \cup {None}
  BY <1>2 DEF ListUsers, Goto, Moves, Tables, IInv, TypeOK
<1>4. Fits(req[r], call, who[r], late[r], mark[r])
  BY <1>1, <1>2, AtCall DEF Fits, KindFits, Known, Found, KeptOut, Shown, Written
<1>5. Fits(req[r], call, who[r], late[r], mark[r])'
  BY <1>3, <1>4, FitsUnchanged DEF Moves, IInv, TypeOK
<1>6. TablesTyped' /\ Evolves /\ AdminInv'
  BY <1>3 DEF Tables, TablesTyped, Evolves, IInv, TypeOK, User, AdminInv, Active
<1>7. DefaultSeeded'
  BY <1>1, <1>3, SeededStays DEF Tables
<1>8. TimesTyped'
  BY DEF ListUsers, IInv, TypeOK, TimesTyped
<1> QED
  BY <1>1, <1>3, <1>5, <1>6, <1>7, <1>8, StepOfRequest DEF Calls, Final, Moves, IInv, TypeOK

LEMMA StepFind ==
    ASSUME IInv, NEW r \in Requests, Find(r)
    PROVE  IInv'
<1>1. pc[r] = "find" /\ pc[r] \in Calls
  BY DEF Find, Calls
<1>2. CASE Read(r, "refused") /\ who' = who
  <2>1. Fits(req[r], "refused", who[r], late[r], mark[r])
    BY <1>1, AtCall DEF Fits, KindFits, Known, Found, KeptOut, Shown, Written
  <2> QED
    BY <1>1, <1>2, <2>1, ReaderGoesOn DEF Calls, Final
<1>3. ASSUME NEW u \in UserIds, Active(u), who' = [who EXCEPT ![r] = u],
             Read(r, "create_session")
      PROVE  IInv'
  <2>1. u \in issued /\ u \notin late[r]
    BY <1>1, <1>3, AtCall DEF IInv, IdsInv, Active, Fits, KeptOut
  <2>2. Fits(req[r], "create_session", u, late[r], mark[r])
    BY <1>1, <2>1, AtCall, AccountsAssumption
    DEF Fits, KindFits, Known, Found, KeptOut, Shown, Written, WriteKinds
  <2> QED
    BY <1>1, <1>3, <2>2, ReaderFinds DEF Calls
<1> QED
  BY <1>2, <1>3 DEF Find

LEMMA StepGetSession ==
    ASSUME IInv, NEW r \in Requests, GetSession(r)
    PROVE  IInv'
<1>1. pc[r] = "get_session" /\ pc[r] \in Calls
  BY DEF GetSession, Calls
<1>2. /\ req[r].kind = "resolve" /\ req[r].session \in SessionIds
      /\ Known(req[r]) /\ KeptOut(req[r], pc[r], who[r], late[r])
      /\ who[r] # None => who[r] \in issued
  BY <1>1, AtCall, RequestFields DEF Fits, KindFits, Found
<1>3. CASE sessions[req[r].session] = None
  <2>1. Read(r, "implicit") /\ who' = who
    BY <1>3 DEF GetSession
  <2>2. Fits(req[r], "implicit", who[r], late[r], mark[r])
    BY <1>1, <1>2, <1>3 DEF Fits, KindFits, Found, KeptOut, Shown, Written, WriteKinds
  <2> QED
    BY <1>1, <2>1, <2>2, ReaderGoesOn DEF Calls
<1>4. CASE sessions[req[r].session] # None
  <2> DEFINE session == sessions[req[r].session]
  <2>1. PICK call \in {"delete_session", "get_owner"} :
          Read(r, call) /\ who' = [who EXCEPT ![r] = session.user]
    BY <1>4 DEF GetSession
  <2>2. session.user \in UserIds
    BY <1>2, <1>4 DEF IInv, TypeOK, Session
  <2>3. session.user \in issued
    BY <1>2, <1>4, <2>2 DEF IInv, OwnersInv
  <2>4. Fits(req[r], call, session.user, late[r], mark[r])
    BY <1>1, <1>2, <1>4, <2>2, <2>3, AccountsAssumption
    DEF Fits, KindFits, Found, KeptOut, Shown, Written, WriteKinds, SessionKinds
  <2> QED
    BY <1>1, <2>1, <2>2, <2>4, ReaderFinds DEF Calls
<1> QED
  BY <1>3, <1>4

LEMMA StepGetOwner ==
    ASSUME IInv, NEW r \in Requests, GetOwner(r)
    PROVE  IInv'
<1>1. pc[r] = "get_owner" /\ pc[r] \in Calls /\ who' = who
  BY DEF GetOwner, Calls
<1>2. who[r] \in UserIds
  BY <1>1, AtCall DEF Fits, Found
<1>3. PICK call \in {"delete_session", "touch", "wipe"} :
         Read(r, call) /\ (call = "touch" => Active(who[r]))
  BY DEF GetOwner, Active
<1>4. Fits(req[r], call, who[r], late[r], mark[r])
  BY <1>1, <1>2, <1>3, AtCall
  DEF Fits, KindFits, Known, Found, KeptOut, Shown, Written, WriteKinds, SessionKinds, Active
<1> QED
  BY <1>1, <1>3, <1>4, ReaderGoesOn DEF Calls

LEMMA StepImplicit ==
    ASSUME IInv, NEW r \in Requests, Implicit(r)
    PROVE  IInv'
<1>1. pc[r] = "implicit" /\ pc[r] \in Calls
  BY DEF Implicit, Calls
<1>2. CASE Read(r, "refused") /\ who' = who
  <2>1. Fits(req[r], "refused", who[r], late[r], mark[r])
    BY <1>1, AtCall DEF Fits, KindFits, Known, Found, KeptOut, Shown, Written
  <2> QED
    BY <1>1, <1>2, <2>1, ReaderGoesOn DEF Calls, Final
<1>3. ASSUME NEW u \in UserIds, Active(u), who' = [who EXCEPT ![r] = u], Read(r, "done")
      PROVE  IInv'
  <2>1. u \in issued /\ u \notin late[r]
    BY <1>1, <1>3, AtCall DEF IInv, IdsInv, Active, Fits, KeptOut
  <2>2. Fits(req[r], "done", u, late[r], mark[r])
    BY <1>1, <2>1, AtCall
    DEF Fits, KindFits, Known, Found, KeptOut, Shown, Written, WriteKinds
  <2> QED
    BY <1>1, <1>3, <2>2, ReaderFinds DEF Calls, Final
<1> QED
  BY <1>2, <1>3 DEF Implicit

LEMMA StepGetActor ==
    ASSUME IInv, NEW r \in Requests, GetActor(r)
    PROVE  IInv'
<1>1. pc[r] = "get_actor" /\ pc[r] \in Calls /\ who' = who
  BY DEF GetActor, Calls
<1>2. PICK call \in {"refused", "name_free", "get_target"} :
         Read(r, call) /\ (call = "name_free" => req[r].kind = "create")
           /\ (call = "get_target" => req[r].kind # "create")
  BY DEF GetActor
<1>3. Fits(req[r], call, who[r], late[r], mark[r])
  BY <1>1, <1>2, AtCall
  DEF Fits, KindFits, Known, Found, KeptOut, Shown, Written, ActorKinds, TargetKinds
<1> QED
  BY <1>1, <1>2, <1>3, ReaderGoesOn DEF Calls, Final

LEMMA StepNameFree ==
    ASSUME IInv, NEW r \in Requests, NameFree(r)
    PROVE  IInv'
<1>1. pc[r] = "name_free" /\ pc[r] \in Calls /\ who' = who
  BY DEF NameFree, Calls
<1>2. PICK call \in {"refused", "create_user"} : Read(r, call)
  BY DEF NameFree
<1>3. Fits(req[r], call, who[r], late[r], mark[r])
  BY <1>1, <1>2, AtCall DEF Fits, KindFits, Known, Found, KeptOut, Shown, Written
<1> QED
  BY <1>1, <1>2, <1>3, ReaderGoesOn DEF Calls, Final

LEMMA StepLose ==
    ASSUME IInv, NEW r \in Requests, Lose(r)
    PROVE  IInv'
<1>1. pc[r] \in Calls /\ Read(r, "lost") /\ who' = who
  BY DEF Lose, Read
<1>2. Fits(req[r], "lost", who[r], late[r], mark[r])
  BY <1>1, AtCall DEF Fits, KindFits, Known, Found, KeptOut, Shown, Written
<1> QED
  BY <1>1, <1>2, ReaderGoesOn DEF Calls, Final

(* Whoever is going to be disabled or deleted is no admin. *)
LEMMA StepGetTarget ==
    ASSUME IInv, NEW r \in Requests, GetTarget(r)
    PROVE  IInv'
<1>1. pc[r] = "get_target" /\ pc[r] \in Calls
  BY DEF GetTarget, Calls
<1> DEFINE q == req[r]
           target == users[q.target]
<1>2. /\ q.kind \in {"change", "disable", "delete", "reset"}
      /\ q.target \in UserIds /\ q.target \in issued
  BY <1>1, AtCall, RequestFields DEF Fits, KindFits, Known, TargetKinds
<1>3. PICK call \in {"refused", "count_admins", "set_disabled", "delete_user", "set_password"} :
         /\ Read(r, call) /\ who' = [who EXCEPT ![r] = q.target]
         /\ call = "count_admins" => q.kind \in {"disable", "delete"}
         /\ call = "set_disabled" => q.kind = "disable"
         /\ call = "delete_user" => q.kind = "delete"
         /\ call = "set_password" => q.kind \in {"change", "reset"} /\ target # None /\ ~target.disabled
         /\ call \in {"set_disabled", "delete_user"} => target # None /\ ~(target.admin /\ ~target.disabled)
  <2> DEFINE removes == q.kind \in {"disable", "delete"}
  <2>1. who' = [who EXCEPT ![r] = q.target]
    BY DEF GetTarget
  <2>2. CASE target = None
    BY <2>1, <2>2 DEF GetTarget
  <2>3. CASE target # None /\ ~removes
    BY <1>2, <2>1, <2>3 DEF GetTarget
  <2>4. CASE target # None /\ removes
    BY <1>2, <2>1, <2>4 DEF GetTarget
  <2> QED
    BY <2>2, <2>3, <2>4
<1>4. call \in {"set_disabled", "delete_user"} => target = None \/ ~target.admin
  BY <1>2, <1>3 DEF IInv, AdminInv, Active
<1>5. call = "set_password" => q.target \notin late[r]
  BY <1>1, <1>2, <1>3, AtCall DEF Fits, KeptOut
<1>6. Fits(q, call, q.target, late[r], mark[r])
  BY <1>1, <1>2, <1>3, <1>4, <1>5, AtCall
  DEF Fits, KindFits, Known, Found, KeptOut, Shown, Written, WriteKinds
<1> QED
  BY <1>1, <1>2, <1>3, <1>6, ReaderFinds DEF Calls, Final

(* There is only one active admin to count, so this call always refuses. *)
LEMMA StepCountAdmins ==
    ASSUME IInv, NEW r \in Requests, CountAdmins(r)
    PROVE  IInv'
<1>1. pc[r] = "count_admins" /\ pc[r] \in Calls /\ who' = who
  BY DEF CountAdmins, Calls
<1> DEFINE active == {u \in UserIds : Active(u) /\ users[u].admin}
<1>2. Cardinality(active) <= 1
  <2>1. issued \cap UserIds # {}
    BY <1>1, AtCall, RequestFields DEF Fits, KindFits, Known, TargetKinds
  <2>2. PICK a \in UserIds :
           Active(a) /\ \A v \in UserIds : users[v] # None => (users[v].admin = (v = a))
    BY <2>1 DEF IInv, AdminInv
  <2>3. active = {a}
    BY <2>2 DEF Active
  <2>4. Cardinality({a}) = 1
    BY FS_Singleton
  <2> HIDE DEF active
  <2> QED
    BY <2>3, <2>4
<1>3. Read(r, "refused")
  BY <1>2 DEF CountAdmins
<1>4. Fits(req[r], "refused", who[r], late[r], mark[r])
  BY <1>1, AtCall DEF Fits, KindFits, Known, Found, KeptOut, Shown, Written
<1> QED
  BY <1>1, <1>3, <1>4, ReaderGoesOn DEF Calls, Final

-----------------------------------------------------------------------------
LEMMA StepCreateSession ==
    ASSUME IInv, NEW r \in Requests, CreateSession(r)
    PROVE  IInv'
<1>1. pc[r] = "create_session" /\ pc[r] \in Calls
  BY DEF CreateSession, Calls
<1>2. req[r] \in Request /\ req[r].kind = "login" /\ who[r] \in UserIds /\ mark[r] \in Nat
  BY <1>1, AtCall DEF Fits, KindFits, Found
<1>3. CASE users[who[r]] = None
  <2>1. Read(r, "refused") /\ who' = who
    BY <1>3 DEF CreateSession, Read
  <2>2. Fits(req[r], "refused", who[r], late[r], mark[r])
    BY <1>1, AtCall DEF Fits, KindFits, Known, Found, KeptOut, Shown, Written
  <2> QED
    BY <1>1, <2>1, <2>2, ReaderGoesOn DEF Calls, Final
<1>4. CASE users[who[r]] # None
  <2>1. PICK s \in SessionIds \ issued :
           /\ sessions' = [sessions EXCEPT ![s] = Opened(who[r], asked[r])]
           /\ issued' = issued \cup {s}
    BY <1>4 DEF CreateSession
  <2>2. Moves(r, "done", who[r], mark[r]) /\ users' = users /\ seeded' = seeded
    BY <1>4 DEF CreateSession, Goto, Moves, IInv, TypeOK
  <2>3. TablesTyped'
    <3>1. Opened(who[r], asked[r]) \in Session
      BY <1>2, <1>4 DEF IInv, TypeOK, User, Session, Opened
    <3> QED
      BY <2>1, <2>2, <3>1 DEF IInv, TypeOK, TablesTyped
  <2>4. Evolves
    BY <1>2, <1>4, <2>1, <2>2 DEF Evolves, IInv, TypeOK, User, Opened
  <2>5. Fits(req[r], "done", who[r], late[r], mark[r])'
    <3>1. Fits(req[r], "done", who[r], late[r], mark[r])
      BY <1>1, <1>2, AtCall DEF Fits, KindFits, Known, Found, KeptOut, Shown, Written, WriteKinds
    <3> QED
      BY <1>1, <1>2, <2>2, <2>3, <2>4, <3>1, AtCall, FitsStable DEF Moves, IInv, TypeOK
  <2>6. AdminInv'
    <3>1. issued' \cap UserIds = issued \cap UserIds
      BY <2>1, AccountsAssumption
    <3> QED
      BY <2>2, <3>1 DEF IInv, AdminInv, Active
  <2>7. DefaultSeeded'
    BY <1>1, <2>2, SeededStays
  <2>8. TimesTyped'
    BY TimesStay DEF CreateSession
  <2> QED
    BY <1>1, <1>2, <2>2, <2>3, <2>4, <2>5, <2>6, <2>7, <2>8, StepOfRequest
    DEF Final, Moves, IInv, TypeOK
<1> QED
  BY <1>3, <1>4

(* The row that touch_session leaves. *)
LEMMA UsedIs ==
    ASSUME NEW session \in Session, NEW now \in Times
    PROVE  LET used == Used(session, now) IN
           /\ used \in Session
           /\ used.user = session.user /\ used.version = session.version
           /\ used.created_at = session.created_at /\ used.last_used_at = now
           /\ used.uses = session.uses \cup {now}
BY DEF Session, Used

LEMMA StepTouch ==
    ASSUME IInv, NEW r \in Requests, Touch(r)
    PROVE  IInv'
<1>1. pc[r] = "touch" /\ pc[r] \in Calls
  BY DEF Touch, Calls
<1>2. /\ req[r] \in Request /\ req[r].kind = "resolve" /\ req[r].session \in SessionIds
      /\ who[r] \in UserIds /\ mark[r] \in Nat
  BY <1>1, AtCall, RequestFields DEF Fits, KindFits, Found
<1> DEFINE s == req[r].session
<1>3. /\ Moves(r, "done", who[r], mark[r])
      /\ users' = users /\ issued' = issued /\ seeded' = seeded
      /\ sessions' = [sessions EXCEPT ![s] = IF @ = None THEN None ELSE Used(@, asked[r])]
      /\ asked[r] \in Times
  BY DEF Touch, Goto, Moves, IInv, TypeOK
<1>4. TablesTyped' /\ Evolves
  <2>1. ASSUME sessions[s] # None
        PROVE  /\ Used(sessions[s], asked[r]) \in Session
               /\ Used(sessions[s], asked[r]).user = sessions[s].user
               /\ Used(sessions[s], asked[r]).version = sessions[s].version
    BY <1>2, <1>3, <2>1, UsedIs DEF IInv, TypeOK
  <2>2. TablesTyped'
    BY <1>2, <1>3, <2>1 DEF IInv, TypeOK, TablesTyped
  <2>3. Evolves
    BY <1>2, <1>3, <2>1 DEF Evolves, IInv, TypeOK, User
  <2> QED
    BY <2>2, <2>3
<1>5. Fits(req[r], "done", who[r], late[r], mark[r])'
  <2>1. Fits(req[r], "done", who[r], late[r], mark[r])
    BY <1>1, <1>2, AtCall DEF Fits, KindFits, Known, Found, KeptOut, Shown, Written, WriteKinds
  <2> QED
    BY <1>1, <1>2, <1>3, <1>4, <2>1, AtCall, FitsStable DEF Moves, IInv, TypeOK
<1>6. AdminInv' /\ DefaultSeeded'
  BY <1>1, <1>3, SeededStays DEF IInv, AdminInv, Active
<1>7. TimesTyped'
  BY TimesStay DEF Touch
<1> QED
  BY <1>1, <1>2, <1>3, <1>4, <1>5, <1>6, <1>7, StepOfRequest DEF Final, Moves, IInv, TypeOK

(* Deleting Sessions disturbs nobody. *)
LEMMA StepOfDrop ==
    ASSUME IInv, NEW r \in Requests, NEW gone, NEW call \in {"done", "implicit"},
           pc[r] \in Calls \ {"create_deck"}, Drop(gone), Goto(r, call),
           UNCHANGED <<users, issued, seeded, req, who, late, mark, times>>,
           Fits(req[r], call, who[r], late[r], mark[r])'
    PROVE  IInv'
<1>1. Moves(r, call, who[r], mark[r])
  BY DEF Goto, Moves, IInv, TypeOK
<1>2. TablesTyped' /\ Evolves
  BY DEF Drop, TablesTyped, Evolves, IInv, TypeOK, User
<1>3. AdminInv' /\ DefaultSeeded'
  BY <1>1, SeededStays, AtCall DEF IInv, AdminInv, Active, Calls
<1>4. TimesTyped'
  BY TimesStay
<1> QED
  BY <1>1, <1>2, <1>3, <1>4, AtCall, StepOfRequest DEF Calls, Final, IInv, TypeOK

LEMMA StepDeleteSession ==
    ASSUME IInv, NEW r \in Requests, DeleteSession(r)
    PROVE  IInv'
<1>1. pc[r] = "delete_session" /\ pc[r] \in Calls
  BY DEF DeleteSession, Calls
<1>2. PICK call \in {"done", "implicit"} :
         Goto(r, call) /\ (call = "done") = (req[r].kind = "logout")
  BY DEF DeleteSession
<1>3. Fits(req[r], call, who[r], late[r], mark[r])'
  BY <1>1, <1>2, AtCall, RequestFields
  DEF Fits, KindFits, Known, Found, KeptOut, Shown, Written, WriteKinds, SessionKinds,
      DeleteSession, Drop
<1> QED
  BY <1>1, <1>2, <1>3, StepOfDrop DEF DeleteSession

LEMMA StepWipe ==
    ASSUME IInv, NEW r \in Requests, Wipe(r)
    PROVE  IInv'
<1>1. pc[r] = "wipe" /\ pc[r] \in Calls
  BY DEF Wipe, Calls
<1>2. PICK call \in {"done", "implicit"} :
         Goto(r, call) /\ (call = "implicit") = (req[r].kind = "resolve")
  BY DEF Wipe
<1>3. Fits(req[r], call, who[r], late[r], mark[r])'
  <2> USE AtCall, <1>1, <1>2 DEF Fits
  <2>1. /\ UNCHANGED <<users, issued, req, who, late, mark>>
        /\ \A s \in SessionIds : sessions'[s] # None =>
              sessions'[s] = sessions[s] /\ sessions[s].user # who[r]
    BY DEF Wipe, Drop, SessionsOf
  <2>2. Known(req[r])' /\ KindFits(req[r], call)' /\ Found(req[r], call, who[r])'
    BY <2>1 DEF Known, KindFits, Found
  <2>3. KeptOut(req[r], call, who[r], late[r])'
    BY <2>1 DEF KindFits, KeptOut, WriteKinds
  <2>4. Shown(req[r], call, who[r])'
    BY <2>1, RequestFields DEF Shown, SessionKinds
  <2>5. Written(req[r], call, who[r], mark[r])'
    BY <2>1 DEF Written, WriteKinds
  <2> QED
    BY <2>2, <2>3, <2>4, <2>5
<1>4. pc[r] \in Calls \ {"create_deck"} /\ Drop(SessionsOf(who[r]))
  BY <1>1 DEF Wipe
<1> QED
  BY <1>2, <1>3, <1>4, StepOfDrop DEF Wipe

(* The first User is the bootstrap admin; nobody else ever gets that name. *)
LEMMA StepCreateUser ==
    ASSUME IInv, NEW r \in Requests, CreateUser(r)
    PROVE  IInv'
<1>1. pc[r] = "create_user" /\ pc[r] \in Calls
  BY DEF CreateUser, Calls
<1> DEFINE q == req[r]
           taken == \E v \in UserIds : users[v] # None /\ users[v].name = q.name
           row == [name |-> q.name, password |-> q.password,
                   admin |-> (q.kind = "bootstrap"), disabled |-> FALSE, version |-> 0]
<1>2. /\ q \in Request /\ q.kind \in {"bootstrap", "create"}
      /\ q.name \in Names /\ q.password \in Passwords
      /\ q.kind = "bootstrap" => q.name = BootstrapName
      /\ q.kind = "create" => q.actor \in issued \cap UserIds
      /\ mark[r] \in Nat
  BY <1>1, AtCall, RequestFields DEF Fits, KindFits, Known, ActorKinds
<1>3. CASE taken
  <2>1. Read(r, "refused") /\ who' = who
    BY <1>3 DEF CreateUser, Read
  <2>2. Fits(req[r], "refused", who[r], late[r], mark[r])
    BY <1>1, AtCall DEF Fits, KindFits, Known, Found, KeptOut, Shown, Written
  <2> QED
    BY <1>1, <2>1, <2>2, ReaderGoesOn DEF Calls, Final
<1>4. CASE ~taken
  <2>1. PICK u \in UserIds \ issued :
           /\ users' = [users EXCEPT ![u] = row]
           /\ issued' = issued \cup {u}
           /\ who' = [who EXCEPT ![r] = u]
           /\ Goto(r, "create_deck")
    BY <1>4 DEF CreateUser
  <2>2. Moves(r, "create_deck", u, mark[r]) /\ sessions' = sessions /\ seeded' = seeded
    BY <2>1 DEF CreateUser, Goto, Moves, IInv, TypeOK
  <2>3. row \in User /\ row # None /\ row.admin = (q.kind = "bootstrap") /\ row.disabled = FALSE
          /\ row.name = q.name
    <3>1. ASSUME NEW n \in Names, NEW p \in Passwords, NEW b \in BOOLEAN
          PROVE  [name |-> n, password |-> p, admin |-> b, disabled |-> FALSE, version |-> 0] \in User
      BY DEF User
    <3>2. row \in User
      BY <1>2, <3>1
    <3> QED
      BY <3>2, NoneIsNoRow
  <2>4. users' \in [UserIds -> User \cup {None}] /\ users'[u] = row
          /\ \A v \in UserIds : v # u => users'[v] = users[v]
    BY <2>1, <2>3 DEF IInv, TypeOK
  <2> HIDE DEF row
  <2>5. TablesTyped'
    BY <2>1, <2>2, <2>4 DEF IInv, TypeOK, TablesTyped
  <2>6. Evolves
    BY <2>1, <2>2, <2>4 DEF Evolves, IInv, TypeOK, User
  <2>7. Fits(req[r], "create_deck", u, late[r], mark[r])'
    <3>1. /\ UNCHANGED <<sessions, req, late, mark>>
          /\ issued' = issued \cup {u} /\ late[r] \subseteq issued
      <4>1. UNCHANGED <<sessions, req, late, mark>>
        BY DEF CreateUser
      <4> QED
        BY <1>1, <2>1, <4>1, AtCall DEF Fits, KeptOut
    <3>2. Known(req[r])' /\ KindFits(req[r], "create_deck")'
      BY <1>1, <1>2, <3>1, AtCall DEF Fits, Known, KindFits
    <3>3. Found(req[r], "create_deck", u)'
      BY <2>1, <3>1, AccountsAssumption DEF Found
    <3>4. KeptOut(req[r], "create_deck", u, late[r])'
      BY <1>1, <1>2, <2>4, <2>1, <3>1, AtCall DEF Fits, KeptOut
    <3>5. Shown(req[r], "create_deck", u)' /\ Written(req[r], "create_deck", u, mark[r])'
      BY <1>2, <3>1 DEF Shown, Written
    <3> QED
      BY <3>2, <3>3, <3>4, <3>5 DEF Fits
  <2>8. AdminInv'
    <3>1. CASE issued \cap UserIds = {}
      <4>1. q.kind = "bootstrap" /\ \A v \in UserIds : users[v] = None
        BY <1>2, <3>1 DEF IInv, IdsInv
      <4>2. \A v \in UserIds : users'[v] # None => (users'[v].admin = (v = u))
        BY <2>3, <2>4, <4>1
      <4>3. Active(u)' /\ users'[u].name = BootstrapName
        BY <1>2, <2>3, <2>4, <4>1 DEF Active
      <4> QED
        BY <2>1, <4>2, <4>3 DEF AdminInv
    <3>2. CASE issued \cap UserIds # {}
      <4>1. PICK a \in UserIds :
              /\ Active(a) /\ users[a].name = BootstrapName
              /\ \A v \in UserIds : users[v] # None => (users[v].admin = (v = a))
        BY <3>2 DEF IInv, AdminInv
      <4>2. a # u /\ users'[a] = users[a] /\ q.kind = "create"
        BY <1>2, <1>4, <2>1, <2>4, <4>1 DEF IInv, IdsInv, Active
      <4>3. \A v \in UserIds : users'[v] # None => (users'[v].admin = (v = a))
        BY <2>3, <2>4, <4>1, <4>2
      <4> QED
        BY <4>1, <4>2, <4>3 DEF AdminInv, Active
    <3> QED
      BY <3>1, <3>2
  <2>9. DefaultSeeded'
    <3> SUFFICES ASSUME NEW v \in UserIds, users'[v] # None, v \notin seeded
                 PROVE  \E x \in Requests : who'[x] = v /\ pc'[x] \in {"create_deck", "lost"}
      BY <2>2 DEF DefaultSeeded
    <3>1. CASE v = u
      BY <2>2, <3>1 DEF Moves, IInv, TypeOK
    <3>2. CASE v # u
      <4>1. PICK x \in Requests : who[x] = v /\ pc[x] \in {"create_deck", "lost"}
        BY <2>4, <3>2 DEF IInv, DefaultSeeded
      <4> QED
        BY <1>1, <2>2, <4>1 DEF Moves, IInv, TypeOK
    <3> QED
      BY <3>1, <3>2
  <2>10. TimesTyped'
    BY TimesStay DEF CreateUser
  <2>11. u \in UserIds \cup {None} /\ mark'[r] = mark[r]
    BY <2>2 DEF Moves, IInv, TypeOK
  <2> QED
    BY <1>1, <1>2, <2>2, <2>5, <2>6, <2>7, <2>8, <2>9, <2>10, <2>11, StepOfRequest DEF Calls
<1> QED
  BY <1>3, <1>4

LEMMA StepCreateDeck ==
    ASSUME IInv, NEW r \in Requests, CreateDeck(r)
    PROVE  IInv'
<1>1. pc[r] = "create_deck" /\ pc[r] \in Calls
  BY DEF CreateDeck, Calls
<1>2. who[r] \in UserIds /\ mark[r] \in Nat
  BY <1>1, AtCall DEF Fits, Found
<1>3. PICK call \in {"refused", "done"} : Goto(r, call)
  BY DEF CreateDeck
<1>4. UNCHANGED Tables /\ Moves(r, call, who[r], mark[r])
  BY <1>3 DEF CreateDeck, Goto, Moves, Tables, IInv, TypeOK
<1>5. seeded' \subseteq UserIds /\ seeded \subseteq seeded'
        /\ (users[who[r]] # None => who[r] \in seeded')
  BY <1>2 DEF CreateDeck, IInv, TypeOK
<1>6. TablesTyped' /\ Evolves
  BY <1>4, <1>5 DEF Tables, TablesTyped, Evolves, IInv, TypeOK, User
<1>7. Fits(req[r], call, who[r], late[r], mark[r])'
  <2>1. Fits(req[r], call, who[r], late[r], mark[r])
    BY <1>1, AtCall DEF Fits, KindFits, Known, Found, KeptOut, Shown, Written, WriteKinds
  <2> QED
    BY <1>4, <2>1, FitsUnchanged DEF Moves, IInv, TypeOK
<1>8. AdminInv'
  BY <1>4 DEF Tables, IInv, AdminInv, Active
<1>9. DefaultSeeded'
  <2> SUFFICES ASSUME NEW v \in UserIds, users'[v] # None, v \notin seeded'
               PROVE  \E x \in Requests : who'[x] = v /\ pc'[x] \in {"create_deck", "lost"}
    BY DEF DefaultSeeded
  <2>1. v # who[r] /\ users[v] # None /\ v \notin seeded
    BY <1>4, <1>5 DEF Tables
  <2>2. PICK x \in Requests : who[x] = v /\ pc[x] \in {"create_deck", "lost"}
    BY <2>1 DEF IInv, DefaultSeeded
  <2> QED
    BY <1>4, <2>1, <2>2 DEF Moves, IInv, TypeOK
<1>10. TimesTyped'
  BY TimesStay DEF CreateDeck
<1> QED
  BY <1>1, <1>2, <1>4, <1>6, <1>7, <1>8, <1>9, <1>10, StepOfRequest DEF Final, Moves, IInv, TypeOK

(* A write of the password, or of the disabled flag of somebody who is no  *)
(* admin.                                                                  *)
LEMMA StepOfWrite ==
    ASSUME IInv, NEW r \in Requests, NEW row, Write(r, row),
           pc[r] \in {"set_password", "set_disabled"},
           users[who[r]] # None =>
              /\ row \in User
              /\ row.name = users[who[r]].name /\ row.admin = users[who[r]].admin
              /\ row.disabled \/ (row.disabled = users[who[r]].disabled)
              /\ pc[r] = "set_password" => (row.disabled = users[who[r]].disabled)
              /\ row.version = users[who[r]].version + 1
    PROVE  IInv'
<1>1. pc[r] \in Calls
  BY DEF Calls
<1>2. /\ req[r] \in Request /\ req[r].kind \in WriteKinds
      /\ req[r].kind = "change" => pc[r] = "set_password"
      /\ who[r] = req[r].target /\ who[r] \in UserIds /\ who[r] \in issued
  BY <1>1, AtCall, RequestFields
  DEF Fits, KindFits, Known, Found, WriteKinds, TargetKinds
<1>3. CASE users[who[r]] = None
  <2>1. Read(r, "refused") /\ who' = who
    BY <1>3 DEF Write, Read
  <2>2. Fits(req[r], "refused", who[r], late[r], mark[r])
    BY <1>1, AtCall DEF Fits, KindFits, Known, Found, KeptOut, Shown, Written
  <2> QED
    BY <1>1, <2>1, <2>2, ReaderGoesOn DEF Calls, Final
<1>4. CASE users[who[r]] # None
  <2> DEFINE u == who[r]
  <2>1. /\ users' = [users EXCEPT ![u] = row]
        /\ sessions' = sessions /\ issued' = issued /\ seeded' = seeded
        /\ Moves(r, "wipe", u, row.version)
    BY <1>4 DEF Write, Goto, Moves, IInv, TypeOK
  <2>2. /\ row \in User /\ row # None /\ row.version \in Nat /\ users[u].version \in Nat
        /\ row.version = users[u].version + 1
    BY <1>2, <1>4, NoneIsNoRow DEF User, IInv, TypeOK
  <2>3. users'[u] = row /\ \A v \in UserIds : v # u => users'[v] = users[v]
    BY <1>2, <2>1 DEF IInv, TypeOK
  <2>4. TablesTyped'
    BY <2>1, <2>2 DEF IInv, TypeOK, TablesTyped
  <2>5. Evolves
    BY <1>2, <1>4, <2>1, <2>2, <2>3 DEF Evolves, IInv, TypeOK, User
  <2>6. Fits(req[r], "wipe", u, late[r], row.version)'
    <3>1. UNCHANGED <<sessions, issued, req, late, who>>
      BY DEF Write
    <3>2. Known(req[r])' /\ KindFits(req[r], "wipe")' /\ Found(req[r], "wipe", u)'
      BY <1>1, <1>2, <3>1, AtCall, AccountsAssumption DEF Fits, Known, KindFits, Found
    <3>3. KeptOut(req[r], "wipe", u, late[r])'
      BY <1>1, <1>2, <1>4, <2>3, <3>1, AtCall DEF Fits, KeptOut, WriteKinds
    <3>4. Shown(req[r], "wipe", u)'
      BY <1>2, <3>1 DEF Shown, WriteKinds
    <3>5. users'[u] = None \/ users'[u].version >= row.version
      BY <2>2, <2>3
    <3>6. Written(req[r], "wipe", u, row.version)'
      BY <1>2, <2>1, <3>1, <3>5, AccountsAssumption DEF Written
    <3> QED
      BY <3>2, <3>3, <3>4, <3>6 DEF Fits
  <2>7. AdminInv'
    <3>1. PICK a \in UserIds :
            /\ Active(a) /\ users[a].name = BootstrapName
            /\ \A v \in UserIds : users[v] # None => (users[v].admin = (v = a))
      BY <1>2 DEF IInv, AdminInv
    <3>2. \A v \in UserIds : users'[v] # None => (users'[v].admin = (v = a))
      BY <1>2, <1>4, <2>3, <3>1
    <3>3. users'[a] # None /\ ~users'[a].disabled /\ users'[a].name = BootstrapName
      <4>1. CASE a = u
        <5>1. pc[r] = "set_password"
          BY <1>1, <1>4, <3>1, <4>1, AtCall DEF Fits, Found
        <5> QED
          BY <1>4, <2>2, <2>3, <3>1, <4>1, <5>1 DEF Active
      <4>2. CASE a # u
        BY <2>3, <3>1, <4>2 DEF Active
      <4> QED
        BY <4>1, <4>2
    <3> QED
      BY <3>2, <3>3 DEF AdminInv, Active
  <2>8. DefaultSeeded'
    BY <1>4, <2>1, <2>3, SeededStays
  <2>9. TimesTyped'
    BY TimesStay DEF Write
  <2>10. who[r] \in UserIds \cup {None} /\ who'[r] = who[r] /\ "wipe" \in Calls
    BY <1>2 DEF Calls, Write
  <2> QED
    BY <1>1, <2>1, <2>2, <2>4, <2>5, <2>6, <2>7, <2>8, <2>9, <2>10, StepOfRequest
<1> QED
  BY <1>3, <1>4

LEMMA RowWritten ==
    ASSUME NEW row \in User, NEW p \in Passwords, NEW v \in Nat, NEW new,
           \/ new = [row EXCEPT !.password = p, !.version = v]
           \/ new = [row EXCEPT !.disabled = TRUE, !.version = v]
    PROVE  /\ new \in User
           /\ new.name = row.name /\ new.admin = row.admin /\ new.version = v
<1>1. CASE new = [row EXCEPT !.password = p, !.version = v]
  BY <1>1 DEF User
<1>2. CASE new = [row EXCEPT !.disabled = TRUE, !.version = v]
  BY <1>2 DEF User
<1> QED
  BY <1>1, <1>2

LEMMA PasswordWritten ==
    ASSUME NEW row \in User, NEW p \in Passwords, NEW new,
           new = [row EXCEPT !.password = p, !.version = @ + 1]
    PROVE  /\ new \in User
           /\ new.name = row.name /\ new.admin = row.admin
           /\ new.disabled = row.disabled /\ new.version = row.version + 1
<1>1. row.version + 1 \in Nat
  BY DEF User
<1>2. new.disabled = row.disabled
  BY DEF User
<1> QED
  BY <1>1, <1>2, RowWritten DEF User

LEMMA FlagWritten ==
    ASSUME NEW row \in User, NEW new,
           new = [row EXCEPT !.disabled = TRUE, !.version = @ + 1]
    PROVE  /\ new \in User
           /\ new.name = row.name /\ new.admin = row.admin
           /\ new.disabled /\ new.version = row.version + 1
<1>1. row.version + 1 \in Nat
  BY DEF User
<1>2. new.disabled
  BY DEF User
<1>3. row.password \in Passwords
  BY DEF User
<1> QED
  BY <1>1, <1>2, <1>3, RowWritten DEF User

LEMMA StepSetPassword ==
    ASSUME IInv, NEW r \in Requests, SetPassword(r)
    PROVE  IInv'
<1>1. pc[r] = "set_password" /\ pc[r] \in Calls
  BY DEF SetPassword, Calls
<1>2. who[r] \in UserIds /\ req[r].new \in Passwords
  BY <1>1, AtCall, RequestFields DEF Fits, KindFits, Found, TargetKinds
<1> DEFINE row == [users[who[r]] EXCEPT !.password = req[r].new, !.version = @ + 1]
<1>3. users[who[r]] # None =>
        /\ row \in User
        /\ row.name = users[who[r]].name /\ row.admin = users[who[r]].admin
        /\ row.disabled = users[who[r]].disabled
        /\ row.version = users[who[r]].version + 1
  <2>1. users[who[r]] # None => users[who[r]] \in User
    BY <1>2 DEF IInv, TypeOK
  <2> QED
    BY <1>2, <2>1, PasswordWritten
<1> QED
  BY <1>1, <1>3, StepOfWrite DEF SetPassword

LEMMA StepSetDisabled ==
    ASSUME IInv, NEW r \in Requests, SetDisabled(r)
    PROVE  IInv'
<1>1. pc[r] = "set_disabled" /\ pc[r] \in Calls
  BY DEF SetDisabled, Calls
<1>2. who[r] \in UserIds
  BY <1>1, AtCall, RequestFields DEF Fits, KindFits, Found, TargetKinds
<1> DEFINE row == [users[who[r]] EXCEPT !.disabled = TRUE, !.version = @ + 1]
<1>3. users[who[r]] # None =>
        /\ row \in User
        /\ row.name = users[who[r]].name /\ row.admin = users[who[r]].admin
        /\ row.disabled
        /\ row.version = users[who[r]].version + 1
  <2>1. users[who[r]] # None => users[who[r]] \in User
    BY <1>2 DEF IInv, TypeOK
  <2> QED
    BY <1>2, <2>1, FlagWritten
<1> QED
  BY <1>1, <1>3, StepOfWrite DEF SetDisabled

LEMMA StepDeleteUser ==
    ASSUME IInv, NEW r \in Requests, DeleteUser(r)
    PROVE  IInv'
<1>1. pc[r] = "delete_user" /\ pc[r] \in Calls
  BY DEF DeleteUser, Calls
<1>2. /\ req[r] \in Request /\ req[r].kind = "delete" /\ mark[r] \in Nat
      /\ who[r] \in UserIds /\ who[r] \in issued
      /\ users[who[r]] = None \/ ~users[who[r]].admin
  BY <1>1, AtCall, RequestFields DEF Fits, KindFits, Known, Found, TargetKinds
<1>3. CASE users[who[r]] = None
  <2>1. Read(r, "refused") /\ who' = who
    BY <1>3 DEF DeleteUser, Read
  <2>2. Fits(req[r], "refused", who[r], late[r], mark[r])
    BY <1>1, AtCall DEF Fits, KindFits, Known, Found, KeptOut, Shown, Written
  <2> QED
    BY <1>1, <2>1, <2>2, ReaderGoesOn DEF Calls, Final
<1>4. CASE users[who[r]] # None
  <2> DEFINE u == who[r]
  <2>1. /\ users' = [users EXCEPT ![u] = None]
        /\ sessions' = [s \in SessionIds |-> IF s \in SessionsOf(u) THEN None ELSE sessions[s]]
        /\ issued' = issued /\ seeded' = seeded
        /\ Moves(r, "done", u, mark[r])
    BY <1>4 DEF DeleteUser, Drop, Goto, Moves, IInv, TypeOK
  <2>2. TablesTyped' /\ Evolves
    BY <1>2, <2>1 DEF TablesTyped, Evolves, IInv, TypeOK, User
  <2>3. Fits(req[r], "done", u, late[r], mark[r])'
    <3>1. Fits(req[r], "done", u, late[r], mark[r])
      BY <1>1, <1>2, AtCall DEF Fits, KindFits, Known, Found, KeptOut, Shown, Written, WriteKinds
    <3> QED
      BY <1>1, <1>2, <2>1, <2>2, <3>1, AtCall, FitsStable DEF Moves, IInv, TypeOK
  <2>4. AdminInv'
    <3>1. PICK a \in UserIds :
            /\ Active(a) /\ users[a].name = BootstrapName
            /\ \A v \in UserIds : users[v] # None => (users[v].admin = (v = a))
      BY <1>2 DEF IInv, AdminInv
    <3>2. a # u /\ users'[a] = users[a]
            /\ \A v \in UserIds : users'[v] # None => users'[v] = users[v] /\ users[v] # None
      BY <1>2, <1>4, <2>1, <3>1 DEF IInv, TypeOK, Active
    <3> QED
      BY <3>1, <3>2 DEF AdminInv, Active
  <2>5. DefaultSeeded'
    BY <1>1, <1>2, <2>1, SeededStays DEF IInv, TypeOK
  <2>6. TimesTyped'
    BY TimesStay DEF DeleteUser
  <2> QED
    BY <1>1, <1>2, <2>1, <2>2, <2>3, <2>4, <2>5, <2>6, StepOfRequest DEF Final, Moves, IInv, TypeOK
<1> QED
  BY <1>3, <1>4

-----------------------------------------------------------------------------
LEMMA StepArrive ==
    ASSUME IInv, NEW r \in Requests, Arrive(r)
    PROVE  IInv'
<1>1. PICK q \in Request :
        /\ q.kind \in {"resolve", "logout"} => q.session \in issued \cup {None}
        /\ q.kind \in {"logout_everywhere", "change", "disable", "delete", "reset"} =>
              q.target \in issued
        /\ q.kind \in {"create", "disable", "delete", "reset"} => q.actor \in issued
        /\ req' = [req EXCEPT ![r] = q]
        /\ who' = [who EXCEPT ![r] = IF q.kind = "logout_everywhere" THEN q.target ELSE None]
        /\ Goto(r, FirstCall(q))
  BY DEF Arrive
<1> DEFINE u == IF q.kind = "logout_everywhere" THEN q.target ELSE None
           l == {v \in UserIds : users[v] # None /\ users[v].disabled}
           call == FirstCall(q)
<1>2. /\ pc[r] = "idle" /\ UNCHANGED <<users, sessions, issued, seeded, mark>>
      /\ late' = [late EXCEPT ![r] = l]
      /\ clock' = clock /\ asked' \in [Requests -> Times]
  BY <1>1 DEF Arrive, IInv, TypeOK
<1>3. /\ q.kind = "logout_everywhere" => call = "wipe" /\ u \in UserIds /\ u = q.target
      /\ q.kind # "logout_everywhere" => u = None
      /\ q.kind \in {"bootstrap", "login"} => call = "list_users"
      /\ q.kind = "resolve" => call = IF q.session = None THEN "implicit" ELSE "get_session"
      /\ q.kind = "logout" => call = "delete_session" /\ q.session # None
      /\ q.kind = "change" => call = "get_target"
      /\ q.kind \in ActorKinds => call = "get_actor"
  BY RequestFields, AccountsAssumption DEF FirstCall, ActorKinds, TargetKinds
<1>4. q.kind \in {"bootstrap", "login", "resolve", "logout", "change", "logout_everywhere",
                  "create", "disable", "delete", "reset"}
  BY RequestFields DEF SessionKinds, TargetKinds
<1>5. /\ req'[r] = q /\ who'[r] = u /\ late'[r] = l /\ pc'[r] = call
      /\ \A x \in Requests : x # r =>
            /\ req'[x] = req[x] /\ pc'[x] = pc[x] /\ who'[x] = who[x] /\ late'[x] = late[x]
  BY <1>1, <1>2 DEF Goto, IInv, TypeOK
<1> HIDE DEF u, l, call
<1>6. call \in {"list_users", "implicit", "get_session", "delete_session", "get_target",
                "get_actor", "wipe"} /\ (call = "wipe" => u # None) /\ u \in UserIds \cup {None}
  BY <1>3, <1>4, AccountsAssumption DEF ActorKinds
<1>7. TypeOK'
  <2>1. /\ req' \in [Requests -> Request \cup {None}]
        /\ pc' \in [Requests -> Calls \cup Final \cup {"idle"}]
        /\ who' \in [Requests -> UserIds \cup {None}]
        /\ late' \in [Requests -> SUBSET UserIds]
    <3>1. call \in Calls /\ l \in SUBSET UserIds
      BY <1>6 DEF Calls, l
    <3> QED
      BY <1>1, <1>2, <1>6, <3>1 DEF IInv, TypeOK, Goto, u, call
  <2>2. ASSUME NEW x \in Requests
        PROVE  /\ (req'[x] = None) = (pc'[x] = "idle")
               /\ pc'[x] \in {"create_deck", "create_session", "get_owner", "touch", "wipe"} =>
                     who'[x] # None
    <3>1. CASE x = r
      BY <1>5, <1>6, <3>1, NoneIsNoRow
    <3>2. CASE x # r
      BY <1>5, <3>2 DEF IInv, TypeOK
    <3> QED
      BY <3>1, <3>2
  <2> QED
    BY <1>2, <2>1, <2>2 DEF IInv, TypeOK
<1>8. RequestsInv'
  <2> SUFFICES ASSUME NEW x \in Requests, req'[x] # None
               PROVE  Fits(req[x], pc[x], who[x], late[x], mark[x])'
    BY DEF RequestsInv
  <2>1. CASE x = r
    <3>1. Known(q) /\ KindFits(q, call)
      BY <1>1, <1>3, <1>4
      DEF Known, KindFits, SessionKinds, TargetKinds, ActorKinds, WriteKinds
    <3>2. Found(q, call, u)
      BY <1>1, <1>3, <1>6, AccountsAssumption DEF Found, TargetKinds
    <3>3. KeptOut(q, call, u, l)
      <4>1. \A v \in l : v \in issued /\ (users[v] = None \/ users[v].disabled)
        BY DEF l, IInv, IdsInv
      <4>2. call = "wipe" => q.kind # "change"
        BY <1>3
      <4> QED
        BY <1>6, <4>1, <4>2 DEF KeptOut
    <3>4. Shown(q, call, u) /\ Written(q, call, u, mark[r])
      BY <1>3, <1>4, <1>6 DEF Shown, Written, WriteKinds, ActorKinds
    <3>5. Fits(q, call, u, l, mark[r])
      BY <3>1, <3>2, <3>3, <3>4 DEF Fits
    <3>6. UNCHANGED Tables
      BY <1>2 DEF Tables
    <3>7. \A q0, c0, u0, l0, m0 : Fits(q0, c0, u0, l0, m0) => Fits(q0, c0, u0, l0, m0)'
      BY <3>6, FitsUnchanged
    <3> QED
      BY <1>2, <1>5, <2>1, <3>5, <3>7
  <2>2. CASE x # r
    <3>1. Fits(req[x], pc[x], who[x], late[x], mark[x])
      BY <1>5, <2>2 DEF IInv, RequestsInv
    <3>2. UNCHANGED Tables
      BY <1>2 DEF Tables
    <3>3. \A q0, c0, u0, l0, m0 : Fits(q0, c0, u0, l0, m0) => Fits(q0, c0, u0, l0, m0)'
      BY <3>2, FitsUnchanged
    <3> QED
      BY <1>2, <1>5, <2>2, <3>1, <3>3
  <2> QED
    BY <2>1, <2>2
<1>9. IdsInv' /\ OwnersInv' /\ AdminInv'
  BY <1>2 DEF IInv, IdsInv, OwnersInv, AdminInv, Active
<1>10. DefaultSeeded'
  <2> SUFFICES ASSUME NEW v \in UserIds, users[v] # None, v \notin seeded
               PROVE  \E x \in Requests : who'[x] = v /\ pc'[x] \in {"create_deck", "lost"}
    BY <1>2 DEF DefaultSeeded
  <2>1. PICK x \in Requests : who[x] = v /\ pc[x] \in {"create_deck", "lost"}
    BY DEF IInv, DefaultSeeded
  <2> QED
    BY <1>2, <1>5, <2>1
<1> QED
  BY <1>7, <1>8, <1>9, <1>10 DEF IInv

LEMMA StepTick ==
    ASSUME IInv, Tick
    PROVE  IInv'
<1>1. clock' \in Times /\ UNCHANGED <<users, sessions, issued, seeded, req, pc, who, late,
                                       mark, asked>>
  BY DEF Tick
<1> QED
  BY <1>1 DEF IInv, TypeOK, RequestsInv, Fits, Known, KindFits, Found, KeptOut, Shown,
     Written, IdsInv, OwnersInv, AdminInv, Active, DefaultSeeded

LEMMA InitInv == Init => IInv
<1> SUFFICES ASSUME Init PROVE IInv
  OBVIOUS
<1>1. PICK n \in 0..2, name \in [1..2 -> Names], password \in [1..2 -> Passwords],
           open \in SUBSET (SessionIds \X {2}) :
        /\ 1..n \subseteq UserIds
        /\ name[1] = BootstrapName /\ name[2] # BootstrapName
        /\ n < 2 => open = {}
        /\ Cardinality(open) <= 1
        /\ users = [u \in UserIds |->
              IF u \notin 1..n THEN None
              ELSE [name |-> name[u], password |-> password[u], admin |-> (u = 1),
                    disabled |-> FALSE, version |-> 0]]
        /\ sessions = [s \in SessionIds |->
              IF <<s, 2>> \in open THEN Opened(2, clock) ELSE None]
        /\ issued = 1..n \cup {s \in SessionIds : <<s, 2>> \in open}
        /\ seeded = 1..n
  BY DEF Init
<1>2. /\ req = [r \in Requests |-> None] /\ pc = [r \in Requests |-> "idle"]
      /\ who = [r \in Requests |-> None] /\ late = [r \in Requests |-> {}]
      /\ mark = [r \in Requests |-> 0]
      /\ clock \in Times /\ asked = [r \in Requests |-> clock]
  BY DEF Init
<1>3. ASSUME NEW u \in 1..n
      PROVE  /\ users[u] \in User /\ users[u] # None /\ users[u].name = name[u]
             /\ users[u].admin = (u = 1) /\ ~users[u].disabled
  <2>1. u \in 1..2 /\ u \in UserIds /\ name[u] \in Names /\ password[u] \in Passwords
    BY <1>1
  <2>2. users[u] = [name |-> name[u], password |-> password[u], admin |-> (u = 1),
                    disabled |-> FALSE, version |-> 0]
    BY <1>1, <2>1
  <2>3. ASSUME NEW b \in BOOLEAN
        PROVE  [name |-> name[u], password |-> password[u], admin |-> b,
                disabled |-> FALSE, version |-> 0] \in User
    BY <2>1 DEF User
  <2>4. users[u] \in User
    BY <2>2, <2>3
  <2>5. users[u].name = name[u] /\ ~users[u].disabled
    BY <2>2
  <2>6. users[u].admin = (u = 1)
    BY <2>2
  <2> QED
    BY <2>4, <2>5, <2>6, NoneIsNoRow
<1>4. \A u \in UserIds : u \notin 1..n => users[u] = None
  BY <1>1
<1>5. ASSUME NEW s \in SessionIds, sessions[s] # None
      PROVE  /\ sessions[s] \in Session /\ sessions[s].user = 2 /\ 2 \in 1..n /\ s \in issued
  <2>1. <<s, 2>> \in open /\ sessions[s] = Opened(2, clock)
    BY <1>1, <1>5
  <2>2. n = 2 /\ 2 \in UserIds /\ 2 \in 1..n
    BY <1>1, <2>1
  <2>3. users[2].version = 0
    BY <1>1, <2>2
  <2> QED
    BY <1>1, <1>2, <2>1, <2>2, <2>3 DEF Session, Opened
<1>6. TypeOK
  <2>1. users \in [UserIds -> User \cup {None}]
    BY <1>1, <1>3, <1>4
  <2>2. sessions \in [SessionIds -> Session \cup {None}]
    BY <1>1, <1>5
  <2>3. issued \subseteq UserIds \cup SessionIds /\ seeded \subseteq UserIds
    BY <1>1
  <2> QED
    BY <1>2, <2>1, <2>2, <2>3 DEF TypeOK
<1>7. RequestsInv
  BY <1>2 DEF RequestsInv
<1>8. IdsInv /\ OwnersInv /\ DefaultSeeded
  BY <1>1, <1>4, <1>5 DEF IdsInv, OwnersInv, DefaultSeeded
<1>9. AdminInv
  <2>1. CASE n = 0
    BY <1>1, <2>1 DEF AdminInv
  <2>2. CASE n # 0
    <3>1. 1 \in 1..n /\ 1 \in UserIds
      BY <1>1, <2>2
    <3> QED
      BY <1>1, <1>3, <1>4, <3>1 DEF AdminInv, Active
  <2> QED
    BY <2>1, <2>2
<1> QED
  BY <1>6, <1>7, <1>8, <1>9 DEF IInv

LEMMA NextInv == IInv /\ [Next]_vars => IInv'
<1> SUFFICES ASSUME IInv, [Next]_vars PROVE IInv'
  OBVIOUS
<1>1. ASSUME NEW r \in Requests, Arrive(r) PROVE IInv'
  BY <1>1, StepArrive
<1>2. ASSUME NEW r \in Requests, Serve(r) PROVE IInv'
  BY <1>2, StepListUsers, StepFind, StepCreateSession, StepGetSession, StepGetOwner,
     StepTouch, StepDeleteSession, StepWipe, StepImplicit, StepGetActor, StepGetTarget,
     StepCountAdmins, StepNameFree, StepCreateUser, StepCreateDeck, StepSetPassword,
     StepSetDisabled, StepDeleteUser
  DEF Serve
<1>3. ASSUME NEW r \in Requests, Lose(r) PROVE IInv'
  BY <1>3, StepLose
<1>4. CASE Tick
  BY <1>4, StepTick
<1>5. CASE UNCHANGED vars
  BY <1>5 DEF vars, times, IInv, TypeOK, RequestsInv, Fits, Known, KindFits, Found, KeptOut, Shown,
     Written, IdsInv, OwnersInv, AdminInv, Active, DefaultSeeded
<1> QED
  BY <1>1, <1>2, <1>3, <1>4, <1>5 DEF Next

(* The invariant holds in every state, for any number of requests. *)
LEMMA Inductive == Spec => []IInv
BY InitInv, NextInv, PTL DEF Spec

-----------------------------------------------------------------------------
(* The tables and requests of Accounts keep their types (users.rs).        *)
THEOREM TypeCorrect == Spec => []TypeOK
<1>1. IInv => TypeOK
  BY DEF IInv
<1> QED
  BY <1>1, Inductive, PTL

(* Every User has a Default Deck, is about to get it, or was being created *)
(* by a lost request (user_use_cases.rs, bootstrap_admin and create_user). *)
THEOREM DecksAreSeeded == Spec => []DefaultSeeded
<1>1. IInv => DefaultSeeded
  BY DEF IInv
<1> QED
  BY <1>1, Inductive, PTL

(* The bootstrap admin is the only one and stays active, although          *)
(* reject_last_admin counts in a statement of its own.                     *)
THEOREM AdminStays == Spec => []AdminReigns
<1>1. IInv => AdminReigns
  BY DEF IInv, AdminInv, AdminReigns
<1> QED
  BY <1>1, Inductive, PTL

(* Nobody who was disabled before a request arrived is let in by           *)
(* authenticate, resolve_session, implicit_or_gate or change_password.     *)
THEOREM DisabledIsOut == Spec => []DisabledStaysOut
<1>1. IInv => DisabledStaysOut
  <2> SUFFICES ASSUME IInv, NEW r \in Requests, pc[r] = "done",
                      req[r].kind \in {"login", "resolve", "change"}
               PROVE  who[r] \notin late[r]
    BY DEF DisabledStaysOut
  <2>1. req[r] # None
    BY DEF IInv, TypeOK
  <2> QED
    BY <2>1 DEF IInv, RequestsInv, Fits, KeptOut
<1> QED
  BY <1>1, Inductive, PTL

(* After a password change, a reset or a disable no Session is left that   *)
(* was opened before its write.                                            *)
THEOREM WipesAreComplete == Spec => []OldSessionsGone
<1>1. IInv => OldSessionsGone
  <2> SUFFICES ASSUME IInv, NEW r \in Requests, NEW s \in SessionIds,
                      pc[r] = "done", req[r].kind \in {"change", "reset", "disable"},
                      sessions[s] # None, sessions[s].user = who[r]
               PROVE  sessions[s].version >= mark[r]
    BY DEF OldSessionsGone
  <2>1. req[r] # None
    BY DEF IInv, TypeOK
  <2> QED
    BY <2>1 DEF IInv, RequestsInv, Fits, Written, WriteKinds
<1> QED
  BY <1>1, Inductive, PTL

(* require_auth answers a request as the owner of the Session it shows for *)
(* as long as that Session is in the table.                                *)
THEOREM OwnersAreAnswered == Spec => []AnsweredAsOwner
<1>1. IInv => AnsweredAsOwner
  <2> SUFFICES ASSUME IInv, NEW r \in Requests, pc[r] = "done", req[r].kind = "resolve",
                      req[r].session # None, sessions[req[r].session] # None
               PROVE  who[r] = sessions[req[r].session].user
    BY DEF AnsweredAsOwner
  <2>1. req[r] # None
    BY DEF IInv, TypeOK
  <2> QED
    BY <2>1 DEF IInv, RequestsInv, Fits, Shown
<1> QED
  BY <1>1, Inductive, PTL

-----------------------------------------------------------------------------
(* Idle Sessions.  A Session covers an instant when it was never unused    *)
(* for longer than the limit between its creation and then.                *)
Covers(session, now) ==
    \A t \in (session.created_at + 1)..now :
        \E u \in session.uses : u < t /\ t - u <= Idle

CoversItsUses(session) ==
    /\ session.last_used_at \in session.uses
    /\ \A u \in session.uses : Covers(session, u)

(* A request that has found its Session live may use it, however late.     *)
IdleInv ==
    /\ \A s \in SessionIds : sessions[s] # None => CoversItsUses(sessions[s])
    /\ \A r \in Requests :
          (pc[r] \in {"get_owner", "touch"} /\ sessions[req[r].session] # None) =>
              Covers(sessions[req[r].session], asked[r])

LEMMA OpenedCovers ==
    ASSUME NEW u, NEW now \in Times
    PROVE  CoversItsUses(Opened(u, now))
BY AccountsAssumption DEF CoversItsUses, Covers, Opened

LEMMA LiveCovers ==
    ASSUME NEW session \in Session, CoversItsUses(session), NEW now \in Times,
           ~IsIdleExpired(session, now)
    PROVE  Covers(session, now)
<1>1. /\ session.last_used_at \in Nat /\ session.created_at \in Nat /\ now \in Nat
      /\ Idle \in Nat
  BY AccountsAssumption DEF Session
<1>2. now - session.last_used_at <= Idle
  BY <1>1 DEF IsIdleExpired
<1> SUFFICES ASSUME NEW t \in (session.created_at + 1)..now
             PROVE  \E u \in session.uses : u < t /\ t - u <= Idle
  BY DEF Covers
<1>3. CASE t <= session.last_used_at
  <2>1. t \in (session.created_at + 1)..session.last_used_at
    BY <1>1, <1>3
  <2> QED
    BY <2>1 DEF CoversItsUses, Covers
<1>4. CASE session.last_used_at < t
  <2>1. t - session.last_used_at <= Idle
    BY <1>1, <1>2
  <2> QED
    BY <1>4, <2>1 DEF CoversItsUses
<1> QED
  BY <1>1, <1>3, <1>4

LEMMA UsedCovers ==
    ASSUME NEW session \in Session, CoversItsUses(session),
           NEW now \in Times, Covers(session, now)
    PROVE  /\ CoversItsUses(Used(session, now))
           /\ \A t \in Times : Covers(session, t) => Covers(Used(session, now), t)
<1> DEFINE used == Used(session, now)
<1>1. /\ used.created_at = session.created_at /\ used.last_used_at = now
      /\ used.uses = session.uses \cup {now}
  BY UsedIs
<1>2. session.uses \subseteq Times
  BY DEF Session
<1> HIDE DEF used
<1>3. \A t \in Times : Covers(session, t) => Covers(used, t)
  BY <1>1 DEF Covers
<1>4. CoversItsUses(used)
  BY <1>1, <1>2, <1>3 DEF CoversItsUses
<1> QED
  BY <1>3, <1>4 DEF used

(* The Session that a request has found. *)
LEMMA AtSession ==
    ASSUME IInv, NEW r \in Requests, pc[r] \in {"get_session", "get_owner", "touch"}
    PROVE  /\ req[r].session \in SessionIds /\ req[r].session \in issued
           /\ asked[r] \in Times
<1>1. pc[r] \in Calls
  BY DEF Calls
<1> QED
  BY <1>1, AtCall, RequestFields DEF Fits, KindFits, Known, SessionKinds, IInv, TypeOK

(* What a step makes of the rows of the Sessions, as far as their idle     *)
(* time goes: request r uses the Session it has found, new Sessions get    *)
(* ids that no request knows, and otherwise rows only go.                  *)
RowsAge(r) ==
    \A s \in SessionIds :
        \/ sessions'[s] = None
        \/ sessions'[s] = sessions[s]
        \/ /\ s \notin issued
           /\ \E u \in UserIds, now \in Times : sessions'[s] = Opened(u, now)
        \/ /\ pc[r] = "touch" /\ req[r].session = s /\ sessions[s] # None
           /\ sessions'[s] = Used(sessions[s], asked[r])

LEMMA IdleStays ==
    ASSUME IInv, IdleInv, NEW r \in Requests, RowsAge(r),
           \A x \in Requests : pc'[x] \in {"get_owner", "touch"} =>
              /\ req'[x] = req[x] /\ asked'[x] = asked[x]
              /\ \/ pc[x] \in {"get_owner", "touch"}
                 \/ /\ pc[x] = "get_session" /\ sessions' = sessions
                    /\ sessions[req[x].session] # None =>
                          ~IsIdleExpired(sessions[req[x].session], asked[x])
    PROVE  IdleInv'
<1>1. ASSUME NEW s \in SessionIds, sessions'[s] # None
      PROVE  CoversItsUses(sessions'[s])
  <2>1. CASE sessions'[s] = sessions[s]
    BY <1>1, <2>1 DEF IdleInv
  <2>2. ASSUME NEW u, NEW now \in Times, sessions'[s] = Opened(u, now)
        PROVE  CoversItsUses(sessions'[s])
    BY <2>2, OpenedCovers
  <2>3. CASE /\ pc[r] = "touch" /\ req[r].session = s /\ sessions[s] # None
             /\ sessions'[s] = Used(sessions[s], asked[r])
    <3>1. sessions[s] \in Session /\ asked[r] \in Times
      BY <2>3 DEF IInv, TypeOK
    <3>2. CoversItsUses(sessions[s]) /\ Covers(sessions[s], asked[r])
      BY <2>3 DEF IdleInv
    <3> QED
      BY <2>3, <3>1, <3>2, UsedCovers
  <2> QED
    BY <1>1, <2>1, <2>2, <2>3 DEF RowsAge
<1>2. ASSUME NEW x \in Requests, pc'[x] \in {"get_owner", "touch"},
             NEW s, s = req'[x].session, sessions'[s] # None
      PROVE  Covers(sessions'[s], asked'[x])
  <2>1. /\ s = req[x].session /\ asked'[x] = asked[x]
        /\ s \in SessionIds /\ s \in issued /\ asked[x] \in Times
    BY <1>2, AtSession
  <2>2. CASE sessions'[s] = sessions[s]
    <3>1. CASE pc[x] \in {"get_owner", "touch"}
      BY <1>2, <2>1, <2>2, <3>1 DEF IdleInv
    <3>2. CASE ~IsIdleExpired(sessions[s], asked[x])
      <4>1. sessions[s] \in Session /\ CoversItsUses(sessions[s])
        BY <1>2, <2>1, <2>2 DEF IInv, TypeOK, IdleInv
      <4> QED
        BY <2>1, <2>2, <3>2, <4>1, LiveCovers
    <3> QED
      BY <1>2, <2>1, <2>2, <3>1, <3>2
  <2>3. CASE /\ pc[r] = "touch" /\ req[r].session = s /\ sessions[s] # None
             /\ sessions'[s] = Used(sessions[s], asked[r]) /\ sessions'[s] # sessions[s]
    <3>1. sessions[s] \in Session /\ asked[r] \in Times
      BY <2>1, <2>3 DEF IInv, TypeOK
    <3>2. CoversItsUses(sessions[s]) /\ Covers(sessions[s], asked[r])
      BY <2>1, <2>3 DEF IdleInv
    <3>3. pc[x] \in {"get_owner", "touch"}
      BY <1>2, <2>1, <2>3
    <3>4. Covers(sessions[s], asked[x])
      BY <2>1, <2>3, <3>3 DEF IdleInv
    <3> QED
      BY <2>1, <2>3, <3>1, <3>2, <3>4, UsedCovers
  <2> QED
    BY <1>2, <2>1, <2>2, <2>3 DEF RowsAge
<1> QED
  BY <1>1, <1>2 DEF IdleInv

LEMMA NextIdleInv == IInv /\ IdleInv /\ [Next]_vars => IdleInv'
<1> SUFFICES ASSUME IInv, IdleInv, [Next]_vars PROVE IdleInv'
  OBVIOUS
<1> DEFINE Holds == {"get_owner", "touch"}
           Finds(x) == \/ pc[x] \in Holds
                       \/ /\ pc[x] = "get_session" /\ sessions' = sessions
                          /\ sessions[req[x].session] # None =>
                                ~IsIdleExpired(sessions[req[x].session], asked[x])
<1>1. ASSUME NEW r \in Requests, CreateSession(r) PROVE IdleInv'
  <2>1. RowsAge(r)
    BY <1>1 DEF CreateSession, RowsAge, IInv, TypeOK
  <2>2. \A x \in Requests : pc'[x] \in Holds =>
           req'[x] = req[x] /\ asked'[x] = asked[x] /\ pc[x] \in Holds
    BY <1>1 DEF CreateSession, Goto, IInv, TypeOK, times
  <2> QED
    BY <2>1, <2>2, IdleStays
<1>2. ASSUME NEW r \in Requests, Touch(r) PROVE IdleInv'
  <2>1. RowsAge(r)
    BY <1>2 DEF Touch, RowsAge, IInv, TypeOK
  <2>2. \A x \in Requests : pc'[x] \in Holds =>
           req'[x] = req[x] /\ asked'[x] = asked[x] /\ pc[x] \in Holds
    BY <1>2 DEF Touch, Goto, IInv, TypeOK, times
  <2> QED
    BY <2>1, <2>2, IdleStays
<1>3. ASSUME NEW r \in Requests, DeleteSession(r) \/ Wipe(r) \/ DeleteUser(r)
      PROVE  IdleInv'
  <2>1. RowsAge(r)
    BY <1>3 DEF DeleteSession, Wipe, DeleteUser, Drop, RowsAge, IInv, TypeOK
  <2>2. \A x \in Requests : pc'[x] \in Holds =>
           req'[x] = req[x] /\ asked'[x] = asked[x] /\ pc[x] \in Holds
    BY <1>3 DEF DeleteSession, Wipe, DeleteUser, Goto, IInv, TypeOK, times
  <2> QED
    BY <2>1, <2>2, IdleStays
<1>4. ASSUME NEW r \in Requests, GetSession(r) PROVE IdleInv'
  <2>1. RowsAge(r) /\ UNCHANGED <<sessions, req, asked>>
    BY <1>4 DEF GetSession, Read, RowsAge, times
  <2>2. ASSUME NEW x \in Requests, pc'[x] \in Holds PROVE Finds(x)
    <3>1. CASE x = r
      BY <1>4, <2>1, <2>2, <3>1 DEF GetSession, Read, Goto, IInv, TypeOK
    <3>2. CASE x # r
      BY <1>4, <2>2, <3>2 DEF GetSession, Read, Goto, IInv, TypeOK
    <3> QED
      BY <3>1, <3>2
  <2> QED
    BY <2>1, <2>2, IdleStays
<1>5. ASSUME NEW r \in Requests, Arrive(r) PROVE IdleInv'
  <2>1. RowsAge(r)
    BY <1>5 DEF Arrive, RowsAge
  <2>2. ASSUME NEW x \in Requests, pc'[x] \in Holds
        PROVE  req'[x] = req[x] /\ asked'[x] = asked[x] /\ pc[x] \in Holds
    <3>1. PICK q \in Request : /\ req' = [req EXCEPT ![r] = q] /\ Goto(r, FirstCall(q))
                               /\ asked' = IF q.kind = "resolve"
                                           THEN [asked EXCEPT ![r] = clock] ELSE asked
      BY <1>5 DEF Arrive
    <3>2. FirstCall(q) \notin Holds
      BY DEF FirstCall
    <3>3. x # r
      BY <2>2, <3>1, <3>2 DEF Goto, IInv, TypeOK
    <3> QED
      BY <2>2, <3>1, <3>3 DEF Goto, IInv, TypeOK
  <2> QED
    BY <2>1, <2>2, IdleStays
<1>6. ASSUME NEW r \in Requests, ListUsers(r) PROVE IdleInv'
  <2>1. RowsAge(r)
    BY <1>6 DEF ListUsers, RowsAge
  <2>2. ASSUME NEW x \in Requests, pc'[x] \in Holds
        PROVE  req'[x] = req[x] /\ asked'[x] = asked[x] /\ pc[x] \in Holds
    BY <1>6, <2>2 DEF ListUsers, Goto, IInv, TypeOK
  <2> QED
    BY <2>1, <2>2, IdleStays
<1>7. ASSUME NEW r \in Requests,
             \/ Lose(r) \/ Find(r) \/ GetOwner(r) \/ Implicit(r)
             \/ GetActor(r) \/ GetTarget(r) \/ CountAdmins(r) \/ NameFree(r)
             \/ CreateUser(r) \/ CreateDeck(r) \/ SetPassword(r) \/ SetDisabled(r)
      PROVE  IdleInv'
  <2>1. UNCHANGED <<sessions, req, asked>>
    BY <1>7 DEF Lose, Find, GetOwner, Implicit, GetActor, GetTarget, CountAdmins, NameFree,
       CreateUser, CreateDeck, SetPassword, SetDisabled, Write, Read, times
  <2>2. PICK call : Goto(r, call) /\ (call \in Holds => pc[r] \in Holds)
    BY <1>7 DEF Lose, Find, GetOwner, Implicit, GetActor, GetTarget, CountAdmins, NameFree,
       CreateUser, CreateDeck, SetPassword, SetDisabled, Write, Read
  <2>3. \A x \in Requests : pc'[x] \in Holds => pc[x] \in Holds
    BY <2>2 DEF Goto, IInv, TypeOK
  <2>4. RowsAge(r)
    BY <2>1 DEF RowsAge
  <2> QED
    BY <2>1, <2>3, <2>4, IdleStays
<1>8. CASE Tick \/ UNCHANGED vars
  <2>1. UNCHANGED <<sessions, req, asked, pc>>
    BY <1>8 DEF Tick, vars, times
  <2> QED
    BY <2>1 DEF IdleInv
<1> QED
  BY <1>1, <1>2, <1>3, <1>4, <1>5, <1>6, <1>7, <1>8 DEF Next, Serve

(* No Session is used after it went unused for the idle limit: what a      *)
(* request writes with touch_session it was allowed to when it arrived,    *)
(* and it writes that instant, not the one of the write.                   *)
THEOREM IdleSessionsDie == Spec => []NoIdleGap
<1>1. Init => IdleInv
  <2> SUFFICES ASSUME Init PROVE IdleInv
    OBVIOUS
  <2>1. \A s \in SessionIds : sessions[s] # None => sessions[s] = Opened(2, clock)
    BY DEF Init
  <2>2. clock \in Times /\ \A r \in Requests : pc[r] = "idle"
    BY DEF Init
  <2> QED
    BY <2>1, <2>2, OpenedCovers DEF IdleInv
<1>2. IdleInv => NoIdleGap
  BY DEF IdleInv, CoversItsUses, Covers, NoIdleGap
<1> QED
  BY <1>1, <1>2, NextIdleInv, Inductive, PTL DEF Spec
=============================================================================
