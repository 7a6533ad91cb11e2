------------------------------ MODULE Accounts ------------------------------
(***************************************************************************)
(* Users and Sessions: the use cases of crates/domain/user_use_cases.rs on *)
(* the tables `users` and `sessions` (db, users.rs), and the request gate  *)
(* of web/session.rs.                                                      *)
(*                                                                         *)
(* Each call of the Store is one autocommit statement and one step here;   *)
(* between two calls of a use case any other request may run, and a        *)
(* request may be lost after any of them.  A request's pc names the call   *)
(* it makes next; it ends as done, refused or lost.                        *)
(***************************************************************************)
EXTENDS Integers, FiniteSets

CONSTANTS
    None,
    UserIds,      \* row ids of `users`, given out in increasing order
    Names,        \* usernames, up to case
    BootstrapName,\* the one that seed_ci_admin creates
    Passwords,    \* a password stands for its hash, too
    SessionIds,   \* random ids, never drawn twice
    Requests,
    Times,        \* the instants that the wall clock shows
    Idle          \* SESSION_IDLE, 30 days in the code

ASSUME AccountsAssumption ==
    /\ UserIds \subseteq Nat
    /\ BootstrapName \in Names
    /\ UserIds \cap SessionIds = {}
    /\ None \notin UserIds \cup Names \cup Passwords \cup SessionIds
    /\ Times \subseteq Nat /\ Times # {}
    /\ Idle \in Nat

VARIABLES
    users,     \* users[u]: the row of User u, None when there is none
    sessions,  \* sessions[s]: the row of Session s
    issued,    \* the ids of Users and Sessions that were ever given out
    seeded,    \* the Users whose Default Deck was created
    req,       \* req[r]: what request r asks for
    pc,        \* pc[r]: its next call
    who,       \* who[r]: the User it has found or created
    late,      \* late[r]: the Users that were disabled when r arrived
    mark,      \* mark[r]: the version its write gave to the User
    clock,     \* the wall clock
    asked      \* asked[r]: the instant it took as `now`

times == <<clock, asked>>
vars == <<users, sessions, issued, seeded, req, pc, who, late, mark, times>>

(* `version` counts the writes of password and disabled flag; it is a      *)
(* history of the row and of no influence on the steps.                    *)
User == [name : Names, password : Passwords, admin : BOOLEAN,
         disabled : BOOLEAN, version : Nat]

(* `uses` collects the instants of the requests that used the Session; it  *)
(* and `version`, that of the User when it was opened, are histories.      *)
Session == [user : UserIds, created_at : Times, last_used_at : Times,
            uses : SUBSET Times, version : Nat]

(* resolve: a request to a protected route, with the Session of its cookie *)
(* or without one; who[r] is the User it is answered as.                   *)
Request ==
    [kind : {"bootstrap"}, name : {BootstrapName}, password : Passwords]
      \cup [kind : {"login"}, name : Names, password : Passwords]
      \cup [kind : {"resolve"}, session : SessionIds \cup {None}]
      \cup [kind : {"logout"}, session : SessionIds]
      \cup [kind : {"logout_everywhere"}, target : UserIds]
      \cup [kind : {"change"}, target : UserIds, password : Passwords, new : Passwords]
      \cup [kind : {"create"}, actor : UserIds, name : Names, password : Passwords]
      \cup [kind : {"disable", "delete"}, actor : UserIds, target : UserIds]
      \cup [kind : {"reset"}, actor : UserIds, target : UserIds, new : Passwords]

Final == {"done", "refused", "lost"}
Calls == {"list_users", "find", "get_session", "get_owner", "touch", "implicit",
          "get_actor", "get_target", "name_free", "count_admins",
          "create_user", "create_deck", "create_session",
          "set_password", "set_disabled", "delete_user",
          "delete_session", "wipe"}

ASSUME NoneIsNoRow == None \notin User \cup Session \cup Request

TypeOK ==
    /\ users \in [UserIds -> User \cup {None}]
    /\ sessions \in [SessionIds -> Session \cup {None}]
    /\ issued \subseteq UserIds \cup SessionIds
    /\ seeded \subseteq UserIds
    /\ req \in [Requests -> Request \cup {None}]
    /\ pc \in [Requests -> Calls \cup Final \cup {"idle"}]
    /\ who \in [Requests -> UserIds \cup {None}]
    /\ late \in [Requests -> SUBSET UserIds]
    /\ mark \in [Requests -> Nat]
    /\ clock \in Times
    /\ asked \in [Requests -> Times]
    /\ \A r \in Requests :
          /\ (req[r] = None) = (pc[r] = "idle")
          /\ pc[r] \in {"create_deck", "create_session", "get_owner", "touch", "wipe"} =>
                who[r] # None

-----------------------------------------------------------------------------
Goto(r, call) == pc' = [pc EXCEPT ![r] = call]

Read(r, call) ==
    /\ Goto(r, call)
    /\ UNCHANGED <<users, sessions, issued, seeded, req, late, mark, times>>

Active(u) == users[u] # None /\ ~users[u].disabled

SessionsOf(u) == {s \in SessionIds : sessions[s] # None /\ sessions[s].user = u}

(* The row that create_session inserts and the one touch_session leaves. *)
Opened(u, now) ==
    [user |-> u, created_at |-> now, last_used_at |-> now, uses |-> {now},
     version |-> users[u].version]

Used(session, now) ==
    [session EXCEPT !.last_used_at = now, !.uses = @ \cup {now}]

(* A DELETE of some Sessions. *)
Drop(gone) == sessions' = [s \in SessionIds |-> IF s \in gone THEN None ELSE sessions[s]]

(* The database as earlier requests left it: empty, or one bootstrap admin *)
(* and maybe a second User, who may have a Session.                        *)
Init ==
    /\ clock \in {t \in Times : \A u \in Times : t <= u}
    /\ \E n \in 0..2, name \in [1..2 -> Names], password \in [1..2 -> Passwords],
          open \in SUBSET (SessionIds \X {2}) :
          /\ 1..n \subseteq UserIds
          /\ name[1] = BootstrapName /\ name[2] # BootstrapName
          /\ n < 2 => open = {}
          /\ Cardinality(open) <= 1
          /\ users = [u \in UserIds |->
                IF u \notin 1..n THEN None
                ELSE [name |-> name[u], password |-> password[u], admin |-> (u = 1),
                      disabled |-> FALSE, version |-> 0]]
          /\ sessions = [s \in SessionIds |->
                IF <<s, 2>> \in open THEN Opened(2, clock) ELSE None]
          /\ issued = 1..n \cup {s \in SessionIds : <<s, 2>> \in open}
          /\ seeded = 1..n
    /\ req = [r \in Requests |-> None]
    /\ pc = [r \in Requests |-> "idle"]
    /\ who = [r \in Requests |-> None]
    /\ late = [r \in Requests |-> {}]
    /\ mark = [r \in Requests |-> 0]
    /\ asked = [r \in Requests |-> clock]

FirstCall(q) ==
    CASE q.kind \in {"bootstrap", "login"} -> "list_users"
      [] q.kind = "resolve" -> IF q.session = None THEN "implicit" ELSE "get_session"
      [] q.kind = "logout" -> "delete_session"
      [] q.kind = "logout_everywhere" -> "wipe"
      [] q.kind = "change" -> "get_target"
      [] OTHER -> "get_actor"

Arrive(r) ==
    /\ pc[r] = "idle"
    /\ \E q \in Request :
          /\ q.kind \in {"resolve", "logout"} => q.session \in issued \cup {None}
          /\ q.kind \in {"logout_everywhere", "change", "disable", "delete", "reset"} =>
                q.target \in issued
          /\ q.kind \in {"create", "disable", "delete", "reset"} => q.actor \in issued
          /\ req' = [req EXCEPT ![r] = q]
          /\ who' = [who EXCEPT ![r] = IF q.kind = "logout_everywhere" THEN q.target ELSE None]
          /\ asked' = IF q.kind = "resolve" THEN [asked EXCEPT ![r] = clock] ELSE asked
          /\ Goto(r, FirstCall(q))
    /\ late' = [late EXCEPT ![r] = {u \in UserIds : users[u] # None /\ users[u].disabled}]
    /\ UNCHANGED <<users, sessions, issued, seeded, mark, clock>>

-----------------------------------------------------------------------------
(* bootstrap_admin creates only the first User; POST /login sends a        *)
(* visitor of an empty database to /bootstrap and takes the time after the *)
(* look at the Users.                                                      *)
ListUsers(r) ==
    /\ pc[r] = "list_users"
    /\ LET empty == \A u \in UserIds : users[u] = None IN
          Goto(r, IF req[r].kind = "bootstrap"
                  THEN (IF empty THEN "create_user" ELSE "refused")
                  ELSE (IF empty THEN "refused" ELSE "find"))
    /\ asked' = [asked EXCEPT ![r] = clock]
    /\ UNCHANGED <<users, sessions, issued, seeded, req, who, late, mark, clock>>

(* Mutant: an unknown name is not an error. *)
Find_UnknownPasses(r) ==
    /\ pc[r] = "find"
    /\ \/ \E u \in UserIds :
             /\ Active(u)
             /\ users[u].name = req[r].name /\ users[u].password = req[r].password
             /\ who' = [who EXCEPT ![r] = u]
       \/ /\ \A u \in UserIds : users[u] # None => users[u].name # req[r].name
          /\ UNCHANGED who
    /\ Read(r, "create_session")

(* authenticate: get_user_by_username, the disabled flag and the hash. *)
Find(r) ==
    /\ pc[r] = "find"
    /\ \/ \E u \in UserIds :
             /\ Active(u)
             /\ users[u].name = req[r].name /\ users[u].password = req[r].password
             /\ who' = [who EXCEPT ![r] = u]
             /\ Read(r, "create_session")
       \/ /\ \A u \in UserIds : Active(u) =>
                users[u].name # req[r].name \/ users[u].password # req[r].password
          /\ Read(r, "refused")
          /\ UNCHANGED who

(* The foreign key refuses a Session of a User deleted in the meantime. *)
CreateSession(r) ==
    /\ pc[r] = "create_session"
    /\ IF users[who[r]] = None
       THEN Goto(r, "refused") /\ UNCHANGED <<sessions, issued>>
       ELSE \E s \in SessionIds \ issued :
               /\ sessions' = [sessions EXCEPT ![s] = Opened(who[r], asked[r])]
               /\ issued' = issued \cup {s}
               /\ Goto(r, "done")
    /\ UNCHANGED <<users, seeded, req, who, late, mark, times>>

-----------------------------------------------------------------------------
IsIdleExpired(session, now) == now - session.last_used_at > Idle

(* require_auth, the gate of every protected route: resolve_session, and   *)
(* implicit_or_gate when it finds no live Session.  Mutant: the expiry is  *)
(* not looked at.                                                          *)
GetSession_NeverExpires(r) ==
    /\ pc[r] = "get_session"
    /\ LET session == sessions[req[r].session] IN
          IF session = None
          THEN Read(r, "implicit") /\ UNCHANGED who
          ELSE who' = [who EXCEPT ![r] = session.user] /\ Read(r, "get_owner")

(* Mutant: an expired Session is passed over and left in the table. *)
GetSession_LeavesExpired(r) ==
    /\ pc[r] = "get_session"
    /\ LET session == sessions[req[r].session] IN
          IF session = None \/ IsIdleExpired(session, asked[r])
          THEN Read(r, "implicit") /\ UNCHANGED who
          ELSE who' = [who EXCEPT ![r] = session.user] /\ Read(r, "get_owner")

GetSession(r) ==
    /\ pc[r] = "get_session"
    /\ LET session == sessions[req[r].session] IN
          IF session = None
          THEN Read(r, "implicit") /\ UNCHANGED who
          ELSE /\ who' = [who EXCEPT ![r] = session.user]
               /\ Read(r, IF IsIdleExpired(session, asked[r])
                          THEN "delete_session" ELSE "get_owner")

(* Mutant: the disabled flag is not looked at. *)
GetOwner_IgnoresDisabled(r) ==
    /\ pc[r] = "get_owner"
    /\ Read(r, IF users[who[r]] = None THEN "delete_session" ELSE "touch")
    /\ UNCHANGED who

GetOwner(r) ==
    /\ pc[r] = "get_owner"
    /\ Read(r, CASE users[who[r]] = None -> "delete_session"
                 [] Active(who[r]) -> "touch"
                 [] OTHER -> "wipe")
    /\ UNCHANGED who

(* touch_session writes the instant the request arrived at, whatever was   *)
(* written or has expired since.  A Session that is gone by now is not an  *)
(* error: the request goes on with the one it had read.                    *)
Touch(r) ==
    /\ pc[r] = "touch"
    /\ sessions' = [sessions EXCEPT ![req[r].session] =
          IF @ = None THEN None ELSE Used(@, asked[r])]
    /\ Goto(r, "done")
    /\ UNCHANGED <<users, issued, seeded, req, who, late, mark, times>>

(* logout, and the Sessions resolve_session turns away. *)
DeleteSession(r) ==
    /\ pc[r] = "delete_session"
    /\ Drop({req[r].session})
    /\ Goto(r, IF req[r].kind = "logout" THEN "done" ELSE "implicit")
    /\ UNCHANGED <<users, issued, seeded, req, who, late, mark, times>>

(* delete_sessions_for_user: the last call of a password change, a reset,  *)
(* a disable and a logout everywhere, and of resolve_session for a         *)
(* disabled User.                                                          *)
Wipe(r) ==
    /\ pc[r] = "wipe"
    /\ Drop(SessionsOf(who[r]))
    /\ Goto(r, IF req[r].kind = "resolve" THEN "implicit" ELSE "done")
    /\ UNCHANGED <<users, issued, seeded, req, who, late, mark, times>>

(* implicit_or_gate: the first User who is not disabled, without a         *)
(* Session; the visitor of an empty database is sent to /bootstrap.        *)
Implicit(r) ==
    /\ pc[r] = "implicit"
    /\ \/ \E u \in UserIds :
             /\ Active(u) /\ \A v \in UserIds : Active(v) => u <= v
             /\ who' = [who EXCEPT ![r] = u]
             /\ Read(r, "done")
       \/ /\ \A u \in UserIds : ~Active(u)
          /\ Read(r, "refused")
          /\ UNCHANGED who

-----------------------------------------------------------------------------
(* require_admin, and for a reset reject_self. *)
GetActor(r) ==
    /\ pc[r] = "get_actor"
    /\ LET q == req[r] IN
          Read(r, IF ~Active(q.actor) \/ ~users[q.actor].admin
                       \/ (q.kind = "reset" /\ q.actor = q.target)
                  THEN "refused"
                  ELSE IF q.kind = "create" THEN "name_free" ELSE "get_target")
    /\ UNCHANGED who

(* A disable or a delete of an active admin asks whether it is the last    *)
(* one; any other target needs only not to be the actor.                   *)
GetTarget(r) ==
    /\ pc[r] = "get_target"
    /\ LET q == req[r]
           target == users[q.target]
           removes == q.kind \in {"disable", "delete"}
           write == CASE q.kind = "disable" -> "set_disabled"
                      [] q.kind = "delete" -> "delete_user"
                      [] OTHER -> "set_password"
           next == CASE target = None -> "refused"
                     [] ~removes /\ target.disabled -> "refused"
                     [] q.kind = "change" /\ target.password # q.password -> "refused"
                     [] removes /\ target.admin /\ ~target.disabled -> "count_admins"
                     [] removes /\ q.actor = q.target -> "refused"
                     [] OTHER -> write
       IN  Read(r, next)
    /\ who' = [who EXCEPT ![r] = req[r].target]

(* Mutant: the two guards are gone. *)
CountAdmins_Unguarded(r) ==
    /\ pc[r] = "count_admins"
    /\ Read(r, IF req[r].kind = "disable" THEN "set_disabled" ELSE "delete_user")
    /\ UNCHANGED who

(* reject_last_admin, then reject_self. *)
CountAdmins(r) ==
    /\ pc[r] = "count_admins"
    /\ LET active == {u \in UserIds : Active(u) /\ users[u].admin} IN
          Read(r, IF Cardinality(active) <= 1 \/ req[r].actor = req[r].target
                  THEN "refused"
                  ELSE IF req[r].kind = "disable" THEN "set_disabled" ELSE "delete_user")
    /\ UNCHANGED who

NameFree(r) ==
    /\ pc[r] = "name_free"
    /\ Read(r, IF \E u \in UserIds : users[u] # None /\ users[u].name = req[r].name
               THEN "refused" ELSE "create_user")
    /\ UNCHANGED who

(* Mutant: the username has no unique index. *)
CreateUser_NoIndex(r) ==
    /\ pc[r] = "create_user"
    /\ \E u \in UserIds \ issued :
          /\ \A v \in UserIds \ issued : u <= v
          /\ users' = [users EXCEPT ![u] =
                [name |-> req[r].name, password |-> req[r].password,
                 admin |-> (req[r].kind = "bootstrap"), disabled |-> FALSE, version |-> 0]]
          /\ issued' = issued \cup {u}
          /\ who' = [who EXCEPT ![r] = u]
          /\ Goto(r, "create_deck")
    /\ UNCHANGED <<sessions, seeded, req, late, mark, times>>

(* The unique index on the username, not the look-up before, decides who   *)
(* gets a name.                                                            *)
CreateUser(r) ==
    /\ pc[r] = "create_user"
    /\ IF \E u \in UserIds : users[u] # None /\ users[u].name = req[r].name
       THEN Goto(r, "refused") /\ UNCHANGED <<users, issued, who>>
       ELSE \E u \in UserIds \ issued :
               /\ \A v \in UserIds \ issued : u <= v
               /\ users' = [users EXCEPT ![u] =
                     [name |-> req[r].name, password |-> req[r].password,
                      admin |-> (req[r].kind = "bootstrap"), disabled |-> FALSE, version |-> 0]]
               /\ issued' = issued \cup {u}
               /\ who' = [who EXCEPT ![r] = u]
               /\ Goto(r, "create_deck")
    /\ UNCHANGED <<sessions, seeded, req, late, mark, times>>

(* Mutant: only the bootstrap admin gets a Default Deck. *)
CreateDeck_AdminOnly(r) ==
    /\ pc[r] = "create_deck"
    /\ seeded' = IF req[r].kind = "bootstrap" THEN seeded \cup {who[r]} ELSE seeded
    /\ Goto(r, "done")
    /\ UNCHANGED <<users, sessions, issued, req, who, late, mark, times>>

CreateDeck(r) ==
    /\ pc[r] = "create_deck"
    /\ IF users[who[r]] = None
       THEN Goto(r, "refused") /\ UNCHANGED seeded
       ELSE Goto(r, "done") /\ seeded' = seeded \cup {who[r]}
    /\ UNCHANGED <<users, sessions, issued, req, who, late, mark, times>>

(* UPDATE users ... RETURNING of one column. *)
Write(r, row) ==
    /\ IF users[who[r]] = None
       THEN Goto(r, "refused") /\ UNCHANGED <<users, mark>>
       ELSE /\ users' = [users EXCEPT ![who[r]] = row]
            /\ mark' = [mark EXCEPT ![r] = row.version]
            /\ Goto(r, "wipe")
    /\ UNCHANGED <<sessions, issued, seeded, req, who, late, times>>

(* Mutant: the Sessions are left alone. *)
SetPassword_NoWipe(r) ==
    /\ pc[r] = "set_password"
    /\ IF users[who[r]] = None
       THEN Goto(r, "refused") /\ UNCHANGED <<users, mark>>
       ELSE /\ users' = [users EXCEPT ![who[r]].password = req[r].new, ![who[r]].version = @ + 1]
            /\ mark' = [mark EXCEPT ![r] = users[who[r]].version + 1]
            /\ Goto(r, "done")
    /\ UNCHANGED <<sessions, issued, seeded, req, who, late, times>>

SetPassword(r) ==
    /\ pc[r] = "set_password"
    /\ Write(r, [users[who[r]] EXCEPT !.password = req[r].new, !.version = @ + 1])

SetDisabled(r) ==
    /\ pc[r] = "set_disabled"
    /\ Write(r, [users[who[r]] EXCEPT !.disabled = TRUE, !.version = @ + 1])

(* ON DELETE CASCADE takes the Sessions, too. *)
DeleteUser(r) ==
    /\ pc[r] = "delete_user"
    /\ IF users[who[r]] = None
       THEN Goto(r, "refused") /\ UNCHANGED <<users, sessions>>
       ELSE /\ users' = [users EXCEPT ![who[r]] = None]
            /\ Drop(SessionsOf(who[r]))
            /\ Goto(r, "done")
    /\ UNCHANGED <<issued, seeded, req, who, late, mark, times>>

-----------------------------------------------------------------------------
(* A timeout, a dropped connection or a crash between two calls. *)
Lose(r) ==
    /\ pc[r] \in Calls
    /\ Goto(r, "lost")
    /\ UNCHANGED <<users, sessions, issued, seeded, req, who, late, mark, times>>

Tick ==
    /\ \E t \in Times : t > clock /\ clock' = t
    /\ UNCHANGED <<users, sessions, issued, seeded, req, pc, who, late, mark, asked>>

Serve(r) ==
    \/ ListUsers(r) \/ Find(r) \/ CreateSession(r)
    \/ GetSession(r) \/ GetOwner(r) \/ Touch(r) \/ DeleteSession(r) \/ Wipe(r)
    \/ Implicit(r)
    \/ GetActor(r) \/ GetTarget(r) \/ CountAdmins(r) \/ NameFree(r)
    \/ CreateUser(r) \/ CreateDeck(r) \/ SetPassword(r) \/ SetDisabled(r) \/ DeleteUser(r)

Next ==
    \/ \E r \in Requests : Arrive(r) \/ Serve(r) \/ Lose(r)
    \/ Tick

Spec == Init /\ [][Next]_vars

-----------------------------------------------------------------------------
(* A request is answered as somebody else than the owner of the Session it *)
(* shows only after that Session has been deleted, and never while it is   *)
(* in the table: the fallback to an implicit User cannot take over a       *)
(* request whose Session another request keeps alive.  Once it is gone the *)
(* fallback does take over, see ImplicitOnlyWithoutCookie.                 *)
AnsweredAsOwner ==
    \A r \in Requests :
        (/\ pc[r] = "done" /\ req[r].kind = "resolve" /\ req[r].session # None
         /\ sessions[req[r].session] # None) =>
              who[r] = sessions[req[r].session].user

(* A request that arrives after a User was disabled is never answered as   *)
(* that User's, although a login that overlapped the disable may have left *)
(* a Session behind.                                                       *)
DisabledStaysOut ==
    \A r \in Requests :
        (pc[r] = "done" /\ req[r].kind \in {"login", "resolve", "change"}) =>
            who[r] \notin late[r]

(* When a password change, a reset or a disable has been answered, no      *)
(* Session is left that was opened before its write.                       *)
OldSessionsGone ==
    \A r \in Requests, s \in SessionIds :
        (/\ pc[r] = "done" /\ req[r].kind \in {"change", "reset", "disable"}
         /\ sessions[s] # None /\ sessions[s].user = who[r]) =>
              sessions[s].version >= mark[r]

(* Every User has been given a Default Deck, is about to get it, or was    *)
(* being created by a request that was lost.                               *)
DefaultSeeded ==
    \A u \in UserIds :
        (users[u] # None /\ u \notin seeded) =>
            \E r \in Requests : who[r] = u /\ pc[r] \in {"create_deck", "lost"}

(* From the bootstrap on there is exactly one admin, and no request        *)
(* disables or deletes it, however bootstraps and admins' requests overlap.*)
AdminReigns ==
    \/ issued \cap UserIds = {}
    \/ \E u \in UserIds :
          Active(u) /\ \A v \in UserIds : users[v] # None => (users[v].admin = (v = u))

(* A Session dies of disuse: up to its latest use there was no instant at  *)
(* which it had been unused for longer than the idle limit.  A request     *)
(* that came in time may still write its use when another one has found    *)
(* the Session expired; one that came too late revives nothing.            *)
NoIdleGap ==
    \A s \in SessionIds : sessions[s] # None =>
        LET session == sessions[s] IN
        \A last \in session.uses : \A t \in (session.created_at + 1)..last :
            \E u \in session.uses : u < t /\ t - u <= Idle

-----------------------------------------------------------------------------
(* What domain/user.rs says without the condition above: every User is     *)
(* created with a Default Deck.                                            *)
SeededWhenCreated ==
    (\A r \in Requests : pc[r] \in Final \cup {"idle"}) =>
        \A u \in UserIds : users[u] # None => u \in seeded

(* What web/session.rs says of the fallback: a request is answered as the  *)
(* implicit User only if it carries no Session cookie.                     *)
ImplicitOnlyWithoutCookie ==
    [][\A r \in Requests :
          (pc[r] = "implicit" /\ pc'[r] = "done") => req[r].session = None]_vars
=============================================================================
