------------------------------- MODULE Accounts -------------------------------
(***************************************************************************)
(* Users, sessions and first-run setup: routes/users.py, routes/auth.py    *)
(* and auth/dependencies.py.  A request is a coroutine with a database     *)
(* session of its own; other requests run whenever it awaits a statement,  *)
(* and each statement sees what is committed when it starts (READ          *)
(* COMMITTED).  So a handler is one action per statement, the flushed      *)
(* UPDATE, INSERT or DELETE being one with its commit.                     *)
(***************************************************************************)
EXTENDS Naturals, FiniteSets

CONSTANTS
  Clients,           \* browsers, each with a session cookie
  MaxUsers,          \* bound on the users ever created
  Names, Passwords,
  Absent             \* no row, no session, a field a request does not set

VARIABLES
  users,    \* table users
  spent,    \* how many keys have been handed out: a deleted row's never again
  session,  \* the user_id in each client's cookie
  req       \* the request each client is waiting for

vars == <<users, spent, session, req>>

Ids == 1 .. MaxUsers
Row  == [name : Names, active : BOOLEAN, pw : Passwords]
Body == [name : Names \cup {Absent}, active : BOOLEAN \cup {Absent},
         pw : Passwords \cup {Absent}]
Null == [name |-> Absent, active |-> Absent, pw |-> Absent]

\* view: the target's row as this request loaded it, kept while it is needed.
\* raced (history): since it last looked, another has changed who there is or
\* who is active.
Request == [op : {"setup", "login", "create", "update", "delete", "reset", "change"},
            at : {"load", "count", "commit"}, id : Ids \cup {Absent},
            body : Body, view : Row \cup {Absent}, raced : BOOLEAN]
Idle == Absent

\* What the constants have to be.
AccountsAssumption ==
  /\ MaxUsers \in Nat
  /\ Absent \notin Ids /\ Absent \notin Names /\ Absent \notin Passwords
  /\ Absent \notin BOOLEAN /\ Absent \notin Row /\ Absent \notin Request

Exists(u) == users[u] # Absent
ActiveIn(t) == {u \in Ids : t[u] # Absent /\ t[u].active}
Active == ActiveIn(users)
\* Who there is, and is he active?
Standing(t) == [u \in Ids |-> IF t[u] = Absent THEN Absent ELSE t[u].active]
Taken(n, u) == \E v \in Ids \ {u} : Exists(v) /\ users[v].name = n

\* Type invariant, with the table's unique constraint on username.
TypeOK ==
  /\ users \in [Ids -> Row \cup {Absent}] /\ spent \in 0 .. MaxUsers
  /\ session \in [Clients -> Ids \cup {Absent}]
  /\ req \in [Clients -> Request \cup {Idle}]
  /\ \A u \in Ids : Exists(u) => u <= spent /\ ~ Taken(users[u].name, u)

-----------------------------------------------------------------------------
\* The steps a handler is made of.

Ask(c, op, at, id, body, view) ==
  req' = [req EXCEPT ![c] = [op |-> op, at |-> at, id |-> id, body |-> body,
                             view |-> view, raced |-> FALSE]]

\* The response leaves the database as it is: an error, or nothing to do.
Refuse(c) == req' = [req EXCEPT ![c] = Idle] /\ UNCHANGED <<users, spent, session>>

\* The handler goes on with its next statement.
Proceed(c, at, view) ==
  /\ Ask(c, req[c].op, at, req[c].id, req[c].body, view)
  /\ UNCHANGED <<users, spent, session>>

Commit(c, t) ==
  /\ users' = t
  /\ req' = [d \in Clients |->
               IF d = c \/ req[d] = Idle THEN Idle
               ELSE [req[d] EXCEPT !.raced = @ \/ Standing(t) # Standing(users)]]

At(c, ops, at) == req[c] # Idle /\ req[c].op \in ops /\ req[c].at = at

\* get_current_user(): the cookie names a user that is there and active.
SignedIn(c) == session[c] # Absent /\ session[c] \in Active

-----------------------------------------------------------------------------
\* First-run setup and sessions.

\* Refused, if there is a user.
SetupCount(c, body) ==
  /\ req[c] = Idle
  /\ \A u \in Ids : ~ Exists(u)
  /\ Ask(c, "setup", "commit", Absent, body, Absent)
  /\ UNCHANGED <<users, spent, session>>

\* INSERT, and the cookie of the response.
SetupCommit(c) ==
  /\ At(c, {"setup"}, "commit")
  /\ LET u == spent + 1 IN
       /\ u \in Ids /\ ~ Taken(req[c].body.name, u)
       /\ Commit(c, [users EXCEPT ![u] = req[c].body])
       /\ spent' = u /\ session' = [session EXCEPT ![c] = u]

LoginFind(c, n, p) ==
  /\ req[c] = Idle
  /\ \E u \in Active :
       /\ users[u].name = n /\ users[u].pw = p
       /\ Ask(c, "login", "commit", u, Null, Absent)
  /\ UNCHANGED <<users, spent, session>>

\* UPDATE of last_login_at; the user may have been switched off meanwhile.
LoginCommit(c) ==
  /\ At(c, {"login"}, "commit") /\ Exists(req[c].id)
  /\ Commit(c, users)
  /\ session' = [session EXCEPT ![c] = req[c].id] /\ UNCHANGED spent

Logout(c) ==
  /\ req[c] = Idle /\ SignedIn(c)
  /\ session' = [session EXCEPT ![c] = Absent]
  /\ UNCHANGED <<users, spent, req>>

-----------------------------------------------------------------------------
\* Managing the users: any active user may.

\* A gated request: the dependency has loaded the caller's row, and a handler
\* that looks its target up by key finds that object again if it is the caller.
Enter(c, op, id, body) ==
  /\ req[c] = Idle /\ SignedIn(c)
  /\ Ask(c, op, IF op \in {"create", "change"} THEN "commit" ELSE "load", id, body,
         IF id = session[c] THEN users[id] ELSE Absent)
  /\ UNCHANGED <<users, spent, session>>

Loaded(c) == IF req[c].id = session[c] THEN req[c].view ELSE users[req[c].id]

CreateCommit(c) ==
  /\ At(c, {"create"}, "commit")
  /\ LET u == spent + 1 IN
       /\ u \in Ids /\ ~ Taken(req[c].body.name, u)
       /\ Commit(c, [users EXCEPT ![u] = req[c].body])
       /\ spent' = u
  /\ UNCHANGED session

UpdateLoad(c) ==
  /\ At(c, {"update"}, "load")
  /\ LET row == Loaded(c) IN
       IF row = Absent THEN Refuse(c)
       ELSE Proceed(c, IF req[c].body.active = FALSE /\ row.active THEN "count" ELSE "commit",
                    row)

\* Mutant of UpdateCount: the last active user may be switched off.
UpdateCountLax(c) ==
  /\ At(c, {"update"}, "count")
  /\ IF Cardinality(Active) > 0 /\ req[c].id # session[c]
     THEN Proceed(c, "commit", req[c].view) ELSE Refuse(c)

\* Switching off needs a second active user, and is never of oneself.
UpdateCount(c) ==
  /\ At(c, {"update"}, "count")
  /\ IF Cardinality(Active) > 1 /\ req[c].id # session[c]
     THEN Proceed(c, "commit", req[c].view) ELSE Refuse(c)

\* The ORM writes the columns whose value differs from the loaded one.
Patched(r, row) ==
  [name |-> IF r.body.name \notin {Absent, r.view.name} THEN r.body.name ELSE row.name,
   active |-> IF r.body.active \notin {Absent, r.view.active} THEN r.body.active ELSE row.active,
   pw |-> row.pw]

\* Nothing is written if the row has gone or the name is another's.
UpdateCommit(c) ==
  /\ At(c, {"update"}, "commit") /\ Exists(req[c].id)
  /\ LET id == req[c].id  row == Patched(req[c], users[id]) IN
       ~ Taken(row.name, id) /\ Commit(c, [users EXCEPT ![id] = row])
  /\ UNCHANGED <<spent, session>>

DeleteLoad(c) ==
  /\ At(c, {"delete"}, "load")
  /\ LET row == Loaded(c) IN
       IF row = Absent \/ req[c].id = session[c] THEN Refuse(c)
       ELSE Proceed(c, IF row.active THEN "count" ELSE "commit", Absent)

DeleteCount(c) ==
  /\ At(c, {"delete"}, "count")
  /\ IF Cardinality(Active) > 1 THEN Proceed(c, "commit", Absent) ELSE Refuse(c)

\* Deleting a row that has gone is no error.
DeleteCommit(c) ==
  /\ At(c, {"delete"}, "commit")
  /\ Commit(c, [users EXCEPT ![req[c].id] = Absent])
  /\ UNCHANGED <<spent, session>>

ResetLoad(c) ==
  /\ At(c, {"reset"}, "load")
  /\ IF Loaded(c) = Absent THEN Refuse(c) ELSE Proceed(c, "commit", Absent)

\* The old password is compared with the row the dependency loaded.
ChangePassword(c, old, new) ==
  /\ req[c] = Idle /\ SignedIn(c) /\ users[session[c]].pw = old
  /\ Ask(c, "change", "commit", session[c], [Null EXCEPT !.pw = new], Absent)
  /\ UNCHANGED <<users, spent, session>>

PasswordCommit(c) ==
  /\ At(c, {"reset", "change"}, "commit") /\ Exists(req[c].id)
  /\ Commit(c, [users EXCEPT ![req[c].id].pw = req[c].body.pw])
  /\ UNCHANGED <<spent, session>>

\* The write fails: the name is another's, the row has gone, a null in the
\* body, the database is out of reach.  The transaction leaves nothing.
Fail(c) == req[c] # Idle /\ Refuse(c)

-----------------------------------------------------------------------------
Init ==
  /\ users \in [Ids -> Row \cup {Absent}]
  /\ \A u \in Ids : Exists(u) => ~ Taken(users[u].name, u)
  /\ Active # {} \/ \A u \in Ids : ~ Exists(u)
  /\ spent = Cardinality({u \in Ids : Exists(u)}) /\ \A u \in Ids : Exists(u) => u <= spent
  /\ session = [c \in Clients |-> Absent] /\ req = [c \in Clients |-> Idle]

\* What each gated request may carry.
BodiesOf(op) ==
  CASE op = "create" -> {b \in Body : Absent \notin {b.name, b.active, b.pw}}
    [] op = "update" -> {b \in Body : b.pw = Absent}
    [] op = "reset"  -> {[Null EXCEPT !.pw = p] : p \in Passwords}
    [] OTHER         -> {Null}

Next ==
  \E c \in Clients :
    \/ \E n \in Names, p \in Passwords :
         SetupCount(c, [name |-> n, active |-> TRUE, pw |-> p]) \/ LoginFind(c, n, p)
    \/ SetupCommit(c) \/ LoginCommit(c) \/ Logout(c)
    \/ \E b \in BodiesOf("create") : Enter(c, "create", Absent, b)
    \/ \E op \in {"update", "delete", "reset"}, u \in Ids :
         \E b \in BodiesOf(op) : Enter(c, op, u, b)
    \/ CreateCommit(c)
    \/ UpdateLoad(c) \/ UpdateCount(c) \/ UpdateCommit(c)
    \/ DeleteLoad(c) \/ DeleteCount(c) \/ DeleteCommit(c)
    \/ ResetLoad(c) \/ PasswordCommit(c)
    \/ \E old, new \in Passwords : ChangePassword(c, old, new)
    \/ Fail(c)

Spec == Init /\ [][Next]_vars

-----------------------------------------------------------------------------
\* The step is c's last: its response leaves.
Answers(c) == req[c] # Idle /\ req'[c] = Idle

\* Nobody is locked out by requests that do not overlap: the last active user
\* goes only when another request changed who there is, or who is active, after
\* the one that removes it had counted (users.py, update_user and delete_user).
LastUserStays ==
  [][Active # {} /\ Active' = {} => \E c \in Clients : Answers(c) /\ req[c].raced]_vars

\* What update_user's comment promises ("Refuse to deactivate the last active
\* user (protects against lock-out)"): once there is a user, one can sign in.
NeverLockedOut == spent > 0 => Active # {}

=============================================================================
