---------------------------- MODULE AccountsProofs ----------------------------
(***************************************************************************)
(* Managing the users, for any number of browsers and users: the table     *)
(* keeps its constraints, and nobody is locked out by a request that was   *)
(* not overtaken since it counted.                                         *)
(***************************************************************************)
EXTENDS Accounts, FiniteSetTheorems, TLAPS

Table == [Ids -> Row \cup {Absent}]

\* The constraints of the table: unique names, and keys that were handed out.
WellKept(t, s) ==
  \A u \in Ids : t[u] # Absent =>
    u <= s /\ \A v \in Ids \ {u} : t[v] # Absent => t[v].name # t[u].name

\* What each request needs of the fields it carries.
Carries(r) ==
  /\ r.op \in {"setup", "create"} => r.body \in Row
  /\ r.op \in {"reset", "change"} => r.body.pw \in Passwords
  /\ r.op \notin {"setup", "create"} => r.id \in Ids
  /\ r.op = "update" /\ r.at # "load" => r.view \in Row

\* The request takes an active user away.
Removes(r) ==
  r.op = "delete" \/ (r.op = "update" /\ r.body.active = FALSE /\ r.view.active # FALSE)

\* What a request that takes an active user away has found out is still true of
\* t at its commit, unless it was overtaken: another user is active.
StillTrue(r, t) ==
  r.at = "commit" /\ ~ r.raced /\ Removes(r) /\ r.id \in ActiveIn(t) =>
    ActiveIn(t) \ {r.id} # {}

Inv ==
  /\ TypeOK
  /\ \A c \in Clients : req[c] # Idle => Carries(req[c]) /\ StillTrue(req[c], users)

\* The constraints are those of the type invariant.
LEMMA TypeIsKept ==
  TypeOK <=> /\ users \in Table /\ spent \in 0 .. MaxUsers
             /\ session \in [Clients -> Ids \cup {Absent}]
             /\ req \in [Clients -> Request \cup {Idle}]
             /\ WellKept(users, spent)
BY DEF TypeOK, Table, WellKept, Exists, Taken

\* Of more than one user, one is left when one goes.
LEMMA AnotherIsLeft ==
  ASSUME NEW S, NEW x, Cardinality(S) > 1
  PROVE  S \ {x} # {}
<1> SUFFICES ASSUME S \ {x} = {} PROVE FALSE
  OBVIOUS
<1>1. S = {} \/ S = {x}
  OBVIOUS
<1>2. CASE S = {}
  BY <1>2, FS_EmptySet
<1>3. CASE S = {x}
  BY <1>3, FS_Singleton
<1> QED
  BY <1>1, <1>2, <1>3

\* The standing of the users says who there is and who is active.
LEMMA StandingTells ==
  ASSUME AccountsAssumption, NEW t \in Table, NEW s \in Table, Standing(t) = Standing(s)
  PROVE  ActiveIn(t) = ActiveIn(s) /\ \A u \in Ids : t[u] = Absent <=> s[u] = Absent
<1>1. ASSUME NEW u \in Ids
      PROVE  /\ t[u] = Absent <=> s[u] = Absent
             /\ t[u] # Absent => t[u].active = s[u].active
  <2>1. /\ t[u] # Absent => t[u].active \in BOOLEAN
        /\ s[u] # Absent => s[u].active \in BOOLEAN
    BY DEF Table, Row
  <2>2. (IF t[u] = Absent THEN Absent ELSE t[u].active) =
        (IF s[u] = Absent THEN Absent ELSE s[u].active)
    BY DEF Standing
  <2>3. Absent \notin BOOLEAN
    BY DEF AccountsAssumption
  <2> QED
    BY <2>1, <2>2, <2>3
<1> QED
  BY <1>1 DEF ActiveIn

\* A step that is about one request, and leaves the tables as they are.
LEMMA RequestStep ==
  ASSUME Inv, NEW c \in Clients, NEW r \in Request \cup {Idle},
         r # Idle => Carries(r) /\ StillTrue(r, users),
         req' = [req EXCEPT ![c] = r], UNCHANGED <<users, spent>>,
         session' \in [Clients -> Ids \cup {Absent}]
  PROVE  Inv'
<1>1. TypeOK'
  BY TypeIsKept DEF Inv, TypeOK, Exists, Taken
<1>2. ASSUME NEW d \in Clients, req'[d] # Idle
      PROVE  Carries(req'[d]) /\ StillTrue(req'[d], users)
  BY <1>2 DEF Inv, TypeOK
<1>3. \A d \in Clients : req'[d] # Idle => Carries(req'[d]) /\ StillTrue(req'[d], users')
  BY <1>2
<1> QED
  BY <1>1, <1>3 DEF Inv, Carries, StillTrue, Removes

\* A commit: whoever is under way either knows that it was overtaken, or finds
\* the users standing as they did.
LEMMA CommitStep ==
  ASSUME AccountsAssumption, Inv, NEW c \in Clients, NEW t \in Table, Commit(c, t),
         spent' \in 0 .. MaxUsers, WellKept(t, spent'),
         session' \in [Clients -> Ids \cup {Absent}]
  PROVE  Inv'
<1>1. ASSUME NEW d \in Clients, req'[d] # Idle
      PROVE  /\ req'[d] \in Request /\ Carries(req'[d]) /\ StillTrue(req'[d], t)
  <2> DEFINE flag == req[d].raced \/ Standing(t) # Standing(users)
  <2>1. req[d] # Idle /\ req'[d] = [req[d] EXCEPT !.raced = flag]
    BY <1>1 DEF Commit
  <2>2. req[d] \in Request /\ Carries(req[d]) /\ StillTrue(req[d], users)
    BY <2>1 DEF Inv, TypeOK
  <2>3. flag \in BOOLEAN
    BY <2>2 DEF Request
  <2> HIDE DEF flag
  <2>4. /\ req'[d] \in Request /\ req'[d].raced = flag /\ req'[d].op = req[d].op
        /\ req'[d].at = req[d].at /\ req'[d].id = req[d].id
        /\ req'[d].body = req[d].body /\ req'[d].view = req[d].view
    BY <2>1, <2>2, <2>3 DEF Request
  <2>5. Carries(req'[d])
    BY <2>2, <2>4 DEF Carries
  <2>6. ASSUME ~ flag
        PROVE  ActiveIn(t) = ActiveIn(users) /\ \A u \in Ids : t[u] = Absent <=> users[u] = Absent
    BY <2>6, StandingTells, TypeIsKept DEF Inv, flag
  <2>7. ~ flag => ~ req[d].raced
    BY DEF flag
  <2>8. StillTrue(req'[d], t)
    BY <2>2, <2>4, <2>6, <2>7 DEF StillTrue, Removes
  <2> QED
    BY <2>4, <2>5, <2>8
<1>2. req' \in [Clients -> Request \cup {Idle}] /\ users' = t
  BY <1>1 DEF Commit
<1>3. TypeOK'
  BY <1>2 DEF TypeOK, WellKept, Exists, Taken, Table
<1> QED
  BY <1>1, <1>2, <1>3 DEF Inv, Carries, StillTrue, Removes

\* An INSERT takes a new key and a free name.
LEMMA Insert ==
  ASSUME AccountsAssumption, TypeOK, NEW row \in Row, spent + 1 \in Ids,
         ~ Taken(row.name, spent + 1)
  PROVE  /\ users[spent + 1] = Absent /\ [users EXCEPT ![spent + 1] = row] \in Table
         /\ WellKept([users EXCEPT ![spent + 1] = row], spent + 1)
         /\ spent + 1 \in 0 .. MaxUsers
<1> DEFINE u == spent + 1
           t == [users EXCEPT ![u] = row]
<1>1. spent \in Nat /\ MaxUsers \in Nat /\ u \in 0 .. MaxUsers
  BY DEF AccountsAssumption, TypeOK, Ids
<1>2. users \in Table /\ WellKept(users, spent)
  BY TypeIsKept
<1>3. users[u] = Absent
  BY <1>1, <1>2 DEF WellKept, Ids
<1>4. t \in Table
  BY <1>2 DEF Table
<1>5. ASSUME NEW v \in Ids, t[v] # Absent
      PROVE  v <= u /\ \A w \in Ids \ {v} : t[w] # Absent => t[w].name # t[v].name
  <2>1. CASE v = u
    BY <1>1, <1>2, <2>1 DEF Table, Taken, Exists, Ids
  <2>2. CASE v # u
    <3>1. t[v] = users[v] /\ v <= spent
      BY <1>2, <1>5, <2>2 DEF Table, WellKept
    <3>2. users[v].name # row.name
      BY <1>5, <2>2, <3>1 DEF Taken, Exists
    <3> QED
      BY <1>1, <1>2, <2>2, <3>1, <3>2, <1>5 DEF Table, WellKept, Ids
  <2> QED
    BY <2>1, <2>2
<1> QED
  BY <1>1, <1>3, <1>4, <1>5 DEF WellKept

\* An UPDATE of a user that is there, to a name that is free or his own.
LEMMA Change ==
  ASSUME AccountsAssumption, TypeOK, NEW u \in Ids, Exists(u), NEW row \in Row,
         ~ Taken(row.name, u)
  PROVE  /\ [users EXCEPT ![u] = row] \in Table
         /\ WellKept([users EXCEPT ![u] = row], spent)
<1> DEFINE t == [users EXCEPT ![u] = row]
<1>1. users \in Table /\ WellKept(users, spent)
  BY TypeIsKept
<1>2. t \in Table
  BY <1>1 DEF Table
<1>3. ASSUME NEW v \in Ids, t[v] # Absent
      PROVE  v <= spent /\ \A w \in Ids \ {v} : t[w] # Absent => t[w].name # t[v].name
  BY <1>1, <1>3 DEF Table, WellKept, Taken, Exists
<1> QED
  BY <1>2, <1>3 DEF WellKept

\* A DELETE, of a row that may have gone.
LEMMA Remove ==
  ASSUME TypeOK, NEW u \in Ids
  PROVE  /\ [users EXCEPT ![u] = Absent] \in Table
         /\ WellKept([users EXCEPT ![u] = Absent], spent)
<1>1. users \in Table /\ WellKept(users, spent)
  BY TypeIsKept
<1> QED
  BY <1>1 DEF Table, WellKept

\* What an UPDATE of name and active flag writes is a row.
LEMMA PatchedIsRow ==
  ASSUME NEW r \in Request, NEW row \in Row
  PROVE  Patched(r, row) \in Row
BY DEF Request, Body, Row, Patched

\* Before the first request, nobody has found out anything.
LEMMA InvInit == ASSUME AccountsAssumption PROVE Init => Inv
<1> SUFFICES ASSUME Init PROVE Inv
  OBVIOUS
<1>1. users \in [Ids -> Row \cup {Absent}] /\ Ids = 1 .. MaxUsers /\ MaxUsers \in Nat
  BY DEF Init, AccountsAssumption, Ids
<1>2. {u \in Ids : Exists(u)} \in SUBSET (1 .. MaxUsers)
  BY <1>1
<1>3. IsFiniteSet(1 .. MaxUsers) /\ Cardinality(1 .. MaxUsers) = MaxUsers
  BY <1>1, FS_Interval
<1>4. Cardinality({u \in Ids : Exists(u)}) \in 0 .. MaxUsers
  <2>1. IsFiniteSet({u \in Ids : Exists(u)})
    BY <1>2, <1>3, FS_Subset
  <2>2. Cardinality({u \in Ids : Exists(u)}) \in Nat
    BY <2>1, FS_CardinalityType
  <2>3. Cardinality({u \in Ids : Exists(u)}) <= Cardinality(1 .. MaxUsers)
    BY <1>2, <1>3, FS_Subset
  <2> QED
    BY <1>1, <1>3, <2>2, <2>3
<1>5. spent \in 0 .. MaxUsers
  BY <1>4 DEF Init
<1> QED
  BY <1>5 DEF Init, Inv, TypeOK, Idle

\* A request that asks: all of its record is given.
LEMMA AskStep ==
  ASSUME Inv, NEW c \in Clients, UNCHANGED <<users, spent, session>>,
         NEW op, NEW at, NEW id, NEW body, NEW view, Ask(c, op, at, id, body, view),
         NEW r, r = [op |-> op, at |-> at, id |-> id, body |-> body, view |-> view,
                     raced |-> FALSE],
         r \in Request, Carries(r), StillTrue(r, users)
  PROVE  Inv'
<1>1. req' = [req EXCEPT ![c] = r] /\ session' \in [Clients -> Ids \cup {Absent}]
  BY DEF Ask, Inv, TypeOK
<1> QED
  BY <1>1, RequestStep

\* A request that ends.
LEMMA RefuseStep ==
  ASSUME Inv, NEW c \in Clients, Refuse(c)
  PROVE  Inv'
<1>1. req' = [req EXCEPT ![c] = Idle] /\ UNCHANGED <<users, spent, session>>
  BY DEF Refuse
<1>2. session' \in [Clients -> Ids \cup {Absent}]
  BY <1>1 DEF Inv, TypeOK
<1> QED
  BY <1>1, <1>2, RequestStep

\* A request that goes on, with what it has found out.
LEMMA ProceedStep ==
  ASSUME Inv, NEW c \in Clients, req[c] # Idle, NEW at \in {"count", "commit"},
         NEW view \in Row \cup {Absent}, Proceed(c, at, view),
         req[c].op \notin {"setup", "create"},
         req[c].op = "update" => view \in Row,
         at = "commit" /\ (\/ req[c].op = "delete"
                           \/ /\ req[c].op = "update" /\ req[c].body.active = FALSE
                              /\ view.active # FALSE) =>
           (req[c].id \in Active => Active \ {req[c].id} # {})
  PROVE  Inv'
<1> DEFINE old == req[c]
           r == [op |-> old.op, at |-> at, id |-> old.id, body |-> old.body,
                 view |-> view, raced |-> FALSE]
<1>1. old \in Request /\ Carries(old)
  BY DEF Inv, TypeOK
<1>2. r \in Request
  BY <1>1 DEF Request
<1>3. Ask(c, old.op, at, old.id, old.body, view) /\ UNCHANGED <<users, spent, session>>
  BY DEF Proceed
<1>4. Carries(r)
  BY <1>1 DEF Carries
<1>5. StillTrue(r, users)
  BY DEF StillTrue, Removes, Active
<1> HIDE DEF r
<1>6. r = [op |-> old.op, at |-> at, id |-> old.id, body |-> old.body,
           view |-> view, raced |-> FALSE]
  BY DEF r
<1> QED
  BY <1>2, <1>3, <1>4, <1>5, <1>6, AskStep

\* The request, and the row that its handler has before it.
LEMMA HeldRequest ==
  ASSUME Inv, NEW c \in Clients, req[c] # Idle, req[c].op \notin {"setup", "create"}
  PROVE  req[c] \in Request /\ req[c].id \in Ids /\ Loaded(c) \in Row \cup {Absent}
BY DEF Inv, TypeOK, Carries, Loaded, Request

\* A row that is inserted: by the setup, or for a signed-in user.
LEMMA InsertStep ==
  ASSUME AccountsAssumption, Inv, NEW c \in Clients, SetupCommit(c) \/ CreateCommit(c)
  PROVE  Inv' /\ users[spent + 1] = Absent /\ users' = [users EXCEPT ![spent + 1] = req[c].body]
<1> DEFINE t == [users EXCEPT ![spent + 1] = req[c].body]
<1>1. /\ req[c] # Idle /\ req[c].op \in {"setup", "create"} /\ spent + 1 \in Ids
      /\ ~ Taken(req[c].body.name, spent + 1) /\ Commit(c, t) /\ spent' = spent + 1
      /\ session' = session \/ session' = [session EXCEPT ![c] = spent + 1]
  BY DEF SetupCommit, CreateCommit, At
<1>2. req[c].body \in Row /\ TypeOK
  BY <1>1 DEF Inv, Carries
<1>3. /\ users[spent + 1] = Absent /\ t \in Table /\ WellKept(t, spent + 1)
      /\ spent + 1 \in 0 .. MaxUsers
  BY <1>1, <1>2, Insert
<1>4. session' \in [Clients -> Ids \cup {Absent}]
  BY <1>1, <1>2 DEF TypeOK
<1>5. users' = t
  BY <1>1 DEF Commit
<1> HIDE DEF t
<1>6. Inv'
  BY <1>1, <1>3, <1>4, CommitStep
<1> QED
  BY <1>3, <1>5, <1>6 DEF t

\* The commit of an UPDATE, and what it makes of the user.
LEMMA UpdateCommitStep ==
  ASSUME AccountsAssumption, Inv, NEW c \in Clients, UpdateCommit(c)
  PROVE  /\ Inv' /\ req[c] \in Request /\ req[c].id \in Ids /\ users[req[c].id] \in Row
         /\ users' = [users EXCEPT ![req[c].id] = Patched(req[c], users[req[c].id])]
<1> DEFINE id == req[c].id
           row == Patched(req[c], users[id])
           t == [users EXCEPT ![id] = row]
<1>1. /\ req[c] # Idle /\ req[c].op = "update" /\ Exists(id) /\ ~ Taken(row.name, id)
      /\ Commit(c, t) /\ spent' = spent /\ session' = session
  BY DEF UpdateCommit, At
<1>2. TypeOK /\ req[c] \in Request /\ id \in Ids
  BY <1>1, HeldRequest DEF Inv
<1>3. users[id] \in Row
  BY <1>1, <1>2 DEF TypeOK, Exists
<1>4. row \in Row
  BY <1>2, <1>3, PatchedIsRow
<1>5. t \in Table /\ WellKept(t, spent')
  BY <1>1, <1>2, <1>4, Change
<1>6. spent' \in 0 .. MaxUsers /\ session' \in [Clients -> Ids \cup {Absent}] /\ users' = t
  BY <1>1, <1>2 DEF TypeOK, Commit
<1> HIDE DEF t
<1>7. Inv'
  BY <1>1, <1>5, <1>6, CommitStep
<1> QED
  BY <1>2, <1>3, <1>6, <1>7 DEF t

\* The commit of a DELETE.
LEMMA DeleteCommitStep ==
  ASSUME AccountsAssumption, Inv, NEW c \in Clients, DeleteCommit(c)
  PROVE  Inv' /\ req[c].id \in Ids /\ users' = [users EXCEPT ![req[c].id] = Absent]
<1> DEFINE t == [users EXCEPT ![req[c].id] = Absent]
<1>1. /\ req[c] # Idle /\ req[c].op = "delete" /\ Commit(c, t)
      /\ spent' = spent /\ session' = session
  BY DEF DeleteCommit, At
<1>2. TypeOK /\ req[c].id \in Ids
  BY <1>1, HeldRequest DEF Inv
<1>3. t \in Table /\ WellKept(t, spent')
  BY <1>1, <1>2, Remove
<1>4. spent' \in 0 .. MaxUsers /\ session' \in [Clients -> Ids \cup {Absent}] /\ users' = t
  BY <1>1, <1>2 DEF TypeOK, Commit
<1> HIDE DEF t
<1>5. Inv'
  BY <1>1, <1>3, <1>4, CommitStep
<1> QED
  BY <1>2, <1>4, <1>5 DEF t

\* The commit of a new password, which changes nobody's standing.
LEMMA PasswordCommitStep ==
  ASSUME AccountsAssumption, Inv, NEW c \in Clients, PasswordCommit(c)
  PROVE  Inv' /\ Active' = Active
<1> DEFINE id == req[c].id
           row == [name |-> users[id].name, active |-> users[id].active, pw |-> req[c].body.pw]
           t == [users EXCEPT ![id] = row]
<1>1. /\ req[c] # Idle /\ req[c].op \in {"reset", "change"} /\ Exists(id)
      /\ Commit(c, [users EXCEPT ![id].pw = req[c].body.pw])
      /\ spent' = spent /\ session' = session
  BY DEF PasswordCommit, At
<1>2. TypeOK /\ id \in Ids /\ req[c].body.pw \in Passwords
  BY <1>1, HeldRequest DEF Inv, Carries
<1>3. users[id] \in Row
  BY <1>1, <1>2 DEF TypeOK, Exists
<1>4. row \in Row /\ row = [users[id] EXCEPT !.pw = req[c].body.pw]
  BY <1>2, <1>3 DEF Row
<1>5. [users EXCEPT ![id].pw = req[c].body.pw] = t
  BY <1>2, <1>4 DEF TypeOK
<1>6. ~ Taken(row.name, id)
  BY <1>1, <1>2 DEF TypeOK
<1>7. t \in Table /\ WellKept(t, spent')
  BY <1>1, <1>2, <1>4, <1>6, Change
<1>8. spent' \in 0 .. MaxUsers /\ session' \in [Clients -> Ids \cup {Absent}] /\ users' = t
  BY <1>1, <1>2, <1>5 DEF TypeOK, Commit
<1>9. ActiveIn(t) = ActiveIn(users)
  <2>1. ASSUME NEW u \in Ids
        PROVE  t[u] # Absent /\ t[u].active <=> users[u] # Absent /\ users[u].active
    BY <1>1, <1>2, <1>4 DEF TypeOK, Exists, AccountsAssumption
  <2> QED
    BY <2>1 DEF ActiveIn
<1> HIDE DEF t
<1>10. Inv'
  BY <1>1, <1>5, <1>7, <1>8, CommitStep
<1> QED
  BY <1>8, <1>9, <1>10 DEF Active

\* The first statement of a request: nothing is found out yet.
LEMMA FirstStep ==
  ASSUME AccountsAssumption, Inv, NEW c \in Clients,
         \/ \E n \in Names, p \in Passwords :
              SetupCount(c, [name |-> n, active |-> TRUE, pw |-> p]) \/ LoginFind(c, n, p)
         \/ \E b \in BodiesOf("create") : Enter(c, "create", Absent, b)
         \/ \E op \in {"update", "delete", "reset"}, u \in Ids :
              \E b \in BodiesOf(op) : Enter(c, op, u, b)
         \/ \E old, new \in Passwords : ChangePassword(c, old, new)
  PROVE  Inv'
<1> DEFINE Rec(op, at, id, body, view) ==
             [op |-> op, at |-> at, id |-> id, body |-> body, view |-> view, raced |-> FALSE]
<1>1. Null \in Body /\ Row \subseteq Body /\ TypeOK
  BY DEF Null, Body, Row, Inv
<1>2. ASSUME NEW n \in Names, NEW p \in Passwords,
             SetupCount(c, [name |-> n, active |-> TRUE, pw |-> p])
      PROVE  Inv'
  <2> DEFINE row == [name |-> n, active |-> TRUE, pw |-> p]
             r == Rec("setup", "commit", Absent, row, Absent)
  <2>1. row \in Row
    BY DEF Row
  <2> HIDE DEF row
  <2>2. r \in Request /\ Carries(r)
    BY <1>1, <2>1 DEF Request, Carries
  <2>3. Ask(c, "setup", "commit", Absent, row, Absent)
    BY <1>2 DEF SetupCount, row
  <2>4. StillTrue(r, users)
    BY DEF StillTrue, Removes
  <2> QED
    BY <1>2, <2>2, <2>3, <2>4, AskStep DEF SetupCount
<1>3. ASSUME NEW n \in Names, NEW p \in Passwords, LoginFind(c, n, p)
      PROVE  Inv'
  <2>1. PICK u \in Active : Ask(c, "login", "commit", u, Null, Absent)
    BY <1>3 DEF LoginFind
  <2> DEFINE r == Rec("login", "commit", u, Null, Absent)
  <2>2. r \in Request /\ Carries(r) /\ StillTrue(r, users)
    BY <1>1, <2>1 DEF Request, Carries, StillTrue, Removes, Active, ActiveIn
  <2> QED
    BY <1>3, <2>1, <2>2, AskStep DEF LoginFind
<1>4. ASSUME NEW b \in BodiesOf("create"), Enter(c, "create", Absent, b) PROVE Inv'
  <2> DEFINE r == Rec("create", "commit", Absent, b, Absent)
  <2>1. b \in Row
    BY <1>4 DEF BodiesOf, Body, Row
  <2>2. Ask(c, "create", "commit", Absent, b, Absent)
    BY <1>4 DEF Enter, SignedIn
  <2>3. r \in Request /\ Carries(r) /\ StillTrue(r, users)
    BY <1>1, <2>1 DEF Request, Carries, StillTrue, Removes
  <2> QED
    BY <1>4, <2>2, <2>3, AskStep DEF Enter
<1>5. ASSUME NEW op \in {"update", "delete", "reset"}, NEW u \in Ids, NEW b \in BodiesOf(op),
             Enter(c, op, u, b)
      PROVE  Inv'
  <2> DEFINE view == IF u = session[c] THEN users[u] ELSE Absent
             r == Rec(op, "load", u, b, view)
  <2>1. b \in Body /\ (op = "reset" => b.pw \in Passwords)
    BY <1>1, <1>5 DEF BodiesOf, Null, Body
  <2>2. view \in Row \cup {Absent}
    BY <1>1 DEF TypeOK
  <2>3. Ask(c, op, "load", u, b, view)
    BY <1>5 DEF Enter
  <2> HIDE DEF view
  <2>4. r \in Request /\ Carries(r) /\ StillTrue(r, users)
    BY <1>5, <2>1, <2>2 DEF Request, Carries, StillTrue
  <2> QED
    BY <1>5, <2>3, <2>4, AskStep DEF Enter
<1>6. ASSUME NEW old \in Passwords, NEW new \in Passwords, ChangePassword(c, old, new)
      PROVE  Inv'
  <2> DEFINE body == [Null EXCEPT !.pw = new]
             r == Rec("change", "commit", session[c], body, Absent)
  <2>1. body \in Body /\ body.pw = new
    BY DEF Null, Body
  <2>2. session[c] \in Ids
    BY <1>1, <1>6 DEF ChangePassword, SignedIn, TypeOK
  <2>3. Ask(c, "change", "commit", session[c], body, Absent)
    BY <1>6 DEF ChangePassword
  <2> HIDE DEF body
  <2>4. r \in Request /\ Carries(r) /\ StillTrue(r, users)
    BY <2>1, <2>2 DEF Request, Carries, StillTrue, Removes
  <2> QED
    BY <1>6, <2>3, <2>4, AskStep DEF ChangePassword
<1> QED
  BY <1>2, <1>3, <1>4, <1>5, <1>6

\* The statements between the first and the commit: the target is looked up, and
\* before an active user goes, the active users are counted.
LEMMA LookStep ==
  ASSUME AccountsAssumption, Inv, NEW c \in Clients,
         \/ UpdateLoad(c) \/ UpdateCount(c) \/ DeleteLoad(c) \/ DeleteCount(c) \/ ResetLoad(c)
  PROVE  Inv'
<1>1. /\ req[c] # Idle /\ req[c].op \in {"update", "delete", "reset"} /\ req[c] \in Request
      /\ req[c].id \in Ids /\ Loaded(c) \in Row \cup {Absent}
  BY HeldRequest DEF UpdateLoad, UpdateCount, DeleteLoad, DeleteCount, ResetLoad, At
<1>2. Refuse(c) => Inv'
  BY RefuseStep
<1>3. CASE UpdateLoad(c)
  <2>1. CASE Loaded(c) = Absent
    BY <1>2, <1>3, <2>1 DEF UpdateLoad
  <2>2. CASE Loaded(c) # Absent
    <3> DEFINE at == IF req[c].body.active = FALSE /\ Loaded(c).active THEN "count" ELSE "commit"
    <3>1. Proceed(c, at, Loaded(c)) /\ req[c].op = "update" /\ Loaded(c) \in Row
      BY <1>1, <1>3, <2>2 DEF UpdateLoad, At
    <3>2. at = "commit" => ~ (req[c].body.active = FALSE /\ Loaded(c).active # FALSE)
      BY <3>1 DEF Row
    <3>3. at \in {"count", "commit"}
      OBVIOUS
    <3> HIDE DEF at
    <3> QED
      BY <1>1, <3>1, <3>2, <3>3, ProceedStep
  <2> QED
    BY <2>1, <2>2
<1>4. CASE UpdateCount(c)
  <2>1. CASE Cardinality(Active) > 1 /\ req[c].id # session[c]
    <3>1. Proceed(c, "commit", req[c].view) /\ req[c].op = "update" /\ req[c].at = "count"
      BY <1>4, <2>1 DEF UpdateCount, At
    <3>2. req[c].view \in Row
      BY <1>1, <3>1 DEF Inv, Carries
    <3>3. Active \ {req[c].id} # {}
      BY <2>1, AnotherIsLeft
    <3> QED
      BY <1>1, <3>1, <3>2, <3>3, ProceedStep
  <2> QED
    BY <1>2, <1>4, <2>1 DEF UpdateCount
<1>5. CASE DeleteLoad(c)
  <2>1. CASE Loaded(c) = Absent \/ req[c].id = session[c]
    BY <1>2, <1>5, <2>1 DEF DeleteLoad
  <2>2. CASE Loaded(c) # Absent /\ req[c].id # session[c]
    <3> DEFINE at == IF Loaded(c).active THEN "count" ELSE "commit"
    <3>1. Proceed(c, at, Absent) /\ req[c].op = "delete"
      BY <1>5, <2>2 DEF DeleteLoad, At
    <3>2. at = "commit" => req[c].id \notin Active
      BY <1>1, <2>2 DEF Loaded, Active, ActiveIn
    <3>3. at \in {"count", "commit"}
      OBVIOUS
    <3> HIDE DEF at
    <3> QED
      BY <1>1, <3>1, <3>2, <3>3, ProceedStep
  <2> QED
    BY <2>1, <2>2
<1>6. CASE DeleteCount(c)
  <2>1. CASE Cardinality(Active) > 1
    <3>1. Proceed(c, "commit", Absent) /\ req[c].op = "delete"
      BY <1>6, <2>1 DEF DeleteCount, At
    <3>2. Active \ {req[c].id} # {}
      BY <2>1, AnotherIsLeft
    <3> QED
      BY <1>1, <3>1, <3>2, ProceedStep
  <2> QED
    BY <1>2, <1>6, <2>1 DEF DeleteCount
<1>7. CASE ResetLoad(c)
  <2>1. CASE Loaded(c) # Absent
    <3>1. Proceed(c, "commit", Absent) /\ req[c].op = "reset"
      BY <1>7, <2>1 DEF ResetLoad, At
    <3> QED
      BY <1>1, <3>1, ProceedStep
  <2> QED
    BY <1>2, <1>7, <2>1 DEF ResetLoad
<1> QED
  BY <1>3, <1>4, <1>5, <1>6, <1>7

\* The steps that leave the users as they are, and those that do not.
LEMMA Steps ==
  ASSUME AccountsAssumption, Inv, [Next]_vars
  PROVE  /\ Inv'
         /\ \/ users' = users
            \/ \E c \in Clients : SetupCommit(c) \/ CreateCommit(c)
            \/ \E c \in Clients : UpdateCommit(c) \/ DeleteCommit(c) \/ PasswordCommit(c)
<1>1. CASE UNCHANGED vars
  BY <1>1 DEF vars, Inv, TypeOK, Exists, Taken, Carries, StillTrue, Removes, ActiveIn
<1>2. ASSUME NEW c \in Clients,
             \/ \E n \in Names, p \in Passwords :
                  SetupCount(c, [name |-> n, active |-> TRUE, pw |-> p]) \/ LoginFind(c, n, p)
             \/ \E b \in BodiesOf("create") : Enter(c, "create", Absent, b)
             \/ \E op \in {"update", "delete", "reset"}, u \in Ids :
                  \E b \in BodiesOf(op) : Enter(c, op, u, b)
             \/ \E old, new \in Passwords : ChangePassword(c, old, new)
      PROVE  Inv' /\ users' = users
  BY <1>2, FirstStep DEF SetupCount, LoginFind, Enter, ChangePassword
<1>3. ASSUME NEW c \in Clients,
             UpdateLoad(c) \/ UpdateCount(c) \/ DeleteLoad(c) \/ DeleteCount(c) \/ ResetLoad(c)
      PROVE  Inv' /\ users' = users
  BY <1>3, LookStep DEF UpdateLoad, UpdateCount, DeleteLoad, DeleteCount, ResetLoad, Proceed, Refuse
<1>4. ASSUME NEW c \in Clients, Fail(c) PROVE Inv' /\ users' = users
  BY <1>4, RefuseStep DEF Fail, Refuse
<1>5. ASSUME NEW c \in Clients, LoginCommit(c) PROVE Inv' /\ users' = users
  <2>1. /\ req[c] # Idle /\ req[c].op = "login" /\ Commit(c, users) /\ spent' = spent
        /\ session' = [session EXCEPT ![c] = req[c].id]
    BY <1>5 DEF LoginCommit, At
  <2>2. users \in Table /\ WellKept(users, spent') /\ spent' \in 0 .. MaxUsers
    BY <2>1, TypeIsKept DEF Inv
  <2>3. session' \in [Clients -> Ids \cup {Absent}]
    BY <2>1, HeldRequest DEF Inv, TypeOK
  <2> QED
    BY <2>1, <2>2, <2>3, CommitStep DEF Commit
<1>6. ASSUME NEW c \in Clients, Logout(c) PROVE Inv' /\ users' = users
  <2>1. /\ UNCHANGED <<users, spent>> /\ req' = [req EXCEPT ![c] = req[c]]
        /\ req[c] \in Request \cup {Idle}
        /\ (req[c] # Idle => Carries(req[c]) /\ StillTrue(req[c], users))
    BY <1>6 DEF Logout, Inv, TypeOK
  <2>2. session' \in [Clients -> Ids \cup {Absent}]
    BY <1>6 DEF Logout, Inv, TypeOK
  <2> QED
    BY <2>1, <2>2, RequestStep
<1>7. ASSUME NEW c \in Clients, SetupCommit(c) \/ CreateCommit(c) PROVE Inv'
  BY <1>7, InsertStep
<1>8. ASSUME NEW c \in Clients, UpdateCommit(c) \/ DeleteCommit(c) \/ PasswordCommit(c) PROVE Inv'
  BY <1>8, UpdateCommitStep, DeleteCommitStep, PasswordCommitStep
<1>9. CASE Next
  BY <1>9, <1>2, <1>3, <1>4, <1>5, <1>6, <1>7, <1>8 DEF Next
<1> QED
  BY <1>1, <1>9

\* The table keeps its constraints, and a request what it needs.
THEOREM TypeCorrect ==
  ASSUME AccountsAssumption
  PROVE  Spec => []TypeOK
<1>1. Init => Inv
  BY InvInit
<1>2. Inv /\ [Next]_vars => Inv'
  BY Steps
<1> QED
  BY <1>1, <1>2, PTL DEF Spec, Inv

\* For any number of users and browsers: whoever is the last active user, no
\* request takes him away that was not overtaken since it counted.
THEOREM LastUserAlwaysStays ==
  ASSUME AccountsAssumption
  PROVE  Spec => LastUserStays
<1> DEFINE Stays == Active # {} /\ Active' = {} => \E c \in Clients : Answers(c) /\ req[c].raced
<1>1. Inv /\ [Next]_vars => Stays
  <2> SUFFICES ASSUME Inv, [Next]_vars, Active # {}, Active' = {}
               PROVE  \E c \in Clients : Answers(c) /\ req[c].raced
    OBVIOUS
  <2>1. CASE users' = users
    BY <2>1 DEF Active, ActiveIn
  <2>2. ASSUME NEW c \in Clients, SetupCommit(c) \/ CreateCommit(c) PROVE FALSE
    <3>1. users[spent + 1] = Absent /\ users' = [users EXCEPT ![spent + 1] = req[c].body]
      BY <2>2, InsertStep
    <3>2. Active \subseteq Active'
      BY <3>1 DEF Active, ActiveIn, Inv, TypeOK
    <3> QED
      BY <3>2
  <2>3. ASSUME NEW c \in Clients, PasswordCommit(c) PROVE FALSE
    BY <2>3, PasswordCommitStep
  <2>4. ASSUME NEW c \in Clients, UpdateCommit(c), ~ req[c].raced PROVE FALSE
    <3> DEFINE id == req[c].id
    <3>1. /\ req[c] \in Request /\ id \in Ids /\ users[id] \in Row
          /\ users' = [users EXCEPT ![id] = Patched(req[c], users[id])]
      BY <2>4, UpdateCommitStep
    <3>2. Active \ {id} \subseteq Active'
      BY <3>1 DEF Active, ActiveIn, Inv, TypeOK
    <3>3. Active = {id}
      BY <3>2
    <3>4. req[c].op = "update" /\ req[c].at = "commit" /\ req[c] # Idle
      BY <2>4 DEF UpdateCommit, At
    <3>5. ~ Removes(req[c])
      BY <2>4, <3>3, <3>4 DEF Inv, StillTrue, Active
    <3>6. Patched(req[c], users[id]).active = TRUE
      <4>1. users[id].active = TRUE
        BY <3>1, <3>3 DEF Active, ActiveIn, Row
      <4>2. req[c].body.active \in BOOLEAN \cup {Absent} /\ req[c].view \in Row
        BY <3>1, <3>4 DEF Request, Body, Inv, Carries
      <4> QED
        BY <3>4, <3>5, <4>1, <4>2 DEF Removes, Patched, Row
    <3>7. id \in Active'
      BY <3>1, <3>6, PatchedIsRow DEF Active, ActiveIn, Inv, TypeOK, AccountsAssumption
    <3> QED
      BY <3>7
  <2>5. ASSUME NEW c \in Clients, DeleteCommit(c), ~ req[c].raced PROVE FALSE
    <3>1. req[c].id \in Ids /\ users' = [users EXCEPT ![req[c].id] = Absent]
      BY <2>5, DeleteCommitStep
    <3>2. Active \ {req[c].id} \subseteq Active'
      BY <3>1 DEF Active, ActiveIn, Inv, TypeOK
    <3>3. Removes(req[c]) /\ req[c].at = "commit" /\ req[c] # Idle
      BY <2>5 DEF DeleteCommit, At, Removes
    <3> QED
      BY <2>5, <3>2, <3>3 DEF Inv, StillTrue, Active
  <2>6. ASSUME NEW c \in Clients, UpdateCommit(c) \/ DeleteCommit(c) PROVE Answers(c)
    BY <2>6 DEF UpdateCommit, DeleteCommit, At, Commit, Answers
  <2> QED
    BY <2>1, <2>2, <2>3, <2>4, <2>5, <2>6, Steps
<1>2. Init => Inv
  BY InvInit
<1>3. Inv /\ [Next]_vars => Inv'
  BY Steps
<1> QED
  BY <1>1, <1>2, <1>3, PTL DEF Spec, LastUserStays
===============================================================================
