---------------------------- MODULE SystemSettings ----------------------------
(***************************************************************************)
(* System settings: the table of overrides, the cache each process keeps   *)
(* of it, and the requests that change it (system_settings/service.py,     *)
(* registry.py, routes/system_settings.py).  A value is read from the      *)
(* cache; an empty or expired cache is filled by one SELECT, under a lock. *)
(* A PATCH checks its values against the cache, upserts them one by one in *)
(* the request's transaction, empties the cache of its own process, and    *)
(* only then commits.  Time is not counted: a cache expires at any moment. *)
(***************************************************************************)
EXTENDS FieldTypes, Sequences, FiniteSets

CONSTANTS
  Clients,   \* concurrent requests to the api process
  Default,   \* of each key, in halves: the Settings of config.py
  Most,      \* the upper bound of each key, in halves
  Patches,   \* the bodies of PATCH: some keys, with the values they get
  Stored,    \* overrides the table may hold from earlier
  MaxEdits   \* bound on the requests that write

Keys == {"retention", "compression", "budget"}
Caches == {"api", "ingestor"}

\* What the constants have to be: config.py refuses defaults that break its rules.
SystemSettingsAssumption ==
  /\ MaxEdits \in Nat /\ Default \in [Keys -> Nat] /\ Most \in [Keys -> Nat]
  /\ \A k \in Keys : Default[k] > 0 /\ Default[k] % 2 = 0
  /\ Default["compression"] < Default["retention"]
  /\ \A p \in Patches : /\ DOMAIN p \subseteq Keys
                        /\ \A k \in DOMAIN p : IsJson(p[k]) /\ Coerced("int", p[k]) # Absent
  /\ \A t \in Stored : DOMAIN t = Keys /\ \A k \in Keys : t[k] = Absent \/ IsJson(t[k])

VARIABLES
  rows,   \* table system_settings: each key's override
  cache,  \* runtime_settings._cache of each process, Absent when empty or expired
  load,   \* the rows that a reload in flight has read, of each process
  req,    \* the request each client is waiting for
  edits   \* requests that have written, at most MaxEdits

settings == <<rows, cache, load, req, edits>>

Whole(n) == [kind |-> "int", value |-> n]
Idle == Absent

\* REGISTRY: seven settings of which three are kept, all of them integers.
Registry ==
  [k \in Keys |-> [type |-> "int", default |-> Whole(Default[k]), min |-> 2, max |-> Most[k]]]

\* What a reload makes of the rows.
Effective(t) == [k \in Keys |-> Resolve(Registry[k], t[k])]

\* cross_field_invariants()
Ordered(values) == values["compression"].value < values["retention"].value

\* The row locks of c's transaction: what it has written and not committed.
Holds(c, k) == req[c] # Idle /\ k \in req[c].written
Waits(c, k) == \E d \in Clients \ {c} : Holds(d, k)

SettingsTypeOK ==
  /\ \A k \in Keys : rows[k] = Absent \/ DOMAIN rows[k] = {"kind", "value"}
  /\ \A p \in Caches : cache[p] # Absent =>
       \A k \in Keys : cache[p][k].kind = "int" /\ cache[p][k].value % 2 = 0
  /\ \A c \in Clients : req[c] # Idle =>
       req[c].written \cup {req[c].todo[i] : i \in DOMAIN req[c].todo} \subseteq Keys
  /\ \A c \in Clients, k \in Keys : Holds(c, k) => ~ Waits(c, k)
  /\ edits \in 0 .. MaxEdits

-----------------------------------------------------------------------------
\* _ensure_fresh() and _reload(): at most one at a time in a process.
ReloadRead(p) ==
  /\ cache[p] = Absent /\ load[p] = Absent
  /\ load' = [load EXCEPT ![p] = rows]
  /\ UNCHANGED <<rows, cache, req, edits>>

\* The answer is in: the cache gets what was read, even if it is emptied or the
\* table has changed since.
ReloadStore(p) ==
  /\ load[p] # Absent
  /\ cache' = [cache EXCEPT ![p] = Effective(load[p])]
  /\ load' = [load EXCEPT ![p] = Absent]
  /\ UNCHANGED <<rows, req, edits>>

ReloadFails(p) ==
  /\ load[p] # Absent
  /\ load' = [load EXCEPT ![p] = Absent]
  /\ UNCHANGED <<rows, cache, req, edits>>

\* The time to live is over.
Expire(p) ==
  /\ cache[p] # Absent
  /\ cache' = [cache EXCEPT ![p] = Absent]
  /\ UNCHANGED <<rows, load, req, edits>>

-----------------------------------------------------------------------------
\* view: the values the check was made with.
Ask(c, op, keys, set, view) ==
  /\ req[c] = Idle /\ edits < MaxEdits
  /\ edits' = edits + 1
  /\ req' = [req EXCEPT ![c] = [op |-> op, todo |-> keys, set |-> set, written |-> {},
                                view |-> view]]
  /\ UNCHANGED <<rows, cache, load>>

Merged(values, updates) ==
  [k \in Keys |-> IF k \in DOMAIN updates THEN Coerced("int", updates[k]) ELSE values[k]]

\* Mutant of Update: keys that are not in the body count with their defaults.
UpdateUnmerged(c, updates, keys) ==
  /\ \A k \in DOMAIN updates : Accepts(Registry[k], updates[k])
  /\ cache["api"] # Absent
  /\ Ordered(Merged(Effective([k \in Keys |-> Absent]), updates))
  /\ Ask(c, "update", keys, updates, cache["api"])

\* update(): each value on its own, then the order of the two ages with the rest
\* as it is in the cache.  keys: the body's, in the body's order.
Update(c, updates, keys) ==
  /\ \A k \in DOMAIN updates : Accepts(Registry[k], updates[k])
  /\ cache["api"] # Absent
  /\ Ordered(Merged(cache["api"], updates))
  /\ Ask(c, "update", keys, updates, cache["api"])

\* reset(): no check of the others.
Reset(c, k) == Ask(c, "reset", <<k>>, <<>>, Absent)

\* One statement: it waits for a row another transaction has written.  A DELETE
\* that finds no committed row locks none.  The cache of the process is emptied
\* after the last one.
WriteNext(c) ==
  /\ req[c] # Idle /\ req[c].todo # <<>>
  /\ LET k == Head(req[c].todo)
         found == req[c].op = "update" \/ rows[k] # Absent IN
       /\ found => ~ Waits(c, k)
       /\ req' = [req EXCEPT ![c].todo = Tail(@),
                             ![c].written = IF found THEN @ \cup {k} ELSE @]
  /\ cache' = IF Len(req[c].todo) = 1 THEN [cache EXCEPT !["api"] = Absent] ELSE cache
  /\ UNCHANGED <<rows, load, edits>>

\* The route's commit, and its answer.
Commit(c) ==
  /\ req[c] # Idle /\ req[c].todo = <<>>
  /\ rows' = [k \in Keys |->
       IF k \notin req[c].written THEN rows[k]
       ELSE IF req[c].op = "reset" THEN Absent ELSE Coerced("int", req[c].set[k])]
  /\ req' = [req EXCEPT ![c] = Idle]
  /\ UNCHANGED <<cache, load, edits>>

\* The transaction is given up: the database fails, or two requests that write
\* the same keys in opposite orders wait for each other and one is aborted.
Fail(c) ==
  req[c] # Idle /\ req' = [req EXCEPT ![c] = Idle] /\ UNCHANGED <<rows, cache, load, edits>>

\* A process starts again, its cache empty and its requests gone.
Restart(p) ==
  /\ cache' = [cache EXCEPT ![p] = Absent] /\ load' = [load EXCEPT ![p] = Absent]
  /\ req' = IF p = "api" THEN [c \in Clients |-> Idle] ELSE req
  /\ UNCHANGED <<rows, edits>>

-----------------------------------------------------------------------------
SettingsInit ==
  /\ rows \in [Keys -> {Absent}] \cup Stored
  /\ cache = [p \in Caches |-> Absent] /\ load = [p \in Caches |-> Absent]
  /\ req = [c \in Clients |-> Idle] /\ edits = 0

\* The orders in which the keys of a body may come.
Orders(S) == {s \in [1 .. Cardinality(S) -> S] : \A k \in S : \E i \in DOMAIN s : s[i] = k}

Requests ==
  \E c \in Clients :
    \/ \E updates \in Patches : \E keys \in Orders(DOMAIN updates) : Update(c, updates, keys)
    \/ \E k \in Keys : Reset(c, k)
    \/ WriteNext(c) \/ Commit(c) \/ Fail(c)

\* The steps of the api process.
Api ==
  \/ Requests
  \/ ReloadRead("api") \/ ReloadStore("api") \/ ReloadFails("api") \/ Expire("api")

-----------------------------------------------------------------------------
\* A chunk is compressed before it is dropped.  An update that breaks that was
\* checked against values that are no longer the table's: the cache was stale, or
\* another request wrote meanwhile.  Otherwise it takes a reset.
OrderKept ==
  [][Ordered(Effective(rows)) /\ ~ Ordered(Effective(rows')) =>
       \E c \in Clients :
         /\ req[c] # Idle /\ req'[c] = Idle
         /\ req[c].op = "reset" \/ req[c].view # Effective(rows)]_settings
===============================================================================
