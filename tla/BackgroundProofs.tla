---------------------------- MODULE BackgroundProofs ----------------------------
(***************************************************************************)
(* What holds of the services behind the pages, for any number of clients, *)
(* processes and chats, any settings, any chunks and any catalogue: their  *)
(* types with the database's constraints, the order of the two ages, that  *)
(* the disk budget costs just the chunks it has to, and that no row goes   *)
(* back to what an earlier start said.  Every group's invariant holds in   *)
(* the composition, whichever group is at work.                            *)
(***************************************************************************)
EXTENDS BackgroundMC, FiniteSetTheorems, WellFoundedInduction, TLAPS

-----------------------------------------------------------------------------
\* A row's override, when there is one, is a JSON value.
RowsTyped(t) == \A k \in Keys : t[k] = Absent \/ IsJson(t[k])

\* What a cache holds are values of the settings' type.
CacheTyped(values) ==
  \A k \in Keys :
    values[k].kind = "int" /\ values[k].value \in Int /\ values[k].value % 2 = 0

RangeOf(s) == {s[i] : i \in DOMAIN s}

\* What a request carries.  An update has still to write, or has written, each key of
\* its body; and the body is in order with the values it was checked against.
Carries(r) ==
  /\ r = [op |-> r.op, todo |-> r.todo, set |-> r.set, written |-> r.written, view |-> r.view]
  /\ r.op \in {"update", "reset"} /\ r.todo \in Seq(Keys) /\ r.written \subseteq Keys
  /\ r.op = "update" =>
       /\ DOMAIN r.set = r.written \cup RangeOf(r.todo)
       /\ \A k \in DOMAIN r.set :
            IsJson(r.set[k]) /\ Fits("int", r.set[k]) /\ Coerced("int", r.set[k]) # Absent
       /\ Ordered(Merged(r.view, r.set))

SettingsInv ==
  /\ RowsTyped(rows) /\ edits \in 0 .. MaxEdits
  /\ cache = [p \in Caches |-> cache[p]] /\ load = [p \in Caches |-> load[p]]
  /\ req = [c \in Clients |-> req[c]]
  /\ \A p \in Caches : /\ cache[p] # Absent => CacheTyped(cache[p])
                       /\ load[p] # Absent => RowsTyped(load[p])
  /\ \A c \in Clients : req[c] # Idle => Carries(req[c])
  /\ \A c \in Clients, k \in Keys : Holds(c, k) => ~ Waits(c, k)

\* What the settings may do in a step, whoever takes it.
SettingsStep ==
  \/ Requests
  \/ \E p \in Caches : ReloadRead(p) \/ ReloadStore(p) \/ Expire(p) \/ Restart(p)
  \/ \E p \in Caches : load' = [load EXCEPT ![p] = Absent] /\ UNCHANGED <<rows, cache, req, edits>>

\* What the instance assumes of the settings.
LEMMA SettingsAssumed == SystemSettingsAssumption
BY BackgroundAssumption DEF BackgroundAssumption, StorageAssumption

\* A JSON value has a kind and a content.
LEMMA JsonIs ==
  ASSUME NEW v, IsJson(v)
  PROVE  DOMAIN v = {"kind", "value"}
<1>1. PICK k, x : v = [kind |-> k, value |-> x]
  BY DEF IsJson
<1> QED
  BY <1>1

\* The settings' invariant implies their type invariant.
LEMMA SettingsTyped == SettingsInv => SettingsTypeOK
BY JsonIs DEF SettingsInv, SettingsTypeOK, RowsTyped, CacheTyped, Carries, RangeOf

\* A whole number of a JSON value is even when counted in halves, an int like any other.
LEMMA CoercedIsJson ==
  ASSUME NEW v, IsJson(v), Fits("int", v)
  PROVE  /\ IsJson(Coerced("int", v)) /\ Fits("int", Coerced("int", v))
         /\ Coerced("int", Coerced("int", v)) = Coerced("int", v)
         /\ Coerced("int", v).kind = "int" /\ Coerced("int", v).value \in Int
         /\ Coerced("int", v).value % 2 = 0
<1> DEFINE w == Coerced("int", v)
<1>1. PICK k, x : v = [kind |-> k, value |-> x]
  BY DEF IsJson
<1>2. v.kind = k /\ v.value = x /\ x \in Int /\ x % 2 = 0
  BY <1>1 DEF IsJson, Fits, Numeric
<1>3. w = [kind |-> "int", value |-> x]
  BY <1>1 DEF Coerced, Numeric
<1>4. w.kind = "int" /\ w.value = x /\ w = [kind |-> w.kind, value |-> w.value]
  BY <1>3
<1>5. Coerced("int", w) = w
  BY <1>3 DEF Coerced, Numeric
<1> HIDE DEF w
<1>6. IsJson(w) /\ Fits("int", w)
  BY <1>2, <1>4 DEF IsJson, Fits
<1> QED
  BY <1>2, <1>4, <1>5, <1>6 DEF w

\* What a reload makes of typed rows is typed.
LEMMA EffectiveIsTyped ==
  ASSUME NEW t, RowsTyped(t)
  PROVE  CacheTyped(Effective(t))
<1> SUFFICES ASSUME NEW k \in Keys
             PROVE  /\ Effective(t)[k].kind = "int" /\ Effective(t)[k].value \in Int
                    /\ Effective(t)[k].value % 2 = 0
  BY DEF CacheTyped
<1>1. Effective(t)[k] = Resolve(Registry[k], t[k])
  BY DEF Effective
<1>2. Registry[k].type = "int" /\ Registry[k].default = [kind |-> "int", value |-> Default[k]]
  BY DEF Registry, Whole
<1>3. Default[k] \in Int /\ Default[k] % 2 = 0
  BY SettingsAssumed DEF SystemSettingsAssumption
<1>4. CASE t[k] # Absent /\ Fits("int", t[k])
  BY <1>1, <1>2, <1>4, CoercedIsJson DEF Resolve, RowsTyped
<1>5. CASE ~ (t[k] # Absent /\ Fits("int", t[k]))
  BY <1>1, <1>2, <1>3, <1>5 DEF Resolve
<1> QED
  BY <1>4, <1>5

\* Opening a request.
LEMMA SettingsAskStep ==
  ASSUME SettingsInv, NEW c \in Clients, NEW op, NEW keys, NEW set, NEW view,
         Ask(c, op, keys, set, view),
         Carries([op |-> op, todo |-> keys, set |-> set, written |-> {}, view |-> view])
  PROVE  SettingsInv'
<1> DEFINE r == [op |-> op, todo |-> keys, set |-> set, written |-> {}, view |-> view]
<1>1. /\ req' = [req EXCEPT ![c] = r] /\ req[c] = Idle /\ edits < MaxEdits /\ edits' = edits + 1
      /\ UNCHANGED <<rows, cache, load>>
  BY DEF Ask
<1>2. r.written = {} /\ Carries(r)
  OBVIOUS
<1> HIDE DEF r
<1>3. \A d \in Clients : req'[d] = IF d = c THEN r ELSE req[d]
  BY <1>1 DEF SettingsInv
<1>4. \A d \in Clients, k \in Keys : Holds(d, k)' => Holds(d, k)
  BY <1>2, <1>3 DEF Holds
<1>5. \A d \in Clients, k \in Keys : Holds(d, k)' => ~ Waits(d, k)'
  BY <1>4 DEF SettingsInv, Waits
<1>6. edits' \in 0 .. MaxEdits
  BY <1>1, SettingsAssumed DEF SystemSettingsAssumption, SettingsInv
<1>7. req' = [d \in Clients |-> req'[d]]
  BY <1>1 DEF SettingsInv
<1>8. \A d \in Clients : req'[d] # Idle => Carries(req'[d])
  BY <1>2, <1>3 DEF SettingsInv
<1> QED
  BY <1>1, <1>5, <1>6, <1>7, <1>8 DEF SettingsInv

\* A body's keys are written in some order, each of them.
LEMMA OrdersAreSequences ==
  ASSUME NEW S \in SUBSET Keys, NEW s \in Orders(S)
  PROVE  s \in Seq(S) /\ RangeOf(s) = S
<1>1. IsFiniteSet(Keys)
  <2> DEFINE A == {"retention"}
             B == {"compression"}
             C == {"budget"}
  <2>1. Keys = A \cup (B \cup C)
    BY DEF Keys
  <2>2. IsFiniteSet(A) /\ IsFiniteSet(B) /\ IsFiniteSet(C)
    BY FS_Singleton
  <2> HIDE DEF A, B, C
  <2>3. IsFiniteSet(B \cup C)
    BY <2>2, FS_Union
  <2> QED
    BY <2>1, <2>2, <2>3, FS_Union
<1>2. Cardinality(S) \in Nat
  BY <1>1, FS_Subset, FS_CardinalityType
<1> QED
  BY <1>2 DEF Orders, RangeOf


\* What a sequence holds is its head and what its tail holds.
LEMMA HeadAndTail ==
  ASSUME NEW S, NEW s \in Seq(S), s # <<>>
  PROVE  /\ Head(s) \in S /\ Tail(s) \in Seq(S)
         /\ RangeOf(s) = {Head(s)} \cup RangeOf(Tail(s))
<1> DEFINE t == Tail(s)
           n == Len(s)
<1>1. /\ n \in Nat \ {0} /\ Head(s) \in S /\ t \in Seq(S) /\ Head(s) = s[1] /\ Len(t) = n - 1
      /\ \A i \in 1 .. n - 1 : t[i] = s[i + 1]
  OBVIOUS
<1>2. DOMAIN s = 1 .. n /\ DOMAIN t = 1 .. n - 1
  BY <1>1
<1> HIDE DEF t, n
<1>3. ASSUME NEW i \in 1 .. n PROVE s[i] \in {Head(s)} \cup RangeOf(t)
  <2>1. CASE i = 1
    BY <1>1, <2>1
  <2>2. CASE i # 1
    <3>1. i - 1 \in 1 .. n - 1 /\ t[i - 1] = s[i]
      BY <1>1, <2>2
    <3> QED
      BY <1>2, <3>1 DEF RangeOf
  <2> QED
    BY <2>1, <2>2
<1>4. ASSUME NEW i \in 1 .. n - 1 PROVE t[i] \in RangeOf(s)
  <2>1. i + 1 \in 1 .. n /\ t[i] = s[i + 1]
    BY <1>1
  <2> QED
    BY <1>2, <2>1 DEF RangeOf
<1>5. Head(s) \in RangeOf(s)
  BY <1>1, <1>2 DEF RangeOf
<1>6. RangeOf(s) \subseteq {Head(s)} \cup RangeOf(t)
  BY <1>2, <1>3 DEF RangeOf
<1>7. RangeOf(t) \subseteq RangeOf(s)
  BY <1>2, <1>4 DEF RangeOf
<1> QED
  BY <1>1, <1>5, <1>6, <1>7 DEF t

\* A request's statements: what is still to be written, and what is written.
LEMMA WriteNextStep ==
  ASSUME SettingsInv, NEW c \in Clients, WriteNext(c)
  PROVE  SettingsInv'
<1> DEFINE old == req[c]
           k == Head(old.todo)
           new == req'[c]
<1>1. old # Idle /\ old.todo # <<>> /\ Carries(old) /\ UNCHANGED <<rows, load, edits>>
  BY DEF WriteNext, SettingsInv
<1>2. /\ old.todo \in Seq(Keys) /\ k \in Keys /\ Tail(old.todo) \in Seq(Keys)
      /\ RangeOf(old.todo) = {k} \cup RangeOf(Tail(old.todo))
  BY <1>1, HeadAndTail DEF Carries
<1>3. PICK found \in BOOLEAN :
        /\ found = (old.op = "update" \/ rows[k] # Absent)
        /\ found => ~ Waits(c, k)
        /\ req' = [req EXCEPT ![c].todo = Tail(@),
                              ![c].written = IF found THEN @ \cup {k} ELSE @]
  BY DEF WriteNext
<1> HIDE DEF k
<1>4. /\ new = [old EXCEPT !.todo = Tail(@), !.written = IF found THEN @ \cup {k} ELSE @]
      /\ req' = [d \in Clients |-> req'[d]] /\ \A d \in Clients \ {c} : req'[d] = req[d]
  BY <1>3 DEF SettingsInv
<1>5. /\ new = [op |-> old.op, todo |-> Tail(old.todo), set |-> old.set,
                written |-> IF found THEN old.written \cup {k} ELSE old.written,
                view |-> old.view]
  BY <1>1, <1>4 DEF Carries
<1>6. /\ new.op = old.op /\ new.set = old.set /\ new.view = old.view
      /\ new.todo = Tail(old.todo)
      /\ new.written = IF found THEN old.written \cup {k} ELSE old.written
      /\ new = [op |-> new.op, todo |-> new.todo, set |-> new.set, written |-> new.written,
                view |-> new.view]
  BY <1>5
<1> HIDE DEF new, old
<1>7. Carries(new)
  BY <1>1, <1>2, <1>3, <1>6 DEF Carries
<1>8. ASSUME NEW d \in Clients, NEW x \in Keys, Holds(d, x)', Waits(d, x)' PROVE FALSE
  <2>1. PICK e \in Clients \ {d} : Holds(e, x)'
    BY <1>8 DEF Waits
  <2>2. \A f \in Clients : Holds(f, x)' => Holds(f, x) \/ (f = c /\ x = k /\ found)
    BY <1>1, <1>4, <1>6 DEF Holds, old, new
  <2>3. \A f \in Clients \ {c} : Holds(f, x)' = Holds(f, x)
    BY <1>4 DEF Holds
  <2>4. d = c \/ e = c
    BY <1>8, <2>1, <2>3 DEF SettingsInv, Waits
  <2>5. ASSUME NEW f \in Clients \ {c}, Holds(f, x), Holds(c, x)' PROVE FALSE
    <3>1. CASE Holds(c, x)
      BY <2>5, <3>1 DEF SettingsInv, Waits
    <3>2. CASE x = k /\ found
      BY <1>3, <2>5, <3>2 DEF Waits
    <3> QED
      BY <2>2, <2>5, <3>1, <3>2
  <2> QED
    BY <1>8, <2>1, <2>3, <2>4, <2>5
<1>9. /\ cache' = [p \in Caches |-> cache'[p]]
      /\ \A p \in Caches : cache'[p] # Absent => CacheTyped(cache'[p])
  BY DEF WriteNext, SettingsInv
<1>10. \A d \in Clients : req'[d] # Idle => Carries(req'[d])
  BY <1>4, <1>7 DEF SettingsInv, new
<1> QED
  BY <1>1, <1>4, <1>8, <1>9, <1>10 DEF SettingsInv


\* A commit leaves typed rows: what was there, what the update coerced, or nothing.
LEMMA CommitLeaves ==
  ASSUME SettingsInv, NEW c \in Clients, Commit(c)
  PROVE  /\ RowsTyped(rows')
         /\ req[c].op = "update" /\ req[c].view = Effective(rows) => Ordered(Effective(rows'))
<1> DEFINE r == req[c]
<1>1. /\ r # Idle /\ r.todo = <<>> /\ Carries(r)
      /\ rows' = [k \in Keys |->
           IF k \notin r.written THEN rows[k]
           ELSE IF r.op = "reset" THEN Absent ELSE Coerced("int", r.set[k])]
  BY DEF Commit, SettingsInv
<1>2. r.op = "update" => DOMAIN r.set = r.written
  <2>1. RangeOf(<<>>) = {}
    BY DEF RangeOf
  <2>2. r.op = "update" => DOMAIN r.set = r.written \cup RangeOf(r.todo)
    BY <1>1 DEF Carries
  <2> QED
    BY <1>1, <2>1, <2>2
<1>3. r.op \in {"update", "reset"} /\ "update" # "reset"
  BY <1>1 DEF Carries
<1>4. ASSUME NEW k \in r.written, r.op = "update"
      PROVE  /\ IsJson(Coerced("int", r.set[k])) /\ Coerced("int", r.set[k]) # Absent
             /\ Fits("int", Coerced("int", r.set[k]))
             /\ Coerced("int", Coerced("int", r.set[k])) = Coerced("int", r.set[k])
  BY <1>1, <1>2, <1>4, CoercedIsJson DEF Carries
<1> HIDE DEF r
<1>5. RowsTyped(rows')
  BY <1>1, <1>3, <1>4 DEF RowsTyped, SettingsInv
<1>6. ASSUME r.op = "update", r.view = Effective(rows)
      PROVE  Ordered(Effective(rows'))
  <2>1. ASSUME NEW k \in Keys PROVE Effective(rows')[k] = Merged(r.view, r.set)[k]
    <3>1. Effective(rows')[k] = Resolve(Registry[k], rows'[k])
      BY DEF Effective
    <3>2. CASE k \in r.written
      <4>1. rows'[k] = Coerced("int", r.set[k])
        BY <1>1, <1>3, <1>6, <3>2
      <4>2. Registry[k].type = "int"
        BY DEF Registry
      <4>3. Resolve(Registry[k], rows'[k]) = Coerced("int", r.set[k])
        BY <1>4, <1>6, <3>2, <4>1, <4>2 DEF Resolve
      <4> QED
        BY <1>2, <1>6, <3>1, <3>2, <4>3 DEF Merged
    <3>3. CASE k \notin r.written
      <4>1. Effective(rows)[k] = Resolve(Registry[k], rows[k]) /\ rows'[k] = rows[k]
        BY <1>1, <3>3 DEF Effective
      <4> QED
        BY <1>2, <1>6, <3>1, <3>3, <4>1 DEF Merged
    <3> QED
      BY <3>2, <3>3
  <2>2. Effective(rows') = Merged(r.view, r.set)
    BY <2>1 DEF Effective, Merged
  <2> QED
    BY <1>1, <1>6, <2>2 DEF Carries
<1> QED
  BY <1>5, <1>6 DEF r

\* A request that ends, and lets go of its rows.
LEMMA RequestEnds ==
  ASSUME SettingsInv, NEW c \in Clients, req' = [req EXCEPT ![c] = Idle]
  PROVE  /\ req' = [d \in Clients |-> req'[d]]
         /\ \A d \in Clients : req'[d] # Idle => Carries(req'[d])
         /\ \A d \in Clients, k \in Keys : Holds(d, k)' => ~ Waits(d, k)'
<1>1. \A d \in Clients : req'[d] = IF d = c THEN Idle ELSE req[d]
  BY DEF SettingsInv
<1>2. \A d \in Clients, k \in Keys : Holds(d, k)' => Holds(d, k)
  BY <1>1 DEF Holds
<1> QED
  BY <1>1, <1>2 DEF SettingsInv, Waits

\* A step of a request, an update or a reset, keeps the settings' invariant.
LEMMA RequestsStep ==
  ASSUME SettingsInv, Requests
  PROVE  SettingsInv'
<1>1. ASSUME NEW c \in Clients, NEW body \in Patches, NEW keys \in Orders(DOMAIN body),
             Update(c, body, keys)
      PROVE  SettingsInv'
  <2> DEFINE view == cache["api"]
             r == [op |-> "update", todo |-> keys, set |-> body, written |-> {},
                   view |-> view]
  <2>1. /\ \A k \in DOMAIN body : Accepts(Registry[k], body[k])
        /\ Ordered(Merged(view, body)) /\ Ask(c, "update", keys, body, view)
    BY <1>1 DEF Update
  <2>2. /\ DOMAIN body \subseteq Keys
        /\ \A k \in DOMAIN body : IsJson(body[k]) /\ Coerced("int", body[k]) # Absent
    BY SettingsAssumed DEF SystemSettingsAssumption
  <2>3. \A k \in DOMAIN body : Fits("int", body[k])
    BY <2>1, <2>2 DEF Accepts, Registry
  <2>4. keys \in Seq(DOMAIN body) /\ RangeOf(keys) = DOMAIN body
    BY <2>2, OrdersAreSequences
  <2>5. keys \in Seq(Keys)
    BY <2>2, <2>4
  <2> HIDE DEF view
  <2>6. /\ r.op = "update" /\ r.todo = keys /\ r.set = body /\ r.written = {}
        /\ r.view = view
    OBVIOUS
  <2>7. Carries(r)
    BY <2>1, <2>2, <2>3, <2>4, <2>5, <2>6 DEF Carries
  <2> QED
    BY <2>1, <2>7, SettingsAskStep
<1>2. ASSUME NEW c \in Clients, NEW k \in Keys, Reset(c, k) PROVE SettingsInv'
  <2> DEFINE r == [op |-> "reset", todo |-> <<k>>, set |-> <<>>, written |-> {},
                   view |-> Absent]
  <2>1. Carries(r)
    BY DEF Carries
  <2> QED
    BY <1>2, <2>1, SettingsAskStep DEF Reset
<1>3. ASSUME NEW c \in Clients, Commit(c) PROVE SettingsInv'
  BY <1>3, CommitLeaves, RequestEnds DEF Commit, SettingsInv
<1>4. ASSUME NEW c \in Clients, Fail(c) PROVE SettingsInv'
  BY <1>4, RequestEnds DEF Fail, SettingsInv
<1> QED
  BY <1>1, <1>2, <1>3, <1>4, WriteNextStep DEF Requests

\* The settings start in their invariant: there is no cache, and nobody asks.
LEMMA SettingsStart == SettingsInit => SettingsInv
<1> SUFFICES ASSUME SettingsInit PROVE SettingsInv
  OBVIOUS
<1>1. RowsTyped(rows)
  BY SettingsAssumed DEF SettingsInit, RowsTyped, SystemSettingsAssumption
<1>2. edits \in 0 .. MaxEdits
  BY SettingsAssumed DEF SettingsInit, SystemSettingsAssumption
<1> QED
  BY <1>1, <1>2 DEF SettingsInit, SettingsInv, Holds

\* Every step of anybody keeps the settings' invariant.
LEMMA SettingsStepKeeps ==
  ASSUME SettingsInv, SettingsStep \/ UNCHANGED settings
  PROVE  SettingsInv'
<1>1. ASSUME NEW p \in Caches, ReloadStore(p) PROVE SettingsInv'
  BY <1>1, EffectiveIsTyped DEF ReloadStore, SettingsInv, Holds, Waits
<1>2. ASSUME NEW p \in Caches, ReloadRead(p) PROVE SettingsInv'
  BY <1>2 DEF ReloadRead, SettingsInv, Holds, Waits
<1>3. ASSUME NEW p \in Caches, Expire(p) PROVE SettingsInv'
  BY <1>3 DEF Expire, SettingsInv, Holds, Waits
<1>4. ASSUME NEW p \in Caches, Restart(p) PROVE SettingsInv'
  BY <1>4 DEF Restart, SettingsInv, Holds, Waits
<1>5. ASSUME NEW p \in Caches, load' = [load EXCEPT ![p] = Absent],
             UNCHANGED <<rows, cache, req, edits>>
      PROVE  SettingsInv'
  BY <1>5 DEF SettingsInv, Holds, Waits
<1>6. CASE UNCHANGED settings
  BY <1>6 DEF settings, SettingsInv, Holds, Waits
<1> QED
  BY <1>1, <1>2, <1>3, <1>4, <1>5, <1>6, RequestsStep DEF SettingsStep

\* Only a commit writes the table.
LEMMA OrderStep ==
  ASSUME SettingsInv, SettingsStep \/ UNCHANGED settings,
         Ordered(Effective(rows)), ~ Ordered(Effective(rows'))
  PROVE  \E c \in Clients : /\ req[c] # Idle /\ req'[c] = Idle
                            /\ req[c].op = "reset" \/ req[c].view # Effective(rows)
<1>1. rows' # rows
  OBVIOUS
<1>2. PICK c \in Clients : Commit(c)
  BY <1>1 DEF SettingsStep, settings, Requests, Update, Reset, Ask, WriteNext, Fail, ReloadRead,
              ReloadStore, Expire, Restart
<1>3. req[c] # Idle /\ req'[c] = Idle /\ req[c].op \in {"update", "reset"}
  BY <1>2 DEF Commit, SettingsInv, Carries
<1> QED
  BY <1>2, <1>3, CommitLeaves

\* Every step of the composition is one of the settings, or leaves them alone.
LEMMA StepIsSettings ==
  ASSUME [BackgroundNext]_backgroundVars
  PROVE  SettingsStep \/ UNCHANGED settings
<1>1. CASE UNCHANGED backgroundVars
  BY <1>1 DEF backgroundVars, storage, settings
<1>2. CASE group = "settings" /\ (Api \/ Restart("api"))
  BY <1>2 DEF Api, SettingsStep, ReloadFails, Caches
<1>3. ASSUME Next PROVE SettingsStep \/ UNCHANGED settings
  <2>1. CASE Api
    BY <2>1 DEF Api, SettingsStep, ReloadFails, Caches
  <2>2. CASE Ingestor
    BY <2>2 DEF Ingestor, SettingsStep, StartReload, FinishReload, UseCache, ApplyPolicies, Wake,
                Measure, ListChunks, DropChunks, Caches
  <2>3. CASE CacheExpires \/ TickFails \/ IngestorRestarts \/ ApiRestarts
    BY <2>3 DEF CacheExpires, TickFails, IngestorRestarts, ApiRestarts, SettingsStep, Caches
  <2>4. ASSUME NEW t \in Chunks, Write(t) \/ Retire(t) PROVE SettingsStep \/ UNCHANGED settings
    BY <2>4 DEF Write, Retire
  <2> QED
    BY <1>3, <2>1, <2>2, <2>3, <2>4 DEF Next
<1>4. CASE UNCHANGED storage
  BY <1>4 DEF storage, settings
<1> QED
  BY <1>1, <1>2, <1>3, <1>4 DEF BackgroundNext, InStorage, InRegistration, InTelegram, InSchema

\* So the settings' invariant holds of every behaviour.
LEMMA SettingsAlways == BackgroundSpec => []SettingsInv
<1>1. BackgroundInit => SettingsInv
  BY SettingsStart DEF BackgroundInit, Init
<1>2. SettingsInv /\ [BackgroundNext]_backgroundVars => SettingsInv'
  BY SettingsStepKeeps, StepIsSettings
<1> QED
  BY <1>1, <1>2, PTL DEF BackgroundSpec

(***************************************************************************)
(* An update never breaks the order of the two ages unless it was checked  *)
(* against values that are no longer the table's; otherwise it takes a     *)
(* reset.  For any clients, keys, overrides and bodies of PATCH.           *)
(***************************************************************************)
THEOREM OrderAlwaysKept == BackgroundSpec => OrderKept
<1>1. SettingsInv /\ [BackgroundNext]_backgroundVars =>
        [Ordered(Effective(rows)) /\ ~ Ordered(Effective(rows')) =>
           \E c \in Clients :
             /\ req[c] # Idle /\ req'[c] = Idle
             /\ req[c].op = "reset" \/ req[c].view # Effective(rows)]_settings
  BY StepIsSettings, OrderStep
<1> QED
  BY <1>1, SettingsAlways, PTL DEF BackgroundSpec, OrderKept

-----------------------------------------------------------------------------
\* A set of naturals that is not empty has a least one.
LEMMA LeastNatural ==
  ASSUME NEW S \in SUBSET Nat, S # {}
  PROVE  \E n \in S : \A m \in S : n <= m
<1>1. PICK n \in S : \A m \in S : ~ (<<m, n>> \in OpToRel(<, Nat))
  BY WFMin, NatLessThanWellFounded
<1>2. \A m \in S : ~ (m < n)
  BY <1>1 DEF OpToRel
<1> QED
  BY <1>2

\* A set with 0, and with the next number for each of its own below N, has all up to N.
LEMMA UpFromZero ==
  ASSUME NEW N \in Nat, NEW P, 0 \in P, \A t \in 0 .. N : t + 1 \in 0 .. N /\ t \in P => t + 1 \in P
  PROVE  0 .. N \subseteq P
<1> SUFFICES ASSUME (0 .. N) \ P # {} PROVE FALSE
  OBVIOUS
<1> DEFINE S == (0 .. N) \ P
<1>0. S \in SUBSET Nat
  OBVIOUS
<1>1. PICK n \in S : \A m \in S : n <= m
  BY <1>0, LeastNatural
<1>2. n # 0 /\ n - 1 \in 0 .. N /\ n - 1 \in P
  BY <1>1
<1> QED
  BY <1>1, <1>2

\* A set of chunks that is not empty has a newest one.
LEMMA MaxOfChunks ==
  ASSUME NEW S \in SUBSET Chunks, S # {}
  PROVE  Max(S) \in S /\ \A t \in S : t <= Max(S)
<1> DEFINE gap == {MaxTime - t : t \in S}
<1>1. MaxTime \in Nat
  BY BackgroundAssumption DEF BackgroundAssumption, StorageAssumption
<1>0. \A t \in S : t \in Nat /\ MaxTime - t \in gap /\ MaxTime - t \in Nat
  BY <1>1 DEF Chunks
<1>2. gap \in SUBSET Nat /\ gap # {}
  BY <1>0
<1>3. PICK n \in gap : \A m \in gap : n <= m
  BY <1>2, LeastNatural
<1>4. PICK t \in S : n = MaxTime - t
  OBVIOUS
<1> HIDE DEF gap
<1>5. \A u \in S : t >= u
  BY <1>0, <1>1, <1>3, <1>4
<1> QED
  BY <1>5 DEF Max

-----------------------------------------------------------------------------
\* The running sum exists, and is what its definition says.
LEMMA UpToDefined ==
  ASSUME NEW s
  PROVE  UpTo(s) = [t \in 0 .. MaxTime |-> IF t = 0 THEN 0 ELSE UpTo(s)[t - 1] + s[t]]
<1> DEFINE Sums(f, n) == f = [t \in 0 .. n |-> IF t = 0 THEN 0 ELSE f[t - 1] + s[t]]
           P == {n \in 0 .. MaxTime : \E f : Sums(f, n)}
<1>0. MaxTime \in Nat
  BY BackgroundAssumption DEF BackgroundAssumption, StorageAssumption
<1>1. 0 \in P
  <2>1. Sums([t \in 0 .. 0 |-> 0], 0)
    OBVIOUS
  <2> HIDE DEF Sums
  <2>2. \E f : Sums(f, 0)
    BY <2>1
  <2> QED
    BY <1>0, <2>2
<1>2. ASSUME NEW n \in 0 .. MaxTime, n + 1 \in 0 .. MaxTime, n \in P
      PROVE  n + 1 \in P
  <2>1. PICK f : Sums(f, n)
    BY <1>2
  <2> DEFINE g == [t \in 0 .. n + 1 |-> IF t <= n THEN f[t] ELSE f[n] + s[n + 1]]
  <2>2. ASSUME NEW t \in 0 .. n + 1
        PROVE  g[t] = IF t = 0 THEN 0 ELSE g[t - 1] + s[t]
    <3>1. CASE t = n + 1
      BY <1>0, <3>1
    <3>2. CASE t <= n
      <4>1. f[t] = IF t = 0 THEN 0 ELSE f[t - 1] + s[t]
        BY <2>1, <3>2
      <4> QED
        BY <3>2, <4>1
    <3> QED
      BY <3>1, <3>2
  <2>3. g = [t \in 0 .. n + 1 |-> g[t]]
    OBVIOUS
  <2> HIDE DEF g
  <2>4. Sums(g, n + 1)
    BY <2>2, <2>3
  <2> QED
    BY <1>2, <2>4
<1> HIDE DEF P
<1>3. MaxTime \in P
  BY <1>0, <1>1, <1>2, UpFromZero
<1>4. \E f : Sums(f, MaxTime)
  BY <1>3 DEF P
<1> QED
  BY <1>4 DEF UpTo

\* Chunk by chunk.
LEMMA UpToSteps ==
  ASSUME NEW s \in [Chunks -> Nat]
  PROVE  /\ MaxTime \in Nat
         /\ UpTo(s)[0] = 0
         /\ \A t \in Chunks : UpTo(s)[t] = UpTo(s)[t - 1] + s[t]
         /\ \A t \in 0 .. MaxTime : UpTo(s)[t] \in Nat
<1> DEFINE P == {n \in 0 .. MaxTime : UpTo(s)[n] \in Nat}
<1>0. MaxTime \in Nat
  BY BackgroundAssumption DEF BackgroundAssumption, StorageAssumption
<1>1. UpTo(s)[0] = 0 /\ \A t \in Chunks : UpTo(s)[t] = UpTo(s)[t - 1] + s[t]
  <2> DEFINE u == UpTo(s)
  <2>1. u = [t \in 0 .. MaxTime |-> IF t = 0 THEN 0 ELSE u[t - 1] + s[t]]
    BY UpToDefined
  <2> HIDE DEF u
  <2>2. u[0] = 0 /\ \A t \in Chunks : u[t] = u[t - 1] + s[t]
    BY <1>0, <2>1 DEF Chunks
  <2> QED
    BY <2>2 DEF u
<1>2. 0 \in P
  BY <1>0, <1>1
<1>3. ASSUME NEW n \in 0 .. MaxTime, n + 1 \in 0 .. MaxTime, n \in P
      PROVE  n + 1 \in P
  <2>1. n + 1 \in Chunks /\ (n + 1) - 1 = n
    BY <1>0, <1>3 DEF Chunks
  <2>2. UpTo(s)[n + 1] = UpTo(s)[n] + s[n + 1] /\ s[n + 1] \in Nat
    BY <1>1, <2>1
  <2> QED
    BY <1>3, <2>2
<1> HIDE DEF P
<1>4. 0 .. MaxTime \subseteq P
  BY <1>0, <1>2, <1>3, UpFromZero
<1> QED
  BY <1>0, <1>1, <1>4 DEF P

\* No chunk takes more than all of them.
LEMMA ChunkWithinTotal ==
  ASSUME NEW s \in [Chunks -> Nat], NEW t \in Chunks
  PROVE  s[t] <= UpTo(s)[t] /\ UpTo(s)[t] <= Total(s)
<1> DEFINE P == {n \in 0 .. MaxTime : t <= n => UpTo(s)[t] <= UpTo(s)[n]}
<1>1. MaxTime \in Nat /\ t \in Nat \ {0} /\ t <= MaxTime
  BY UpToSteps DEF Chunks
<1>2. 0 \in P
  BY <1>1
<1>3. ASSUME NEW n \in 0 .. MaxTime, n + 1 \in 0 .. MaxTime, n \in P
      PROVE  n + 1 \in P
  <2>1. n + 1 \in Chunks /\ (n + 1) - 1 = n
    BY <1>1, <1>3 DEF Chunks
  <2>2. UpTo(s)[n + 1] = UpTo(s)[n] + s[n + 1] /\ s[n + 1] \in Nat
    BY <2>1, UpToSteps
  <2>3. UpTo(s)[n] \in Nat /\ UpTo(s)[t] \in Nat
    BY <1>1, UpToSteps
  <2>4. CASE t <= n
    BY <1>3, <2>2, <2>3, <2>4
  <2>5. CASE t = n + 1
    BY <1>1, <1>3, <2>2, <2>3, <2>5
  <2> QED
    BY <1>1, <1>3, <2>4, <2>5
<1> HIDE DEF P
<1>4. MaxTime \in P
  BY <1>1, <1>2, <1>3, UpFromZero
<1>5. UpTo(s)[t] = UpTo(s)[t - 1] + s[t] /\ UpTo(s)[t - 1] \in Nat /\ s[t] \in Nat
  BY <1>1, UpToSteps
<1> QED
  BY <1>1, <1>4, <1>5 DEF P, Total

\* What is written adds one unit, to its chunk and all above it.
LEMMA UpToWrite ==
  ASSUME NEW s \in [Chunks -> Nat], NEW r \in [Chunks -> Nat], NEW u \in Chunks,
         r = [s EXCEPT ![u] = @ + 1]
  PROVE  \A t \in 0 .. MaxTime : UpTo(r)[t] = UpTo(s)[t] + (IF u <= t THEN 1 ELSE 0)
<1> DEFINE P == {n \in 0 .. MaxTime : UpTo(r)[n] = UpTo(s)[n] + (IF u <= n THEN 1 ELSE 0)}
<1>1. MaxTime \in Nat /\ u \in Nat \ {0} /\ UpTo(s)[0] = 0 /\ UpTo(r)[0] = 0
  <2>1. MaxTime \in Nat /\ UpTo(s)[0] = 0
    BY UpToSteps
  <2>2. UpTo(r)[0] = 0
    BY UpToSteps
  <2> QED
    BY <2>1, <2>2 DEF Chunks
<1>2. 0 \in P
  <2>1. UpTo(r)[0] = UpTo(s)[0] + (IF u <= 0 THEN 1 ELSE 0) /\ 0 \in 0 .. MaxTime
    BY <1>1
  <2> QED
    BY <2>1
<1>3. ASSUME NEW n \in 0 .. MaxTime, n + 1 \in 0 .. MaxTime, n \in P
      PROVE  n + 1 \in P
  <2>1. n + 1 \in Chunks /\ (n + 1) - 1 = n
    BY <1>1, <1>3 DEF Chunks
  <2>2. /\ UpTo(s)[n + 1] = UpTo(s)[n] + s[n + 1] /\ s[n + 1] \in Nat
        /\ UpTo(r)[n + 1] = UpTo(r)[n] + r[n + 1]
        /\ UpTo(s)[n] \in Nat
    BY <2>1, UpToSteps
  <2>3. r[n + 1] = IF u = n + 1 THEN s[n + 1] + 1 ELSE s[n + 1]
    BY <2>1
  <2> QED
    BY <1>1, <1>3, <2>2, <2>3
<1> HIDE DEF P
<1>4. 0 .. MaxTime \subseteq P
  BY <1>1, <1>2, <1>3, UpFromZero
<1> QED
  BY <1>4 DEF P

\* Without the chunks up to j, there is what they took less.
LEMMA UpToDrop ==
  ASSUME NEW s \in [Chunks -> Nat], NEW j \in 0 .. MaxTime
  PROVE  LET r == [u \in Chunks |-> IF u <= j THEN 0 ELSE s[u]] IN
           \A t \in 0 .. MaxTime :
             UpTo(r)[t] = IF t <= j THEN 0 ELSE UpTo(s)[t] - UpTo(s)[j]
<1> DEFINE r == [u \in Chunks |-> IF u <= j THEN 0 ELSE s[u]]
           P == {n \in 0 .. MaxTime :
                   UpTo(r)[n] = IF n <= j THEN 0 ELSE UpTo(s)[n] - UpTo(s)[j]}
<1>1. MaxTime \in Nat /\ j \in Nat /\ r \in [Chunks -> Nat] /\ UpTo(s)[j] \in Nat
  BY UpToSteps DEF Chunks
<1>5. \A u \in Chunks : r[u] = IF u <= j THEN 0 ELSE s[u]
  OBVIOUS
<1> HIDE DEF r
<1>2. 0 \in P
  BY <1>1, UpToSteps
<1>3. ASSUME NEW n \in 0 .. MaxTime, n + 1 \in 0 .. MaxTime, n \in P
      PROVE  n + 1 \in P
  <2>1. n + 1 \in Chunks /\ (n + 1) - 1 = n
    BY <1>1, <1>3 DEF Chunks
  <2>2. /\ UpTo(s)[n + 1] = UpTo(s)[n] + s[n + 1] /\ s[n + 1] \in Nat
        /\ UpTo(r)[n + 1] = UpTo(r)[n] + r[n + 1]
        /\ UpTo(s)[n] \in Nat
    BY <1>1, <2>1, UpToSteps
  <2>3. r[n + 1] = IF n + 1 <= j THEN 0 ELSE s[n + 1]
    BY <1>5, <2>1
  <2>4. CASE n + 1 <= j
    BY <1>1, <1>3, <2>2, <2>3, <2>4
  <2>5. CASE n = j
    BY <1>1, <1>3, <2>2, <2>3, <2>5
  <2>6. CASE j < n
    BY <1>1, <1>3, <2>2, <2>3, <2>6
  <2> QED
    BY <1>1, <1>3, <2>4, <2>5, <2>6
<1> HIDE DEF P
<1>4. 0 .. MaxTime \subseteq P
  BY <1>1, <1>2, <1>3, UpFromZero
<1> QED
  BY <1>4 DEF P, r

-----------------------------------------------------------------------------
\* What the disk holds, where the enforcer is, and what it may rely on there: the
\* size it read is over the budget; as long as the retention job keeps out of the way,
\* the table holds that much or more, the chunks that are to go are enough for all but
\* what was written since, and without the newest of them they would not be.
DiskInv ==
  /\ size \in [Chunks -> Nat] /\ grown \in 0 .. MaxGrowth /\ Total(size) <= grown
  /\ pc \in Places
  /\ pc \in {"size", "list", "drop"} =>
       /\ tick = [budget |-> tick.budget, total |-> tick.total, cutoff |-> tick.cutoff]
       /\ tick.budget \in Int
  /\ pc = "list" => /\ tick.total \in Nat /\ tick.total > tick.budget
                    /\ ~ retired => Total(size) >= tick.total
  /\ pc = "drop" =>
       /\ tick.cutoff \in Chunks /\ tick.total \in Nat
       /\ ~ retired => Total(DropUpTo(tick.cutoff - 1)) > Target(tick.budget)
       /\ ~ retired /\ tick.budget >= 0 =>
            Total(DropUpTo(tick.cutoff)) <= Target(tick.budget) + (Total(size) - tick.total)

\* The selection takes a chunk only if what is left with it is above the target.
LEMMA SelectedIsNeeded ==
  ASSUME NEW s \in [Chunks -> Nat], NEW total \in Nat, NEW budget \in Int, total > budget,
         NEW cutoff, cutoff = SelectChunks(total, budget, s), cutoff # None
  PROVE  /\ cutoff \in Chunks
         /\ Total(s) >= total => Total(s) - UpTo(s)[cutoff - 1] > Target(budget)
<1> DEFINE over == {t \in Present(s) : total - UpTo(s)[t - 1] > Target(budget)}
           goes == CASE budget <= 0 -> Present(s)
                     [] budget > 0 /\ total <= budget -> {}
                     [] OTHER -> over
<1>1. cutoff = IF goes = {} THEN None ELSE Max(goes)
  BY DEF SelectChunks
<1>2. IF budget <= 0 THEN goes = Present(s) ELSE goes = over
  OBVIOUS
<1>3. goes \in SUBSET Chunks
  BY <1>2 DEF Present
<1> HIDE DEF goes
<1>4. cutoff \in goes
  BY <1>1, <1>3, MaxOfChunks
<1>5. cutoff \in Chunks /\ MaxTime \in Nat
  BY <1>3, <1>4, UpToSteps
<1>6. ASSUME Total(s) >= total PROVE Total(s) - UpTo(s)[cutoff - 1] > Target(budget)
  <2>1. /\ cutoff - 1 \in 0 .. MaxTime /\ cutoff \in 0 .. MaxTime /\ MaxTime \in 0 .. MaxTime
    BY <1>5 DEF Chunks
  <2>2. UpTo(s)[cutoff - 1] \in Nat /\ Total(s) \in Nat
    BY <2>1, UpToSteps DEF Total
  <2>3. CASE budget <= 0
    <3>1. s[cutoff] > 0 /\ s[cutoff] \in Nat
      BY <1>2, <1>4, <1>5, <2>3 DEF Present
    <3>2. UpTo(s)[cutoff] = UpTo(s)[cutoff - 1] + s[cutoff] /\ UpTo(s)[cutoff] <= Total(s)
      BY <1>5, UpToSteps, ChunkWithinTotal
    <3>3. Target(budget) <= 0 /\ Target(budget) \in Int
      BY <2>3 DEF Target
    <3> QED
      BY <2>2, <3>1, <3>2, <3>3
  <2>4. CASE ~ (budget <= 0)
    <3>1. total - UpTo(s)[cutoff - 1] > Target(budget) /\ Target(budget) \in Int
      BY <1>2, <1>4, <2>4 DEF Target
    <3> QED
      BY <1>6, <2>2, <3>1
  <2> QED
    BY <2>3, <2>4
<1> QED
  BY <1>5, <1>6

\* Chunks of which there are none add nothing.
LEMMA UpToFlat ==
  ASSUME NEW s \in [Chunks -> Nat], NEW c \in 0 .. MaxTime, NEW d \in 0 .. MaxTime, c <= d,
         \A u \in Chunks : c < u /\ u <= d => s[u] = 0
  PROVE  UpTo(s)[d] = UpTo(s)[c]
<1> DEFINE P == {n \in 0 .. MaxTime : c <= n /\ n <= d => UpTo(s)[n] = UpTo(s)[c]}
<1>1. MaxTime \in Nat /\ \A n \in 0 .. MaxTime : UpTo(s)[n] \in Nat
  BY UpToSteps
<1>2. 0 \in P
  BY <1>1
<1>3. ASSUME NEW n \in 0 .. MaxTime, n + 1 \in 0 .. MaxTime, n \in P
      PROVE  n + 1 \in P
  <2>1. n + 1 \in Chunks /\ (n + 1) - 1 = n
    BY <1>1, <1>3 DEF Chunks
  <2>2. UpTo(s)[n + 1] = UpTo(s)[n] + s[n + 1]
    BY <2>1, UpToSteps
  <2>3. CASE c <= n /\ n + 1 <= d
    <3>1. UpTo(s)[n] = UpTo(s)[c]
      BY <1>1, <1>3, <2>3
    <3>2. s[n + 1] = 0
      BY <1>1, <2>1, <2>3
    <3> QED
      BY <1>1, <1>3, <2>2, <3>1, <3>2
  <2>4. CASE c = n + 1 \/ ~ (c <= n + 1 /\ n + 1 <= d)
    BY <1>3, <2>4
  <2> QED
    BY <1>1, <1>3, <2>3, <2>4
<1> HIDE DEF P
<1>4. d \in P
  BY <1>1, <1>2, <1>3, UpFromZero
<1> QED
  BY <1>1, <1>4 DEF P

\* And what it takes is enough: with what it leaves, the table is within the target.
LEMMA SelectedIsEnough ==
  ASSUME NEW s \in [Chunks -> Nat], NEW total \in Nat, NEW budget \in Nat, total > budget,
         Total(s) >= total, NEW cutoff, cutoff = SelectChunks(total, budget, s)
  PROVE  cutoff # None /\ total - UpTo(s)[cutoff] <= Target(budget)
<1> DEFINE over == {t \in Present(s) : total - UpTo(s)[t - 1] > Target(budget)}
           goes == CASE budget <= 0 -> Present(s)
                     [] budget > 0 /\ total <= budget -> {}
                     [] OTHER -> over
<1>1. cutoff = IF goes = {} THEN None ELSE Max(goes)
  BY DEF SelectChunks
<1>2. over \subseteq goes /\ goes \in SUBSET Chunks
  BY DEF Present
<1> HIDE DEF goes
<1>3. /\ MaxTime \in Nat /\ cutoff \in 0 .. MaxTime /\ \A t \in goes : t <= cutoff
      /\ Target(budget) \in Nat /\ Target(budget) <= budget
  <2>1. Target(budget) \in Nat /\ Target(budget) <= budget
    BY DEF Target
  <2>2. CASE goes = {}
    BY <1>1, <2>1, <2>2, UpToSteps DEF None
  <2>3. CASE goes # {}
    <3>1. cutoff \in goes /\ \A t \in goes : t <= cutoff
      BY <1>1, <1>2, <2>3, MaxOfChunks
    <3> QED
      BY <1>2, <2>1, <3>1, UpToSteps DEF Chunks
  <2> QED
    BY <2>2, <2>3
<1>4. ASSUME total - UpTo(s)[cutoff] > Target(budget) PROVE FALSE
  <2> DEFINE later == {t \in Chunks : t > cutoff /\ s[t] > 0}
  <2>1. /\ UpTo(s)[cutoff] \in Nat /\ UpTo(s)[MaxTime] \in Nat /\ Total(s) = UpTo(s)[MaxTime]
        /\ later \in SUBSET Nat /\ MaxTime \in 0 .. MaxTime
    BY <1>3, UpToSteps DEF Total, Chunks
  <2>2. UpTo(s)[cutoff] < UpTo(s)[MaxTime]
    BY <1>3, <1>4, <2>1
  <2>3. CASE later = {}
    <3>1. \A u \in Chunks : cutoff < u /\ u <= MaxTime => s[u] = 0
      BY <1>3, <2>3 DEF Chunks
    <3>2. UpTo(s)[MaxTime] = UpTo(s)[cutoff]
      BY <1>3, <2>1, <3>1, UpToFlat
    <3> QED
      BY <2>1, <2>2, <3>2
  <2>4. CASE later # {}
    <3>1. PICK t \in later : \A u \in later : t <= u
      BY <2>1, <2>4, LeastNatural
    <3>2. /\ t \in Chunks /\ t > cutoff /\ s[t] > 0 /\ t - 1 \in 0 .. MaxTime /\ cutoff <= t - 1
          /\ t \in Nat
      BY <1>3, <3>1 DEF Chunks
    <3>3. \A u \in Chunks : cutoff < u /\ u <= t - 1 => s[u] = 0
      BY <1>3, <3>1, <3>2 DEF Chunks
    <3>4. UpTo(s)[t - 1] = UpTo(s)[cutoff]
      BY <1>3, <3>2, <3>3, UpToFlat
    <3>5. t \in over
      BY <1>4, <3>2, <3>4 DEF Present
    <3> HIDE DEF over
    <3>6. t <= cutoff
      BY <1>2, <1>3, <3>5
    <3> QED
      BY <1>3, <3>2, <3>6
  <2> QED
    BY <2>3, <2>4
<1>5. UpTo(s)[cutoff] \in Nat /\ UpTo(s)[0] = 0
  BY <1>3, UpToSteps
<1>6. total - UpTo(s)[cutoff] <= Target(budget)
  BY <1>3, <1>4, <1>5
<1> QED
  BY <1>3, <1>5, <1>6 DEF None

\* What is left, and what it takes.
LEMMA LeftAfter ==
  ASSUME NEW s \in [Chunks -> Nat], NEW j \in 0 .. MaxTime
  PROVE  LET r == [u \in Chunks |-> IF u <= j THEN 0 ELSE s[u]] IN
           /\ r \in [Chunks -> Nat]
           /\ UpTo(r)[MaxTime] = UpTo(s)[MaxTime] - UpTo(s)[j]
           /\ UpTo(r)[MaxTime] <= UpTo(s)[MaxTime]
<1> DEFINE r == [u \in Chunks |-> IF u <= j THEN 0 ELSE s[u]]
<1>1. r \in [Chunks -> Nat]
  OBVIOUS
<1>2. \A t \in 0 .. MaxTime : UpTo(r)[t] = IF t <= j THEN 0 ELSE UpTo(s)[t] - UpTo(s)[j]
  BY UpToDrop
<1> HIDE DEF r
<1>3. /\ MaxTime \in Nat /\ UpTo(s)[j] \in Nat /\ UpTo(s)[MaxTime] \in Nat
      /\ MaxTime \in 0 .. MaxTime
  BY UpToSteps
<1>4. UpTo(r)[MaxTime] = IF MaxTime <= j THEN 0 ELSE UpTo(s)[MaxTime] - UpTo(s)[j]
  BY <1>2, <1>3
<1>5. UpTo(r)[MaxTime] = UpTo(s)[MaxTime] - UpTo(s)[j]
  BY <1>3, <1>4
<1> QED
  BY <1>1, <1>3, <1>5 DEF r

\* The same of the table.
LEMMA Dropped ==
  ASSUME size \in [Chunks -> Nat], NEW j \in 0 .. MaxTime
  PROVE  /\ DropUpTo(j) \in [Chunks -> Nat]
         /\ Total(DropUpTo(j)) = Total(size) - UpTo(size)[j]
         /\ Total(DropUpTo(j)) <= Total(size)
BY LeftAfter DEF DropUpTo, Total

\* The disk starts in its invariant: nothing is written, and no tick is under way.
LEMMA DiskStart == Init => DiskInv
<1> SUFFICES ASSUME Init PROVE DiskInv
  OBVIOUS
<1>1. MaxTime \in Nat /\ MaxGrowth \in Nat
  BY BackgroundAssumption DEF BackgroundAssumption, StorageAssumption
<1>2. size \in [Chunks -> Nat] /\ \A t \in Chunks : size[t] = 0
  BY DEF Init
<1>3. Total(size) = 0
  <2> DEFINE P == {n \in 0 .. MaxTime : UpTo(size)[n] = 0}
  <2>1. 0 \in P
    BY <1>1, <1>2, UpToSteps
  <2>2. ASSUME NEW n \in 0 .. MaxTime, n + 1 \in 0 .. MaxTime, n \in P
        PROVE  n + 1 \in P
    <3>1. n + 1 \in Chunks /\ (n + 1) - 1 = n
      BY <1>1, <2>2 DEF Chunks
    <3>2. UpTo(size)[n + 1] = UpTo(size)[n] + size[n + 1]
      BY <1>2, <3>1, UpToSteps
    <3> QED
      BY <1>2, <2>2, <3>1, <3>2
  <2> HIDE DEF P
  <2>3. MaxTime \in P
    BY <1>1, <2>1, <2>2, UpFromZero
  <2> QED
    BY <2>3 DEF P, Total
<1> QED
  BY <1>1, <1>2, <1>3 DEF Init, DiskInv, Places

\* Telemetry that is written.
LEMMA WriteKeeps ==
  ASSUME DiskInv, NEW t \in Chunks, Write(t)
  PROVE  DiskInv'
<1>1. /\ size \in [Chunks -> Nat] /\ size' \in [Chunks -> Nat] /\ size' = [size EXCEPT ![t] = @ + 1]
      /\ grown' = grown + 1 /\ grown' \in 0 .. MaxGrowth
      /\ pc' = pc /\ tick' = tick /\ retired' = retired
  BY BackgroundAssumption DEF Write, DiskInv, BackgroundAssumption, StorageAssumption
<1>2. MaxTime \in Nat /\ MaxTime \in 0 .. MaxTime /\ t <= MaxTime /\ t \in Nat
  BY <1>1, UpToSteps DEF Chunks
<1>3. /\ \A u \in 0 .. MaxTime : UpTo(size')[u] = UpTo(size)[u] + (IF t <= u THEN 1 ELSE 0)
      /\ \A u \in 0 .. MaxTime : UpTo(size)[u] \in Nat
  BY <1>1, UpToWrite, UpToSteps
<1>4. Total(size') = Total(size) + 1 /\ Total(size) \in Nat
  BY <1>2, <1>3 DEF Total
<1>5. ASSUME pc = "drop", ~ retired
      PROVE  Total(DropUpTo(tick.cutoff - 1))' > Target(tick.budget)
  <2> DEFINE j == tick.cutoff - 1
  <2>1. j \in 0 .. MaxTime /\ Total(DropUpTo(j)) > Target(tick.budget) /\ tick.budget \in Int
    BY <1>2, <1>5 DEF DiskInv, Chunks
  <2>2. Total(DropUpTo(j)) = Total(size) - UpTo(size)[j]
    BY <1>1, <2>1, Dropped
  <2>3. Total(DropUpTo(j))' = Total(size') - UpTo(size')[j]
    <3> DEFINE r == [u \in Chunks |-> IF u <= j THEN 0 ELSE size'[u]]
    <3>1. UpTo(r)[MaxTime] = UpTo(size')[MaxTime] - UpTo(size')[j]
      BY <1>1, <2>1, LeftAfter
    <3>2. Total(DropUpTo(j))' = UpTo(r)[MaxTime]
      BY <1>1 DEF DropUpTo, Total
    <3> QED
      BY <3>1, <3>2 DEF Total
  <2>4. Target(tick.budget) \in Int
    BY <2>1 DEF Target
  <2>5. UpTo(size')[j] = UpTo(size)[j] + (IF t <= j THEN 1 ELSE 0) /\ UpTo(size)[j] \in Nat
    BY <1>3, <2>1
  <2> HIDE DEF j
  <2>6. Total(DropUpTo(j))' > Target(tick.budget)
    BY <1>4, <2>1, <2>2, <2>3, <2>4, <2>5
  <2> QED
    BY <1>1, <2>6 DEF j
<1>8. ASSUME pc = "drop", ~ retired, tick.budget >= 0
      PROVE  Total(DropUpTo(tick.cutoff))' <=
               Target(tick.budget) + (Total(size') - tick.total)
  <2> DEFINE j == tick.cutoff
  <2>1. /\ j \in 0 .. MaxTime /\ tick.budget \in Int /\ tick.total \in Nat
        /\ Total(DropUpTo(j)) <= Target(tick.budget) + (Total(size) - tick.total)
    BY <1>2, <1>8 DEF DiskInv, Chunks
  <2>2. Total(DropUpTo(j)) = Total(size) - UpTo(size)[j]
    BY <1>1, <2>1, Dropped
  <2>3. Total(DropUpTo(j))' = Total(size') - UpTo(size')[j]
    <3> DEFINE r == [u \in Chunks |-> IF u <= j THEN 0 ELSE size'[u]]
    <3>1. UpTo(r)[MaxTime] = UpTo(size')[MaxTime] - UpTo(size')[j]
      BY <1>1, <2>1, LeftAfter
    <3>2. Total(DropUpTo(j))' = UpTo(r)[MaxTime]
      BY <1>1 DEF DropUpTo, Total
    <3> QED
      BY <3>1, <3>2 DEF Total
  <2>4. Target(tick.budget) \in Int
    BY <2>1 DEF Target
  <2>5. UpTo(size')[j] = UpTo(size)[j] + (IF t <= j THEN 1 ELSE 0) /\ UpTo(size)[j] \in Nat
    BY <1>3, <2>1
  <2> HIDE DEF j
  <2>6. Total(DropUpTo(j))' <= Target(tick.budget) + (Total(size') - tick.total)
    BY <1>4, <2>1, <2>2, <2>3, <2>4, <2>5
  <2> QED
    BY <1>1, <2>6 DEF j
<1>6. Total(size') <= grown'
  BY <1>1, <1>4 DEF DiskInv
<1>7. pc = "list" /\ ~ retired => Total(size') >= tick.total
  BY <1>4 DEF DiskInv
<1> QED
  BY <1>1, <1>5, <1>6, <1>7, <1>8 DEF DiskInv

\* Chunks that go, in the retention job or in a tick that then sleeps.
LEMMA RetireKeeps ==
  ASSUME DiskInv, NEW t \in Chunks, size' = DropUpTo(t), grown' = grown,
         \/ retired' = TRUE /\ UNCHANGED <<pc, tick>>
         \/ pc' = "sleep"
  PROVE  DiskInv'
<1>1. t \in 0 .. MaxTime
  BY DEF Chunks
<1>2. size' \in [Chunks -> Nat] /\ Total(size') <= Total(size) /\ UpTo(size)[t] \in Nat
  BY <1>1, Dropped, UpToSteps DEF DiskInv
<1>3. Total(size) \in Nat /\ Total(size') \in Nat
  BY <1>2, UpToSteps DEF Total, DiskInv
<1>4. Total(size') <= grown'
  BY <1>2, <1>3 DEF DiskInv
<1> QED
  BY <1>2, <1>4 DEF DiskInv, Places

\* The enforcer's own steps that leave the table alone.
LEMMA EnforcerKeeps ==
  ASSUME SettingsInv, DiskInv, UNCHANGED <<size, grown>>,
         Ingestor \/ TickFails \/ IngestorRestarts \/ ApiRestarts \/ UNCHANGED disk
  PROVE  DiskInv'
<1> USE DEF DiskInv, Places
<1>1. ASSUME NEW c, GoOn(c), CacheTyped(c) PROVE DiskInv'
  <2>1. Budget(c) \in Int
    BY <1>1 DEF CacheTyped, Budget, Keys
  <2> QED
    BY <1>1, <2>1 DEF GoOn
<1>2. CASE FinishReload
  <2>1. load["ingestor"] # Absent /\ cache'["ingestor"] = Effective(load["ingestor"])
    BY <1>2 DEF FinishReload, ReloadStore, SettingsInv, Caches
  <2>2. CacheTyped(cache'["ingestor"])
    BY <2>1, EffectiveIsTyped DEF SettingsInv, Caches
  <2> QED
    BY <1>1, <1>2, <2>2 DEF FinishReload
<1>3. CASE UseCache
  <2>1. CacheTyped(cache["ingestor"])
    BY <1>3 DEF UseCache, SettingsInv, Caches
  <2> QED
    BY <1>1, <1>3, <2>1 DEF UseCache
<1>4. CASE StartReload \/ ApiRestarts \/ UNCHANGED disk
  BY <1>4 DEF StartReload, ApiRestarts, disk, DropUpTo
<1>5. CASE ApplyPolicies \/ Wake \/ TickFails \/ IngestorRestarts
  BY <1>5 DEF ApplyPolicies, Wake, TickFails, IngestorRestarts
<1>6. CASE Measure
  <2>1. Total(size) \in Nat
    BY UpToSteps DEF Total
  <2> QED
    BY <1>6, <2>1 DEF Measure
<1>7. CASE ListChunks
  <2>1. pc = "list" /\ retired' = retired
    BY <1>7 DEF ListChunks
  <2>2. CASE pc' = "sleep" /\ UNCHANGED tick
    BY <2>1, <2>2
  <2>3. CASE LET cutoff == SelectChunks(tick.total, tick.budget, size) IN
               /\ tick' = [tick EXCEPT !.cutoff = cutoff]
               /\ pc' = IF cutoff = None THEN "sleep" ELSE "drop"
    <3> DEFINE cutoff == SelectChunks(tick.total, tick.budget, size)
    <3>1. /\ pc = "list" /\ tick' = [tick EXCEPT !.cutoff = cutoff]
          /\ pc' = IF cutoff = None THEN "sleep" ELSE "drop"
          /\ retired' = retired
      BY <2>1, <2>3
    <3>2. cutoff # None =>
            /\ cutoff \in Chunks
            /\ ~ retired => Total(size) - UpTo(size)[cutoff - 1] > Target(tick.budget)
      BY <3>1, SelectedIsNeeded
    <3>3. ~ retired /\ tick.budget >= 0 =>
            tick.total - UpTo(size)[cutoff] <= Target(tick.budget)
      BY <3>1, SelectedIsEnough
    <3>4. /\ tick'.budget = tick.budget /\ tick'.total = tick.total /\ tick'.cutoff = cutoff
          /\ tick' = [budget |-> tick.budget, total |-> tick.total, cutoff |-> cutoff]
      BY <3>1
    <3> HIDE DEF cutoff
    <3>5. CASE cutoff = None
      BY <3>1, <3>4, <3>5
    <3>6. CASE cutoff # None
      <4>1. cutoff - 1 \in 0 .. MaxTime /\ cutoff \in 0 .. MaxTime
        BY <3>2, <3>6, UpToSteps DEF Chunks
      <4>2. /\ Total(DropUpTo(cutoff - 1)) = Total(size) - UpTo(size)[cutoff - 1]
            /\ Total(DropUpTo(cutoff)) = Total(size) - UpTo(size)[cutoff]
        BY <4>1, Dropped
      <4>3. /\ Total(DropUpTo(tick.cutoff - 1))' = Total(DropUpTo(cutoff - 1))
            /\ Total(DropUpTo(tick.cutoff))' = Total(DropUpTo(cutoff))
        BY <3>4 DEF DropUpTo, Total
      <4>4. /\ Total(size) \in Nat /\ UpTo(size)[cutoff] \in Nat /\ tick.total \in Nat
            /\ Target(tick.budget) \in Int
        BY <3>1, <4>1, UpToSteps DEF Total, Target
      <4>5. ~ retired /\ tick.budget >= 0 =>
              Total(DropUpTo(cutoff)) <= Target(tick.budget) + (Total(size) - tick.total)
        BY <3>3, <4>2, <4>4
      <4> QED
        BY <3>1, <3>2, <3>4, <3>6, <4>2, <4>3, <4>4, <4>5
    <3> QED
      BY <3>5, <3>6
  <2> QED
    BY <1>7, <2>2, <2>3 DEF ListChunks
<1>8. CASE DropChunks
  BY <1>8 DEF DropChunks
<1> QED
  BY <1>2, <1>3, <1>4, <1>5, <1>6, <1>7, <1>8 DEF Ingestor

\* Every step of the composition keeps the disk's invariant.
LEMMA DiskKept ==
  ASSUME SettingsInv, DiskInv, [BackgroundNext]_backgroundVars
  PROVE  DiskInv'
<1>1. CASE UNCHANGED disk
  BY <1>1, EnforcerKeeps DEF disk
<1>2. CASE UNCHANGED backgroundVars \/ UNCHANGED storage
  <2>1. UNCHANGED <<size, grown, pc, tick, retired>>
    BY <1>2 DEF backgroundVars, storage
  <2>2. \A j : DropUpTo(j)' = DropUpTo(j)
    BY <2>1 DEF DropUpTo
  <2> QED
    BY <2>1, <2>2 DEF DiskInv
<1>3. CASE Next
  <2>1. ASSUME NEW t \in Chunks, Write(t) PROVE DiskInv'
    BY <2>1, WriteKeeps
  <2>2. ASSUME NEW t \in Chunks, Retire(t) PROVE DiskInv'
    BY <2>2, RetireKeeps DEF Retire
  <2>3. CASE DropChunks
    BY <2>3, RetireKeeps DEF DropChunks, DiskInv
  <2>4. CASE Ingestor /\ ~ DropChunks
    BY <2>4, EnforcerKeeps DEF Ingestor, StartReload, FinishReload, UseCache, GoOn, ApplyPolicies,
                              Wake, Measure, ListChunks, disk
  <2>5. CASE TickFails \/ IngestorRestarts \/ ApiRestarts
    BY <2>5, EnforcerKeeps DEF TickFails, IngestorRestarts, ApiRestarts
  <2>6. CASE (Api /\ UNCHANGED disk) \/ CacheExpires
    BY <1>1, <2>6 DEF CacheExpires
  <2> QED
    BY <1>3, <2>1, <2>2, <2>3, <2>4, <2>5, <2>6 DEF Next
<1> QED
  BY <1>1, <1>2, <1>3 DEF BackgroundNext, InStorage, InRegistration, InTelegram, InSchema

\* So the disk's invariant holds of every behaviour.
LEMMA DiskAlways == BackgroundSpec => []DiskInv
<1>1. BackgroundInit => DiskInv
  BY DiskStart DEF BackgroundInit
<1>2. SettingsInv /\ DiskInv /\ [BackgroundNext]_backgroundVars => DiskInv'
  BY DiskKept
<1> QED
  BY <1>1, <1>2, SettingsAlways, PTL DEF BackgroundSpec

(***************************************************************************)
(* The disk-budget enforcer drops just enough: without the newest chunk it *)
(* drops the table would be above 95% of the budget, and what it leaves is *)
(* within that, but for what was written after the size was measured.      *)
(* By DiskInv, whichever edits, failed ticks and restarts there were.      *)
(***************************************************************************)
THEOREM JustEnoughIsDropped == BackgroundSpec => DropsJustEnough
<1>1. DiskInv => [DropChunks /\ ~ retired =>
                    /\ Total(DropUpTo(tick.cutoff - 1)) > Target(tick.budget)
                    /\ tick.budget >= 0 =>
                         Total(size') <= Target(tick.budget) + (Total(size) - tick.total)]_vars
  BY DEF DiskInv, DropChunks
<1> QED
  BY <1>1, DiskAlways, PTL DEF DropsJustEnough

-----------------------------------------------------------------------------
\* The registrations' tables are of their shape, and each row's parent is there.
RowsLinked(t) ==
  /\ t = [x \in R!Rows |-> t[x]]
  /\ \A x \in R!Rows : t[x] # Absent =>
       /\ t[x] = [says |-> t[x].says, parent |-> t[x].parent]
       /\ t[x].says \in 1 .. MaxStarts /\ t[x].parent \in R!Rows \cup {Absent}
       /\ t[x].parent = Absent \/ t[t[x].parent] # Absent

RegistrationInv ==
  /\ R!StreamTypeOK /\ RowsLinked(row)
  /\ starts \in 0 .. MaxStarts /\ next \in 1 .. Len(Catalogue) + 1
  /\ reader \in {"ensure", "read", "handle", "ack"} /\ batch \subseteq R!Published
  /\ (reader \in {"handle", "ack"}) <=> (batch # {})
  /\ clean \in BOOLEAN

\* The registrations' invariant implies their type invariant.
LEMMA RegistrationTyped == RegistrationInv /\ faults \in 0 .. MaxFaults => R!TypeOK
BY DEF RegistrationInv, RowsLinked, R!TypeOK, R!Exists

\* What the instance assumes of the registrations.
LEMMA RegistrationAssumed ==
  /\ R!RegistrationAssumption
  /\ BatchSize \in Nat \ {0} /\ MaxStarts \in Nat \ {0} /\ MaxFaults \in Nat
  /\ MaxEntries \in Nat
<1>1. R!RegistrationAssumption
  BY BackgroundAssumption DEF BackgroundAssumption
<1>2. /\ Len(Catalogue) \in Nat /\ MaxStarts \in Nat \ {0} /\ BatchSize \in Nat \ {0}
      /\ MaxFaults \in Nat /\ MaxEntries = MaxStarts * Len(Catalogue)
  BY <1>1 DEF R!RegistrationAssumption
<1> QED
  BY <1>1, <1>2

\* The registrations start in their invariant: no row is there yet.
LEMMA RegistrationStart == R!Init => RegistrationInv
<1> SUFFICES ASSUME R!Init PROVE RegistrationInv
  OBVIOUS
<1> USE RegistrationAssumed
<1>1. R!StreamTypeOK
  <2>1. log \in Seq(Payloads) /\ Len(log) = 0 /\ base = 0 /\ last = 0 /\ pel = {} /\ created = FALSE
    BY DEF R!Init, R!StreamInit
  <2>2. Len(log) <= MaxEntries /\ base \in 0 .. Len(log) /\ last \in base .. Len(log)
    BY <2>1
  <2>3. pel \subseteq base + 1 .. last
    BY <2>1
  <2> QED
    BY <2>1, <2>2, <2>3 DEF R!StreamTypeOK
<1>2. RowsLinked(row)
  BY DEF R!Init, RowsLinked
<1>3. next \in 1 .. Len(Catalogue) + 1
  BY DEF R!Init, R!RegistrationAssumption
<1>4. starts \in 0 .. MaxStarts /\ reader = "ensure" /\ batch = {} /\ clean = FALSE
  BY DEF R!Init
<1> QED
  BY <1>1, <1>2, <1>3, <1>4 DEF RegistrationInv

\* As in RedisStreamProofs, for this stream: the operations keep it well formed.
LEMMA StreamKept ==
  ASSUME R!StreamTypeOK,
         \/ \E p \in Payloads : R!XAdd(p)
         \/ R!EnsureConsumerGroup
         \/ R!XReadGroup(BatchSize)
         \/ \E S : R!XAck(S)
         \/ R!LoseStream
         \/ UNCHANGED <<log, base, created, last, pel>>
  PROVE  /\ R!StreamTypeOK'
         /\ R!Published \subseteq R!Published' /\ \A i \in R!Published : log'[i] = log[i]
<1> USE RegistrationAssumed DEF R!StreamTypeOK, R!Published
<1>1. CASE \E p \in Payloads : R!XAdd(p)
  BY <1>1 DEF R!XAdd
<1>2. CASE R!EnsureConsumerGroup
  BY <1>2 DEF R!EnsureConsumerGroup
<1>3. CASE R!XReadGroup(BatchSize)
  <2>1. last < Len(log)
    BY <1>3 DEF R!XReadGroup, R!Waiting
  <2>2. last' \in base .. Len(log) /\ last < last'
    BY <1>3, <2>1 DEF R!XReadGroup
  <2>3. pel' = pel \cup last + 1 .. last'
    BY <1>3 DEF R!XReadGroup, R!Batch
  <2>4. log' = log /\ base' = base /\ created' = TRUE
    BY <1>3 DEF R!XReadGroup
  <2>5. pel' \subseteq base' + 1 .. last'
    BY <2>2, <2>3, <2>4
  <2> QED
    BY <2>2, <2>4, <2>5
<1>4. CASE \E S : R!XAck(S)
  <2>1. pel' \subseteq pel /\ log' = log /\ base' = base /\ last' = last /\ created' = created
    BY <1>4 DEF R!XAck
  <2> QED
    BY <2>1
<1>5. CASE R!LoseStream
  <2>1. log' = log /\ base' = Len(log) /\ last' = Len(log) /\ created' = FALSE /\ pel' = {}
    BY <1>5 DEF R!LoseStream
  <2>2. base' \in 0 .. Len(log') /\ last' \in base' .. Len(log')
    BY <2>1
  <2> QED
    BY <2>1, <2>2
<1>6. CASE UNCHANGED <<log, base, created, last, pel>>
  BY <1>6
<1> QED
  BY <1>1, <1>2, <1>3, <1>4, <1>5, <1>6

\* A read finds something.
LEMMA ReadFinds ==
  ASSUME R!StreamTypeOK, R!XReadGroup(BatchSize)
  PROVE  R!Batch(BatchSize) # {} /\ R!Batch(BatchSize) \subseteq R!Published'
<1> USE RegistrationAssumed DEF R!StreamTypeOK, R!Published
<1>1. last < Len(log) /\ log' = log
  BY DEF R!XReadGroup, R!Waiting
<1>2. last + 1 \in R!Batch(BatchSize)
  BY <1>1 DEF R!Batch
<1> QED
  BY <1>1, <1>2 DEF R!Batch

\* The message at hand is one of the batch.
LEMMA OldestIsHeld ==
  ASSUME RegistrationInv, batch # {}
  PROVE  R!Oldest \in batch /\ log[R!Oldest] \in R!Messages
<1>1. batch \in SUBSET Nat /\ batch \subseteq R!Published
  BY DEF RegistrationInv, R!Published
<1>2. R!Oldest \in batch
  BY <1>1, LeastNatural DEF R!Oldest
<1>3. log \in Seq(R!Messages)
  BY RegistrationAssumed DEF RegistrationInv, R!StreamTypeOK, R!RegistrationAssumption
<1> QED
  BY <1>1, <1>2, <1>3 DEF R!Published

\* An upsert keeps the foreign keys.
LEMMA UpsertKeeps ==
  ASSUME RowsLinked(row), NEW m \in R!Messages
  PROVE  RowsLinked(R!Upsert(m))
<1> DEFINE t == R!Upsert(m)
<1>1. m.row \in R!Rows /\ m.says \in 1 .. MaxStarts
  BY DEF R!Messages
<1>2. CASE row[m.row] # Absent
  <2>1. t = [row EXCEPT ![m.row].says = m.says]
    BY <1>2 DEF R!Upsert, R!Exists
  <2>2. /\ \A x \in R!Rows : x # m.row => t[x] = row[x]
        /\ t[m.row] = [says |-> m.says, parent |-> row[m.row].parent]
        /\ t = [x \in R!Rows |-> t[x]]
    BY <1>1, <1>2, <2>1 DEF RowsLinked
  <2>3. row[m.row].parent \in R!Rows \cup {Absent}
    BY <1>1, <1>2 DEF RowsLinked
  <2>4. t[m.row] # Absent
    BY <1>1, <2>2, <2>3, RegistrationAssumed DEF R!RegistrationAssumption
  <2> HIDE DEF t
  <2>5. ASSUME NEW x \in R!Rows, t[x] # Absent
        PROVE  /\ t[x] = [says |-> t[x].says, parent |-> t[x].parent]
               /\ t[x].says \in 1 .. MaxStarts /\ t[x].parent \in R!Rows \cup {Absent}
               /\ t[x].parent = Absent \/ t[t[x].parent] # Absent
    BY <1>1, <1>2, <2>2, <2>3, <2>4, <2>5 DEF RowsLinked
  <2>6. RowsLinked(t)
    BY <2>2, <2>5 DEF RowsLinked
  <2> QED
    BY <2>6 DEF t
<1>3. CASE row[m.row] = Absent /\ Parent[m.row] # Absent /\ row[Parent[m.row]] = Absent
  BY <1>3 DEF R!Upsert, R!Exists
<1>4. CASE row[m.row] = Absent /\ (Parent[m.row] = Absent \/ row[Parent[m.row]] # Absent)
  <2>1. t = [row EXCEPT ![m.row] = [says |-> m.says, parent |-> Parent[m.row]]]
    BY <1>4 DEF R!Upsert, R!Exists
  <2>2. /\ \A x \in R!Rows : x # m.row => t[x] = row[x]
        /\ t[m.row] = [says |-> m.says, parent |-> Parent[m.row]]
        /\ t = [x \in R!Rows |-> t[x]]
    BY <1>1, <2>1 DEF RowsLinked
  <2>3. Parent[m.row] \in R!Rows \cup {Absent}
    BY <1>1, RegistrationAssumed DEF R!RegistrationAssumption
  <2>4. t[m.row] # Absent
    BY <1>1, <2>2, <2>3, RegistrationAssumed DEF R!RegistrationAssumption
  <2> HIDE DEF t
  <2>5. ASSUME NEW x \in R!Rows, t[x] # Absent
        PROVE  /\ t[x] = [says |-> t[x].says, parent |-> t[x].parent]
               /\ t[x].says \in 1 .. MaxStarts /\ t[x].parent \in R!Rows \cup {Absent}
               /\ t[x].parent = Absent \/ t[t[x].parent] # Absent
    BY <1>1, <1>4, <2>2, <2>3, <2>4, <2>5 DEF RowsLinked
  <2>6. RowsLinked(t)
    BY <2>2, <2>5 DEF RowsLinked
  <2> QED
    BY <2>6 DEF t
<1> QED
  BY <1>2, <1>3, <1>4

\* Every step of the plugin, of the consumer and of Redis keeps it.
LEMMA RegistrationKept ==
  ASSUME RegistrationInv, faults \in 0 .. MaxFaults, R!Next
  PROVE  RegistrationInv' /\ faults' \in 0 .. MaxFaults
<1> USE RegistrationAssumed DEF RegistrationInv
<1>0. R!Fault => faults' \in 0 .. MaxFaults /\ clean' = FALSE
  BY DEF R!Fault
<1>1. CASE R!PluginStart
  <2>1. starts' \in 0 .. MaxStarts /\ next' \in 1 .. Len(Catalogue) + 1 /\ clean' = TRUE
    BY <1>1 DEF R!PluginStart, R!RegistrationAssumption
  <2>2. R!StreamTypeOK' /\ R!Published' = R!Published
    BY <1>1, StreamKept DEF R!PluginStart, R!streamVars, R!Published
  <2>3. UNCHANGED <<row, reader, batch, faults>>
    BY <1>1 DEF R!PluginStart, R!consumer
  <2> QED
    BY <2>1, <2>2, <2>3
<1>2. CASE R!Register
  <2>1. Catalogue[next] \in R!Rows /\ starts \in 1 .. MaxStarts /\ next' \in 1 .. Len(Catalogue) + 1
    BY <1>2 DEF R!Register, R!RegistrationAssumption
  <2>2. [row |-> Catalogue[next], says |-> starts] \in Payloads
    BY <2>1 DEF R!RegistrationAssumption, R!Messages
  <2>3. R!StreamTypeOK' /\ R!Published \subseteq R!Published'
    BY <1>2, <2>2, StreamKept DEF R!Register
  <2>4. UNCHANGED <<row, starts, reader, batch, clean, faults>>
    BY <1>2 DEF R!Register, R!consumer
  <2> QED
    BY <2>1, <2>3, <2>4
<1>3. CASE R!Ensure
  <2>1. R!StreamTypeOK' /\ R!Published \subseteq R!Published'
    BY <1>3, StreamKept DEF R!Ensure
  <2> QED
    BY <1>3, <2>1 DEF R!Ensure
<1>4. CASE R!Read
  <2>1. R!StreamTypeOK' /\ R!Batch(BatchSize) # {} /\ R!Batch(BatchSize) \subseteq R!Published'
    BY <1>4, StreamKept, ReadFinds DEF R!Read
  <2> QED
    BY <1>4, <2>1 DEF R!Read
<1>5. CASE R!ReadNoGroup \/ R!IngestorRestarts
  <2>1. R!StreamTypeOK' /\ R!Published \subseteq R!Published'
    BY <1>5, StreamKept DEF R!ReadNoGroup, R!IngestorRestarts, R!streamVars
  <2> QED
    BY <1>0, <1>5, <2>1 DEF R!ReadNoGroup, R!IngestorRestarts
<1>6. CASE R!Handle \/ R!HandleFails
  <2>1. R!StreamTypeOK' /\ R!Published \subseteq R!Published'
    BY <1>6, StreamKept DEF R!Handle, R!HandleFails, R!streamVars
  <2>2. CASE R!Handle
    <3>1. RowsLinked(row')
      BY <2>2, OldestIsHeld, UpsertKeeps DEF R!Handle
    <3> QED
      BY <2>1, <2>2, <3>1 DEF R!Handle
  <2>3. CASE R!HandleFails
    BY <1>0, <2>1, <2>3 DEF R!HandleFails
  <2> QED
    BY <1>6, <2>2, <2>3
<1>7. CASE R!Ack
  <2>1. R!StreamTypeOK' /\ R!Published \subseteq R!Published'
    BY <1>7, StreamKept DEF R!Ack
  <2> QED
    BY <1>7, <2>1 DEF R!Ack
<1>8. CASE R!ReadReplyLost \/ R!RedisRestarts
  <2>1. R!StreamTypeOK' /\ R!Published \subseteq R!Published'
    BY <1>8, StreamKept DEF R!ReadReplyLost, R!RedisRestarts
  <2> QED
    BY <1>0, <1>8, <2>1 DEF R!ReadReplyLost, R!RedisRestarts, R!consumer
<1> QED
  BY <1>1, <1>2, <1>3, <1>4, <1>5, <1>6, <1>7, <1>8 DEF R!Next, R!Consumer

-----------------------------------------------------------------------------
\* The messages say what ever later starts say, and a row says nothing newer than the
\* messages that are still to come.
OrderedInv ==
  /\ batch \subseteq 1 .. last
  /\ \A i \in R!Published : log[i].says <= starts
  /\ \A i, j \in R!Published : i <= j => log[i].says <= log[j].says
  /\ \A x \in R!Rows : row[x] # Absent =>
       /\ row[x].says <= starts
       /\ \A i \in batch \cup R!Waiting : row[x].says <= log[i].says

\* What the messages and the rows say are numbers of starts.
LEMMA SaysNumbers ==
  ASSUME RegistrationInv
  PROVE  /\ \A i \in R!Published : log[i] \in R!Messages /\ log[i].says \in Nat
         /\ \A x \in R!Rows : row[x] # Absent => row[x].says \in Nat
         /\ starts \in Nat /\ last \in Nat /\ base \in Nat /\ Len(log) \in Nat /\ last <= Len(log)
         /\ batch \subseteq R!Published /\ R!Waiting \subseteq R!Published
         /\ R!Published = 1 .. Len(log) /\ R!Waiting = last + 1 .. Len(log)
<1>1. log \in Seq(R!Messages)
  BY RegistrationAssumed DEF RegistrationInv, R!StreamTypeOK, R!RegistrationAssumption
<1>2. \A i \in R!Published : log[i] \in R!Messages
  BY <1>1 DEF R!Published
<1>3. \A i \in R!Published : log[i].says \in Nat
  BY <1>2 DEF R!Messages
<1>4. \A x \in R!Rows : row[x] # Absent => row[x].says \in Nat
  BY DEF RegistrationInv, RowsLinked
<1>5. /\ starts \in Nat /\ last \in Nat /\ base \in Nat /\ Len(log) \in Nat /\ last <= Len(log)
      /\ R!Waiting \subseteq R!Published
  BY <1>1, RegistrationAssumed DEF RegistrationInv, R!StreamTypeOK, R!Waiting, R!Published
<1> QED
  BY <1>2, <1>3, <1>4, <1>5 DEF RegistrationInv, R!Published, R!Waiting

\* The stream moves on: nothing new is still to come that was not.
LEMMA OrderStays ==
  ASSUME RegistrationInv, OrderedInv, UNCHANGED <<log, row>>, starts <= starts', starts' \in Nat,
         last' \in Nat, last <= last', batch' \subseteq 1 .. last',
         batch' \cup R!Waiting' \subseteq batch \cup R!Waiting
  PROVE  OrderedInv'
<1>1. R!Published' = R!Published
  BY DEF R!Published
<1>2. \A i \in R!Published : log[i].says <= starts'
  BY SaysNumbers DEF OrderedInv
<1>3. \A x \in R!Rows : row[x] # Absent => row[x].says <= starts'
  BY SaysNumbers DEF OrderedInv
<1> QED
  BY <1>1, <1>2, <1>3 DEF OrderedInv

\* Every one of these steps keeps the order, and takes no row back.
LEMMA OrderedKept ==
  ASSUME RegistrationInv, OrderedInv, R!Next
  PROVE  /\ OrderedInv'
         /\ \A x \in R!Rows : row[x] # Absent => row'[x] # Absent /\ row[x].says <= row'[x].says
<1>1. /\ \A i \in R!Published : log[i] \in R!Messages /\ log[i].says \in Nat
      /\ \A x \in R!Rows : row[x] # Absent => row[x].says \in Nat
      /\ starts \in Nat /\ last \in Nat /\ base \in Nat /\ Len(log) \in Nat /\ last <= Len(log)
      /\ batch \subseteq R!Published /\ R!Waiting \subseteq R!Published
      /\ R!Published = 1 .. Len(log) /\ R!Waiting = last + 1 .. Len(log)
  BY SaysNumbers
<1> DEFINE RowsOnward == \A x \in R!Rows : row[x] # Absent =>
                           row'[x] # Absent /\ row[x].says <= row'[x].says
<1>2. row' = row => RowsOnward
  BY <1>1
<1> HIDE DEF RowsOnward
<1>3. CASE R!PluginStart
  <2>1. UNCHANGED <<log, row, last, batch, base, pel, created>> /\ starts' = starts + 1
    BY <1>3 DEF R!PluginStart, R!streamVars, R!consumer
  <2>2. R!Waiting' = R!Waiting
    BY <2>1 DEF R!Waiting
  <2>3. OrderedInv'
    BY <1>1, <2>1, <2>2, OrderStays DEF OrderedInv
  <2> QED
    BY <1>2, <2>1, <2>3 DEF RowsOnward
<1>4. CASE R!Register
  <2>1. /\ log' = Append(log, [row |-> Catalogue[next], says |-> starts])
        /\ UNCHANGED <<row, starts, last, batch>>
    BY <1>4 DEF R!Register, R!XAdd, R!consumer
  <2>2. /\ R!Published' = R!Published \cup {Len(log) + 1}
        /\ R!Waiting' = R!Waiting \cup {Len(log) + 1}
        /\ \A i \in R!Published : log'[i] = log[i]
        /\ log'[Len(log) + 1].says = starts
    BY <1>1, <2>1, RegistrationAssumed DEF R!Published, R!Waiting, RegistrationInv, R!StreamTypeOK
  <2>3. ASSUME NEW i \in R!Published' PROVE log'[i].says <= starts'
    BY <1>1, <2>1, <2>2, <2>3 DEF OrderedInv
  <2>4. ASSUME NEW i \in R!Published', NEW j \in R!Published', i <= j
        PROVE  log'[i].says <= log'[j].says
    <3>1. CASE j = Len(log) + 1
      BY <2>1, <2>2, <2>3, <3>1
    <3>2. CASE j # Len(log) + 1
      <4>1. i \in R!Published /\ j \in R!Published
        BY <1>1, <2>2, <2>4, <3>2
      <4> QED
        BY <2>2, <2>4, <4>1 DEF OrderedInv
    <3> QED
      BY <3>1, <3>2
  <2>5. ASSUME NEW x \in R!Rows, row[x] # Absent, NEW i \in batch \cup R!Waiting'
        PROVE  row[x].says <= log'[i].says
    BY <1>1, <2>1, <2>2, <2>5 DEF OrderedInv
  <2>6. OrderedInv'
    BY <2>1, <2>3, <2>4, <2>5 DEF OrderedInv
  <2> QED
    BY <1>2, <2>1, <2>6 DEF RowsOnward
<1>5. CASE R!Handle
  <2> DEFINE i == R!Oldest
             m == log[i]
  <2>1. /\ reader = "handle" /\ row' = R!Upsert(m)
        /\ UNCHANGED <<log, base, created, last, pel, starts, batch>>
    BY <1>5 DEF R!Handle, R!streamVars
  <2>2. /\ i \in batch /\ m \in R!Messages /\ \A j \in batch : i <= j
        /\ i \in R!Published /\ i <= last
    <3>1. batch # {} /\ batch \in SUBSET Nat
      BY <1>1, <2>1 DEF RegistrationInv
    <3>2. \A j \in batch : i <= j
      BY <3>1, LeastNatural DEF R!Oldest
    <3>3. i \in batch /\ m \in R!Messages
      BY <3>1, OldestIsHeld
    <3> HIDE DEF i
    <3>4. i \in R!Published /\ i \in 1 .. last
      BY <1>1, <3>3 DEF OrderedInv
    <3>5. \A j \in batch : i <= j
      BY <3>2 DEF i
    <3> QED
      BY <1>1, <3>3, <3>4, <3>5
  <2> HIDE DEF i
  <2>3. m.says \in Nat /\ m.says <= starts /\ m.row \in R!Rows
    BY <1>1, <2>2 DEF OrderedInv, R!Messages
  <2>4. \A j \in batch \cup R!Waiting : m.says <= log[j].says
    <3> SUFFICES ASSUME NEW j \in batch \cup R!Waiting PROVE m.says <= log[j].says
      OBVIOUS
    <3>1. i <= j /\ j \in R!Published
      BY <1>1, <2>2
    <3> QED
      BY <2>2, <3>1 DEF OrderedInv
  <2>5. \A x \in R!Rows : row[x] # Absent => row[x].says <= m.says
    BY <2>2 DEF OrderedInv
  <2> HIDE DEF m
  <2>6. ASSUME NEW x \in R!Rows, x # m.row PROVE row'[x] = row[x]
    BY <2>1, <2>3, <2>6 DEF R!Upsert, RegistrationInv, RowsLinked
  <2>7. \/ row'[m.row] = row[m.row] /\ row[m.row] = Absent
        \/ row'[m.row].says = m.says /\ row'[m.row] # Absent
    <3>1. RowsLinked(row')
      BY <2>1, <2>2, UpsertKeeps DEF RegistrationInv
    <3>2. CASE row[m.row] # Absent
      <4>1. /\ row[m.row] = [says |-> row[m.row].says, parent |-> row[m.row].parent]
            /\ row[m.row].parent \in R!Rows \cup {Absent} /\ row = [x \in R!Rows |-> row[x]]
        BY <2>3, <3>2 DEF RegistrationInv, RowsLinked
      <4>2. row' = [row EXCEPT ![m.row].says = m.says]
        BY <2>1, <3>2 DEF R!Upsert, R!Exists
      <4>3. row'[m.row] = [says |-> m.says, parent |-> row[m.row].parent]
        BY <2>3, <4>1, <4>2
      <4>4. row'[m.row] # Absent
        BY <2>2, <4>1, <4>3, RegistrationAssumed DEF R!RegistrationAssumption, R!Messages
      <4> QED
        BY <4>3, <4>4
    <3>3. CASE row[m.row] = Absent /\ row' # row
      <4>1. /\ row' = [row EXCEPT ![m.row] = [says |-> m.says, parent |-> Parent[m.row]]]
            /\ row = [x \in R!Rows |-> row[x]]
        BY <2>1, <3>3 DEF R!Upsert, R!Exists, RegistrationInv, RowsLinked
      <4>2. row'[m.row] = [says |-> m.says, parent |-> Parent[m.row]]
        BY <2>3, <4>1
      <4>3. Parent[m.row] \in R!Rows \cup {Absent}
        BY <2>3, RegistrationAssumed DEF R!RegistrationAssumption
      <4>4. row'[m.row] # Absent
        BY <2>2, <4>2, <4>3, RegistrationAssumed DEF R!RegistrationAssumption, R!Messages
      <4> QED
        BY <4>2, <4>4
    <3> QED
      BY <3>2, <3>3
  <2>8. RowsOnward
    BY <1>1, <2>3, <2>5, <2>6, <2>7 DEF RowsOnward
  <2>9. ASSUME NEW x \in R!Rows, row'[x] # Absent
        PROVE  row'[x].says <= starts /\ \A j \in batch \cup R!Waiting : row'[x].says <= log[j].says
    BY <2>3, <2>4, <2>6, <2>7, <2>9 DEF OrderedInv
  <2>10. R!Waiting' = R!Waiting /\ R!Published' = R!Published
    BY <2>1 DEF R!Waiting, R!Published
  <2>11. OrderedInv'
    BY <2>1, <2>9, <2>10 DEF OrderedInv
  <2> QED
    BY <2>8, <2>11 DEF RowsOnward
<1>6. CASE R!Read \/ R!ReadReplyLost
  <2>1. /\ R!XReadGroup(BatchSize) /\ UNCHANGED <<log, row, starts>>
        /\ batch' = R!Batch(BatchSize) \/ batch' = batch
    BY <1>6 DEF R!Read, R!ReadReplyLost, R!consumer, R!XReadGroup
  <2>2. last' \in Nat /\ last < last' /\ last' <= Len(log) /\ R!Batch(BatchSize) = last + 1 .. last'
    BY <1>1, <2>1, RegistrationAssumed DEF R!XReadGroup, R!Batch, R!Waiting
  <2>3. R!Waiting' = last' + 1 .. Len(log)
    BY <2>1 DEF R!Waiting
  <2>4. batch' \subseteq 1 .. last' /\ batch' \cup R!Waiting' \subseteq batch \cup R!Waiting
    <3>1. batch \subseteq 1 .. last
      BY DEF OrderedInv
    <3>2. 1 .. last \subseteq 1 .. last' /\ last + 1 .. last' \subseteq 1 .. last'
      BY <1>1, <2>2
    <3>3. R!Waiting' \subseteq R!Waiting /\ last + 1 .. last' \subseteq R!Waiting
      BY <1>1, <2>2, <2>3
    <3>4. CASE batch' = batch
      BY <3>1, <3>2, <3>3, <3>4
    <3>5. CASE batch' = R!Batch(BatchSize)
      BY <2>2, <3>2, <3>3, <3>5
    <3> QED
      BY <2>1, <3>4, <3>5
  <2>5. OrderedInv'
    BY <1>1, <2>1, <2>2, <2>4, OrderStays
  <2> QED
    BY <1>2, <2>1, <2>5 DEF RowsOnward
<1>7. CASE R!Ensure \/ R!RedisRestarts
  <2>1. UNCHANGED <<log, row, starts>> /\ batch' = batch
    BY <1>7 DEF R!Ensure, R!RedisRestarts, R!EnsureConsumerGroup, R!LoseStream, R!consumer
  <2>2. last' \in Nat /\ last <= last'
    <3>1. CASE R!Ensure
      <4>1. last' = IF created THEN last ELSE base
        BY <3>1 DEF R!Ensure, R!EnsureConsumerGroup
      <4>2. ~ created => last = base
        BY DEF RegistrationInv, R!StreamTypeOK
      <4> QED
        BY <1>1, <4>1, <4>2
    <3>2. CASE R!RedisRestarts
      <4>1. last' = Len(log)
        BY <3>2 DEF R!RedisRestarts, R!LoseStream
      <4> QED
        BY <1>1, <4>1
    <3> QED
      BY <1>7, <3>1, <3>2
  <2>3. batch' \subseteq 1 .. last' /\ R!Waiting' \subseteq R!Waiting
    <3>1. R!Waiting' = last' + 1 .. Len(log)
      BY <2>1 DEF R!Waiting
    <3>2. batch \subseteq 1 .. last
      BY DEF OrderedInv
    <3>3. 1 .. last \subseteq 1 .. last' /\ last' + 1 .. Len(log) \subseteq last + 1 .. Len(log)
      BY <1>1, <2>2
    <3> QED
      BY <1>1, <2>1, <3>1, <3>2, <3>3
  <2>4. starts' = starts /\ starts' \in Nat /\ starts <= starts'
    BY <1>1, <2>1
  <2>5. OrderedInv'
    BY <2>1, <2>2, <2>3, <2>4, OrderStays
  <2> QED
    BY <1>2, <2>1, <2>5 DEF RowsOnward
<1>8. CASE R!Ack \/ R!IngestorRestarts \/ R!HandleFails \/ R!ReadNoGroup
  <2>1. UNCHANGED <<log, row, starts, last>> /\ batch' \subseteq batch
    BY <1>8 DEF R!Ack, R!XAck, R!IngestorRestarts, R!HandleFails, R!ReadNoGroup, R!streamVars
  <2>2. R!Waiting' = R!Waiting
    BY <2>1 DEF R!Waiting
  <2>3. /\ last' \in Nat /\ last <= last' /\ starts' \in Nat /\ starts <= starts'
        /\ UNCHANGED <<log, row>>
    BY <1>1, <2>1
  <2>4. batch' \subseteq 1 .. last' /\ batch' \cup R!Waiting' \subseteq batch \cup R!Waiting
    BY <2>1, <2>2 DEF OrderedInv
  <2>5. OrderedInv'
    BY <2>3, <2>4, OrderStays
  <2> QED
    BY <1>2, <2>1, <2>5 DEF RowsOnward
<1> QED
  BY <1>3, <1>4, <1>5, <1>6, <1>7, <1>8 DEF R!Next, R!Consumer

-----------------------------------------------------------------------------
\* Every update below what the listener has taken, and below the ones still in hand, was
\* taken; the ones in hand are consecutive; and the one that is being answered has been
\* taken once more often than it was answered.
TelegramInv ==
  /\ updates \in Seq([chat : Chats, start : BOOLEAN]) /\ Len(updates) <= MaxUpdates
  /\ confirmed \in 0 .. Len(updates) /\ offset \in 0 .. Len(updates)
  /\ channels \subseteq Chats /\ inbox \subseteq T!Made /\ gaveUp \subseteq T!Made
  /\ listener \in {"poll", "take", "lookup", "reply"} /\ verdict \in BOOLEAN
  /\ runs \in [T!UpdateIds -> Nat] /\ replies \in [T!UpdateIds -> Nat]
  /\ \A u \in T!UpdateIds : replies[u] <= runs[u]
  /\ \A u \in T!Made : u <= confirmed \/ u <= offset => runs[u] > 0
  /\ (listener = "poll") <=> (inbox = {})
  /\ \A a, b \in inbox : \A u \in T!Made : a <= u /\ u <= b => u \in inbox
  /\ inbox # {} => \A u \in T!Made : (\A b \in inbox : u < b) => runs[u] > 0
  /\ listener \in {"lookup", "reply"} => replies[T!First] < runs[T!First]

\* What the instance assumes of the listener's bounds.
LEMMA TelegramAssumed == MaxUpdates \in Nat /\ MaxFaults \in Nat
BY BackgroundAssumption DEF BackgroundAssumption, T!TelegramAssumption

\* The listener starts in its invariant: nobody has said anything.
LEMMA TelegramStart == T!Init => TelegramInv
<1> SUFFICES ASSUME T!Init PROVE TelegramInv
  OBVIOUS
<1>1. /\ updates \in Seq([chat : Chats, start : BOOLEAN]) /\ Len(updates) = 0
      /\ T!Made = {}
  BY DEF T!Init, T!Made
<1>2. /\ confirmed = 0 /\ offset = 0 /\ inbox = {} /\ listener = "poll" /\ verdict = FALSE
      /\ gaveUp = {} /\ channels \subseteq Chats
      /\ runs \in [T!UpdateIds -> Nat] /\ replies \in [T!UpdateIds -> Nat]
      /\ \A u \in T!UpdateIds : replies[u] <= runs[u]
  BY DEF T!Init
<1>3. Len(updates) <= MaxUpdates /\ confirmed \in 0 .. Len(updates) /\ offset \in 0 .. Len(updates)
  BY <1>1, <1>2, TelegramAssumed
<1> QED
  BY <1>1, <1>2, <1>3 DEF TelegramInv

\* The update at hand is the oldest of those in hand.
LEMMA FirstIsHeld ==
  ASSUME TelegramInv, inbox # {}
  PROVE  /\ T!First \in inbox /\ \A u \in inbox : T!First <= u
         /\ T!First \in T!Made /\ T!First \in T!UpdateIds /\ T!First \in Nat
         /\ \A u \in T!Made : u < T!First => runs[u] > 0
<1>1. /\ inbox \in SUBSET Nat /\ inbox \subseteq T!Made /\ T!Made \subseteq T!UpdateIds
  BY TelegramAssumed DEF TelegramInv, T!Made, T!UpdateIds
<1>2. T!First \in inbox /\ \A u \in inbox : T!First <= u
  BY <1>1, LeastNatural DEF T!First
<1>3. \A u \in T!Made : u < T!First => \A b \in inbox : u < b
  BY <1>1, <1>2 DEF T!Made
<1> QED
  BY <1>1, <1>2, <1>3 DEF TelegramInv

\* The listener is done with the update at hand, which it has taken.
LEMMA DoneKeeps ==
  ASSUME TelegramInv, inbox # {}, T!Done, UNCHANGED <<updates, confirmed, channels, verdict>>,
         offset' \in {offset, T!First}, gaveUp' \in {gaveUp, gaveUp \cup {T!First}},
         runs' \in {runs, [runs EXCEPT ![T!First] = @ + 1]}, runs'[T!First] > 0,
         \/ replies' = replies
         \/ replies' = [replies EXCEPT ![T!First] = @ + 1] /\ replies[T!First] < runs'[T!First]
  PROVE  TelegramInv'
<1> DEFINE f == T!First
<1>1. /\ f \in inbox /\ \A u \in inbox : f <= u
      /\ f \in T!Made /\ f \in T!UpdateIds /\ f \in Nat
      /\ \A u \in T!Made : u < f => runs[u] > 0
  BY FirstIsHeld
<1>2. /\ inbox' = inbox \ {f} /\ listener' = IF inbox' = {} THEN "poll" ELSE "take"
      /\ updates' = updates /\ confirmed' = confirmed /\ channels' = channels
      /\ verdict' = verdict /\ T!Made' = T!Made
  BY DEF T!Done, T!Onward, T!Made
<1> HIDE DEF f
<1>3. /\ runs' \in [T!UpdateIds -> Nat] /\ runs'[f] > 0
      /\ \A u \in T!UpdateIds : runs[u] <= runs'[u]
  <2>1. CASE runs' = runs
    BY <2>1 DEF TelegramInv, f
  <2>2. CASE runs' = [runs EXCEPT ![f] = @ + 1]
    BY <1>1, <2>2 DEF TelegramInv
  <2> QED
    BY <2>1, <2>2 DEF f
<1>4. /\ replies' \in [T!UpdateIds -> Nat]
      /\ \A u \in T!UpdateIds : replies'[u] <= runs'[u]
  <2>1. CASE replies' = replies
    BY <1>3, <2>1 DEF TelegramInv
  <2>2. CASE replies' = [replies EXCEPT ![f] = @ + 1] /\ replies[f] < runs'[f]
    BY <1>1, <1>3, <2>2 DEF TelegramInv
  <2> QED
    BY <2>1, <2>2 DEF f
<1>5. T!Made \subseteq T!UpdateIds /\ T!Made \subseteq Nat /\ T!Made = 1 .. Len(updates)
  BY TelegramAssumed DEF TelegramInv, T!Made, T!UpdateIds
<1>6. offset' \in 0 .. Len(updates)
  BY <1>1, <1>5 DEF TelegramInv, f
<1>7. \A u \in T!Made : u <= f => runs'[u] > 0
  <2> SUFFICES ASSUME NEW u \in T!Made, u <= f PROVE runs'[u] > 0
    OBVIOUS
  <2>1. runs[u] \in Nat /\ runs'[u] \in Nat /\ runs[u] <= runs'[u] /\ u \in Nat
    BY <1>3, <1>5 DEF TelegramInv
  <2>2. CASE u = f
    BY <1>3, <2>2
  <2>3. CASE u < f
    BY <1>1, <2>1, <2>3
  <2> QED
    BY <1>1, <2>1, <2>2, <2>3
<1>8. \A u \in T!Made : u <= confirmed \/ u <= offset' => runs'[u] > 0
  <2>1. offset' = offset \/ offset' = f
    BY DEF f
  <2> QED
    BY <1>1, <1>3, <1>5, <1>7, <2>1 DEF TelegramInv
<1>9. ASSUME NEW a \in inbox', NEW b \in inbox', NEW u \in T!Made, a <= u, u <= b
      PROVE  u \in inbox'
  BY <1>1, <1>2, <1>5, <1>9 DEF TelegramInv
<1>10. ASSUME inbox' # {}, NEW u \in T!Made, \A b \in inbox' : u < b
       PROVE  runs'[u] > 0
  <2>1. PICK b \in inbox' : u < b
    BY <1>10
  <2>2. ~ (u \in inbox')
    BY <1>5, <1>10
  <2>3. u <= f
    BY <1>1, <1>2, <1>5, <2>1, <2>2 DEF TelegramInv
  <2> QED
    BY <1>7, <2>3
<1>11. gaveUp' \subseteq T!Made
  BY <1>1 DEF TelegramInv, f
<1>12. inbox' \subseteq T!Made /\ listener' \in {"poll", "take"}
       /\ ((listener' = "poll") <=> (inbox' = {}))
  BY <1>2 DEF TelegramInv
<1>13. T!UpdateIds' = T!UpdateIds
  BY DEF T!UpdateIds
<1> QED
  BY <1>2, <1>3, <1>4, <1>6, <1>8, <1>9, <1>10, <1>11, <1>12, <1>13 DEF TelegramInv

\* Every step of the chats, of the listener and of what fails keeps it.
LEMMA TelegramKept ==
  ASSUME TelegramInv, faults \in 0 .. MaxFaults, T!Next
  PROVE  TelegramInv' /\ faults' \in 0 .. MaxFaults
<1> USE TelegramAssumed
<1>1. /\ T!Made \subseteq T!UpdateIds /\ T!Made \subseteq Nat /\ T!Made = 1 .. Len(updates)
      /\ Len(updates) \in Nat
  BY DEF TelegramInv, T!Made, T!UpdateIds
<1>2. ASSUME NEW chat \in Chats, NEW start \in BOOLEAN, T!Say(chat, start)
      PROVE  TelegramInv' /\ faults' \in 0 .. MaxFaults
  <2>1. /\ Len(updates) < MaxUpdates /\ updates' = Append(updates, [chat |-> chat, start |-> start])
        /\ UNCHANGED <<confirmed, channels, offset, inbox, listener, verdict, replies, gaveUp, runs,
                       faults>>
    BY <1>2 DEF T!Say, T!listener
  <2>2. /\ updates' \in Seq([chat : Chats, start : BOOLEAN]) /\ Len(updates') = Len(updates) + 1
        /\ T!Made' = T!Made \cup {Len(updates) + 1}
    BY <1>1, <2>1 DEF TelegramInv, T!Made
  <2>3. inbox # {} => T!First' = T!First
    BY <2>1 DEF T!First
  <2>4. ASSUME NEW u \in T!Made', u <= confirmed \/ u <= offset PROVE runs[u] > 0
    BY <1>1, <2>2, <2>4 DEF TelegramInv
  <2>5. ASSUME NEW a \in inbox, NEW b \in inbox, NEW u \in T!Made', a <= u, u <= b
        PROVE  u \in inbox
    BY <1>1, <2>2, <2>5 DEF TelegramInv
  <2>6. ASSUME inbox # {}, NEW u \in T!Made', \A b \in inbox : u < b PROVE runs[u] > 0
    <3>1. PICK b \in inbox : u < b
      BY <2>6
    <3>2. u \in T!Made
      BY <1>1, <2>2, <3>1 DEF TelegramInv
    <3> QED
      BY <2>6, <3>2 DEF TelegramInv
  <2>7. confirmed' \in 0 .. Len(updates') /\ offset' \in 0 .. Len(updates')
    BY <1>1, <2>1, <2>2 DEF TelegramInv
  <2>8. T!UpdateIds' = T!UpdateIds
    BY DEF T!UpdateIds
  <2> QED
    BY <1>1, <2>1, <2>2, <2>3, <2>4, <2>5, <2>6, <2>7, <2>8 DEF TelegramInv
<1>3. ASSUME NEW chat \in Chats, T!SetChannel(chat)
      PROVE  TelegramInv' /\ faults' \in 0 .. MaxFaults
  BY <1>3 DEF T!SetChannel, T!listener, TelegramInv, T!Made, T!UpdateIds, T!First
<1>4. ASSUME T!Confirm
      PROVE  /\ confirmed' \in 0 .. Len(updates)
             /\ \A u \in T!Made : u <= confirmed' => runs[u] > 0
  BY <1>1, <1>4 DEF T!Confirm, TelegramInv
<1>5. CASE T!GetUpdates
  <2>1. /\ inbox' = confirmed' + 1 .. Len(updates) /\ inbox' # {} /\ listener' = "take"
        /\ UNCHANGED <<updates, channels, offset, verdict, replies, gaveUp, runs, faults>>
        /\ T!Confirm
    BY <1>5 DEF T!GetUpdates, T!Kept
  <2>2. T!Made' = T!Made /\ T!UpdateIds' = T!UpdateIds
    BY <2>1 DEF T!Made, T!UpdateIds
  <2>3. inbox' \subseteq T!Made
    BY <1>1, <1>4, <2>1
  <2>4. ASSUME NEW u \in T!Made, \A b \in inbox' : u < b PROVE runs[u] > 0
    <3>1. u <= confirmed'
      BY <1>1, <1>4, <2>1, <2>4
    <3> QED
      BY <1>4, <2>1, <3>1
  <2>5. ASSUME NEW a \in inbox', NEW b \in inbox', NEW u \in T!Made, a <= u, u <= b
        PROVE  u \in inbox'
    BY <1>1, <1>4, <2>1, <2>5
  <2>6. \A u \in T!Made : u <= confirmed' \/ u <= offset => runs[u] > 0
    BY <1>4, <2>1 DEF TelegramInv
  <2> QED
    BY <1>4, <2>1, <2>2, <2>3, <2>4, <2>5, <2>6 DEF TelegramInv
<1>6. CASE T!PollFails
  <2>1. /\ UNCHANGED <<updates, channels, offset, inbox, listener, verdict, replies, gaveUp, runs>>
        /\ T!Confirm \/ UNCHANGED confirmed
        /\ listener = "poll" /\ faults < MaxFaults /\ faults' = faults + 1
    BY <1>6 DEF T!PollFails, T!listener
  <2>2. T!Made' = T!Made /\ T!UpdateIds' = T!UpdateIds
    BY <2>1 DEF T!Made, T!UpdateIds
  <2>3. /\ confirmed' \in 0 .. Len(updates)
        /\ \A u \in T!Made : u <= confirmed' => runs[u] > 0
    BY <1>4, <2>1 DEF TelegramInv
  <2>4. faults' \in 0 .. MaxFaults
    BY <2>1
  <2> QED
    BY <2>1, <2>2, <2>3, <2>4 DEF TelegramInv
<1>7. CASE T!Take
  <2>1. /\ listener = "take" /\ offset' = T!First /\ runs' = [runs EXCEPT ![T!First] = @ + 1]
        /\ UNCHANGED <<updates, confirmed, channels, verdict, replies, gaveUp, faults>>
    BY <1>7 DEF T!Take
  <2>2. /\ inbox # {} /\ T!First \in inbox /\ T!First \in T!Made /\ T!First \in T!UpdateIds
        /\ T!First \in Nat /\ \A u \in T!Made : u < T!First => runs[u] > 0
    BY <2>1, FirstIsHeld DEF TelegramInv
  <2>3. /\ runs' \in [T!UpdateIds -> Nat] /\ runs'[T!First] = runs[T!First] + 1
        /\ runs[T!First] \in Nat /\ replies[T!First] \in Nat
        /\ \A u \in T!UpdateIds : runs[u] <= runs'[u]
    BY <2>1, <2>2 DEF TelegramInv
  <2>4. CASE ~ updates[T!First].start
    <3>1. T!Done
      BY <1>7, <2>4 DEF T!Take, T!Done
    <3>2. runs'[T!First] > 0
      BY <2>3
    <3> QED
      BY <2>1, <2>2, <3>1, <3>2, DoneKeeps
  <2>5. CASE updates[T!First].start
    <3>1. listener' = "lookup" /\ inbox' = inbox /\ T!First' = T!First
      BY <1>7, <2>5 DEF T!Take, T!First
    <3>2. T!Made' = T!Made /\ T!UpdateIds' = T!UpdateIds
      BY <2>1 DEF T!Made, T!UpdateIds
    <3>3. replies'[T!First] < runs'[T!First]
      BY <2>1, <2>2, <2>3 DEF TelegramInv
    <3>4. offset' \in 0 .. Len(updates)
      BY <1>1, <2>1, <2>2
    <3>5. \A u \in T!Made : runs[u] > 0 => runs'[u] > 0
      BY <1>1, <2>3 DEF TelegramInv
    <3>6. \A u \in T!Made : u <= T!First => runs'[u] > 0
      BY <1>1, <2>2, <2>3, <3>5
    <3>7. \A u \in T!UpdateIds : replies'[u] <= runs'[u]
      BY <2>1, <2>3 DEF TelegramInv
    <3>8. \A u \in T!Made : u <= confirmed' \/ u <= offset' => runs'[u] > 0
      BY <2>1, <3>5, <3>6 DEF TelegramInv
    <3>9. \A u \in T!Made : (\A b \in inbox : u < b) => runs'[u] > 0
      BY <2>2, <3>5 DEF TelegramInv
    <3> QED
      BY <2>1, <2>2, <2>3, <3>1, <3>2, <3>3, <3>4, <3>7, <3>8, <3>9 DEF TelegramInv
  <2> QED
    BY <2>4, <2>5
<1>8. CASE T!Lookup
  <2>1. /\ listener = "lookup" /\ listener' = "reply" /\ verdict' \in BOOLEAN
        /\ UNCHANGED <<updates, confirmed, channels, offset, inbox, replies, gaveUp, runs, faults>>
    BY <1>8 DEF T!Lookup
  <2>2. T!Made' = T!Made /\ T!UpdateIds' = T!UpdateIds /\ T!First' = T!First
    BY <2>1 DEF T!Made, T!UpdateIds, T!First
  <2> QED
    BY <2>1, <2>2 DEF TelegramInv
<1>9. CASE T!Reply \/ T!ReplyFails
  <2>1. listener \in {"lookup", "reply"} /\ inbox # {} /\ replies[T!First] < runs[T!First]
    BY <1>9 DEF T!Reply, T!ReplyFails, TelegramInv
  <2>2. runs[T!First] > 0
    BY <2>1, FirstIsHeld DEF TelegramInv
  <2>3. T!Done
    BY <1>9 DEF T!Reply, T!ReplyFails
  <2>4. TelegramInv'
    BY <1>9, <2>1, <2>2, <2>3, DoneKeeps DEF T!Reply, T!ReplyFails
  <2>5. faults' \in 0 .. MaxFaults
    BY <1>9 DEF T!Reply, T!ReplyFails
  <2> QED
    BY <2>4, <2>5
<1>10. CASE T!Restart
  <2>1. /\ offset' = 0 /\ inbox' = {} /\ listener' = "poll" /\ faults < MaxFaults
        /\ faults' = faults + 1
        /\ UNCHANGED <<updates, confirmed, channels, verdict, replies, gaveUp, runs>>
    BY <1>10 DEF T!Restart
  <2>2. T!Made' = T!Made /\ T!UpdateIds' = T!UpdateIds
    BY <2>1 DEF T!Made, T!UpdateIds
  <2>3. offset' \in 0 .. Len(updates) /\ faults' \in 0 .. MaxFaults
    BY <1>1, <2>1
  <2>4. \A u \in T!Made : u <= confirmed' \/ u <= offset' => runs'[u] > 0
    BY <1>1, <2>1 DEF TelegramInv
  <2> QED
    BY <2>1, <2>2, <2>3, <2>4 DEF TelegramInv
<1> QED
  BY <1>2, <1>3, <1>5, <1>6, <1>7, <1>8, <1>9, <1>10 DEF T!Next, T!Listener

\* For short.
Dealt(u) == T!Dealt(u)

\* The offset passes an update before it is answered: until then it is in hand.
AnsweredInv ==
  /\ \A u \in T!Made : u <= confirmed => Dealt(u)
  /\ \A u \in T!Made : u <= offset /\ u \notin inbox => Dealt(u)
  /\ inbox # {} => \A u \in T!Made : (\A b \in inbox : u < b) => Dealt(u)

\* The listener is done with the update at hand, which is dealt with.
LEMMA DoneIsDealt ==
  ASSUME TelegramInv, AnsweredInv, inbox # {}, T!Done, UNCHANGED <<updates, confirmed>>,
         offset' \in {offset, T!First},
         updates[T!First].start => replies'[T!First] > 0 \/ T!First \in gaveUp',
         \A u \in T!Made : Dealt(u) => (updates[u].start => replies'[u] > 0 \/ u \in gaveUp')
  PROVE  AnsweredInv'
<1> DEFINE f == T!First
           Now(u) == updates[u].start => replies'[u] > 0 \/ u \in gaveUp'
<1>1. /\ f \in inbox /\ \A u \in inbox : f <= u
      /\ f \in T!Made /\ f \in Nat
  BY FirstIsHeld
<1>2. inbox' = inbox \ {f} /\ T!Made' = T!Made /\ T!Made \subseteq Nat /\ inbox \subseteq T!Made
  BY DEF T!Done, T!Made, TelegramInv
<1>3. Now(f) /\ \A u \in T!Made : Dealt(u) => Now(u)
  OBVIOUS
<1>4. \A u \in T!Made : Dealt(u)' <=> Now(u)
  BY DEF Dealt, T!Dealt
<1>5. offset' = offset \/ offset' = f
  OBVIOUS
<1> HIDE DEF f, Now
<1>6. \A u \in T!Made : u < f => Now(u)
  <2> SUFFICES ASSUME NEW u \in T!Made, u < f PROVE Now(u)
    OBVIOUS
  <2>1. \A b \in inbox : u < b
    BY <1>1, <1>2
  <2> QED
    BY <1>1, <1>3, <2>1 DEF AnsweredInv
<1>7. ASSUME NEW u \in T!Made, u <= offset', u \notin inbox' PROVE Now(u)
  <2>1. u = f \/ u < f \/ (u <= offset /\ u \notin inbox)
    BY <1>1, <1>2, <1>5, <1>7
  <2> QED
    BY <1>3, <1>6, <2>1 DEF AnsweredInv
<1>8. ASSUME inbox' # {}, NEW u \in T!Made, \A b \in inbox' : u < b PROVE Now(u)
  <2>1. PICK b \in inbox' : u < b
    BY <1>8
  <2>2. u \notin inbox'
    BY <1>2, <1>8
  <2>3. u <= f
    BY <1>1, <1>2, <2>1, <2>2 DEF TelegramInv
  <2> QED
    BY <1>1, <1>2, <1>3, <1>6, <2>3
<1>9. \A u \in T!Made : u <= confirmed' => Now(u)
  BY <1>3 DEF AnsweredInv
<1> QED
  BY <1>2, <1>4, <1>7, <1>8, <1>9 DEF AnsweredInv

\* And keeps every update dealt with that the listener will not ask for again.
LEMMA AnsweredKept ==
  ASSUME TelegramInv, AnsweredInv, T!Next
  PROVE  AnsweredInv'
<1>1. /\ T!Made \subseteq Nat /\ T!Made = 1 .. Len(updates) /\ Len(updates) \in Nat
      /\ inbox \subseteq T!Made /\ offset \in Nat /\ confirmed \in Nat
      /\ (listener = "poll") <=> (inbox = {})
  BY DEF TelegramInv, T!Made
<1>2. ASSUME NEW chat \in Chats, NEW start \in BOOLEAN, T!Say(chat, start) PROVE AnsweredInv'
  <2>1. /\ updates' = Append(updates, [chat |-> chat, start |-> start])
        /\ UNCHANGED <<confirmed, offset, inbox, replies, gaveUp>>
    BY <1>2 DEF T!Say, T!listener
  <2>2. /\ T!Made' = T!Made \cup {Len(updates) + 1}
        /\ \A u \in T!Made : updates'[u] = updates[u]
    BY <1>1, <2>1 DEF TelegramInv, T!Made
  <2>3. \A u \in T!Made : Dealt(u)' <=> Dealt(u)
    BY <2>1, <2>2 DEF Dealt, T!Dealt
  <2>4. offset <= Len(updates) /\ confirmed <= Len(updates)
    BY DEF TelegramInv
  <2>5. ASSUME inbox # {}, NEW u \in T!Made', \A b \in inbox : u < b PROVE u \in T!Made
    <3>1. PICK b \in inbox : u < b
      BY <2>5
    <3> QED
      BY <1>1, <2>2, <3>1
  <2>6. \A u \in T!Made' : u <= confirmed \/ u <= offset => u \in T!Made
    BY <1>1, <2>2, <2>4
  <2> QED
    BY <2>1, <2>2, <2>3, <2>5, <2>6 DEF AnsweredInv
<1>3. CASE UNCHANGED <<updates, confirmed, offset, inbox, replies, gaveUp>>
  BY <1>3 DEF AnsweredInv, Dealt, T!Dealt, T!Made
<1>4. ASSUME T!Confirm
      PROVE  confirmed' \in Nat /\ offset <= confirmed' /\ confirmed' \in {confirmed, offset}
  BY <1>1, <1>4 DEF T!Confirm
<1>5. CASE T!GetUpdates
  <2>1. /\ listener = "poll" /\ inbox' = confirmed' + 1 .. Len(updates)
        /\ UNCHANGED <<updates, offset, replies, gaveUp>> /\ T!Confirm
    BY <1>5 DEF T!GetUpdates, T!Kept
  <2>2. T!Made' = T!Made /\ \A u \in T!Made : Dealt(u)' <=> Dealt(u)
    BY <2>1 DEF T!Made, Dealt, T!Dealt
  <2>3. \A u \in T!Made : u <= confirmed' => Dealt(u)
    BY <1>1, <1>4, <2>1 DEF AnsweredInv
  <2>4. ASSUME NEW u \in T!Made, u \notin inbox' PROVE u <= confirmed'
    BY <1>1, <1>4, <2>1, <2>4
  <2>5. ASSUME NEW u \in T!Made, \A b \in inbox' : u < b PROVE u \notin inbox'
    BY <1>1, <2>5
  <2> QED
    BY <2>1, <2>2, <2>3, <2>4, <2>5 DEF AnsweredInv
<1>6. CASE T!PollFails
  <2>1. /\ listener = "poll" /\ UNCHANGED <<updates, offset, inbox, replies, gaveUp>>
        /\ T!Confirm \/ UNCHANGED confirmed
    BY <1>6 DEF T!PollFails, T!listener
  <2>2. T!Made' = T!Made /\ \A u \in T!Made : Dealt(u)' <=> Dealt(u)
    BY <2>1 DEF T!Made, Dealt, T!Dealt
  <2>3. \A u \in T!Made : u <= confirmed' => Dealt(u)
    BY <1>1, <1>4, <2>1 DEF AnsweredInv
  <2> QED
    BY <2>1, <2>2, <2>3 DEF AnsweredInv
<1>7. CASE T!Take
  <2>1. /\ listener = "take" /\ offset' = T!First
        /\ UNCHANGED <<updates, confirmed, replies, gaveUp>>
        /\ inbox # {}
    BY <1>1, <1>7 DEF T!Take
  <2>2. T!Made' = T!Made /\ \A u \in T!Made : Dealt(u)' <=> Dealt(u)
    BY <2>1 DEF T!Made, Dealt, T!Dealt
  <2>3. /\ T!First \in inbox /\ T!First \in T!Made /\ T!First \in Nat
        /\ \A u \in inbox : T!First <= u
    BY <2>1, FirstIsHeld
  <2>4. CASE ~ updates[T!First].start
    <3>1. T!Done
      BY <1>7, <2>4 DEF T!Take, T!Done
    <3>2. \A u \in T!Made : Dealt(u) => (updates[u].start => replies'[u] > 0 \/ u \in gaveUp')
      BY <2>1 DEF Dealt, T!Dealt
    <3> QED
      BY <2>1, <2>4, <3>1, <3>2, DoneIsDealt
  <2>5. CASE updates[T!First].start
    <3>1. inbox' = inbox
      BY <1>7, <2>5 DEF T!Take
    <3>2. ASSUME NEW u \in T!Made, u <= T!First, u \notin inbox PROVE Dealt(u)
      <4>1. u < T!First
        BY <1>1, <2>3, <3>2
      <4>2. \A b \in inbox : u < b
        BY <1>1, <2>3, <4>1
      <4> QED
        BY <2>1, <4>2 DEF AnsweredInv
    <3> QED
      BY <2>1, <2>2, <3>1, <3>2 DEF AnsweredInv
  <2> QED
    BY <2>4, <2>5
<1>8. CASE T!Reply
  <2>1. /\ listener = "reply" /\ inbox # {} /\ T!Done
        /\ UNCHANGED <<updates, confirmed, offset, gaveUp>>
        /\ replies' = [replies EXCEPT ![T!First] = @ + 1]
    BY <1>1, <1>8 DEF T!Reply
  <2>2. replies \in [T!UpdateIds -> Nat] /\ T!First \in T!UpdateIds
    BY <2>1, FirstIsHeld DEF TelegramInv
  <2>4. T!Made \subseteq T!UpdateIds
    BY TelegramAssumed DEF TelegramInv, T!Made, T!UpdateIds
  <2>3. replies'[T!First] > 0 /\ \A u \in T!Made : replies[u] > 0 => replies'[u] > 0
    BY <2>1, <2>2, <2>4
  <2> QED
    BY <2>1, <2>3, DoneIsDealt DEF Dealt, T!Dealt
<1>9. CASE T!ReplyFails
  <2>1. /\ listener \in {"lookup", "reply"} /\ inbox # {} /\ T!Done
        /\ UNCHANGED <<updates, confirmed, offset, replies>> /\ gaveUp' = gaveUp \cup {T!First}
    BY <1>1, <1>9 DEF T!ReplyFails
  <2> QED
    BY <2>1, DoneIsDealt DEF Dealt, T!Dealt
<1>10. CASE T!Restart
  <2>1. offset' = 0 /\ inbox' = {} /\ UNCHANGED <<updates, confirmed, replies, gaveUp>>
    BY <1>10 DEF T!Restart
  <2>2. T!Made' = T!Made /\ \A u \in T!Made : Dealt(u)' <=> Dealt(u)
    BY <2>1 DEF T!Made, Dealt, T!Dealt
  <2>3. \A u \in T!Made : ~ (u <= 0)
    BY <1>1
  <2> QED
    BY <2>1, <2>2, <2>3 DEF AnsweredInv
<1>11. CASE T!Lookup
  BY <1>3, <1>11 DEF T!Lookup
<1>12. ASSUME NEW chat \in Chats, T!SetChannel(chat) PROVE AnsweredInv'
  BY <1>3, <1>12 DEF T!SetChannel, T!listener
<1> QED
  BY <1>2, <1>5, <1>6, <1>7, <1>8, <1>9, <1>10, <1>11, <1>12 DEF T!Next, T!Listener

\* The listener's invariants imply its type invariant.
LEMMA TelegramTyped == TelegramInv /\ AnsweredInv /\ faults \in 0 .. MaxFaults => T!TypeOK
BY DEF TelegramInv, AnsweredInv, Dealt, T!TypeOK, T!Made, T!UpdateIds

-----------------------------------------------------------------------------
\* The revision a database has: none counts as the one before the first.
Revision == IF version = Absent THEN 0 ELSE version

\* As long as no baseline was stamped late: without a revision on record the schema is
\* empty or the baseline, nobody has read a revision higher than the one on record, and
\* who is ready has the whole schema.  And who is going to stamp has seen plugins.
SchemaInv ==
  /\ objects \subseteq M!Schema /\ version \in {Absent} \cup 0 .. M!Latest
  /\ step \in [Procs -> {"alembic", "plugins", "stamp", "read", "upgrade", "ready"}]
  /\ look \in [Procs -> [alembic : BOOLEAN, revision : 0 .. M!Latest]]
  /\ late \in BOOLEAN
  /\ ~ late /\ version # Absent => objects = M!Adds(0, version)
  /\ ~ late /\ version = Absent => objects \in {{}, M!Baseline}
  /\ ~ late => \A p \in Procs : step[p] = "upgrade" => look[p].revision <= Revision
  /\ \A p \in Procs : step[p] = "stamp" => "plugins" \in objects
  /\ ~ late => \A p \in Procs : step[p] = "ready" => objects = M!Schema

\* The schema's invariant implies its type invariant.
LEMMA SchemaTyped == SchemaInv /\ faults \in 0 .. MaxFaults => M!TypeOK
BY DEF SchemaInv, M!TypeOK

\* What the instance assumes of the start-up's bounds.
LEMMA SchemaAssumed == MaxFaults \in Nat /\ Absent \notin Nat
BY BackgroundAssumption DEF BackgroundAssumption, M!MigrationsAssumption

\* The revisions are five; what some of them add is added by more; two runs of them that
\* meet are one run.
LEMMA RevisionsAdd ==
  /\ M!Latest = 5 /\ M!Adds(0, 0) = {} /\ M!Adds(0, 1) = M!Baseline
  /\ "plugins" \in M!Baseline
  /\ \A r, v \in 0 .. M!Latest :
       /\ M!Adds(0, v) \subseteq M!Schema /\ M!Adds(r, M!Latest) \subseteq M!Schema
       /\ r <= v => M!Adds(0, v) \cup M!Adds(r, M!Latest) = M!Schema
<1>1. M!Latest = 5 /\ M!Revisions[1] = M!Baseline
  BY DEF M!Latest, M!Revisions
<1>2. M!Adds(0, 0) = {}
  BY DEF M!Adds
<1>3. M!Adds(0, 1) = M!Baseline
  BY <1>1 DEF M!Adds
<1>4. ASSUME NEW r \in 0 .. M!Latest, NEW v \in 0 .. M!Latest
      PROVE  /\ M!Adds(0, v) \subseteq M!Schema /\ M!Adds(r, M!Latest) \subseteq M!Schema
             /\ r <= v => M!Adds(0, v) \cup M!Adds(r, M!Latest) = M!Schema
  <2>1. 0 + 1 .. v \subseteq 0 + 1 .. M!Latest /\ r + 1 .. M!Latest \subseteq 0 + 1 .. M!Latest
    BY <1>1
  <2>2. r <= v => 0 + 1 .. M!Latest \subseteq (0 + 1 .. v) \cup (r + 1 .. M!Latest)
    BY <1>1
  <2> QED
    BY <2>1, <2>2 DEF M!Adds, M!Schema
<1> QED
  BY <1>1, <1>2, <1>3, <1>4 DEF M!Baseline

\* The schema starts in its invariant: nobody has looked at the database.
LEMMA SchemaStart == M!Init => SchemaInv
<1> SUFFICES ASSUME M!Init PROVE SchemaInv
  OBVIOUS
<1>1. /\ step = [p \in Procs |-> "alembic"] /\ late = FALSE
      /\ look = [p \in Procs |-> [alembic |-> FALSE, revision |-> 0]]
  BY DEF M!Init, M!Nothing
<1>2. /\ step \in [Procs -> {"alembic", "plugins", "stamp", "read", "upgrade", "ready"}]
      /\ look \in [Procs -> [alembic : BOOLEAN, revision : 0 .. M!Latest]]
      /\ \A p \in Procs : step[p] = "alembic"
  BY <1>1, RevisionsAdd
<1>3. CASE objects = {} /\ version \in {Absent, 0}
  <2>1. version \in {Absent} \cup 0 .. M!Latest
    BY <1>3, RevisionsAdd
  <2>2. version # Absent => objects = M!Adds(0, version)
    BY <1>3, RevisionsAdd
  <2> QED
    BY <1>1, <1>2, <1>3, <2>1, <2>2 DEF SchemaInv
<1>4. CASE objects = M!Baseline /\ version = Absent
  <2>1. M!Baseline \subseteq M!Schema
    BY RevisionsAdd
  <2> QED
    BY <1>1, <1>2, <1>4, <2>1 DEF SchemaInv
<1>5. ASSUME NEW v \in 1 .. M!Latest, objects = M!Adds(0, v), version = v PROVE SchemaInv
  <2>1. v \in 0 .. M!Latest /\ v # Absent
    BY RevisionsAdd, SchemaAssumed
  <2> QED
    BY <1>1, <1>2, <1>5, <2>1, RevisionsAdd DEF SchemaInv
<1> QED
  BY <1>3, <1>4, <1>5 DEF M!Init

\* Every step of a process that starts, a restart included, keeps it.
LEMMA SchemaKept ==
  ASSUME SchemaInv, faults \in 0 .. MaxFaults, M!Next
  PROVE  SchemaInv' /\ faults' \in 0 .. MaxFaults
<1> USE SchemaAssumed, RevisionsAdd
<1> DEFINE Steps == {"alembic", "plugins", "stamp", "read", "upgrade", "ready"}
           Looks == [alembic : BOOLEAN, revision : 0 .. M!Latest]
<1>1. PICK p \in Procs : M!Start(p) \/ M!Restart(p)
  BY DEF M!Next
<1>2. /\ step \in [Procs -> Steps] /\ look \in [Procs -> Looks]
      /\ Revision \in 0 .. M!Latest
  BY DEF SchemaInv, Revision
<1>3. CASE M!LookForAlembic(p)
  <2>1. /\ step' = [step EXCEPT ![p] = "plugins"]
        /\ look' = [look EXCEPT ![p].alembic = version # Absent]
        /\ UNCHANGED <<objects, version, late, faults>>
    BY <1>3 DEF M!LookForAlembic, M!Go
  <2>2. step' \in [Procs -> Steps] /\ look' \in [Procs -> Looks]
    BY <1>2, <2>1
  <2>3. \A q \in Procs : step'[q] = IF q = p THEN "plugins" ELSE step[q]
    BY <1>2, <2>1
  <2>4. \A q \in Procs : q # p => look'[q] = look[q]
    BY <1>2, <2>1
  <2> QED
    BY <2>1, <2>2, <2>3, <2>4 DEF SchemaInv, Revision
<1>4. CASE M!LookForPlugins(p)
  <2> DEFINE place == IF "plugins" \in objects /\ ~ look[p].alembic THEN "stamp" ELSE "read"
  <2>1. step' = [step EXCEPT ![p] = place] /\ UNCHANGED <<objects, version, look, late, faults>>
    BY <1>4 DEF M!LookForPlugins, M!Go
  <2>2. place \in {"stamp", "read"} /\ (place = "stamp" => "plugins" \in objects)
    OBVIOUS
  <2> HIDE DEF place
  <2>3. step' \in [Procs -> Steps]
    BY <1>2, <2>1, <2>2
  <2>4. \A q \in Procs : step'[q] = IF q = p THEN place ELSE step[q]
    BY <1>2, <2>1
  <2> QED
    BY <2>1, <2>2, <2>3, <2>4 DEF SchemaInv, Revision
<1>5. CASE M!Stamp(p)
  <2>1. /\ step[p] = "stamp" /\ step' = [step EXCEPT ![p] = "read"]
        /\ version' = 1 /\ late' = (late \/ version \notin {Absent, 1})
        /\ UNCHANGED <<objects, look, faults>>
    BY <1>5 DEF M!Stamp, M!Go
  <2>2. step' \in [Procs -> Steps] /\ \A q \in Procs : step'[q] = IF q = p THEN "read" ELSE step[q]
    BY <1>2, <2>1
  <2>3. ASSUME ~ late' PROVE objects = M!Adds(0, 1) /\ Revision <= 1
    <3>1. ~ late /\ "plugins" \in objects /\ version \in {Absent, 1}
      BY <2>1, <2>3 DEF SchemaInv
    <3> QED
      BY <3>1 DEF SchemaInv, Revision
  <2>4. 1 # Absent /\ 1 \in 0 .. M!Latest /\ Revision' = 1
    BY <2>1 DEF Revision
  <2>5. ASSUME ~ late', NEW q \in Procs, step'[q] = "upgrade" PROVE look'[q].revision <= Revision'
    <3>1. step[q] = "upgrade" /\ ~ late /\ look[q] \in Looks
      BY <1>2, <2>1, <2>2, <2>5
    <3>2. look[q].revision <= Revision /\ look[q].revision \in Nat
      BY <3>1 DEF SchemaInv
    <3> QED
      BY <1>2, <2>1, <2>3, <2>4, <2>5, <3>2
  <2> QED
    BY <2>1, <2>2, <2>3, <2>4, <2>5 DEF SchemaInv
<1>6. CASE M!ReadRevision(p)
  <2>1. /\ step' = [step EXCEPT ![p] = "upgrade"]
        /\ look' = [look EXCEPT ![p].revision = Revision]
        /\ UNCHANGED <<objects, version, late, faults>>
    BY <1>6 DEF M!ReadRevision, M!Go, Revision
  <2>2. step' \in [Procs -> Steps] /\ look' \in [Procs -> Looks]
    BY <1>2, <2>1
  <2>3. /\ \A q \in Procs : step'[q] = IF q = p THEN "upgrade" ELSE step[q]
        /\ \A q \in Procs : q # p => look'[q] = look[q]
        /\ look'[p].revision = Revision
    BY <1>2, <2>1
  <2>4. Revision' = Revision /\ Revision <= Revision
    BY <1>2, <2>1 DEF Revision
  <2> QED
    BY <2>1, <2>2, <2>3, <2>4 DEF SchemaInv
<1>7. CASE M!Upgrade(p)
  <2> DEFINE new == M!Adds(look[p].revision, M!Latest)
  <2>1. step[p] = "upgrade" /\ UNCHANGED <<late, faults>>
    BY <1>7 DEF M!Upgrade
  <2>2. look[p].revision \in 0 .. M!Latest
    BY <1>2
  <2>3. CASE new \cap objects = {}
    <3>1. /\ objects' = objects \cup new /\ version' = IF new = {} THEN version ELSE M!Latest
          /\ step' = [step EXCEPT ![p] = "ready"] /\ look' = look
      BY <1>7, <2>3 DEF M!Upgrade, M!Go
    <3>2. /\ step' \in [Procs -> Steps]
          /\ \A q \in Procs : step'[q] = IF q = p THEN "ready" ELSE step[q]
      BY <1>2, <3>1
    <3>3. new \subseteq M!Schema
      BY <2>2
    <3>4. ASSUME ~ late PROVE M!Schema = objects \cup new
      <4>1. look[p].revision <= Revision
        BY <2>1, <3>4 DEF SchemaInv
      <4>2. CASE version = Absent
        BY <2>2, <4>1, <4>2 DEF Revision, M!Schema, SchemaInv
      <4>3. CASE version # Absent
        BY <1>2, <2>2, <3>4, <4>1, <4>3 DEF Revision, SchemaInv
      <4> QED
        BY <4>2, <4>3
    <3> HIDE DEF new
    <3>5. CASE new = {}
      <4>1. objects' = objects /\ version' = version /\ (~ late => objects = M!Schema)
        BY <3>1, <3>4, <3>5
      <4> QED
        BY <2>1, <3>1, <3>2, <4>1 DEF SchemaInv, Revision
    <3>6. CASE new # {}
      <4>1. version' = M!Latest /\ M!Latest # Absent /\ M!Latest \in 0 .. M!Latest
        BY <3>1, <3>6
      <4>2. \A q \in Procs : look'[q].revision <= M!Latest
        BY <1>2, <3>1
      <4> QED
        BY <2>1, <3>1, <3>2, <3>3, <3>4, <4>1, <4>2 DEF SchemaInv, Revision, M!Schema
    <3> QED
      BY <3>5, <3>6
  <2>4. CASE new \cap objects # {}
    <3>1. /\ UNCHANGED <<objects, version>>
          /\ step' = [step EXCEPT ![p] = "alembic"] /\ look' = [look EXCEPT ![p] = M!Nothing]
      BY <1>7, <2>4 DEF M!Upgrade, M!Go
    <3>2. /\ step' \in [Procs -> Steps] /\ look' \in [Procs -> Looks]
          /\ \A q \in Procs : step'[q] = IF q = p THEN "alembic" ELSE step[q]
          /\ \A q \in Procs : q # p => look'[q] = look[q]
      BY <1>2, <3>1 DEF M!Nothing
    <3> QED
      BY <2>1, <3>1, <3>2 DEF SchemaInv, Revision
  <2> QED
    BY <2>3, <2>4
<1>8. CASE M!Restart(p)
  <2>1. /\ UNCHANGED <<objects, version, late>> /\ faults < MaxFaults /\ faults' = faults + 1
        /\ step' = [step EXCEPT ![p] = "alembic"] /\ look' = [look EXCEPT ![p] = M!Nothing]
    BY <1>8 DEF M!Restart, M!Go
  <2>2. /\ step' \in [Procs -> Steps] /\ look' \in [Procs -> Looks]
        /\ \A q \in Procs : step'[q] = IF q = p THEN "alembic" ELSE step[q]
        /\ \A q \in Procs : q # p => look'[q] = look[q]
    BY <1>2, <2>1 DEF M!Nothing
  <2>3. faults' \in 0 .. MaxFaults
    BY <2>1
  <2> QED
    BY <2>1, <2>2, <2>3 DEF SchemaInv, Revision
<1> QED
  BY <1>1, <1>3, <1>4, <1>5, <1>6, <1>7, <1>8 DEF M!Start

-----------------------------------------------------------------------------
\* What BackgroundTypeOK rests on: each group's part, and the faults they share.
BackgroundInv ==
  /\ SettingsInv /\ DiskInv /\ RegistrationInv
  /\ TelegramInv /\ AnsweredInv /\ SchemaInv
  /\ faults \in 0 .. MaxFaults
  /\ group \in {"settings", "storage", "registration", "telegram", "schema"}

\* Every group starts in its invariant.
LEMMA BackgroundStart == BackgroundInit => BackgroundInv
<1> SUFFICES ASSUME BackgroundInit PROVE BackgroundInv
  OBVIOUS
<1>1. SettingsInv /\ DiskInv /\ RegistrationInv /\ TelegramInv /\ SchemaInv
  BY SettingsStart, DiskStart, RegistrationStart, TelegramStart, SchemaStart
  DEF BackgroundInit, Init
<1>2. faults \in 0 .. MaxFaults
  BY TelegramAssumed DEF BackgroundInit, Init
<1>3. AnsweredInv
  <2>1. T!Made = {} /\ inbox = {}
    BY DEF BackgroundInit, T!Init, T!Made
  <2> QED
    BY <2>1 DEF AnsweredInv
<1> QED
  BY <1>1, <1>2, <1>3 DEF BackgroundInit, BackgroundInv

\* A group that is not at work is left as it is.
LEMMA IdleGroups ==
  ASSUME BackgroundInv
  PROVE  /\ UNCHANGED registration => RegistrationInv'
         /\ UNCHANGED telegram => TelegramInv' /\ AnsweredInv'
         /\ UNCHANGED schema => SchemaInv'
<1>1. ASSUME UNCHANGED registration PROVE RegistrationInv'
  <2>1. R!StreamTypeOK' /\ R!Published' = R!Published
    BY <1>1 DEF registration, BackgroundInv, RegistrationInv, R!StreamTypeOK, R!Published
  <2> QED
    BY <1>1, <2>1 DEF registration, BackgroundInv, RegistrationInv
<1>2. ASSUME UNCHANGED telegram PROVE TelegramInv' /\ AnsweredInv'
  <2>1. TelegramInv'
    BY <1>2 DEF telegram, BackgroundInv, TelegramInv, T!Made, T!UpdateIds, T!First
  <2>2. AnsweredInv'
    BY <1>2 DEF telegram, BackgroundInv, AnsweredInv, Dealt, T!Dealt, T!Made
  <2> QED
    BY <2>1, <2>2
<1>3. ASSUME UNCHANGED schema PROVE SchemaInv'
  BY <1>3 DEF schema, BackgroundInv, SchemaInv, Revision
<1> QED
  BY <1>1, <1>2, <1>3

\* Every step keeps every group's invariant: only the group at work changes anything.
LEMMA BackgroundStep == BackgroundInv /\ [BackgroundNext]_backgroundVars => BackgroundInv'
<1> SUFFICES ASSUME BackgroundInv, [BackgroundNext]_backgroundVars PROVE BackgroundInv'
  OBVIOUS
<1>1. SettingsInv'
  BY SettingsStepKeeps, StepIsSettings DEF BackgroundInv
<1>2. DiskInv'
  BY DiskKept DEF BackgroundInv
<1>3. group' = group
  BY DEF BackgroundNext, backgroundVars, InStorage, InRegistration, InTelegram, InSchema
<1>4. CASE UNCHANGED backgroundVars
  BY <1>1, <1>2, <1>3, <1>4, IdleGroups DEF backgroundVars, BackgroundInv
<1>5. CASE group = "settings" /\ UNCHANGED <<disk, registration, telegram, schema>>
  BY <1>1, <1>2, <1>3, <1>5, IdleGroups DEF disk, BackgroundInv
<1>6. CASE InStorage(Next /\ Narrow)
  <2>1. faults' \in 0 .. MaxFaults
    <3>1. faults' = faults \/ (faults < MaxFaults /\ faults' = faults + 1)
      BY <1>6 DEF InStorage, Next, CacheExpires, Ingestor, StartReload, FinishReload, UseCache,
                  GoOn, ApplyPolicies, Wake, Measure, ListChunks, DropChunks, TickFails,
                  IngestorRestarts, ApiRestarts, Write, Retire, disk
    <3> QED
      BY <3>1, TelegramAssumed DEF BackgroundInv
  <2> QED
    BY <1>1, <1>2, <1>3, <1>6, <2>1, IdleGroups DEF InStorage, BackgroundInv
<1>7. CASE InRegistration(R!Next)
  BY <1>1, <1>2, <1>3, <1>7, IdleGroups, RegistrationKept DEF InRegistration, BackgroundInv
<1>8. CASE InTelegram(T!Next)
  BY <1>1, <1>2, <1>3, <1>8, IdleGroups, TelegramKept, AnsweredKept DEF InTelegram, BackgroundInv
<1>9. CASE InSchema(M!Next)
  BY <1>1, <1>2, <1>3, <1>9, IdleGroups, SchemaKept DEF InSchema, BackgroundInv
<1> QED
  BY <1>4, <1>5, <1>6, <1>7, <1>8, <1>9 DEF BackgroundNext

\* The storage's type invariant: the sizes are within what was ever written.
LEMMA DiskTyped == SettingsInv /\ DiskInv /\ faults \in 0 .. MaxFaults => TypeOK
<1> SUFFICES ASSUME SettingsInv, DiskInv, faults \in 0 .. MaxFaults PROVE TypeOK
  OBVIOUS
<1>1. size \in [Chunks -> 0 .. MaxGrowth]
  <2>1. size \in [Chunks -> Nat] /\ grown \in Nat /\ grown <= MaxGrowth /\ Total(size) <= grown
        /\ MaxGrowth \in Nat
    BY BackgroundAssumption DEF DiskInv, BackgroundAssumption, StorageAssumption
  <2>2. ASSUME NEW t \in Chunks PROVE size[t] \in 0 .. MaxGrowth
    <3>1. t \in 0 .. MaxTime /\ MaxTime \in 0 .. MaxTime
      BY <2>1, UpToSteps DEF Chunks
    <3>2. size[t] \in Nat /\ UpTo(size)[t] \in Nat /\ Total(size) \in Nat
      BY <2>1, <3>1, UpToSteps DEF Total
    <3>3. size[t] <= UpTo(size)[t] /\ UpTo(size)[t] <= Total(size)
      BY <2>1, ChunkWithinTotal
    <3> QED
      BY <2>1, <3>2, <3>3
  <2> QED
    BY <2>1, <2>2
<1> QED
  BY <1>1, SettingsTyped DEF DiskInv, TypeOK

(***************************************************************************)
(* The types of all five groups with what the database keeps of them: each *)
(* row's parent is there, every confirmed update was dealt with, and a     *)
(* process that is ready finds the whole schema unless a baseline was      *)
(* stamped late.                                                           *)
(***************************************************************************)
THEOREM BackgroundTypeCorrect == BackgroundSpec => []BackgroundTypeOK
<1>1. BackgroundInv => BackgroundTypeOK
  BY SettingsTyped, DiskTyped, RegistrationTyped, TelegramTyped, SchemaTyped
  DEF BackgroundInv, BackgroundTypeOK
<1> QED
  BY <1>1, BackgroundStart, BackgroundStep, PTL DEF BackgroundSpec

-----------------------------------------------------------------------------
\* A registration changes no row to what an earlier start said, and removes none.
RowsOnward == \A x \in R!Rows : row[x] # Absent => row'[x] # Absent /\ row[x].says <= row'[x].says

\* Nothing is registered at the start.
LEMMA OrderedStart == BackgroundInit => OrderedInv
<1> SUFFICES ASSUME BackgroundInit PROVE OrderedInv
  OBVIOUS
<1>1. R!Init
  BY DEF BackgroundInit
<1>2. log = << >> /\ batch = {} /\ row = [x \in R!Rows |-> Absent]
  BY <1>1 DEF R!Init, R!StreamInit
<1>3. Len(log) = 0
  BY <1>2
<1> QED
  BY <1>2, <1>3 DEF OrderedInv, R!Published

\* Every step of the composition keeps the order, and takes no row back.
LEMMA OrderedStep ==
  BackgroundInv /\ OrderedInv /\ [BackgroundNext]_backgroundVars => OrderedInv' /\ RowsOnward
<1> SUFFICES ASSUME BackgroundInv, OrderedInv, [BackgroundNext]_backgroundVars
             PROVE  OrderedInv' /\ RowsOnward
  OBVIOUS
<1>1. CASE UNCHANGED registration
  <2>1. OrderedInv'
    BY <1>1 DEF registration, OrderedInv, R!Published, R!Waiting
  <2>2. \A x \in R!Rows : row[x] # Absent => row[x].says \in Nat
    BY SaysNumbers DEF BackgroundInv
  <2> QED
    BY <1>1, <2>1, <2>2 DEF registration, RowsOnward
<1>2. CASE InRegistration(R!Next)
  BY <1>2, OrderedKept DEF InRegistration, BackgroundInv, RowsOnward
<1> QED
  BY <1>1, <1>2
  DEF BackgroundNext, backgroundVars, InStorage, InRegistration, InTelegram, InSchema

(***************************************************************************)
(* Registrations are applied in the order in which they were sent: a row   *)
(* that is there stays, and never goes back to what an earlier start of    *)
(* the plugin said of it, whatever is lost on the way.                     *)
(***************************************************************************)
THEOREM SaysOnward == BackgroundSpec => R!SaysNeverGoesBack
<1>1. RowsOnward =>
        \A x \in R!Rows : R!Exists(x) => R!Exists(x)' /\ row[x].says <= row'[x].says
  BY DEF RowsOnward, R!Exists
<1> QED
  BY <1>1, BackgroundStart, BackgroundStep, OrderedStart, OrderedStep, PTL
  DEF BackgroundSpec, R!SaysNeverGoesBack
=============================================================================
