------------------------------ MODULE ApiProofs ------------------------------
(***************************************************************************)
(* Proofs about the API's groups of tables, for any number of clients,     *)
(* rows, keys and values.  A handler reads in one statement and writes in  *)
(* another; the inductive invariant of each group says what a request      *)
(* carries from one to the other, and that it is still true of the tables  *)
(* unless another request has committed since.                             *)
(***************************************************************************)
EXTENDS ApiMC, AccountsProofs

\* A step of the API is a step of one group, and no step of the others.
LEMMA GroupSteps ==
  [ApiNext]_apiVars =>
    [Next]_vars /\ [P!Next]_(P!vars) /\ [D!Next]_(D!vars) /\ [R!Next]_(R!vars)
BY DEF ApiNext, apiVars, config, dashboards, rules,
       P!vars, D!vars, D!tables, R!vars, R!tables

-----------------------------------------------------------------------------
\* Plugin configuration.

\* What the constants have to be, as the instance states it.
LEMMA ConfigAssumption == P!PluginConfigAssumption
BY ApiAssumption DEF ApiAssumption

\* A request that nothing has overtaken still has the configuration that is stored.
ViewIsFresh ==
  \A c \in Clients : configReq[c] # P!Idle /\ ~ configReq[c].raced =>
    configReq[c].view.config = row.config

ConfigInv == P!TypeOK /\ ViewIsFresh

\* A function from some of the keys to JSON values.
IsOverrides(f) == DOMAIN f \subseteq Keys /\ \A k \in DOMAIN f : f[k] \in Raws

\* A configuration is a function from some of the keys, whatever they are.
LEMMA OverridesAre ==
  /\ \A f \in P!Overrides : f = [k \in DOMAIN f |-> f[k]] /\ IsOverrides(f)
  /\ \A domain \in SUBSET Keys : [domain -> Raws] \subseteq P!Overrides
  /\ <<>> \in P!Overrides
<1>1. \A f \in P!Overrides : f = [k \in DOMAIN f |-> f[k]] /\ IsOverrides(f)
  BY DEF P!Overrides, P!Partial, IsOverrides
<1>2. \A domain \in SUBSET Keys : [domain -> Raws] \subseteq P!Overrides
  BY DEF P!Overrides, P!Partial
<1>3. <<>> \in [{} -> Raws]
  OBVIOUS
<1> QED
  BY <1>1, <1>2, <1>3

\* The configuration a request writes has the shape of a configuration.
LEMMA MergedIsOverrides ==
  ASSUME NEW r \in P!Request
  PROVE  P!Merged(r) \in P!Overrides
<1>1. IsOverrides(r.set) /\ IsOverrides(r.view.config)
  BY OverridesAre DEF P!Request
<1>2. P!Merged(r) \in [DOMAIN r.set \cup (DOMAIN r.view.config \ r.keys) -> Raws]
  BY <1>1 DEF P!Merged, IsOverrides
<1> QED
  BY <1>1, <1>2, OverridesAre DEF IsOverrides

\* What a client sends is stored as the type of its field asks.
LEMMA CoercedIsRaw ==
  ASSUME NEW t, NEW v \in Raws, P!Fits(t, v)
  PROVE  P!Coerced(t, v) \in Raws
<1>1. CASE t \in P!Types
  BY <1>1, ConfigAssumption DEF P!PluginConfigAssumption
<1>2. CASE t \notin P!Types
  BY <1>2 DEF P!Coerced, P!Numeric, P!Types
<1> QED
  BY <1>1, <1>2

\* A request is well formed from the moment it has loaded the row.
LEMMA AskIsRequest ==
  ASSUME ConfigInv, NEW c \in Clients, NEW keys \in SUBSET Keys, NEW set \in P!Overrides,
         DOMAIN set \subseteq keys, P!Ask(c, keys, set)
  PROVE  ConfigInv'
<1> DEFINE r == [keys |-> keys, set |-> set, raced |-> FALSE,
                 view |-> [config |-> row.config, version |-> row.version]]
<1>1. row # Absent /\ row \in P!Row
  BY DEF P!Ask, ConfigInv, P!TypeOK
<1>2. r \in P!Request /\ r.view.version <= row.version /\ DOMAIN r.set \subseteq r.keys
  BY <1>1 DEF P!Request, P!Row
<1>3. configReq' = [configReq EXCEPT ![c] = r] /\ manifest' = manifest /\ row' = row
  BY DEF P!Ask
<1>4. P!TypeOK'
  BY <1>1, <1>2, <1>3 DEF ConfigInv, P!TypeOK, P!Idle
<1>5. r.view.config = row.config
  OBVIOUS
<1>6. ViewIsFresh'
  BY <1>3, <1>5 DEF ConfigInv, P!TypeOK, ViewIsFresh, P!Idle
<1> QED
  BY <1>4, <1>6 DEF ConfigInv

\* What an UPDATE leaves in the row.
LEMMA WrittenRow ==
  ASSUME ConfigInv, NEW c \in Clients, P!UpdateWrite(c)
  PROVE  /\ row \in P!Row /\ row # Absent /\ configReq[c] \in P!Request
         /\ row' \in P!Row /\ row' # Absent /\ row'.version = row.version + 1
         /\ row'.config = IF configReq[c].keys = {} THEN row.config ELSE P!Merged(configReq[c])
<1> DEFINE new == IF configReq[c].keys = {} THEN row.config ELSE P!Merged(configReq[c])
<1>1. row \in P!Row /\ row # Absent /\ configReq[c] \in P!Request
  BY DEF ConfigInv, P!TypeOK, P!UpdateWrite, P!Idle
<1>2. new \in P!Overrides
  BY <1>1, MergedIsOverrides DEF P!Row
<1>3. row' = [row EXCEPT !.config = new, !.version = row.version + 1]
  BY DEF P!UpdateWrite, P!Written
<1> HIDE DEF new
<1>4. row' = [schema |-> row.schema, config |-> new, version |-> row.version + 1]
  BY <1>1, <1>3 DEF P!Row
<1>5. row.version + 1 \in 0 .. MaxVersion
  BY <1>1, ConfigAssumption DEF P!Row, P!UpdateWrite, P!PluginConfigAssumption
<1>6. row' \in P!Row /\ row'.version = row.version + 1 /\ row'.config = new
  BY <1>1, <1>2, <1>4, <1>5 DEF P!Row
<1> QED
  BY <1>1, <1>6, ConfigAssumption DEF P!PluginConfigAssumption, new

\* An UPDATE leaves the requests that are under way overtaken, and only them.
LEMMA WriteStep ==
  ASSUME ConfigInv, NEW c \in Clients, P!UpdateWrite(c)
  PROVE  ConfigInv'
<1>1. row' \in P!Row /\ row' # Absent /\ row.version <= row'.version
  <2>1. /\ row' \in P!Row /\ row' # Absent
        /\ row'.version = row.version + 1 /\ row.version \in Nat
    BY WrittenRow DEF P!Row
  <2>2. row.version < MaxVersion /\ MaxVersion \in Nat
    BY ConfigAssumption DEF P!UpdateWrite, P!PluginConfigAssumption
  <2> QED
    BY <2>1, <2>2
<1>2. ASSUME NEW d \in Clients
      PROVE  \/ configReq'[d] = Absent
             \/ /\ configReq[d] # Absent /\ configReq'[d] \in P!Request /\ configReq'[d].raced
                /\ configReq'[d].set = configReq[d].set /\ configReq'[d].keys = configReq[d].keys
                /\ configReq'[d].view = configReq[d].view
  BY <1>2 DEF P!UpdateWrite, ConfigInv, P!TypeOK, P!Idle, P!Request
<1>3. configReq' \in [Clients -> P!Request \cup {Absent}]
  BY <1>2 DEF P!UpdateWrite
<1>4. \A d \in Clients : configReq'[d] # Absent => configReq'[d].view.version <= row'.version
  BY <1>1, <1>2, WrittenRow DEF ConfigInv, P!TypeOK, P!Idle, P!Request, P!Row
<1>5. \A d \in Clients : configReq'[d] # Absent =>
        DOMAIN configReq'[d].set \subseteq configReq'[d].keys
  BY <1>2 DEF ConfigInv, P!TypeOK, P!Idle
<1>6. manifest' = manifest
  BY DEF P!UpdateWrite
<1>7. P!TypeOK'
  BY <1>1, <1>3, <1>4, <1>5, <1>6 DEF ConfigInv, P!TypeOK, P!Idle
<1>8. ViewIsFresh'
  BY <1>2 DEF ViewIsFresh, P!Idle
<1> QED
  BY <1>7, <1>8 DEF ConfigInv

\* Before the supervisor has run there is neither a row nor a request.
LEMMA ConfigInit == P!Init => ConfigInv
BY DEF P!Init, ConfigInv, P!TypeOK, ViewIsFresh, P!Idle

\* Every step preserves the invariant.
LEMMA ConfigStep ==
  ASSUME ConfigInv, [P!Next]_(P!vars)
  PROVE  ConfigInv'
<1>1. ASSUME NEW m \in Manifests, P!Upgrade(m) PROVE ConfigInv'
  BY <1>1 DEF P!Upgrade, ConfigInv, P!TypeOK, ViewIsFresh
<1>2. CASE P!Bootstrap
  <2>1. row' \in P!Row
    <3>1. CASE row = Absent
      BY <1>2, <3>1, OverridesAre, ConfigAssumption
         DEF P!Bootstrap, P!PluginConfigAssumption, P!Row, ConfigInv, P!TypeOK
    <3>2. CASE row # Absent
      BY <1>2, <3>2 DEF P!Bootstrap, P!Row, ConfigInv, P!TypeOK
    <3> QED
      BY <3>1, <3>2
  <2>2. row # Absent => row'.config = row.config /\ row'.version = row.version
    BY <1>2 DEF P!Bootstrap, P!Row, ConfigInv, P!TypeOK
  <2>3. row' # Absent
    BY <2>1, ConfigAssumption DEF P!PluginConfigAssumption
  <2> QED
    BY <1>2, <2>1, <2>2, <2>3 DEF P!Bootstrap, ConfigInv, P!TypeOK, ViewIsFresh, P!Idle
<1>3. ASSUME NEW c \in Clients, NEW updates \in P!Partial(Keys, Raws), P!UpdateLoad(c, updates)
      PROVE  ConfigInv'
  <2> DEFINE schema == P!Schema(row.schema)
             keys == P!Kept(schema, updates)
             set == [k \in keys |-> P!Coerced(schema[k].type, updates[k])]
  <2>1. IsOverrides(updates)
    BY OverridesAre DEF P!Overrides
  <2>2. keys \in SUBSET Keys /\ \A k \in keys : updates[k] \in Raws
    BY <2>1 DEF P!Kept, IsOverrides
  <2>3. \A k \in keys : P!Fits(schema[k].type, updates[k])
    BY <1>3 DEF P!UpdateLoad, P!Accepts
  <2>4. P!Ask(c, keys, set)
    BY <1>3 DEF P!UpdateLoad
  <2> HIDE DEF schema, keys
  <2>5. set \in [keys -> Raws]
    BY <2>2, <2>3, CoercedIsRaw
  <2>6. set \in P!Overrides /\ DOMAIN set \subseteq keys
    BY <2>2, <2>5, OverridesAre
  <2> HIDE DEF set
  <2> QED
    BY <2>2, <2>4, <2>6, AskIsRequest
<1>4. ASSUME NEW c \in Clients, NEW keys \in SUBSET Keys, P!ResetLoad(c, keys) PROVE ConfigInv'
  <2>1. DOMAIN <<>> \subseteq keys
    OBVIOUS
  <2> QED
    BY <1>4, <2>1, AskIsRequest, OverridesAre DEF P!ResetLoad
<1>5. ASSUME NEW c \in Clients, P!UpdateWrite(c) PROVE ConfigInv'
  BY <1>5, WriteStep
<1>6. ASSUME NEW c \in Clients, P!Fail(c) PROVE ConfigInv'
  BY <1>6 DEF P!Fail, ConfigInv, P!TypeOK, ViewIsFresh, P!Idle
<1>7. CASE UNCHANGED P!vars
  BY <1>7 DEF P!vars, ConfigInv, P!TypeOK, ViewIsFresh
<1> QED
  BY <1>1, <1>2, <1>3, <1>4, <1>5, <1>6, <1>7 DEF P!Next

\* What coerce() makes of a JSON value is of the type it was asked for.
LEMMA CoercedFits ==
  ASSUME NEW t, NEW v \in Raws, P!Fits(t, v)
  PROVE  P!Fits(t, P!Coerced(t, v))
<1>1. P!IsJson(v)
  BY ConfigAssumption DEF P!PluginConfigAssumption
<1>2. CASE t \in P!Numeric
  <2>1. "kind" # "value"
    OBVIOUS
  <2>2. P!Coerced(t, v).kind = t /\ P!Coerced(t, v).value = v.value
    BY <1>1, <1>2, <2>1 DEF P!IsJson, P!Coerced
  <2> QED
    BY <1>2, <2>2 DEF P!Fits, P!Numeric
<1>3. CASE t \notin P!Numeric
  BY <1>3 DEF P!Coerced
<1> QED
  BY <1>2, <1>3

\* Whatever is stored, each field of a schema that parses has a value of its type.
LEMMA EffectiveFits ==
  ASSUME NEW m, P!Parses(m), NEW f \in P!Overrides, NEW k \in DOMAIN P!Schema(m)
  PROVE  P!Fits(P!Schema(m)[k].type, P!Effective(P!Schema(m), f)[k])
<1> DEFINE i == CHOOSE j \in DOMAIN m : m[j].key = k
           field == P!Schema(m)[k]
           raw == P!At(f, k)
<1>1. i \in DOMAIN m /\ field = P!Field(m[i])
  BY DEF P!Schema
<1>2. P!Fits(field.type, field.default)
  BY <1>1 DEF P!Parses, P!Accepts
<1>3. raw \in Raws \cup {Absent}
  BY OverridesAre DEF IsOverrides, P!At
<1>4. P!Effective(P!Schema(m), f)[k] = P!Resolve(field, raw)
  BY DEF P!Effective
<1> HIDE DEF field, raw
<1> QED
  BY <1>2, <1>3, <1>4, CoercedFits DEF P!Resolve, field

\* The pages and the subprocess are given typed values.
LEMMA ConfigTyped == ConfigInv => P!ConfigIsTyped
<1> SUFFICES ASSUME ConfigInv PROVE P!ConfigIsTyped
  OBVIOUS
<1> DEFINE m == IF row = Absent THEN manifest ELSE row.schema
           f == IF row = Absent THEN <<>> ELSE row.config
<1>1. P!Parses(m) /\ f \in P!Overrides
  BY OverridesAre DEF ConfigInv, P!TypeOK, P!Row
<1>2. \A k \in DOMAIN P!Schema(m) :
        P!Fits(P!Schema(m)[k].type, P!Effective(P!Schema(m), f)[k])
  BY <1>1, EffectiveFits
<1>3. P!LoadEffective = P!Effective(P!Schema(m), f)
  BY DEF P!LoadEffective
<1>4. ASSUME row # Absent, NEW k \in DOMAIN P!Schema(row.schema)
      PROVE  LET shown == P!Shown(P!Schema(row.schema), row.config) IN
             IF P!Schema(row.schema)[k].type = "secret"
             THEN shown[k].value \in {"mask", Absent} /\ shown[k].default = Absent
             ELSE P!Fits(P!Schema(row.schema)[k].type, shown[k].value)
  <2>1. m = row.schema /\ f = row.config
    BY <1>4
  <2> HIDE DEF m, f
  <2>2. P!Fits(P!Schema(row.schema)[k].type, P!Effective(P!Schema(row.schema), row.config)[k])
    BY <1>2, <1>4, <2>1
  <2> QED
    BY <1>4, <2>2 DEF P!Shown
<1> QED
  BY <1>2, <1>3, <1>4 DEF P!ConfigIsTyped

\* For every manifest, whatever was stored under the earlier ones, and for any number
\* of requests: the pages and the subprocess are given values of the present types,
\* and no page shows a secret (effective_values, _to_field_read).
THEOREM ConfigIsAlwaysTyped == ApiSpec => []ConfigIsTyped
<1>1. ApiInit => ConfigInv
  BY ConfigInit DEF ApiInit
<1>2. ConfigInv /\ [ApiNext]_apiVars => ConfigInv'
  BY ConfigStep, GroupSteps
<1>3. ConfigInv => ConfigIsTyped
  BY ConfigTyped DEF ConfigIsTyped
<1> QED
  BY <1>1, <1>2, <1>3, PTL DEF ApiSpec

\* For any number of clients: no two overlapping requests end with a changed
\* configuration under the version the supervisor has already seen.
THEOREM EveryChangeIsCounted == ApiSpec => ChangeRaisesVersion
<1>1. ConfigInv /\ [P!Next]_(P!vars) =>
        (row # Absent /\ row'.config # row.config => row'.version > row.version)
  <2> SUFFICES ASSUME ConfigInv, [P!Next]_(P!vars), row # Absent, row'.config # row.config
               PROVE  row'.version > row.version
    OBVIOUS
  <2>1. ASSUME NEW c \in Clients, P!UpdateWrite(c) PROVE row'.version > row.version
    <3>1. row \in P!Row /\ row'.version = row.version + 1
      BY <2>1, WrittenRow
    <3> QED
      BY <3>1 DEF P!Row
  <2>2. CASE P!Bootstrap
    BY <2>2 DEF P!Bootstrap, ConfigInv, P!TypeOK, P!Row
  <2>3. CASE row' = row
    BY <2>3
  <2> QED
    BY <2>1, <2>2, <2>3 DEF P!Next, P!vars, P!Upgrade, P!UpdateLoad, P!ResetLoad, P!Ask, P!Fail
<1>2. ApiInit => ConfigInv
  BY ConfigInit DEF ApiInit
<1>3. ConfigInv /\ [P!Next]_(P!vars) => ConfigInv'
  BY ConfigStep
<1>4. [ApiNext]_apiVars => [P!Next]_(P!vars)
  BY GroupSteps
<1> QED
  BY <1>1, <1>2, <1>3, <1>4, PTL DEF ApiSpec, ChangeRaisesVersion, P!ChangeRaisesVersion

\* For any number of clients and keys: an override is changed only by a request
\* for it, unless a request has been overtaken between its read and its write.
THEOREM OverridesAlwaysKept == ApiSpec => OverridesKept
<1>1. ASSUME ConfigInv, NEW c \in Clients, P!UpdateWrite(c), NEW k \in Keys,
             k \notin configReq[c].keys, ~ configReq[c].raced
      PROVE  P!At(row'.config, k) = P!At(row.config, k)
  <2>1. /\ row'.config = IF configReq[c].keys = {} THEN row.config ELSE P!Merged(configReq[c])
        /\ configReq[c] # Absent
    BY <1>1, WrittenRow DEF P!UpdateWrite, P!Idle
  <2>2. configReq[c].view.config = row.config /\ k \notin DOMAIN configReq[c].set
    BY <1>1, <2>1 DEF ConfigInv, P!TypeOK, ViewIsFresh, P!Idle
  <2>3. P!At(P!Merged(configReq[c]), k) = P!At(row.config, k)
    BY <1>1, <2>2 DEF P!Merged, P!At
  <2> QED
    BY <2>1, <2>3
<1>2. ConfigInv /\ [P!Next]_(P!vars) =>
        (row # Absent =>
           \A k \in Keys : P!At(row'.config, k) # P!At(row.config, k) =>
             \E c \in Clients : P!Answers(c) /\ (k \in configReq[c].keys \/ configReq[c].raced))
  <2> SUFFICES ASSUME ConfigInv, [P!Next]_(P!vars), row # Absent, NEW k \in Keys,
                      P!At(row'.config, k) # P!At(row.config, k)
               PROVE  \E c \in Clients :
                        P!Answers(c) /\ (k \in configReq[c].keys \/ configReq[c].raced)
    OBVIOUS
  <2>1. ASSUME NEW c \in Clients, P!UpdateWrite(c) PROVE P!Answers(c)
    BY <2>1 DEF P!UpdateWrite, P!Answers
  <2>2. CASE P!Bootstrap
    BY <2>2 DEF P!Bootstrap, ConfigInv, P!TypeOK, P!Row
  <2>3. CASE row' = row
    BY <2>3
  <2> QED
    BY <1>1, <2>1, <2>2, <2>3
       DEF P!Next, P!vars, P!Upgrade, P!UpdateLoad, P!ResetLoad, P!Ask, P!Fail
<1>3. ApiInit => ConfigInv
  BY ConfigInit DEF ApiInit
<1>4. ConfigInv /\ [P!Next]_(P!vars) => ConfigInv'
  BY ConfigStep
<1>5. [ApiNext]_apiVars => [P!Next]_(P!vars)
  BY GroupSteps
<1> QED
  BY <1>2, <1>3, <1>4, <1>5, PTL DEF ApiSpec, OverridesKept, P!OverridesKept

-----------------------------------------------------------------------------
\* Dashboards and widgets.

\* The rows of t that are default.
DefaultsIn(t) == {b \in D!Boards : t[b] # Absent /\ t[b]}

\* What a request for a dashboard or a widget carries.
BoardCarries(r) ==
  /\ r.op \in {"create", "update"} =>
       r.fields \in [default : BOOLEAN \cup {Absent}]
  /\ r.op = "create" => r.fields.default \in BOOLEAN
  /\ r.op = "update" => r.view \in BOOLEAN
  /\ r.op \in {"update", "delete", "add"} => r.board \in D!Boards
  /\ r.op = "delete" => r.fields = Absent
  /\ r.op \in {"edit", "remove"} => r.widget \in Widgets
  /\ r.cleared # Absent => r.op \in {"create", "update"} /\ r.fields.default = TRUE

\* What the bulk UPDATE found is what there is, unless another has changed it.
ClearsAll(r, t) == r.cleared # Absent /\ ~ r.raced => r.cleared = DefaultsIn(t)

\* Keys are handed out in order, and requests know what they have found.
DashboardsInv ==
  /\ D!TypeOK
  /\ \A b \in D!Boards : D!Exists(b) => b <= made
  /\ \A c \in Clients : boardReq[c] # Absent =>
       BoardCarries(boardReq[c]) /\ ClearsAll(boardReq[c], default)

\* A step that is about one request, and leaves the tables as they are.
LEMMA BoardRequestStep ==
  ASSUME DashboardsInv, NEW c \in Clients, NEW r \in D!Request \cup {Absent},
         r # Absent => BoardCarries(r) /\ ClearsAll(r, default),
         boardReq' = [boardReq EXCEPT ![c] = r], UNCHANGED D!tables
  PROVE  DashboardsInv'
<1>1. UNCHANGED <<default, widget, sensors, made, keysOfWidgets>>
  BY DEF D!tables
<1>2. D!TypeOK'
  BY <1>1 DEF DashboardsInv, D!TypeOK, D!Exists, D!Idle
<1>3. \A d \in Clients : boardReq'[d] # Absent =>
        BoardCarries(boardReq'[d]) /\ ClearsAll(boardReq'[d], default)
  BY DEF DashboardsInv, D!TypeOK
<1> QED
  BY <1>1, <1>2, <1>3 DEF DashboardsInv, BoardCarries, ClearsAll, DefaultsIn, D!Exists

\* A commit: whoever is under way either knows that it was overtaken, or finds
\* the defaults as they were.
LEMMA BoardCommitRequests ==
  ASSUME DashboardsInv, NEW c \in Clients, NEW t, D!Commit(c, t)
  PROVE  /\ default' = t /\ boardReq' \in [Clients -> D!Request \cup {Absent}]
         /\ \A d \in Clients : boardReq'[d] # Absent =>
              BoardCarries(boardReq'[d]) /\ ClearsAll(boardReq'[d], t)
<1>1. ASSUME NEW d \in Clients, boardReq'[d] # Absent
      PROVE  /\ boardReq'[d] \in D!Request
             /\ BoardCarries(boardReq'[d]) /\ ClearsAll(boardReq'[d], t)
  <2> DEFINE flag == boardReq[d].raced \/ t # default
  <2>1. boardReq[d] # Absent /\ boardReq'[d] = [boardReq[d] EXCEPT !.raced = flag]
    BY <1>1 DEF D!Commit, D!Idle
  <2>2. boardReq[d] \in D!Request /\ BoardCarries(boardReq[d]) /\ ClearsAll(boardReq[d], default)
    BY <2>1 DEF DashboardsInv, D!TypeOK, D!Idle
  <2>3. flag \in BOOLEAN /\ (~ flag => t = default /\ ~ boardReq[d].raced)
    BY <2>2 DEF D!Request
  <2> HIDE DEF flag
  <2>4. /\ boardReq'[d] \in D!Request /\ boardReq'[d].raced = flag
        /\ boardReq'[d].op = boardReq[d].op /\ boardReq'[d].board = boardReq[d].board
        /\ boardReq'[d].widget = boardReq[d].widget
        /\ boardReq'[d].fields = boardReq[d].fields /\ boardReq'[d].view = boardReq[d].view
        /\ boardReq'[d].cleared = boardReq[d].cleared
    BY <2>1, <2>2, <2>3 DEF D!Request
  <2> QED
    BY <2>2, <2>3, <2>4 DEF BoardCarries, ClearsAll
<1>2. boardReq' = [d \in Clients |-> boardReq'[d]]
  BY DEF D!Commit
<1> QED
  BY <1>1, <1>2 DEF D!Commit

BoardTable == [D!Boards -> BOOLEAN \cup {Absent}]

\* The foreign keys of the widgets w, into the dashboards t.
RefersTo(w, t) ==
  /\ w \in [Widgets -> D!WidgetRow \cup {Absent}]
  /\ \A x \in Widgets : w[x] # Absent =>
       t[w[x].board] # Absent /\ w[x].sensor \in sensors \cup {Absent}

\* A commit that leaves the tables well formed preserves the invariant.
LEMMA BoardCommitStep ==
  ASSUME DashboardsInv, NEW c \in Clients, NEW t \in BoardTable, D!Commit(c, t),
         made' \in 0 .. MaxBoards, \A b \in D!Boards : t[b] # Absent => b <= made',
         RefersTo(widget', t), keysOfWidgets' \subseteq Widgets, UNCHANGED sensors
  PROVE  DashboardsInv'
<1>1. /\ default' = t /\ boardReq' \in [Clients -> D!Request \cup {Absent}]
      /\ \A d \in Clients : boardReq'[d] # Absent =>
           BoardCarries(boardReq'[d]) /\ ClearsAll(boardReq'[d], default')
  BY BoardCommitRequests
<1>2. D!TypeOK'
  BY <1>1 DEF DashboardsInv, D!TypeOK, D!Exists, D!Idle, BoardTable, RefersTo
<1> QED
  BY <1>1, <1>2 DEF DashboardsInv, D!Exists

\* The tables as the invariant has them.
LEMMA BoardTables ==
  ASSUME DashboardsInv
  PROVE  /\ default \in BoardTable /\ RefersTo(widget, default) /\ made \in Nat
         /\ \A b \in D!Boards : default[b] # Absent => b <= made
         /\ \A c \in Clients : boardReq[c] # Absent =>
              /\ boardReq[c] \in D!Request
              /\ BoardCarries(boardReq[c]) /\ ClearsAll(boardReq[c], default)
BY ApiAssumption
   DEF DashboardsInv, D!TypeOK, D!Exists, D!Idle, BoardTable, RefersTo, ApiAssumption,
       D!DashboardsAssumption

\* The bulk UPDATE creates and deletes nothing.
LEMMA UnsetStep ==
  ASSUME DashboardsInv, NEW c \in Clients
  PROVE  /\ D!Unset(c) \in BoardTable
         /\ \A b \in D!Boards : D!Unset(c)[b] # Absent <=> default[b] # Absent
BY BoardTables, ApiAssumption
   DEF D!Unset, D!Exists, BoardTable, ApiAssumption, D!DashboardsAssumption

\* What a request leaves that makes a dashboard the default or does not.
Written(c, b, d) ==
  [(IF D!Cleared(c) THEN D!Unset(c) ELSE default) EXCEPT ![b] = d]

\* It is a table again, with what was asked for; only a bulk UPDATE touches other rows.
LEMMA WrittenIs ==
  ASSUME DashboardsInv, NEW c \in Clients, NEW b \in D!Boards, NEW d \in BOOLEAN
  PROVE  /\ Written(c, b, d) \in BoardTable /\ Written(c, b, d)[b] = d
         /\ \A x \in D!Boards : Written(c, b, d)[x] # Absent <=> (x = b \/ default[x] # Absent)
         /\ ~ D!Cleared(c) => \A x \in D!Boards \ {b} : Written(c, b, d)[x] = default[x]
<1> DEFINE base == IF D!Cleared(c) THEN D!Unset(c) ELSE default
<1>1. base \in BoardTable /\ \A x \in D!Boards : base[x] # Absent <=> default[x] # Absent
  BY UnsetStep, BoardTables
<1>2. ~ D!Cleared(c) => base = default
  OBVIOUS
<1>3. Written(c, b, d) = [base EXCEPT ![b] = d]
  BY DEF Written
<1>4. Absent \notin BOOLEAN
  BY ApiAssumption DEF ApiAssumption, D!DashboardsAssumption
<1> HIDE DEF base
<1> QED
  BY <1>1, <1>2, <1>3, <1>4 DEF BoardTable

\* An INSERT takes a key nobody has had.
LEMMA CreateBoardStep ==
  ASSUME DashboardsInv, NEW c \in Clients, D!CreateCommit(c)
  PROVE  /\ DashboardsInv'
         /\ boardReq[c] # Absent /\ boardReq[c].fields.default \in BOOLEAN
         /\ made + 1 \in D!Boards /\ default[made + 1] = Absent
         /\ default' = Written(c, made + 1, boardReq[c].fields.default)
<1> DEFINE t == Written(c, made + 1, boardReq[c].fields.default)
<1>1. /\ boardReq[c] # Absent /\ boardReq[c].op = "create" /\ made' = made + 1
      /\ made < MaxBoards /\ D!Commit(c, t) /\ UNCHANGED <<widget, sensors, keysOfWidgets>>
  BY DEF D!CreateCommit, D!At, D!Idle, Written
<1>2. boardReq[c].fields.default \in BOOLEAN
  BY <1>1, BoardTables DEF BoardCarries
<1>3. made + 1 \in D!Boards /\ made' \in 0 .. MaxBoards
  BY <1>1, BoardTables, ApiAssumption DEF D!Boards, ApiAssumption, D!DashboardsAssumption
<1>4. default[made + 1] = Absent
  BY <1>3, BoardTables
<1>5. /\ t \in BoardTable
      /\ \A x \in D!Boards : t[x] # Absent <=> (x = made + 1 \/ default[x] # Absent)
  BY <1>2, <1>3, WrittenIs
<1> HIDE DEF t
<1>6. \A b \in D!Boards : t[b] # Absent => b <= made'
  BY <1>1, <1>5, BoardTables DEF D!Boards
<1>7. RefersTo(widget', t)
  BY <1>1, <1>5, BoardTables DEF RefersTo, D!WidgetRow
<1>8. keysOfWidgets' \subseteq Widgets
  BY <1>1 DEF DashboardsInv, D!TypeOK
<1>9. DashboardsInv'
  BY <1>1, <1>3, <1>5, <1>6, <1>7, <1>8, BoardCommitStep
<1> QED
  BY <1>1, <1>2, <1>3, <1>4, <1>9 DEF t, D!Commit

\* An UPDATE of one dashboard.
LEMMA UpdateBoardStep ==
  ASSUME DashboardsInv, NEW c \in Clients, D!UpdateCommit(c)
  PROVE  /\ DashboardsInv' /\ boardReq[c] # Absent /\ boardReq[c].op = "update"
         /\ boardReq[c].board \in D!Boards
         /\ boardReq[c].fields \in [default : BOOLEAN \cup {Absent}]
         /\ boardReq[c].fields.default = TRUE =>
              default' = Written(c, boardReq[c].board, TRUE)
<1> DEFINE d == boardReq[c].fields.default
           b == boardReq[c].board
           base == IF D!Cleared(c) THEN D!Unset(c) ELSE default
           loaded == IF D!Cleared(c) THEN FALSE ELSE boardReq[c].view
           t == IF d \in {Absent, loaded} THEN base ELSE Written(c, b, d)
<1>1. /\ boardReq[c] # Absent /\ boardReq[c].op = "update" /\ default[b] # Absent
      /\ d = TRUE => D!Cleared(c)
      /\ D!Commit(c, t) /\ UNCHANGED <<widget, sensors, made, keysOfWidgets>>
  BY DEF D!UpdateCommit, D!At, D!Idle, D!Exists, Written
<1>2. /\ b \in D!Boards /\ boardReq[c].fields \in [default : BOOLEAN \cup {Absent}]
      /\ boardReq[c].op = "update"
  BY <1>1, BoardTables DEF BoardCarries
<1>3. base \in BoardTable /\ \A x \in D!Boards : base[x] # Absent <=> default[x] # Absent
  BY UnsetStep, BoardTables
<1>4. ASSUME d \notin {Absent, loaded}
      PROVE  /\ Written(c, b, d) \in BoardTable
             /\ \A x \in D!Boards : Written(c, b, d)[x] # Absent <=> default[x] # Absent
  <2>1. d \in BOOLEAN
    BY <1>2, <1>4
  <2> HIDE DEF d, b
  <2> QED
    BY <1>1, <1>2, <2>1, WrittenIs
<1>5. t \in BoardTable /\ \A x \in D!Boards : t[x] # Absent <=> default[x] # Absent
  BY <1>3, <1>4
<1>6. d = TRUE => t = Written(c, b, TRUE)
  BY <1>1, ApiAssumption DEF ApiAssumption, D!DashboardsAssumption
<1> HIDE DEF t, base, loaded
<1>7. made' \in 0 .. MaxBoards /\ \A x \in D!Boards : t[x] # Absent => x <= made'
  BY <1>1, <1>5, BoardTables DEF DashboardsInv, D!TypeOK
<1>8. RefersTo(widget', t) /\ keysOfWidgets' \subseteq Widgets
  BY <1>1, <1>5, BoardTables DEF RefersTo, D!WidgetRow, DashboardsInv, D!TypeOK
<1>9. DashboardsInv'
  BY <1>1, <1>5, <1>7, <1>8, BoardCommitStep
<1> QED
  BY <1>1, <1>2, <1>6, <1>9 DEF D!Commit

\* A DELETE, which takes the dashboard's widgets with it.
LEMMA DeleteBoardStep ==
  ASSUME DashboardsInv, NEW c \in Clients, D!DeleteCommit(c)
  PROVE  /\ DashboardsInv' /\ boardReq[c] # Absent /\ boardReq[c].op = "delete"
         /\ boardReq[c].fields = Absent
<1> DEFINE b == boardReq[c].board
           t == [default EXCEPT ![b] = Absent]
           w == [x \in Widgets |-> IF widget[x] # Absent /\ widget[x].board = b
                                   THEN Absent ELSE widget[x]]
<1>1. /\ boardReq[c] # Absent /\ boardReq[c].op = "delete" /\ D!Commit(c, t)
      /\ widget' = w /\ UNCHANGED <<sensors, made, keysOfWidgets>>
  BY DEF D!DeleteCommit, D!At, D!Idle
<1>2. b \in D!Boards /\ boardReq[c].fields = Absent
  BY <1>1, BoardTables DEF BoardCarries
<1>3. /\ t \in BoardTable /\ t[b] = Absent
      /\ \A x \in D!Boards \ {b} : t[x] = default[x]
  BY <1>2, BoardTables DEF BoardTable
<1>4. RefersTo(w, t)
  BY <1>3, BoardTables DEF RefersTo, D!WidgetRow
<1> HIDE DEF t, w
<1>5. made' \in 0 .. MaxBoards /\ \A x \in D!Boards : t[x] # Absent => x <= made'
  BY <1>1, <1>3, BoardTables DEF DashboardsInv, D!TypeOK
<1>6. keysOfWidgets' \subseteq Widgets
  BY <1>1 DEF DashboardsInv, D!TypeOK
<1>7. DashboardsInv'
  BY <1>1, <1>3, <1>4, <1>5, <1>6, BoardCommitStep
<1> QED
  BY <1>1, <1>2, <1>7
\* A widget is added, changed or removed: the foreign keys are looked at again.
LEMMA WidgetStep ==
  ASSUME DashboardsInv, NEW c \in Clients,
         D!CreateWidgetCommit(c) \/ D!UpdateWidgetCommit(c) \/ D!DeleteWidgetCommit(c)
  PROVE  DashboardsInv' /\ default' = default
<1>1. default \in BoardTable /\ RefersTo(widget, default) /\ D!Commit(c, default)
  BY BoardTables DEF D!CreateWidgetCommit, D!UpdateWidgetCommit, D!DeleteWidgetCommit
<1>2. UNCHANGED <<sensors, made>>
  BY DEF D!CreateWidgetCommit, D!UpdateWidgetCommit, D!DeleteWidgetCommit
<1>3. CASE D!CreateWidgetCommit(c)
  <2>1. PICK w \in Widgets \ keysOfWidgets :
          /\ widget' = [widget EXCEPT ![w] = [board |-> boardReq[c].board,
                                              sensor |-> boardReq[c].fields.sensor]]
          /\ keysOfWidgets' = keysOfWidgets \cup {w}
    BY <1>3 DEF D!CreateWidgetCommit
  <2>2. /\ boardReq[c].board \in D!Boards /\ default[boardReq[c].board] # Absent
        /\ boardReq[c].fields.sensor \in sensors \cup {Absent}
    BY <1>3, BoardTables DEF D!CreateWidgetCommit, D!At, D!Idle, D!Exists, BoardCarries
  <2>3. RefersTo(widget', default)
    BY <1>1, <2>1, <2>2 DEF RefersTo, D!WidgetRow, DashboardsInv, D!TypeOK
  <2>4. keysOfWidgets' \subseteq Widgets
    BY <2>1 DEF DashboardsInv, D!TypeOK
  <2> QED
    BY <1>1, <1>2, <2>3, <2>4, BoardTables, BoardCommitStep
       DEF DashboardsInv, D!TypeOK, D!Commit
<1>4. CASE D!UpdateWidgetCommit(c)
  <2> DEFINE w == boardReq[c].widget
             s == boardReq[c].fields.sensor
  <2>1. /\ w \in Widgets /\ widget[w] # Absent /\ s \in sensors \cup {Absent}
        /\ UNCHANGED keysOfWidgets
        /\ widget' = IF s = boardReq[c].view THEN widget ELSE [widget EXCEPT ![w].sensor = s]
    BY <1>4, BoardTables DEF D!UpdateWidgetCommit, D!At, D!Idle, BoardCarries
  <2> HIDE DEF w, s
  <2>2. /\ widget[w] \in D!WidgetRow /\ sensors \subseteq Sensors
        /\ [widget EXCEPT ![w].sensor = s] = [widget EXCEPT ![w] = [widget[w] EXCEPT !.sensor = s]]
    BY <1>1, <2>1 DEF RefersTo, DashboardsInv, D!TypeOK
  <2>3. /\ [widget[w] EXCEPT !.sensor = s] \in D!WidgetRow
        /\ [widget[w] EXCEPT !.sensor = s].board = widget[w].board
        /\ [widget[w] EXCEPT !.sensor = s].sensor = s
    BY <2>1, <2>2 DEF D!WidgetRow
  <2>4. RefersTo(widget', default)
    <3>1. CASE widget' = widget
      BY <1>1, <3>1 DEF RefersTo
    <3>2. CASE widget' = [widget EXCEPT ![w] = [widget[w] EXCEPT !.sensor = s]]
      BY <1>1, <2>1, <2>3, <3>2 DEF RefersTo
    <3> QED
      BY <2>1, <2>2, <3>1, <3>2
  <2> QED
    BY <1>1, <1>2, <2>1, <2>4, BoardTables, BoardCommitStep
       DEF DashboardsInv, D!TypeOK, D!Commit
<1>5. CASE D!DeleteWidgetCommit(c)
  <2>1. /\ boardReq[c].widget \in Widgets /\ UNCHANGED keysOfWidgets
        /\ widget' = [widget EXCEPT ![boardReq[c].widget] = Absent]
    BY <1>5, BoardTables DEF D!DeleteWidgetCommit, D!At, D!Idle, BoardCarries
  <2>2. RefersTo(widget', default)
    BY <1>1, <2>1 DEF RefersTo
  <2> QED
    BY <1>1, <1>2, <2>1, <2>2, BoardTables, BoardCommitStep
       DEF DashboardsInv, D!TypeOK, D!Commit
<1> QED
  BY <1>3, <1>4, <1>5

\* Opening a request.
LEMMA BoardAskStep ==
  ASSUME DashboardsInv, NEW c \in Clients,
         NEW op, NEW b, NEW w, NEW fields, NEW view, D!Ask(c, op, b, w, fields, view),
         op \in {"create", "update", "delete", "add", "edit", "remove"},
         b \in D!Boards \cup {Absent}, w \in Widgets \cup {Absent},
         fields \in [default : BOOLEAN \cup {Absent}] \cup [sensor : Sensors \cup {Absent}]
                    \cup {Absent},
         view \in BOOLEAN \cup Sensors \cup {Absent},
         op \in {"create", "update"} => fields \in [default : BOOLEAN \cup {Absent}],
         op = "create" => fields.default \in BOOLEAN,
         op = "update" => view \in BOOLEAN,
         op \in {"update", "delete", "add"} => b \in D!Boards,
         op = "delete" => fields = Absent,
         op \in {"edit", "remove"} => w \in Widgets
  PROVE  DashboardsInv'
<1> DEFINE r == [op |-> op, board |-> b, widget |-> w, fields |-> fields, view |-> view,
                 cleared |-> Absent, raced |-> FALSE]
<1>1. r \in D!Request
  BY DEF D!Request
<1>2. BoardCarries(r) /\ ClearsAll(r, default)
  BY DEF BoardCarries, ClearsAll
<1>3. boardReq' = [boardReq EXCEPT ![c] = r] /\ UNCHANGED D!tables
  BY DEF D!Ask
<1> HIDE DEF r
<1> QED
  BY <1>1, <1>2, <1>3, BoardRequestStep

\* The dashboards start in their invariant: there is none.
LEMMA DashboardsInit == D!Init => DashboardsInv
BY ApiAssumption
   DEF D!Init, DashboardsInv, D!TypeOK, D!Exists, D!Idle, ApiAssumption, D!DashboardsAssumption

\* Every step preserves the invariant.
LEMMA DashboardsStep ==
  ASSUME DashboardsInv, [D!Next]_(D!vars)
  PROVE  DashboardsInv'
<1>1. CASE UNCHANGED D!vars
  <2>1. UNCHANGED <<default, widget, sensors, made, keysOfWidgets, boardReq>>
    BY <1>1 DEF D!vars, D!tables
  <2> QED
    BY <2>1 DEF DashboardsInv, D!TypeOK, D!Exists, BoardCarries, ClearsAll, DefaultsIn
<1>2. ASSUME NEW s \in Sensors, D!DropSensor(s) PROVE DashboardsInv'
  BY <1>2 DEF D!DropSensor, DashboardsInv, D!TypeOK, D!Exists, BoardCarries, ClearsAll,
              DefaultsIn, D!WidgetRow
<1>3. ASSUME NEW c \in Clients, NEW d \in BOOLEAN, D!CreateDashboard(c, d) PROVE DashboardsInv'
  BY <1>3, BoardAskStep DEF D!CreateDashboard
<1>4. ASSUME NEW c \in Clients, NEW b \in D!Boards, NEW d \in BOOLEAN \cup {Absent},
             D!UpdateDashboard(c, b, d)
      PROVE  DashboardsInv'
  <2>1. default[b] \in BOOLEAN
    BY <1>4, BoardTables DEF D!UpdateDashboard, D!Exists, BoardTable
  <2> QED
    BY <1>4, <2>1, BoardAskStep DEF D!UpdateDashboard
<1>5. ASSUME NEW c \in Clients, NEW b \in D!Boards, D!DeleteDashboard(c, b) PROVE DashboardsInv'
  <2>1. default[b] \in BOOLEAN
    BY <1>5, BoardTables DEF D!DeleteDashboard, D!Exists, BoardTable
  <2> QED
    BY <1>5, <2>1, BoardAskStep DEF D!DeleteDashboard
<1>6. ASSUME NEW c \in Clients, NEW b \in D!Boards, NEW s \in Sensors \cup {Absent},
             D!CreateWidget(c, b, s)
      PROVE  DashboardsInv'
  BY <1>6, BoardAskStep DEF D!CreateWidget
<1>7. ASSUME NEW c \in Clients, NEW b \in D!Boards, NEW w \in Widgets,
             NEW s \in Sensors \cup {Absent}, D!UpdateWidget(c, b, w, s)
      PROVE  DashboardsInv'
  <2>1. widget[w].sensor \in Sensors \cup {Absent}
    BY <1>7, BoardTables DEF D!UpdateWidget, D!Found, RefersTo, D!WidgetRow
  <2> QED
    BY <1>7, <2>1, BoardAskStep DEF D!UpdateWidget
<1>8. ASSUME NEW c \in Clients, NEW b \in D!Boards, NEW w \in Widgets, D!DeleteWidget(c, b, w)
      PROVE  DashboardsInv'
  BY <1>8, BoardAskStep DEF D!DeleteWidget
<1>9. ASSUME NEW c \in Clients, D!UnsetDefaults(c) PROVE DashboardsInv'
  <2> DEFINE r == [boardReq[c] EXCEPT !.cleared = D!Defaults, !.raced = FALSE]
  <2>1. /\ boardReq[c] # Absent /\ boardReq[c].op \in {"create", "update"}
        /\ boardReq[c].fields.default = TRUE /\ UNCHANGED D!tables
        /\ boardReq' = [boardReq EXCEPT ![c] = r]
    BY <1>9 DEF D!UnsetDefaults, D!Idle
  <2>2. boardReq[c] \in D!Request /\ BoardCarries(boardReq[c])
    BY <2>1, BoardTables
  <2>3. D!Defaults \in SUBSET D!Boards /\ D!Defaults = DefaultsIn(default)
    BY DEF D!Defaults, DefaultsIn, D!Exists
  <2>4. /\ r \in D!Request /\ r.op = boardReq[c].op /\ r.board = boardReq[c].board
        /\ r.widget = boardReq[c].widget /\ r.fields = boardReq[c].fields
        /\ r.view = boardReq[c].view /\ r.cleared = D!Defaults
    BY <2>2, <2>3 DEF D!Request
  <2> HIDE DEF r
  <2>5. BoardCarries(r) /\ ClearsAll(r, default)
    BY <2>1, <2>2, <2>3, <2>4 DEF BoardCarries, ClearsAll
  <2> QED
    BY <2>1, <2>4, <2>5, BoardRequestStep
<1>10. ASSUME NEW c \in Clients, D!Fail(c) PROVE DashboardsInv'
  BY <1>10, BoardRequestStep DEF D!Fail, D!Idle
<1>11. ASSUME NEW c \in Clients,
              D!CreateCommit(c) \/ D!UpdateCommit(c) \/ D!DeleteCommit(c)
       PROVE  DashboardsInv'
  BY <1>11, CreateBoardStep, UpdateBoardStep, DeleteBoardStep
<1> QED
  BY <1>1, <1>2, <1>3, <1>4, <1>5, <1>6, <1>7, <1>8, <1>9, <1>10, <1>11, WidgetStep DEF D!Next

\* For any number of clients and dashboards: who makes a dashboard the default
\* leaves no other, if it was not overtaken; and none is left without a default
\* but by a request that asks for it.
LEMMA DefaultStep ==
  ASSUME DashboardsInv, [D!Next]_(D!vars)
  PROVE  /\ \A c \in Clients : D!MakesDefault(c) /\ ~ boardReq[c].raced =>
              \E b \in D!Boards : D!Defaults' = {b}
         /\ D!Defaults # {} /\ D!Defaults' = {} =>
              \E c \in Clients : /\ boardReq[c] # D!Idle /\ boardReq'[c] = D!Idle
                                 /\ boardReq[c].op \in {"update", "delete"}
                                 /\ boardReq[c].fields # [default |-> TRUE]
<1>1. D!Defaults = DefaultsIn(default) /\ D!Defaults' = DefaultsIn(default')
  BY DEF D!Defaults, D!Exists, DefaultsIn
<1>2. ASSUME NEW c \in Clients, NEW b \in D!Boards, boardReq[c] # Absent, D!Cleared(c),
             ~ boardReq[c].raced
      PROVE  DefaultsIn(Written(c, b, TRUE)) = {b}
  <2>1. boardReq[c].cleared = DefaultsIn(default) /\ default \in BoardTable
    BY <1>2, BoardTables DEF ClearsAll, D!Cleared
  <2>2. ASSUME NEW x \in D!Boards, D!Unset(c)[x] # Absent PROVE D!Unset(c)[x] = FALSE
    BY <2>1, <2>2 DEF D!Unset, D!Exists, DefaultsIn, BoardTable
  <2>3. Written(c, b, TRUE) = [D!Unset(c) EXCEPT ![b] = TRUE] /\ D!Unset(c) \in BoardTable
    BY <1>2, UnsetStep DEF Written
  <2>4. Absent # TRUE
    BY ApiAssumption DEF ApiAssumption, D!DashboardsAssumption
  <2> QED
    BY <2>2, <2>3, <2>4 DEF DefaultsIn, BoardTable
<1>3. ASSUME NEW c \in Clients, D!MakesDefault(c), ~ boardReq[c].raced
      PROVE  \E b \in D!Boards : D!Defaults' = {b}
  <2>1. CASE D!CreateCommit(c)
    <3>1. made + 1 \in D!Boards /\ default' = Written(c, made + 1, TRUE) /\ boardReq[c] # Absent
      BY <1>3, <2>1, CreateBoardStep DEF D!MakesDefault
    <3>2. D!Cleared(c)
      BY <1>3, <2>1 DEF D!MakesDefault, D!CreateCommit
    <3> QED
      BY <1>1, <1>2, <1>3, <3>1, <3>2
  <2>2. CASE D!UpdateCommit(c)
    <3>1. /\ boardReq[c].board \in D!Boards /\ default' = Written(c, boardReq[c].board, TRUE)
          /\ boardReq[c] # Absent
      BY <1>3, <2>2, UpdateBoardStep DEF D!MakesDefault
    <3>2. D!Cleared(c)
      BY <1>3, <2>2 DEF D!MakesDefault, D!UpdateCommit
    <3> QED
      BY <1>1, <1>2, <1>3, <3>1, <3>2
  <2> QED
    BY <1>3, <2>1, <2>2 DEF D!MakesDefault
<1>4. ASSUME NEW b \in D!Boards, NEW c \in Clients, Written(c, b, TRUE) = default'
      PROVE  D!Defaults' # {}
  <2>1. default'[b] = TRUE
    BY <1>4, WrittenIs
  <2>2. Absent # TRUE
    BY ApiAssumption DEF ApiAssumption, D!DashboardsAssumption
  <2> QED
    BY <1>1, <2>1, <2>2 DEF DefaultsIn
<1>5. ASSUME D!Defaults # {}, D!Defaults' = {}
      PROVE  \E c \in Clients : /\ boardReq[c] # D!Idle /\ boardReq'[c] = D!Idle
                                /\ boardReq[c].op \in {"update", "delete"}
                                /\ boardReq[c].fields # [default |-> TRUE]
  <2>1. default' # default
    BY <1>1, <1>5
  <2>2. ASSUME NEW c \in Clients, D!CreateCommit(c) PROVE FALSE
    <3>1. /\ made + 1 \in D!Boards /\ default[made + 1] = Absent
          /\ default' = Written(c, made + 1, boardReq[c].fields.default)
          /\ boardReq[c] # Absent /\ boardReq[c].fields.default \in BOOLEAN
      BY <2>2, CreateBoardStep
    <3>2. boardReq[c].fields.default = FALSE
      BY <1>4, <1>5, <3>1
    <3>3. ~ D!Cleared(c)
      BY <3>1, <3>2, BoardTables DEF BoardCarries, D!Cleared
    <3>4. \A x \in D!Boards \ {made + 1} : default'[x] = default[x]
      BY <3>1, <3>3, WrittenIs
    <3> QED
      BY <1>1, <1>5, <3>1, <3>4 DEF DefaultsIn
  <2>3. ASSUME NEW c \in Clients, D!UpdateCommit(c)
        PROVE  boardReq[c].op = "update" /\ boardReq[c].fields # [default |-> TRUE]
    <3>1. /\ boardReq[c].op = "update" /\ boardReq[c].board \in D!Boards
          /\ boardReq[c].fields.default = TRUE => default' = Written(c, boardReq[c].board, TRUE)
      BY <2>3, UpdateBoardStep
    <3>2. boardReq[c].fields.default # TRUE
      BY <1>4, <1>5, <3>1
    <3>3. [default |-> TRUE].default = TRUE
      OBVIOUS
    <3>4. boardReq[c].fields # [default |-> TRUE]
      BY <3>2, <3>3
    <3> QED
      BY <3>1, <3>4
  <2>4. ASSUME NEW c \in Clients, D!DeleteCommit(c)
        PROVE  boardReq[c].op = "delete" /\ boardReq[c].fields # [default |-> TRUE]
    <3>1. boardReq[c].op = "delete" /\ boardReq[c].fields = Absent
      BY <2>4, DeleteBoardStep
    <3>2. [default |-> TRUE] \in [default : BOOLEAN]
      OBVIOUS
    <3> QED
      BY <3>1, <3>2, ApiAssumption DEF ApiAssumption, D!DashboardsAssumption
  <2>5. ASSUME NEW c \in Clients, D!UpdateCommit(c) \/ D!DeleteCommit(c)
        PROVE  boardReq[c] # D!Idle /\ boardReq'[c] = D!Idle
    BY <2>5 DEF D!UpdateCommit, D!DeleteCommit, D!At, D!Commit
  <2>6. ASSUME NEW c \in Clients,
               D!CreateWidgetCommit(c) \/ D!UpdateWidgetCommit(c) \/ D!DeleteWidgetCommit(c)
        PROVE  FALSE
    BY <2>1, <2>6, WidgetStep
  <2> QED
    BY <2>1, <2>2, <2>3, <2>4, <2>5, <2>6
       DEF D!Next, D!vars, D!tables, D!DropSensor, D!CreateDashboard, D!UpdateDashboard,
           D!DeleteDashboard, D!CreateWidget, D!UpdateWidget, D!DeleteWidget, D!UnsetDefaults,
           D!Fail, D!Ask
<1> QED
  BY <1>3, <1>5

\* For any number of clients and dashboards: who makes one the default leaves no other,
\* unless it was overtaken; and only a request that asks for it leaves none.
THEOREM DefaultAlwaysFollows == ApiSpec => DefaultFollowsRequests
<1>1. ApiInit => DashboardsInv
  BY DashboardsInit DEF ApiInit
<1>2. [ApiNext]_apiVars => [D!Next]_(D!vars)
  BY GroupSteps
<1>3. DashboardsInv /\ [D!Next]_(D!vars) => DashboardsInv'
  BY DashboardsStep
<1> QED
  BY <1>1, <1>2, <1>3, DefaultStep, PTL
     DEF ApiSpec, DefaultFollowsRequests, D!DefaultFollowsRequests

-----------------------------------------------------------------------------
\* Alert rules, channels, history.

\* Rules, links, channels and alerts, with the foreign keys between them.
RuleTables(t, l, h, f) ==
  /\ t \in [Rules -> R!Rule \cup {Absent}]
  /\ l \in [Rules -> SUBSET Channels]
  /\ h \in [Channels -> Integrations \cup {Absent}]
  /\ f \in [Alerts -> [rule : Rules, acks : Nat] \cup {Absent}]
  /\ \A r \in Rules : \A x \in l[r] : t[r] # Absent /\ h[x] # Absent
  /\ \A a \in Alerts : f[a] # Absent => t[f[a].rule] # Absent

\* What each request carries: a rule to create is sound, and so is the rule that an
\* update made of the one it loaded.
RuleCarries(r) ==
  /\ r.op = "create" => r.body \in R!Rule /\ R!NoDataSound(r.body)
  /\ r.op = "update" => /\ r.id \in Rules /\ r.view \in R!Rule /\ r.body \in Patches
                        /\ R!NoDataSound(R!Patched(r.view, r.body))
  /\ r.op \in {"delete", "put"} => r.id \in Rules
  /\ r.op = "put" => r.body \in SUBSET Channels /\ r.view \in (SUBSET Channels) \cup {Absent}
  /\ r.op \in {"open", "move"} => r.body \in Integrations
  /\ r.op \in {"move", "close"} => r.id \in Channels
  /\ r.op = "ack" => r.id \in Alerts

\* What was read is what is there, unless another has written it since.
StillRead(r, t, l) ==
  ~ r.raced => /\ r.op = "update" => t[r.id] = r.view
               /\ r.op = "put" /\ r.view # Absent => l[r.id] = r.view

RulesInv ==
  /\ RuleTables(rule, links, channel, fired)
  /\ keysOfRules \subseteq Rules \cup Channels \cup Alerts
  /\ ruleReq \in [Clients -> R!Request \cup {Absent}]
  /\ \A c \in Clients : ruleReq[c] # Absent =>
       RuleCarries(ruleReq[c]) /\ StillRead(ruleReq[c], rule, links)

\* No table row is the null that stands for none.
LEMMA RulesAssumption ==
  /\ Integrations \subseteq Plugins /\ Bodies \subseteq R!Rule
  /\ \A x \in R!Rule, p \in Patches : R!Patched(x, p) \in R!Rule
  /\ Absent \notin R!Rule /\ Absent \notin Integrations /\ Absent \notin R!Request
  /\ \A S \in SUBSET Channels : S # Absent
BY ApiAssumption DEF ApiAssumption, R!AlertRulesAssumption

\* The invariant contains the type invariant.
LEMMA RulesTyped == RulesInv => R!TypeOK
BY DEF RulesInv, RuleTables, R!TypeOK, R!Existing

\* A step that is about one request, and leaves the tables as they are.
LEMMA RuleRequestStep ==
  ASSUME RulesInv, NEW c \in Clients, NEW r \in R!Request \cup {Absent},
         r # Absent => RuleCarries(r) /\ StillRead(r, rule, links),
         ruleReq' = [ruleReq EXCEPT ![c] = r], UNCHANGED R!tables
  PROVE  RulesInv'
<1>1. UNCHANGED <<rule, links, channel, fired, keysOfRules>>
  BY DEF R!tables
<1>2. \A d \in Clients : ruleReq'[d] # Absent =>
        RuleCarries(ruleReq'[d]) /\ StillRead(ruleReq'[d], rule', links')
  BY <1>1 DEF RulesInv
<1>3. ruleReq' \in [Clients -> R!Request \cup {Absent}]
  BY DEF RulesInv
<1>4. RuleTables(rule', links', channel', fired') /\ keysOfRules' = keysOfRules
  BY <1>1 DEF RulesInv
<1> QED
  BY <1>2, <1>3, <1>4 DEF RulesInv

\* A commit: whoever is under way either knows that a row it read was written, or
\* finds what it read.
LEMMA RuleAnswer ==
  ASSUME RulesInv, NEW c \in Clients, NEW ids, R!Answer(c, ids), NEW t, NEW l,
         \A r \in Rules \ ids : t[r] = rule[r] /\ l[r] = links[r]
  PROVE  /\ ruleReq' \in [Clients -> R!Request \cup {Absent}]
         /\ \A d \in Clients : ruleReq'[d] # Absent =>
              RuleCarries(ruleReq'[d]) /\ StillRead(ruleReq'[d], t, l)
<1>1. ASSUME NEW d \in Clients, ruleReq'[d] # Absent
      PROVE  /\ ruleReq'[d] \in R!Request
             /\ RuleCarries(ruleReq'[d]) /\ StillRead(ruleReq'[d], t, l)
  <2> DEFINE flag == ruleReq[d].raced \/ ruleReq[d].id \in ids
  <2>1. ruleReq[d] # Absent /\ ruleReq'[d] = [ruleReq[d] EXCEPT !.raced = flag]
    BY <1>1 DEF R!Answer, R!Idle
  <2>2. /\ ruleReq[d] \in R!Request /\ RuleCarries(ruleReq[d])
        /\ StillRead(ruleReq[d], rule, links)
    BY <2>1 DEF RulesInv
  <2>3. flag \in BOOLEAN /\ (~ flag => ~ ruleReq[d].raced /\ ruleReq[d].id \notin ids)
    BY <2>2 DEF R!Request
  <2> HIDE DEF flag
  <2>4. /\ ruleReq'[d] \in R!Request /\ ruleReq'[d].raced = flag
        /\ ruleReq'[d].op = ruleReq[d].op /\ ruleReq'[d].id = ruleReq[d].id
        /\ ruleReq'[d].body = ruleReq[d].body /\ ruleReq'[d].view = ruleReq[d].view
    BY <2>1, <2>2, <2>3 DEF R!Request
  <2>5. RuleCarries(ruleReq'[d])
    BY <2>2, <2>4 DEF RuleCarries
  <2>6. StillRead(ruleReq'[d], t, l)
    BY <2>2, <2>3, <2>4 DEF StillRead, RuleCarries
  <2> QED
    BY <2>4, <2>5, <2>6
<1>2. ruleReq' = [d \in Clients |-> ruleReq'[d]]
  BY DEF R!Answer
<1> QED
  BY <1>1, <1>2

\* Opening a request.
LEMMA RuleAskStep ==
  ASSUME RulesInv, NEW c \in Clients, NEW op, NEW id, NEW body, NEW view,
         R!Ask(c, op, id, body, view),
         op \in {"create", "update", "delete", "put", "open", "move", "close", "ack"},
         id \in Rules \cup Channels \cup Alerts \cup {Absent},
         body \in R!Rule \cup Patches \cup (SUBSET Channels) \cup Integrations \cup {Absent},
         view \in R!Rule \cup {0, Absent},
         op = "create" => body \in R!Rule /\ R!NoDataSound(body),
         op = "update" => /\ id \in Rules /\ view \in R!Rule /\ body \in Patches
                          /\ R!NoDataSound(R!Patched(view, body)) /\ rule[id] = view,
         op \in {"delete", "put"} => id \in Rules,
         op = "put" => body \in SUBSET Channels /\ view = Absent,
         op \in {"open", "move"} => body \in Integrations,
         op \in {"move", "close"} => id \in Channels,
         op = "ack" => id \in Alerts
  PROVE  RulesInv'
<1> DEFINE r == [op |-> op, id |-> id, body |-> body, view |-> view, raced |-> FALSE]
<1>1. r \in R!Request
  BY DEF R!Request
<1>2. RuleCarries(r) /\ StillRead(r, rule, links)
  BY DEF RuleCarries, StillRead
<1>3. ruleReq' = [ruleReq EXCEPT ![c] = r] /\ UNCHANGED R!tables
  BY DEF R!Ask
<1> HIDE DEF r
<1> QED
  BY <1>1, <1>2, <1>3, RuleRequestStep


\* A handler that only asks: what it read is in the request.
LEMMA RuleAsks ==
  ASSUME RulesInv, NEW c \in Clients,
         \/ \E x \in Bodies : R!CreateRule(c, x)
         \/ \E r \in Rules :
              \/ \E patch \in Patches : R!UpdateRule(c, r, patch)
              \/ R!DeleteRule(c, r)
              \/ \E desired \in SUBSET Channels : R!SetChannels(c, r, desired)
         \/ \E p \in Plugins :
              R!CreateChannel(c, p) \/ \E h \in Channels : R!UpdateChannel(c, h, p)
         \/ \E h \in Channels : R!DeleteChannel(c, h)
         \/ \E a \in Alerts : R!Acknowledge(c, a)
  PROVE  RulesInv'
<1> USE RulesAssumption
<1>1. ASSUME NEW x \in Bodies, R!CreateRule(c, x) PROVE RulesInv'
  <2>1. x \in R!Rule /\ R!NoDataSound(x) /\ R!Ask(c, "create", Absent, x, Absent)
    BY <1>1 DEF R!CreateRule, R!Creatable
  <2> QED
    BY <2>1, RuleAskStep
<1>2. ASSUME NEW r \in Rules, NEW patch \in Patches, R!UpdateRule(c, r, patch) PROVE RulesInv'
  <2>1. /\ rule[r] \in R!Rule /\ R!NoDataSound(R!Patched(rule[r], patch))
        /\ R!Ask(c, "update", r, patch, rule[r])
    BY <1>2 DEF R!UpdateRule, RulesInv, RuleTables
  <2> QED
    BY <2>1, RuleAskStep
<1>3. ASSUME NEW r \in Rules, R!DeleteRule(c, r) PROVE RulesInv'
  BY <1>3, RuleAskStep DEF R!DeleteRule
<1>4. ASSUME NEW r \in Rules, NEW desired \in SUBSET Channels, R!SetChannels(c, r, desired)
      PROVE  RulesInv'
  BY <1>4, RuleAskStep DEF R!SetChannels
<1>5. ASSUME NEW p \in Plugins, R!CreateChannel(c, p) PROVE RulesInv'
  BY <1>5, RuleAskStep DEF R!CreateChannel
<1>6. ASSUME NEW p \in Plugins, NEW h \in Channels, R!UpdateChannel(c, h, p) PROVE RulesInv'
  BY <1>6, RuleAskStep DEF R!UpdateChannel
<1>7. ASSUME NEW h \in Channels, R!DeleteChannel(c, h) PROVE RulesInv'
  BY <1>7, RuleAskStep DEF R!DeleteChannel
<1>8. ASSUME NEW a \in Alerts, R!Acknowledge(c, a) PROVE RulesInv'
  <2>1. fired[a].acks = 0 /\ R!Ask(c, "ack", a, Absent, 0)
    BY <1>8 DEF R!Acknowledge
  <2> QED
    BY <2>1, RuleAskStep
<1> QED
  BY <1>1, <1>2, <1>3, <1>4, <1>5, <1>6, <1>7, <1>8

\* A failure, and the second read of PUT, change no table.
LEMMA RuleReads ==
  ASSUME RulesInv, NEW c \in Clients, R!ReadLinks(c) \/ R!Fail(c)
  PROVE  RulesInv'
<1>1. CASE R!ReadLinks(c)
  <2> DEFINE v == links[ruleReq[c].id]
             r == [ruleReq[c] EXCEPT !.view = v, !.raced = FALSE]
  <2>1. /\ ruleReq[c] # Absent /\ ruleReq[c].op = "put" /\ UNCHANGED R!tables
        /\ ruleReq' = [ruleReq EXCEPT ![c].view = v, ![c].raced = FALSE]
    BY <1>1 DEF R!ReadLinks, R!At, R!Idle
  <2>2. ruleReq[c] \in R!Request /\ RuleCarries(ruleReq[c])
    BY <2>1 DEF RulesInv
  <2>3. ruleReq' = [ruleReq EXCEPT ![c] = r]
    BY <2>1, <2>2 DEF R!Request, RulesInv
  <2>4. v \in SUBSET Channels
    BY <2>1, <2>2 DEF RulesInv, RuleTables, RuleCarries
  <2>5. r \in R!Request /\ r.op = "put" /\ r.id = ruleReq[c].id /\ r.body = ruleReq[c].body
        /\ r.view = v /\ r.raced = FALSE
    BY <2>1, <2>2, <2>4 DEF R!Request
  <2>6. RuleCarries(r) /\ StillRead(r, rule, links)
    BY <2>1, <2>2, <2>4, <2>5 DEF RuleCarries, StillRead
  <2> HIDE DEF r
  <2> QED
    BY <2>1, <2>3, <2>5, <2>6, RuleRequestStep
<1>2. CASE R!Fail(c)
  BY <1>2, RuleRequestStep, RulesAssumption DEF R!Fail, R!Idle
<1> QED
  BY <1>1, <1>2

\* What a commit leaves has only to be looked at for its tables.
LEMMA RuleCommitted ==
  ASSUME RulesInv, NEW c \in Clients, NEW ids, R!Answer(c, ids),
         \A r \in Rules \ ids : rule'[r] = rule[r] /\ links'[r] = links[r],
         RuleTables(rule', links', channel', fired'),
         keysOfRules' \subseteq Rules \cup Channels \cup Alerts
  PROVE  RulesInv'
BY RuleAnswer DEF RulesInv

\* A new rule has no links yet, and nobody has read it.
LEMMA CreateRuleStep ==
  ASSUME RulesInv, NEW c \in Clients, R!CreateRuleCommit(c)
  PROVE  RulesInv'
<1>1. PICK r \in Rules : /\ rule' = [rule EXCEPT ![r] = ruleReq[c].body]
                         /\ keysOfRules' = keysOfRules \cup {r} /\ R!Answer(c, {r})
  BY DEF R!CreateRuleCommit
<1>2. ruleReq[c].body \in R!Rule /\ UNCHANGED <<links, channel, fired>>
  BY DEF R!CreateRuleCommit, R!At, R!Idle, RulesInv, RuleCarries
<1>3. RuleTables(rule', links', channel', fired')
  BY <1>1, <1>2, RulesAssumption DEF RulesInv, RuleTables
<1>4. \A s \in Rules \ {r} : rule'[s] = rule[s] /\ links'[s] = links[s]
  BY <1>1, <1>2 DEF RulesInv, RuleTables
<1> QED
  BY <1>1, <1>3, <1>4, RuleCommitted DEF RulesInv

\* Writing only the columns that differ from the rule that was loaded makes the rule
\* that was checked, if the row is still the one loaded.
LEMMA DirtyColumns ==
  ASSUME NEW x \in R!Rule, NEW new \in R!Rule, NEW now \in R!Rule
  PROVE  LET dirty == {f \in DOMAIN x : new[f] # x[f]}
             left == R!Patched(now, [f \in dirty |-> new[f]]) IN
         left \in R!Rule /\ (now = x => left = new) /\ (dirty = {} => left = now)
BY DEF R!Rule, R!Patched

\* An update overtakes every other one of the same rule.
LEMMA UpdateRuleStep ==
  ASSUME RulesInv, NEW c \in Clients, R!UpdateRuleCommit(c)
  PROVE  RulesInv'
<1> DEFINE r == ruleReq[c].id
           x == ruleReq[c].view
           new == R!Patched(x, ruleReq[c].body)
           dirty == {f \in DOMAIN x : new[f] # x[f]}
           left == R!Patched(rule[r], [f \in dirty |-> new[f]])
           ids == IF dirty = {} THEN {} ELSE {r}
<1>1. /\ ruleReq[c] # Absent /\ ruleReq[c].op = "update" /\ rule[r] # Absent
      /\ rule' = [rule EXCEPT ![r] = left] /\ R!Answer(c, ids)
      /\ UNCHANGED <<links, channel, fired, keysOfRules>>
  BY DEF R!UpdateRuleCommit, R!At, R!Idle
<1>2. r \in Rules /\ x \in R!Rule /\ ruleReq[c].body \in Patches
  BY <1>1 DEF RulesInv, RuleCarries
<1>3. rule[r] \in R!Rule
  BY <1>1, <1>2 DEF RulesInv, RuleTables
<1>4. new \in R!Rule
  BY <1>2, RulesAssumption
<1>5. left \in R!Rule /\ (dirty = {} => left = rule[r])
  BY <1>2, <1>3, <1>4, DirtyColumns
<1> HIDE DEF r, left, dirty
<1>6. RuleTables(rule', links', channel', fired')
  BY <1>1, <1>2, <1>5, RulesAssumption DEF RulesInv, RuleTables
<1>7. \A s \in Rules \ ids : rule'[s] = rule[s] /\ links'[s] = links[s]
  BY <1>1, <1>2, <1>5 DEF RulesInv, RuleTables
<1> QED
  BY <1>1, <1>6, <1>7, RuleCommitted DEF RulesInv

\* A rule takes its links and its alerts with it.
LEMMA DeleteRuleStep ==
  ASSUME RulesInv, NEW c \in Clients, R!DeleteRuleCommit(c)
  PROVE  RulesInv'
<1> DEFINE r == ruleReq[c].id
<1>1. /\ rule' = [rule EXCEPT ![r] = Absent] /\ links' = [links EXCEPT ![r] = {}]
      /\ fired' = [a \in Alerts |-> IF fired[a] # Absent /\ fired[a].rule = r THEN Absent
                                    ELSE fired[a]]
      /\ R!Answer(c, {r}) /\ UNCHANGED <<channel, keysOfRules>>
  BY DEF R!DeleteRuleCommit
<1>2. r \in Rules
  BY DEF R!DeleteRuleCommit, R!At, R!Idle, RulesInv, RuleCarries
<1> HIDE DEF r
<1>3. RuleTables(rule', links', channel', fired')
  <2>1. fired' \in [Alerts -> [rule : Rules, acks : Nat] \cup {Absent}]
    BY <1>1 DEF RulesInv, RuleTables
  <2>2. rule' \in [Rules -> R!Rule \cup {Absent}] /\ links' \in [Rules -> SUBSET Channels]
    BY <1>1 DEF RulesInv, RuleTables
  <2>3. \A s \in Rules : \A h \in links'[s] : rule'[s] # Absent /\ channel'[h] # Absent
    BY <1>1, <1>2 DEF RulesInv, RuleTables
  <2>4. \A a \in Alerts : fired'[a] # Absent => rule'[fired'[a].rule] # Absent
    BY <1>1, <1>2 DEF RulesInv, RuleTables
  <2> QED
    BY <1>1, <2>1, <2>2, <2>3, <2>4 DEF RulesInv, RuleTables
<1>4. \A s \in Rules \ {r} : rule'[s] = rule[s] /\ links'[s] = links[s]
  BY <1>1 DEF RulesInv, RuleTables
<1> QED
  BY <1>1, <1>3, <1>4, RuleCommitted DEF RulesInv

\* The new links are channels that are there.
LEMMA SetChannelsStep ==
  ASSUME RulesInv, NEW c \in Clients, R!SetChannelsCommit(c)
  PROVE  RulesInv'
<1> DEFINE r == ruleReq[c].id
           add == ruleReq[c].body \ ruleReq[c].view
           remove == ruleReq[c].view \ ruleReq[c].body
           ids == IF add \cup remove = {} THEN {} ELSE {r}
<1>1. /\ rule[r] # Absent /\ add \subseteq R!Existing(channel) \ links[r]
      /\ links' = [links EXCEPT ![r] = (@ \cup add) \ remove]
      /\ R!Answer(c, ids) /\ UNCHANGED <<rule, channel, fired, keysOfRules>>
  BY DEF R!SetChannelsCommit
<1>2. r \in Rules
  BY DEF R!SetChannelsCommit, R!At, R!Idle, RulesInv, RuleCarries
<1>3. add \subseteq Channels /\ \A h \in add : channel[h] # Absent
  BY <1>1 DEF R!Existing, RulesInv, RuleTables
<1> HIDE DEF r, add, remove
<1>4. RuleTables(rule', links', channel', fired')
  <2>1. links' \in [Rules -> SUBSET Channels]
    BY <1>1, <1>2, <1>3 DEF RulesInv, RuleTables
  <2>2. \A s \in Rules : \A h \in links'[s] : rule'[s] # Absent /\ channel'[h] # Absent
    BY <1>1, <1>2, <1>3 DEF RulesInv, RuleTables
  <2> QED
    BY <1>1, <2>1, <2>2 DEF RulesInv, RuleTables
<1>5. \A s \in Rules \ ids : rule'[s] = rule[s] /\ links'[s] = links[s]
  BY <1>1, <1>2 DEF RulesInv, RuleTables
<1> QED
  BY <1>1, <1>4, <1>5, RuleCommitted DEF RulesInv

\* A channel is made, or moved to another plugin.
LEMMA ChannelStep ==
  ASSUME RulesInv, NEW c \in Clients, R!ChannelCommit(c)
  PROVE  RulesInv'
<1>1. PICK h \in Channels : /\ channel' = [channel EXCEPT ![h] = ruleReq[c].body]
                            /\ keysOfRules' = keysOfRules \cup {h} /\ R!Answer(c, {h})
  BY DEF R!ChannelCommit
<1>2. ruleReq[c].body \in Integrations /\ UNCHANGED <<rule, links, fired>>
  BY DEF R!ChannelCommit, R!At, R!Idle, RulesInv, RuleCarries
<1>3. RuleTables(rule', links', channel', fired')
  BY <1>1, <1>2, RulesAssumption DEF RulesInv, RuleTables
<1> QED
  BY <1>1, <1>2, <1>3, RuleCommitted DEF RulesInv

\* A channel takes the links to it with it.
LEMMA DeleteChannelStep ==
  ASSUME RulesInv, NEW c \in Clients, R!DeleteChannelCommit(c)
  PROVE  RulesInv'
<1> DEFINE h == ruleReq[c].id
           ids == {h} \cup {r \in Rules : h \in links[r]}
<1>1. /\ channel' = [channel EXCEPT ![h] = Absent] /\ links' = [r \in Rules |-> links[r] \ {h}]
      /\ R!Answer(c, ids) /\ UNCHANGED <<rule, fired, keysOfRules>>
  BY DEF R!DeleteChannelCommit
<1> HIDE DEF h
<1>2. RuleTables(rule', links', channel', fired')
  BY <1>1 DEF RulesInv, RuleTables
<1>3. \A s \in Rules \ ids : rule'[s] = rule[s] /\ links'[s] = links[s]
  BY <1>1 DEF RulesInv, RuleTables
<1> QED
  BY <1>1, <1>2, <1>3, RuleCommitted DEF RulesInv

\* An alert is acknowledged.
LEMMA AcknowledgeStep ==
  ASSUME RulesInv, NEW c \in Clients, R!AcknowledgeCommit(c)
  PROVE  RulesInv'
<1> DEFINE a == ruleReq[c].id
<1>1. /\ fired[a] # Absent /\ fired' = [fired EXCEPT ![a].acks = @ + 1] /\ R!Answer(c, {a})
      /\ UNCHANGED <<rule, links, channel, keysOfRules>>
  BY DEF R!AcknowledgeCommit
<1>2. a \in Alerts
  BY DEF R!AcknowledgeCommit, R!At, R!Idle, RulesInv, RuleCarries
<1>3. fired[a] \in [rule : Rules, acks : Nat]
  BY <1>1, <1>2 DEF RulesInv, RuleTables
<1> HIDE DEF a
<1>4. /\ fired'[a] \in [rule : Rules, acks : Nat] /\ fired'[a].rule = fired[a].rule
      /\ \A b \in Alerts \ {a} : fired'[b] = fired[b]
      /\ fired' = [b \in Alerts |-> fired'[b]]
  <2>1. fired \in [Alerts -> [rule : Rules, acks : Nat] \cup {Absent}]
    BY DEF RulesInv, RuleTables
  <2>2. fired' = [fired EXCEPT ![a] = [fired[a] EXCEPT !.acks = @ + 1]]
    BY <1>1
  <2>3. /\ [fired[a] EXCEPT !.acks = @ + 1] \in [rule : Rules, acks : Nat]
        /\ [fired[a] EXCEPT !.acks = @ + 1].rule = fired[a].rule
    BY <1>3
  <2> QED
    BY <1>2, <2>1, <2>2, <2>3
<1>5. fired' \in [Alerts -> [rule : Rules, acks : Nat] \cup {Absent}]
  BY <1>4 DEF RulesInv, RuleTables
<1>6. \A b \in Alerts : fired'[b] # Absent => rule[fired'[b].rule] # Absent
  BY <1>1, <1>2, <1>4 DEF RulesInv, RuleTables
<1>7. RuleTables(rule', links', channel', fired')
  BY <1>1, <1>5, <1>6 DEF RulesInv, RuleTables
<1> QED
  BY <1>1, <1>7, RuleCommitted DEF RulesInv

\* The alerts worker records a fire of a rule that is there.
LEMMA FireStep ==
  ASSUME RulesInv, NEW r \in Rules, NEW a \in Alerts, R!Fire(r, a)
  PROVE  RulesInv'
<1>1. /\ rule[r] # Absent /\ fired' = [fired EXCEPT ![a] = [rule |-> r, acks |-> 0]]
      /\ keysOfRules' = keysOfRules \cup {a} /\ UNCHANGED <<rule, links, channel, ruleReq>>
  BY DEF R!Fire
<1>2. RuleTables(rule', links', channel', fired')
  BY <1>1 DEF RulesInv, RuleTables
<1> QED
  BY <1>1, <1>2 DEF RulesInv

\* The rules start in their invariant: nobody has asked for anything.
LEMMA RulesInit == R!Init => RulesInv
BY DEF R!Init, RulesInv, RuleTables, R!Idle

\* The invariant is inductive.
LEMMA RulesStep == RulesInv /\ [R!Next]_(R!vars) => RulesInv'
<1> SUFFICES ASSUME RulesInv, [R!Next]_(R!vars) PROVE RulesInv'
  OBVIOUS
<1>1. CASE UNCHANGED R!vars
  BY <1>1 DEF R!vars, R!tables, RulesInv
<1>2. CASE R!Next
  BY <1>2, RuleAsks, RuleReads, CreateRuleStep, UpdateRuleStep, DeleteRuleStep, SetChannelsStep,
     ChannelStep, DeleteChannelStep, AcknowledgeStep, FireStep DEF R!Next
<1> QED
  BY <1>1, <1>2


\* A sound rule is spoiled by an update only, and only by one that was overtaken.
LEMMA SoundStep ==
  ASSUME RulesInv, [R!Next]_(R!vars), NEW r \in Rules,
         rule[r] # Absent => R!NoDataSound(rule[r]), rule'[r] # Absent,
         ~ R!NoDataSound(rule'[r])
  PROVE  \E c \in Clients : R!Answers(c) /\ ruleReq[c].id = r /\ ruleReq[c].raced
<1>1. rule # rule'
  BY DEF RulesInv, RuleTables
<1>2. ASSUME NEW c \in Clients, R!CreateRuleCommit(c) PROVE FALSE
  <2>1. PICK s \in Rules : rule' = [rule EXCEPT ![s] = ruleReq[c].body]
    BY <1>2 DEF R!CreateRuleCommit
  <2>2. R!NoDataSound(ruleReq[c].body)
    BY <1>2 DEF R!CreateRuleCommit, R!At, R!Idle, RulesInv, RuleCarries
  <2> QED
    BY <2>1, <2>2 DEF RulesInv, RuleTables
<1>3. ASSUME NEW c \in Clients, R!UpdateRuleCommit(c)
      PROVE  R!Answers(c) /\ ruleReq[c].id = r /\ ruleReq[c].raced
  <2> DEFINE s == ruleReq[c].id
             x == ruleReq[c].view
             new == R!Patched(x, ruleReq[c].body)
             dirty == {f \in DOMAIN x : new[f] # x[f]}
             left == R!Patched(rule[s], [f \in dirty |-> new[f]])
  <2>1. /\ ruleReq[c] # Absent /\ ruleReq[c].op = "update" /\ rule[s] # Absent
        /\ rule' = [rule EXCEPT ![s] = left]
        /\ R!Answer(c, IF dirty = {} THEN {} ELSE {s})
    BY <1>3 DEF R!UpdateRuleCommit, R!At, R!Idle
  <2>2. /\ s \in Rules /\ x \in R!Rule /\ ruleReq[c].body \in Patches /\ R!NoDataSound(new)
        /\ (~ ruleReq[c].raced => rule[s] = x)
    BY <2>1 DEF RulesInv, RuleCarries, StillRead
  <2>3. rule[s] \in R!Rule /\ new \in R!Rule
    BY <2>1, <2>2, RulesAssumption DEF RulesInv, RuleTables
  <2>4. ~ ruleReq[c].raced => left = new
    BY <2>2, <2>3, DirtyColumns
  <2>5. R!Answers(c)
    BY <2>1 DEF R!Answer, R!Answers, R!Idle
  <2> HIDE DEF left, new
  <2> QED
    BY <2>1, <2>2, <2>4, <2>5 DEF RulesInv, RuleTables
<1>4. ASSUME NEW c \in Clients, R!DeleteRuleCommit(c) PROVE FALSE
  <2>1. rule' = [rule EXCEPT ![ruleReq[c].id] = Absent]
    BY <1>4 DEF R!DeleteRuleCommit
  <2> QED
    BY <2>1 DEF RulesInv, RuleTables
<1> QED
  BY <1>1, <1>2, <1>3, <1>4
     DEF R!Next, R!vars, R!tables, R!Fire, R!CreateRule, R!UpdateRule, R!DeleteRule, R!SetChannels,
         R!ReadLinks, R!SetChannelsCommit, R!CreateChannel, R!UpdateChannel, R!ChannelCommit,
         R!DeleteChannel, R!DeleteChannelCommit, R!Acknowledge, R!AcknowledgeCommit, R!Fail, R!Ask

\* For any number of clients and rules, and every sequence of partial updates.
THEOREM SoundRulesStaySound == ApiSpec => NoDataStaysSound
<1>1. ApiInit => RulesInv
  BY RulesInit DEF ApiInit
<1>2. [ApiNext]_apiVars => [R!Next]_(R!vars)
  BY GroupSteps
<1>3. RulesInv /\ [R!Next]_(R!vars) => RulesInv'
  BY RulesStep
<1>4. RulesInv /\ [R!Next]_(R!vars) =>
        \A r \in Rules :
          (rule[r] # Absent => R!NoDataSound(rule[r])) /\ rule'[r] # Absent =>
            \/ R!NoDataSound(rule'[r])
            \/ \E c \in Clients : R!Answers(c) /\ ruleReq[c].id = r /\ ruleReq[c].raced
  BY SoundStep
<1> QED
  BY <1>1, <1>2, <1>3, <1>4, PTL DEF ApiSpec, NoDataStaysSound, R!NoDataStaysSound

\* For any number of clients: a PUT that nothing overtook leaves the list it was given.
THEOREM LinksAlwaysFollow == ApiSpec => LinksFollowRequests
<1>1. ApiInit => RulesInv
  BY RulesInit DEF ApiInit
<1>2. [ApiNext]_apiVars => [R!Next]_(R!vars)
  BY GroupSteps
<1>3. RulesInv /\ [R!Next]_(R!vars) => RulesInv'
  BY RulesStep
<1>4. RulesInv => \A c \in Clients : R!SetChannelsCommit(c) =>
                     ruleReq[c].raced \/ links'[ruleReq[c].id] = ruleReq[c].body
  <2> SUFFICES ASSUME RulesInv, NEW c \in Clients, R!SetChannelsCommit(c), ~ ruleReq[c].raced
               PROVE  links'[ruleReq[c].id] = ruleReq[c].body
    OBVIOUS
  <2>1. /\ ruleReq[c] # Absent /\ ruleReq[c].op = "put" /\ ruleReq[c].view # Absent
        /\ links' = [links EXCEPT ![ruleReq[c].id] =
                       (@ \cup (ruleReq[c].body \ ruleReq[c].view))
                       \ (ruleReq[c].view \ ruleReq[c].body)]
    BY DEF R!SetChannelsCommit, R!At, R!Idle
  <2>2. ruleReq[c].id \in Rules /\ links[ruleReq[c].id] = ruleReq[c].view
    BY <2>1 DEF RulesInv, RuleCarries, StillRead
  <2> QED
    BY <2>1, <2>2 DEF RulesInv, RuleTables
<1> QED
  BY <1>1, <1>2, <1>3, <1>4, PTL DEF ApiSpec, LinksFollowRequests, R!LinksFollowRequests

-----------------------------------------------------------------------------
\* For any number of clients and rows of each table: the rows keep their types, and
\* no foreign key or constraint between them is broken.
THEOREM ApiTypeCorrect == ApiSpec => []ApiTypeOK
<1> DEFINE Groups == group \in {"accounts", "config", "dashboards", "rules"}
           All == Groups /\ Inv /\ ConfigInv /\ DashboardsInv /\ RulesInv
<1>1. ApiInit => All
  BY ApiAssumption, InvInit, ConfigInit, DashboardsInit, RulesInit DEF ApiInit, ApiAssumption
<1>2. All /\ [ApiNext]_apiVars => All'
  <2> SUFFICES ASSUME All, [ApiNext]_apiVars PROVE All'
    OBVIOUS
  <2>1. Groups'
    BY DEF ApiNext, apiVars
  <2>2. Inv'
    BY GroupSteps, Steps, ApiAssumption DEF ApiAssumption
  <2>3. ConfigInv' /\ DashboardsInv' /\ RulesInv'
    BY GroupSteps, ConfigStep, DashboardsStep, RulesStep
  <2> QED
    BY <2>1, <2>2, <2>3
<1>3. All => ApiTypeOK
  BY RulesTyped DEF ApiTypeOK, Inv, ConfigInv, DashboardsInv
<1> QED
  BY <1>1, <1>2, <1>3, PTL DEF ApiSpec
==============================================================================
