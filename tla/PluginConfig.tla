----------------------------- MODULE PluginConfig -----------------------------
(***************************************************************************)
(* The configuration of one plugin: plugin_config/service.py, the routes   *)
(* under /api/plugins/{id}/config, and the schema the supervisor writes.   *)
(* plugins.config is one JSON column, read by a request, merged in Python  *)
(* and written back whole; other requests run between the two statements.  *)
(***************************************************************************)
EXTENDS FieldTypes, Sequences

CONSTANTS
  Clients,    \* concurrent requests
  Keys,       \* field keys
  Manifests,  \* the config_schema blocks of the plugin's versions
  Raws,       \* JSON values a client may send
  MaxVersion  \* bound on config_version

VARIABLES
  manifest,   \* the block on disk, read by the supervisor and the subprocess
  row,        \* the plugin's row: schema, config (a function), version
  req         \* the request each client is waiting for

vars == <<manifest, row, req>>

\* Functions whose domain is part of S.
Partial(S, T) == UNION {[D -> T] : D \in SUBSET S}
At(f, k) == IF k \in DOMAIN f THEN f[k] ELSE Absent
Idle == Absent
Blank == [kind |-> "string", value |-> ""]

-----------------------------------------------------------------------------
\* registry.py

ZeroDefault(type) ==
  CASE type \in Numeric -> [kind |-> type, value |-> 0]
    [] type = "bool" -> [kind |-> "bool", value |-> FALSE]
    [] OTHER -> Blank

Field(e) == [e EXCEPT !.default = IF @ = Absent THEN ZeroDefault(e.type) ELSE @]

\* parse_schema() accepts the block: no key twice, known types, and defaults
\* that a client could have sent.
Parses(m) ==
  /\ \A i, j \in DOMAIN m : m[i].key = m[j].key => i = j
  /\ \A i \in DOMAIN m : m[i].type \in Types /\ Accepts(Field(m[i]), Field(m[i]).default)

Schema(m) ==
  [k \in {m[i].key : i \in DOMAIN m} |-> Field(m[CHOOSE i \in DOMAIN m : m[i].key = k])]

-----------------------------------------------------------------------------
\* service.py: what the stored overrides and the schema make.

\* Mutant of Effective: overrides are taken as they were stored.
EffectiveUnchecked(schema, stored) ==
  [k \in DOMAIN schema |-> IF k \in DOMAIN stored THEN stored[k] ELSE schema[k].default]

Effective(schema, stored) == [k \in DOMAIN schema |-> Resolve(schema[k], At(stored, k))]

\* The fields of GET and of PATCH's answer: a secret is shown as set or unset.
Shown(schema, stored) ==
  [k \in DOMAIN schema |->
     LET value == Effective(schema, stored)[k] IN
       IF schema[k].type # "secret" THEN [value |-> value, default |-> schema[k].default]
       ELSE [value |-> IF k \in DOMAIN stored /\ value # Blank THEN "mask" ELSE Absent,
             default |-> Absent]]

\* What run_single configures the plugin with: the manifest's defaults while
\* there is no row.
LoadEffective ==
  IF row = Absent THEN Effective(Schema(manifest), <<>>)
  ELSE Effective(Schema(row.schema), row.config)

Overrides == Partial(Keys, Raws)
Row == [schema : {m \in Manifests : Parses(m)}, config : Overrides, version : 0 .. MaxVersion]

\* keys are those the request is about, set the values it gives them (a key
\* without one is reset), view the row as it loaded it.  raced (history):
\* another wrote since.
Request == [keys : SUBSET Keys, set : Overrides, raced : BOOLEAN,
            view : [config : Overrides, version : 0 .. MaxVersion]]

\* What the constants have to be.
PluginConfigAssumption ==
  /\ MaxVersion \in Nat
  /\ \A r \in Raws : IsJson(r)
  /\ \A t \in Types : \A r \in Raws : Fits(t, r) => Coerced(t, r) \in Raws
  /\ Absent \notin Raws /\ Absent \notin Row /\ Absent \notin Request

TypeOK ==
  /\ manifest \in Manifests /\ Parses(manifest)
  /\ row \in Row \cup {Absent}
  /\ req \in [Clients -> Request \cup {Idle}]
  /\ \A c \in Clients : req[c] # Idle =>
       /\ row # Absent /\ req[c].view.version <= row.version
       /\ DOMAIN req[c].set \subseteq req[c].keys

-----------------------------------------------------------------------------
\* The plugin is upgraded on disk; a block that does not parse is skipped.
Upgrade(m) == Parses(m) /\ manifest' = m /\ UNCHANGED <<row, req>>

\* ensure_plugin_rows(), when the supervisor starts.
Bootstrap ==
  /\ row' = IF row = Absent THEN [schema |-> manifest, config |-> <<>>, version |-> 0]
            ELSE [row EXCEPT !.schema = manifest]
  /\ UNCHANGED <<manifest, req>>

\* A request has loaded the row.
Ask(c, keys, set) ==
  /\ req[c] = Idle /\ row # Absent
  /\ req' = [req EXCEPT ![c] =
               [keys |-> keys, set |-> set, raced |-> FALSE,
                view |-> [config |-> row.config, version |-> row.version]]]
  /\ UNCHANGED <<manifest, row>>

\* The updates that count: a blank secret means the one that is stored.
Kept(schema, updates) ==
  {k \in DOMAIN updates :
     k \in DOMAIN schema /\ schema[k].type = "secret" => updates[k] # Blank}

\* update(): nothing is written unless every update is valid.
UpdateLoad(c, updates) ==
  /\ req[c] = Idle /\ row # Absent
  /\ LET schema == Schema(row.schema)  keys == Kept(schema, updates) IN
       /\ \A k \in keys : k \in DOMAIN schema /\ Accepts(schema[k], updates[k])
       /\ Ask(c, keys, [k \in keys |-> Coerced(schema[k].type, updates[k])])

\* reset(): one key, or all that are set.
ResetLoad(c, keys) == Ask(c, keys, <<>>)

\* The column as the request makes it from what it loaded.
Merged(r) ==
  [k \in DOMAIN r.set \cup (DOMAIN r.view.config \ r.keys) |->
     IF k \in DOMAIN r.set THEN r.set[k] ELSE r.view.config[k]]

\* Mutant of Written: the version is counted from the row as it was loaded.
WrittenCounted(r) ==
  [row EXCEPT !.config = IF r.keys = {} THEN @ ELSE Merged(r),
              !.version = r.view.version + 1]

\* Mutant of Written: only the keys of the request are written.
WrittenAlone(r) == [row EXCEPT !.config = r.set, !.version = @ + 1]

\* The UPDATE: the column whole, the version counted by the database.  A request
\* in which no update counts raises the version alone.
Written(r) ==
  [row EXCEPT !.config = IF r.keys = {} THEN @ ELSE Merged(r),
              !.version = @ + 1]

UpdateWrite(c) ==
  /\ req[c] # Idle /\ row.version < MaxVersion
  /\ row' = Written(req[c])
  /\ req' = [d \in Clients |-> IF d = c \/ req[d] = Idle THEN Idle
                               ELSE [req[d] EXCEPT !.raced = TRUE]]
  /\ UNCHANGED manifest

\* The UPDATE or the commit fails, and nothing is written.
Fail(c) == req[c] # Idle /\ req' = [req EXCEPT ![c] = Idle] /\ UNCHANGED <<manifest, row>>

-----------------------------------------------------------------------------
Init ==
  /\ manifest \in {m \in Manifests : Parses(m)}
  /\ row = Absent /\ req = [c \in Clients |-> Idle]

Next ==
  \/ \E m \in Manifests : Upgrade(m)
  \/ Bootstrap
  \/ \E c \in Clients :
       \/ \E updates \in Partial(Keys, Raws) \ {<<>>} : UpdateLoad(c, updates)
       \/ \E keys \in {Keys} \cup {{k} : k \in Keys} : ResetLoad(c, keys)
       \/ UpdateWrite(c) \/ Fail(c)

Spec == Init /\ [][Next]_vars

-----------------------------------------------------------------------------
Answers(c) == req[c] # Idle /\ req'[c] = Idle

\* Whatever was stored under earlier versions of the schema, the page shows
\* and the subprocess is given values of the present types, and no page shows a
\* secret or its default (effective_values, _to_field_read).
ConfigIsTyped ==
  /\ row # Absent =>
       LET schema == Schema(row.schema)  shown == Shown(schema, row.config) IN
         \A k \in DOMAIN schema :
           IF schema[k].type = "secret"
           THEN shown[k].value \in {"mask", Absent} /\ shown[k].default = Absent
           ELSE Fits(schema[k].type, shown[k].value)
  /\ LET schema == Schema(IF row = Absent THEN manifest ELSE row.schema) IN
       \A k \in DOMAIN schema : Fits(schema[k].type, LoadEffective[k])

\* The supervisor, which restarts a plugin when config_version has changed
\* (plugin_runner/db.py), misses no change of the configuration: two that
\* overlap do not end with one version.
ChangeRaisesVersion ==
  [][row # Absent /\ row'.config # row.config => row'.version > row.version]_vars

\* An override changes only by a request for that key, or by one that another
\* overtook between its read and its write: then it puts back what it had read.
OverridesKept ==
  [][row # Absent =>
       \A k \in Keys : At(row'.config, k) # At(row.config, k) =>
         \E c \in Clients : Answers(c) /\ (k \in req[c].keys \/ req[c].raced)]_vars

===============================================================================
