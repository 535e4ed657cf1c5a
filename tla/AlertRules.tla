------------------------------ MODULE AlertRules ------------------------------
(***************************************************************************)
(* What the alerting pages of the API do to the database: rules, their     *)
(* channels and the acknowledgement of fired alerts (routes/alerts.py,     *)
(* routes/channels.py, schemas/alerts.py).  A handler reads in one         *)
(* statement and writes in another, and the others run in between.  How    *)
(* the alert worker uses the rows is AlertEngine's subject.                *)
(***************************************************************************)
EXTENDS Naturals

CONSTANTS
  Clients,                   \* concurrent requests
  Rules, Channels, Alerts,   \* primary keys, each used once
  Bodies, Patches,           \* bodies of POST: rules; of PATCH: some fields of a rule
  Plugins, Integrations,     \* rows of plugins, those of type "integration"
  Absent                     \* no row, no request, a null

VARIABLES
  rule,     \* table alert_rules
  links,    \* table alert_rule_channels: the channels of each rule
  channel,  \* table notification_channels: plugin_id of each row
  fired,    \* table alert_history: each row's rule and how often it was acknowledged
  spent,    \* keys some row has had
  req       \* the request each client is waiting for

tables == <<rule, links, channel, fired, spent>>
vars == <<tables, req>>

Rule == [type : {"instant", "aggregated"}, condition : {"gt", "no_data"},
         threshold : {1, Absent}, aggregation : {"avg", Absent}, duration : {0, 60}]

Patched(x, patch) ==
  [f \in DOMAIN x |-> IF f \in DOMAIN patch THEN patch[f] ELSE x[f]]

Request == [op : {"create", "update", "delete", "put", "open", "move", "close", "ack"},
            id : Rules \cup Channels \cup Alerts \cup {Absent}, raced : BOOLEAN,
            body : Rule \cup Patches \cup (SUBSET Channels) \cup Integrations \cup {Absent},
            view : Rule \cup (SUBSET Channels) \cup {0, Absent}]

\* What the constants have to be: the fields of a patch are those of a rule.
AlertRulesAssumption ==
  /\ Integrations \subseteq Plugins /\ Bodies \subseteq Rule
  /\ \A x \in Rule, p \in Patches : Patched(x, p) \in Rule
  /\ Absent \notin Rule /\ Absent \notin Integrations /\ Absent \notin Request
  /\ \A S \in SUBSET Channels : S # Absent

Idle == Absent
Existing(t) == {k \in DOMAIN t : t[k] # Absent}

\* Type invariant, with the foreign keys and the plugin type a channel needs.
TypeOK ==
  /\ rule \in [Rules -> Rule \cup {Absent}]
  /\ channel \in [Channels -> Integrations \cup {Absent}]
  /\ links \in [Rules -> SUBSET Existing(channel)]
  /\ \A r \in Rules : rule[r] = Absent => links[r] = {}
  /\ \A a \in Existing(fired) : fired[a].rule \in Existing(rule) /\ fired[a].acks \in Nat
  /\ spent \subseteq Rules \cup Channels \cup Alerts

-----------------------------------------------------------------------------
\* id: the row asked about; view: what was read of it; raced (history): another
\* has changed that row, or the rule's links, since.
Ask(c, op, id, body, view) ==
  /\ req[c] = Idle
  /\ req' = [req EXCEPT ![c] = [op |-> op, id |-> id, body |-> body, view |-> view,
                                raced |-> FALSE]]
  /\ UNCHANGED tables

At(c, op) == req[c] # Idle /\ req[c].op = op

\* c answers, having written to the rows ids.
Answer(c, ids) ==
  req' = [o \in Clients |-> IF o = c \/ req[o] = Idle THEN Idle
                            ELSE [req[o] EXCEPT !.raced = @ \/ req[o].id \in ids]]

-----------------------------------------------------------------------------
\* Rules.

\* AlertRuleCreate's validator, and what every no_data rule must satisfy.
NoDataSound(x) == x.condition = "no_data" => x.duration > 0 /\ x.aggregation = Absent

\* create_alert_rule(): what is asked of a new rule.
Creatable(x) ==
  /\ NoDataSound(x)
  /\ x.type = "aggregated" => x.aggregation # Absent /\ x.duration > 0
  /\ x.condition # "no_data" => x.threshold # Absent

CreateRule(c, x) == Creatable(x) /\ Ask(c, "create", Absent, x, Absent)

CreateRuleCommit(c) ==
  /\ At(c, "create")
  /\ \E r \in Rules \ spent :
       /\ rule' = [rule EXCEPT ![r] = req[c].body]
       /\ spent' = spent \cup {r} /\ Answer(c, {r})
  /\ UNCHANGED <<links, channel, fired>>

\* Mutant of UpdateRule: the body is validated, not the rule it makes.
UpdateRuleUnmerged(c, r, patch) ==
  /\ rule[r] # Absent
  /\ DOMAIN rule[r] = DOMAIN patch => NoDataSound(patch)
  /\ Ask(c, "update", r, patch, rule[r])

\* update_alert_rule(): the loaded rule, with the patch merged in, is checked.
UpdateRule(c, r, patch) ==
  /\ rule[r] # Absent
  /\ NoDataSound(Patched(rule[r], patch))
  /\ Ask(c, "update", r, patch, rule[r])

\* Only the columns that differ from what was loaded are written.
UpdateRuleCommit(c) ==
  /\ At(c, "update")
  /\ LET r == req[c].id  x == req[c].view  new == Patched(x, req[c].body)
         dirty == {f \in DOMAIN x : new[f] # x[f]} IN
       /\ rule[r] # Absent
       /\ rule' = [rule EXCEPT ![r] = Patched(@, [f \in dirty |-> new[f]])]
       /\ Answer(c, IF dirty = {} THEN {} ELSE {r})
  /\ UNCHANGED <<links, channel, fired, spent>>

DeleteRule(c, r) == rule[r] # Absent /\ Ask(c, "delete", r, Absent, Absent)

\* The rule's alerts and links go with it.
DeleteRuleCommit(c) ==
  /\ At(c, "delete")
  /\ LET r == req[c].id IN
       /\ rule' = [rule EXCEPT ![r] = Absent] /\ links' = [links EXCEPT ![r] = {}]
       /\ fired' = [a \in Alerts |-> IF fired[a] # Absent /\ fired[a].rule = r THEN Absent
                                     ELSE fired[a]]
       /\ Answer(c, {r})
  /\ UNCHANGED <<channel, spent>>

-----------------------------------------------------------------------------
\* The channels of a rule.

\* set_rule_channels(): the rule and the channels named are there.
SetChannels(c, r, desired) ==
  /\ rule[r] # Absent /\ desired \subseteq Existing(channel)
  /\ Ask(c, "put", r, desired, Absent)

\* Reads the rule's present links.
ReadLinks(c) ==
  /\ At(c, "put") /\ req[c].view = Absent
  /\ req' = [req EXCEPT ![c].view = links[req[c].id], ![c].raced = FALSE]
  /\ UNCHANGED tables

\* Mutant of SetChannelsCommit: links are added but none is removed.
SetChannelsCommitAdding(c) ==
  /\ At(c, "put") /\ req[c].view # Absent
  /\ LET r == req[c].id  add == req[c].body \ req[c].view IN
       /\ rule[r] # Absent /\ add \subseteq Existing(channel) \ links[r]
       /\ links' = [links EXCEPT ![r] = @ \cup add]
       /\ Answer(c, IF add = {} THEN {} ELSE {r})
  /\ UNCHANGED <<rule, channel, fired, spent>>

\* A link that exists by now, or whose channel has gone, is refused, and all of
\* the request with it; a link to remove may have gone.
SetChannelsCommit(c) ==
  /\ At(c, "put") /\ req[c].view # Absent
  /\ LET r == req[c].id
         add == req[c].body \ req[c].view  remove == req[c].view \ req[c].body IN
       /\ rule[r] # Absent /\ add \subseteq Existing(channel) \ links[r]
       /\ links' = [links EXCEPT ![r] = (@ \cup add) \ remove]
       /\ Answer(c, IF add \cup remove = {} THEN {} ELSE {r})
  /\ UNCHANGED <<rule, channel, fired, spent>>

\* create_channel() and update_channel(): the plugin is an integration.
CreateChannel(c, p) == p \in Integrations /\ Ask(c, "open", Absent, p, Absent)
UpdateChannel(c, h, p) ==
  channel[h] # Absent /\ p \in Integrations /\ Ask(c, "move", h, p, Absent)

ChannelCommit(c) ==
  /\ At(c, "open") \/ At(c, "move")
  /\ \E h \in Channels :
       /\ IF At(c, "open") THEN h \notin spent ELSE h = req[c].id /\ channel[h] # Absent
       /\ channel' = [channel EXCEPT ![h] = req[c].body]
       /\ spent' = spent \cup {h} /\ Answer(c, {h})
  /\ UNCHANGED <<rule, links, fired>>

DeleteChannel(c, h) == channel[h] # Absent /\ Ask(c, "close", h, Absent, Absent)

DeleteChannelCommit(c) ==
  /\ At(c, "close")
  /\ LET h == req[c].id IN
       /\ channel' = [channel EXCEPT ![h] = Absent]
       /\ links' = [r \in Rules |-> links[r] \ {h}]
       /\ Answer(c, {h} \cup {r \in Rules : h \in links[r]})
  /\ UNCHANGED <<rule, fired, spent>>

-----------------------------------------------------------------------------
\* The history.

\* dispatch_fires() of the alert worker records a fired alert.
Fire(r, a) ==
  /\ rule[r] # Absent /\ a \notin spent
  /\ fired' = [fired EXCEPT ![a] = [rule |-> r, acks |-> 0]] /\ spent' = spent \cup {a}
  /\ UNCHANGED <<rule, links, channel, req>>

\* acknowledge_alert(): the row is read, and is not acknowledged.
Acknowledge(c, a) ==
  fired[a] # Absent /\ fired[a].acks = 0 /\ Ask(c, "ack", a, Absent, fired[a].acks)

AcknowledgeCommit(c) ==
  /\ At(c, "ack")
  /\ LET a == req[c].id IN
       /\ fired[a] # Absent
       /\ fired' = [fired EXCEPT ![a].acks = @ + 1] /\ Answer(c, {a})
  /\ UNCHANGED <<rule, links, channel, spent>>

\* A constraint refuses the write, the row has gone, or the database fails.
Fail(c) == req[c] # Idle /\ req' = [req EXCEPT ![c] = Idle] /\ UNCHANGED tables

-----------------------------------------------------------------------------
Init ==
  /\ rule = [r \in Rules |-> Absent] /\ links = [r \in Rules |-> {}]
  /\ channel = [h \in Channels |-> Absent] /\ fired = [a \in Alerts |-> Absent]
  /\ spent = {} /\ req = [c \in Clients |-> Idle]

Next ==
  \/ \E r \in Rules, a \in Alerts : Fire(r, a)
  \/ \E c \in Clients :
       \/ \E x \in Bodies : CreateRule(c, x)
       \/ \E r \in Rules :
            \/ \E patch \in Patches : UpdateRule(c, r, patch)
            \/ DeleteRule(c, r)
            \/ \E desired \in SUBSET Channels : SetChannels(c, r, desired)
       \/ \E p \in Plugins :
            CreateChannel(c, p) \/ \E h \in Channels : UpdateChannel(c, h, p)
       \/ \E h \in Channels : DeleteChannel(c, h)
       \/ \E a \in Alerts : Acknowledge(c, a)
       \/ CreateRuleCommit(c) \/ UpdateRuleCommit(c) \/ DeleteRuleCommit(c)
       \/ ReadLinks(c) \/ SetChannelsCommit(c)
       \/ ChannelCommit(c) \/ DeleteChannelCommit(c) \/ AcknowledgeCommit(c)
       \/ Fail(c)

Spec == Init /\ [][Next]_vars

-----------------------------------------------------------------------------
Answers(c) == req[c] # Idle /\ req'[c] = Idle

\* A sound no_data rule stays sound, whatever sequence of partial updates is made:
\* only one that another update of the rule overtook between its check and its
\* write can spoil it (update_alert_rule validates what it loaded).
NoDataStaysSound ==
  [][\A r \in Rules :
       (rule[r] # Absent => NoDataSound(rule[r])) /\ rule'[r] # Absent =>
         \/ NoDataSound(rule'[r])
         \/ \E c \in Clients : Answers(c) /\ req[c].id = r /\ req[c].raced]_vars

\* PUT replaces the links: what it leaves is the list it was given, unless the
\* rule's links were changed after it had read them.
LinksFollowRequests ==
  [][\A c \in Clients : SetChannelsCommit(c) =>
       req[c].raced \/ links'[req[c].id] = req[c].body]_vars

===============================================================================
