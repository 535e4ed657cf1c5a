-------------------------------- MODULE ApiMC --------------------------------
(***************************************************************************)
(* The API's four groups of tables in one instance: the accounts, and the  *)
(* three others beside them.  A request of one group touches no table of   *)
(* another, so the steps of different groups commute: each behaviour is    *)
(* one group's, chosen at the start.                                       *)
(***************************************************************************)
EXTENDS Accounts, TLC

CONSTANTS
  Keys, Manifests, Raws, MaxVersion,
  MaxBoards, Widgets, Sensors,
  Rules, Channels, Alerts, Bodies, Patches, Plugins, Integrations

VARIABLES
  group,
  manifest, row, configReq,
  default, widget, sensors, made, keysOfWidgets, boardReq,
  rule, links, channel, fired, keysOfRules, ruleReq

config == <<manifest, row, configReq>>
dashboards == <<default, widget, sensors, made, keysOfWidgets, boardReq>>
rules == <<rule, links, channel, fired, keysOfRules, ruleReq>>
apiVars == <<group, vars, config, dashboards, rules>>

P == INSTANCE PluginConfig WITH req <- configReq
D == INSTANCE Dashboards WITH spent <- keysOfWidgets, req <- boardReq
R == INSTANCE AlertRules WITH spent <- keysOfRules, req <- ruleReq

ASSUME ApiAssumption ==
  /\ AccountsAssumption /\ P!PluginConfigAssumption
  /\ D!DashboardsAssumption /\ R!AlertRulesAssumption

ApiInit ==
  /\ group \in {"accounts", "config", "dashboards", "rules"}
  /\ Init /\ P!Init /\ D!Init /\ R!Init
  /\ group # "accounts" => spent = 0
  /\ group # "config" => manifest = CHOOSE m \in Manifests : P!Parses(m)

ApiNext ==
  /\ UNCHANGED group
  /\ \/ group = "accounts" /\ Next /\ UNCHANGED <<config, dashboards, rules>>
     \/ group = "config" /\ P!Next /\ UNCHANGED <<vars, dashboards, rules>>
     \/ group = "dashboards" /\ D!Next /\ UNCHANGED <<vars, config, rules>>
     \/ group = "rules" /\ R!Next /\ UNCHANGED <<vars, config, dashboards>>

ApiSpec == ApiInit /\ [][ApiNext]_apiVars

\* The accounts alone.
AccountsSpec == ApiInit /\ group = "accounts" /\ [][ApiNext]_apiVars

\* One plugin in two versions: k1 changes its type, k2 is no longer a secret;
\* and two manifests that are refused.
Num(k, n) == [kind |-> k, value |-> n]
Str(x) == [kind |-> "string", value |-> x]
Entry(k, t, d, lo, hi) == [key |-> k, type |-> t, default |-> d, min |-> lo, max |-> hi]
MCRaws == {Num("int", 2), Num("float", 2), Str(""), Str("x")}
MCManifests ==
  { << Entry("k1", "int", Absent, 0, 2), Entry("k2", "secret", Str("d"), Absent, Absent) >>,
    << Entry("k1", "string", Absent, Absent, Absent), Entry("k2", "float", Num("int", 0), 0, 2) >>,
    << Entry("k1", "int", Num("int", 6), Absent, 4) >>,
    << Entry("k1", "int", Absent, Absent, Absent), Entry("k1", "bool", Absent, Absent, Absent) >> }

\* Rules that may be created and two that may not; updates that make a rule a
\* no_data rule, give it an aggregation or take its window away.
RuleOf(t, c, th, a, d) ==
  [type |-> t, condition |-> c, threshold |-> th, aggregation |-> a, duration |-> d]
MCBodies ==
  { RuleOf("instant", "no_data", Absent, Absent, 60), RuleOf("instant", "no_data", Absent, "avg", 60),
    RuleOf("aggregated", "gt", 1, "avg", 60) }
MCPatches ==
  { [aggregation |-> "avg"], [duration |-> 0], [condition |-> "gt", threshold |-> 1],
    [condition |-> "no_data", aggregation |-> Absent] }

Symmetry ==
  Permutations(Clients) \cup Permutations(Names) \cup
  Permutations(Passwords) \cup Permutations(Channels)

\* Each table holds rows of its type, with its constraints.
ApiTypeOK ==
  CASE group = "accounts" -> TypeOK
    [] group = "config" -> P!TypeOK
    [] group = "dashboards" -> D!TypeOK
    [] group = "rules" -> R!TypeOK
\* See PluginConfig.
ConfigIsTyped == group = "config" => P!ConfigIsTyped
ChangeRaisesVersion == P!ChangeRaisesVersion
OverridesKept == P!OverridesKept
\* See Dashboards.
DefaultFollowsRequests == D!DefaultFollowsRequests
\* See AlertRules.
NoDataStaysSound == R!NoDataStaysSound
LinksFollowRequests == R!LinksFollowRequests
==============================================================================
