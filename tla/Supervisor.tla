------------------------------ MODULE Supervisor ------------------------------
(***************************************************************************)
(* The plugin supervisor: main() of workers/plugin_runner/__main__.py      *)
(* bootstraps a row per discovered plugin, then polls the plugins table    *)
(* every few cycles and starts, stops and restarts subprocesses, so that   *)
(* what runs follows is_active and the configuration.  A subprocess reads  *)
(* its configuration itself, some time after it was started.               *)
(*                                                                         *)
(* main() is sequential and blocking.  What it decides after a poll        *)
(* depends on the poll's answer and its own variables only, so the three   *)
(* loops that follow a poll are one action.                                *)
(***************************************************************************)
EXTENDS Naturals, FiniteSets

CONSTANTS
  Plugins,    \* the plugins discovered in PLUGINS_DIR
  Flaky,      \* those of them that may crash again and again
  Configs,    \* what the effective configuration of a plugin may be
  Defaults,   \* the configuration without overrides
  Cycles,     \* monitor cycles per poll (5 in the code)
  MaxEdits,   \* bound on the operator's edits
  MaxFaults   \* bound on the faults

\* What the constants have to be.
SupervisorAssumption ==
  /\ Flaky \subseteq Plugins
  /\ Defaults \in Configs
  /\ Cycles \in Nat \ {0}
  /\ MaxEdits \in Nat /\ MaxFaults \in Nat

VARIABLES
  rows,      \* table plugins: the plugins with a row
  active,    \* those with is_active
  config,    \* plugins.config
  version,   \* plugins.config_version
  spc,       \* where main() is
  cycle,     \* cycles_since_db_check
  seen,      \* active_ids
  states,    \* the versions the last poll returned
  procs,     \* the keys of processes
  tracker,   \* last_config_version
  child,     \* plugin -> the state of its subprocess
  loaded,    \* plugin -> the configuration its subprocess runs with
  off,       \* history: inactive at every moment since the last answer to a poll
  edits, faults

tableVars == <<rows, active, config, version>>
mainVars == <<spc, cycle, seen, states, procs, tracker>>
childVars == <<child, loaded>>
vars == <<tableVars, mainVars, childVars, off, edits, faults>>

\* Type invariant: active plugins have a row, and main() knows of every subprocess.
TypeOK ==
  /\ rows \subseteq Plugins /\ active \subseteq rows
  /\ config \in [Plugins -> Configs] /\ version \in [Plugins -> Nat]
  /\ spc \in {"down", "bootstrap", "boot", "sleep", "apply", "monitor"}
  /\ cycle \in 0 .. Cycles - 1
  /\ seen \subseteq Plugins /\ procs \subseteq Plugins
  /\ states \in [Plugins -> Nat] /\ tracker \in [Plugins -> Nat]
  /\ child \in [Plugins -> {"none", "starting", "running", "dead"}]
  /\ loaded \in [Plugins -> Configs]
  /\ procs = {p \in Plugins : child[p] # "none"}
  /\ off \subseteq Plugins \ active
  /\ edits \in 0 .. MaxEdits /\ faults \in 0 .. MaxFaults

Zero == [p \in Plugins |-> 0]

\* Rows of plugins installed before, with whatever their is_active is, or none.
Init ==
  /\ rows \in SUBSET Plugins /\ active \in SUBSET rows
  /\ config = [p \in Plugins |-> Defaults] /\ version = Zero
  /\ spc = "down" /\ cycle = 0 /\ seen = {} /\ states = Zero
  /\ procs = {} /\ tracker = Zero
  /\ child = [p \in Plugins |-> "none"] /\ loaded = [p \in Plugins |-> Defaults]
  /\ off = {} /\ edits = 0 /\ faults = 0

-----------------------------------------------------------------------------
(* The operator, through the API                                            *)

Edit == edits < MaxEdits /\ edits' = edits + 1

\* update_plugin(): is_active.
TogglePlugin(p) ==
  /\ Edit /\ p \in rows
  /\ active' = (active \ {p}) \cup ({p} \ active)
  /\ off' = off \ {p}
  /\ UNCHANGED <<rows, config, version, mainVars, childVars, faults>>

\* Mutant of Configure: a reset does not count as a change.
ConfigureUncounted(p, c) ==
  /\ Edit /\ p \in rows
  /\ config' = [config EXCEPT ![p] = c]
  /\ version' = IF c = Defaults THEN version ELSE [version EXCEPT ![p] = @ + 1]
  /\ UNCHANGED <<rows, active, mainVars, childVars, off, faults>>

\* plugin_config.update() or reset(), committed: also when nothing changed.
Configure(p, c) ==
  /\ Edit /\ p \in rows
  /\ config' = [config EXCEPT ![p] = c]
  /\ version' = [version EXCEPT ![p] = @ + 1]
  /\ UNCHANGED <<rows, active, mainVars, childVars, off, faults>>

-----------------------------------------------------------------------------
(* The subprocesses                                                         *)

\* load_effective_config(); without a row the manifest's defaults, which are
\* config[p] then, too.
LoadConfig(p) ==
  /\ child[p] = "starting"
  /\ child' = [child EXCEPT ![p] = "running"]
  /\ loaded' = [loaded EXCEPT ![p] = config[p]]
  /\ UNCHANGED <<tableVars, mainVars, off, edits, faults>>

\* A running plugin registers: the ingestor inserts its row if there is none,
\* and leaves is_active alone if there is one.
Register(p) ==
  /\ child[p] = "running" /\ p \notin rows
  /\ rows' = rows \cup {p} /\ active' = active \cup {p}
  /\ off' = off \ {p}
  /\ UNCHANGED <<config, version, mainVars, childVars, edits, faults>>

Fault == faults < MaxFaults /\ faults' = faults + 1

\* The subprocess ends: an exception, a kill, a configuration it cannot read.
Exit(p) ==
  /\ IF p \in Flaky THEN UNCHANGED faults ELSE Fault
  /\ child[p] \in {"starting", "running"}
  /\ child' = [child EXCEPT ![p] = "dead"]
  /\ UNCHANGED <<tableVars, mainVars, loaded, off, edits>>

-----------------------------------------------------------------------------
(* main()                                                                   *)

StartContainer ==
  /\ spc = "down"
  /\ spc' = "bootstrap"
  /\ UNCHANGED <<tableVars, cycle, seen, states, procs, tracker, childVars, off, edits, faults>>

\* ensure_plugin_rows(): is_active only for rows that are new.
EnsureRows ==
  /\ spc = "bootstrap"
  /\ rows' = Plugins /\ active' = active \cup (Plugins \ rows)
  /\ off' = off \cap rows
  /\ spc' = "boot"
  /\ UNCHANGED <<config, version, cycle, seen, states, procs, tracker, childVars, edits,
                 faults>>

\* "Failed to bootstrap plugin DB rows - proceeding anyway."
EnsureRowsFails ==
  /\ Fault /\ spc = "bootstrap"
  /\ spc' = "boot"
  /\ UNCHANGED <<tableVars, cycle, seen, states, procs, tracker, childVars, off, edits>>

Enter(P) ==
  /\ seen' = P /\ procs' = P
  /\ child' = [p \in Plugins |-> IF p \in P THEN "starting" ELSE "none"]
  /\ spc' = "sleep" /\ cycle' = 0

\* The first get_plugin_states(), and a subprocess for each active plugin.
Boot ==
  /\ spc = "boot"
  /\ Enter(active)
  /\ states' = version /\ tracker' = version
  /\ off' = Plugins \ active
  /\ UNCHANGED <<tableVars, loaded, edits, faults>>

\* "Could not query DB for plugin states - starting all discovered plugins."
BootBlind ==
  /\ Fault /\ spc = "boot"
  /\ Enter(Plugins)
  /\ states' = Zero /\ tracker' = Zero
  /\ UNCHANGED <<tableVars, loaded, off, edits>>

\* A cycle without a poll.
Wait ==
  /\ spc = "sleep" /\ cycle + 1 < Cycles
  /\ cycle' = cycle + 1 /\ spc' = "monitor"
  /\ UNCHANGED <<tableVars, seen, states, procs, tracker, childVars, off, edits, faults>>

\* get_plugin_states()
Poll ==
  /\ spc = "sleep" /\ cycle + 1 >= Cycles
  /\ seen' = active /\ states' = version
  /\ off' = Plugins \ active
  /\ cycle' = 0 /\ spc' = "apply"
  /\ UNCHANGED <<tableVars, procs, tracker, childVars, edits, faults>>

\* "DB check failed - keeping current state"
PollFails ==
  /\ Fault /\ spc = "sleep" /\ cycle + 1 >= Cycles
  /\ seen' = procs /\ states' = tracker
  /\ cycle' = 0 /\ spc' = "apply"
  /\ UNCHANGED <<tableVars, procs, tracker, childVars, off, edits>>

Stopped == procs \ seen
Started == seen \ procs
Reconfigured == {p \in seen : states[p] # tracker[p]}

\* Mutant of Apply: a plugin that was stopped is not deleted from processes.
ApplyKeepingStopped ==
  /\ spc = "apply"
  /\ procs' = procs \cup seen
  /\ child' = [p \in Plugins |-> IF p \in Stopped THEN "dead"
                                 ELSE IF p \in Started \cup Reconfigured THEN "starting"
                                 ELSE child[p]]
  /\ tracker' = [p \in Plugins |-> IF p \in seen THEN states[p] ELSE tracker[p]]
  /\ spc' = "monitor"
  /\ UNCHANGED <<tableVars, cycle, seen, states, loaded, off, edits, faults>>

\* Mutant of Apply: a plugin that became inactive is only forgotten.
ApplyOrphaning ==
  /\ spc = "apply"
  /\ procs' = seen
  /\ child' = [p \in Plugins |-> IF p \in Started \cup Reconfigured THEN "starting" ELSE child[p]]
  /\ tracker' = [p \in Plugins |-> IF p \in seen THEN states[p] ELSE tracker[p]]
  /\ spc' = "monitor"
  /\ UNCHANGED <<tableVars, cycle, seen, states, loaded, off, edits, faults>>

\* Mutant of Apply: the versions are noted before they are compared.
ApplyNotingFirst ==
  /\ spc = "apply"
  /\ procs' = seen
  /\ child' = [p \in Plugins |-> IF p \in Stopped THEN "none"
                                 ELSE IF p \in Started THEN "starting" ELSE child[p]]
  /\ tracker' = [p \in Plugins |-> IF p \in seen THEN states[p] ELSE tracker[p]]
  /\ spc' = "monitor"
  /\ UNCHANGED <<tableVars, cycle, seen, states, loaded, off, edits, faults>>

\* Stop what became inactive, start what became active, restart what has
\* another config_version, just started or not, and note the versions.
Apply ==
  /\ spc = "apply"
  /\ procs' = seen
  /\ child' = [p \in Plugins |-> IF p \in Stopped THEN "none"
                                 ELSE IF p \in Started \cup Reconfigured THEN "starting"
                                 ELSE child[p]]
  /\ tracker' = [p \in Plugins |-> IF p \in seen THEN states[p] ELSE tracker[p]]
  /\ spc' = "monitor"
  /\ UNCHANGED <<tableVars, cycle, seen, states, loaded, off, edits, faults>>

\* Restart what has exited.
Monitor ==
  /\ spc = "monitor"
  /\ child' = [p \in Plugins |-> IF child[p] = "dead" THEN "starting" ELSE child[p]]
  /\ spc' = "sleep"
  /\ UNCHANGED <<tableVars, cycle, seen, states, procs, tracker, loaded, off, edits, faults>>

\* The container dies, and the subprocesses with it.
Crash ==
  /\ Fault /\ spc # "down"
  /\ spc' = "down" /\ cycle' = 0
  /\ seen' = {} /\ states' = Zero /\ procs' = {} /\ tracker' = Zero
  /\ child' = [p \in Plugins |-> "none"]
  /\ off' = {}
  /\ UNCHANGED <<tableVars, loaded, edits>>

-----------------------------------------------------------------------------
Operator ==
  \E p \in Plugins : TogglePlugin(p) \/ \E c \in Configs : Configure(p, c)

Main ==
  \/ StartContainer \/ EnsureRows \/ Boot
  \/ Wait \/ Poll \/ Apply \/ Monitor

Faults ==
  \/ EnsureRowsFails \/ BootBlind \/ PollFails \/ Crash
  \/ \E p \in Plugins : Exit(p)

Next ==
  \/ Operator \/ Main \/ Faults
  \/ \E p \in Plugins : LoadConfig(p) \/ Register(p)

Spec == Init /\ [][Next]_vars

\* main() never returns, the container is restarted, and a subprocess that
\* was started comes up, or exits.
FairSpec ==
  Spec /\ WF_vars(Main) /\ \A p \in Plugins : WF_vars(LoadConfig(p))

-----------------------------------------------------------------------------
(* Properties                                                               *)

\* What runs is what the table wants, with the configuration the table holds.
Settled(p) ==
  IF p \in active THEN child[p] = "running" /\ loaded[p] = config[p]
                  ELSE child[p] = "none"

(***************************************************************************)
(* When the operator stops editing and failures stop, every plugin settles *)
(* in the end, although versions are polled, configurations are read       *)
(* later, and another plugin keeps crashing and being restarted.           *)
(***************************************************************************)
Converges == \A p \in Plugins \ Flaky : <>[]Settled(p)

(***************************************************************************)
(* Whenever a subprocess runs with a configuration that is not the stored  *)
(* one, the version main() has noted is not the stored one either, so that *)
(* the next poll cannot miss the change.                                   *)
(***************************************************************************)
StaleIsNoticed ==
  \A p \in procs : child[p] = "running" /\ loaded[p] # config[p] => tracker[p] # version[p]

\* Why: what main() has noted, and what it was told, is never ahead of the table.
NotedBehind == \A p \in Plugins : tracker[p] <= version[p] /\ states[p] <= version[p]

\* A plugin that is off, and was off when main() last had an answer from the
\* database, is not started: not by a restart after a crash, not by a poll
\* that fails.
OffStaysOff ==
  [][\A p \in off : child'[p] = "starting" => child[p] = "starting"]_vars

\* Why: main() knows of none before its first answer, and once an answer was
\* applied processes holds none of them.
OffIsDown ==
  /\ spc \in {"down", "bootstrap", "boot"} => off = {}
  /\ off \cap (IF spc = "apply" THEN seen ELSE procs) = {}

(***************************************************************************)
(* ensure_plugin_rows(): a row is bootstrapped for every plugin discovered, *)
(* so a freshly-installed plugin actually starts.                          *)
(***************************************************************************)
EveryPluginGetsARow == \A p \in Plugins : <>(p \in rows)
=============================================================================
