------------------------------ MODULE PluginsMC ------------------------------
(***************************************************************************)
(* The container of the plugins in one instance: the supervisor, and the   *)
(* dispatch loop in one of its subprocesses.  Each module leaves open when *)
(* the other acts, so that they share nothing here: a behaviour is that of *)
(* one of them, chosen at the start.                                       *)
(***************************************************************************)
EXTENDS DispatchLoop

CONSTANTS mail, demo, Flaky, Configs, Defaults, Cycles, MaxEdits

VARIABLES
  group,
  rows, active, config, version, spc, cycle, seen, states, procs, tracker,
  child, loaded, off, edits

loop == <<streamVars, wanted, loopVars, sendVars>>
supervision == <<rows, active, config, version, spc, cycle, seen, states, procs, tracker,
                 child, loaded, off, edits>>
pluginsVars == <<group, faults, loop, supervision>>

S == INSTANCE Supervisor

ASSUME PluginsAssumption == S!SupervisorAssumption

\* Events for both plugins, one in each kind unreadable.
AllEvents == [plugin : {mail, demo}, decodes : BOOLEAN]

\* Where the loop acts, the supervisor's table is empty.
PluginsInit ==
  /\ group \in {"supervisor", "loop"}
  /\ Init /\ S!Init
  /\ group # "supervisor" => rows = {}

InSupervisor(A) == group = "supervisor" /\ A /\ UNCHANGED <<group, loop>>
InLoop(A) == group = "loop" /\ A /\ UNCHANGED <<group, supervision>>

PluginsNext == InSupervisor(S!Next) \/ InLoop(Next)

\* What the modules assume, each of its own steps.
PluginsFairness ==
  /\ WF_pluginsVars(InSupervisor(S!Main))
  /\ \A p \in Plugins : WF_pluginsVars(InSupervisor(S!LoadConfig(p)))
  /\ WF_pluginsVars(InLoop(Supervisor))
  /\ WF_pluginsVars(InLoop(RunLoop))

PluginsSpec == PluginsInit /\ [][PluginsNext]_pluginsVars /\ PluginsFairness

-----------------------------------------------------------------------------
\* The loop holds only what it was delivered; main() knows of every subprocess.
PluginsTypeOK == IF group = "loop" THEN TypeOK ELSE S!TypeOK
\* See Supervisor: an outdated configuration is noted as outdated.
StaleIsNoticed == S!StaleIsNoticed
\* See Supervisor: a plugin that is off is not started.
OffStaysOff == S!OffStaysOff
\* See Supervisor: in the end what runs is what the table says.
Converges == group = "supervisor" => S!Converges
=============================================================================
