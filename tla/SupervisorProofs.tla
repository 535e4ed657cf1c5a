--------------------------- MODULE SupervisorProofs ---------------------------
(***************************************************************************)
(* The supervisor notices every change of a configuration, and starts no   *)
(* plugin it knows to be off, for any number of plugins, edits and faults. *)
(***************************************************************************)
EXTENDS Supervisor, TLAPS

Inv == TypeOK /\ NotedBehind /\ StaleIsNoticed /\ OffIsDown

\* Before the container is started, all of it holds.
LEMMA InvInit == SupervisorAssumption => (Init => Inv)
BY DEF SupervisorAssumption, Init, Inv, TypeOK, NotedBehind, StaleIsNoticed, OffIsDown, Zero

\* The type invariant is preserved by every step.
LEMMA TypeStep ==
  ASSUME SupervisorAssumption, TypeOK, [Next]_vars
  PROVE  TypeOK'
<1> USE DEF SupervisorAssumption, TypeOK
<1>1. ASSUME NEW p \in Plugins, TogglePlugin(p) PROVE TypeOK'
  BY <1>1 DEF TogglePlugin, Edit, mainVars, childVars
<1>2. ASSUME NEW p \in Plugins, NEW c \in Configs, Configure(p, c) PROVE TypeOK'
  BY <1>2 DEF Configure, Edit, mainVars, childVars
<1>3. ASSUME NEW p \in Plugins, LoadConfig(p) PROVE TypeOK'
  BY <1>3 DEF LoadConfig, tableVars, mainVars
<1>4. ASSUME NEW p \in Plugins, Register(p) PROVE TypeOK'
  BY <1>4 DEF Register, mainVars, childVars
<1>5. ASSUME NEW p \in Plugins, Exit(p) PROVE TypeOK'
  BY <1>5 DEF Exit, Fault, tableVars, mainVars
<1>6. CASE StartContainer
  BY <1>6 DEF StartContainer, tableVars, childVars
<1>7. CASE EnsureRows \/ EnsureRowsFails
  BY <1>7 DEF EnsureRows, EnsureRowsFails, Fault, tableVars, childVars
<1>8. CASE Boot
  BY <1>8 DEF Boot, Enter, tableVars
<1>9. CASE BootBlind
  BY <1>9 DEF BootBlind, Enter, Fault, tableVars, Zero
<1>10. CASE Wait
  BY <1>10 DEF Wait, tableVars, childVars
<1>11. CASE Poll
  BY <1>11 DEF Poll, tableVars, childVars
<1>12. CASE PollFails
  BY <1>12 DEF PollFails, Fault, tableVars, childVars
<1>13. CASE Apply
  BY <1>13 DEF Apply, Stopped, Started, Reconfigured, tableVars
<1>14. CASE Monitor
  BY <1>14 DEF Monitor, tableVars
<1>15. CASE Crash
  BY <1>15 DEF Crash, Fault, tableVars, Zero
<1>16. CASE UNCHANGED vars
  BY <1>16 DEF vars, tableVars, mainVars, childVars
<1> QED
  BY <1>1, <1>2, <1>3, <1>4, <1>5, <1>6, <1>7, <1>8, <1>9, <1>10, <1>11, <1>12, <1>13,
     <1>14, <1>15, <1>16 DEF Next, Operator, Main, Faults

\* The state of supervisor and subprocesses is always well formed: main() has
\* in processes exactly the plugins that have a subprocess.
THEOREM TypeCorrect ==
  ASSUME SupervisorAssumption
  PROVE  Spec => []TypeOK
<1>1. Init => TypeOK
  BY InvInit DEF Inv
<1> QED
  BY <1>1, TypeStep, PTL DEF Spec

-----------------------------------------------------------------------------
\* What main() notes is what it was told, and what it was told was so.
LEMMA NotedStep == TypeOK /\ NotedBehind /\ [Next]_vars => NotedBehind'
<1> SUFFICES ASSUME TypeOK, NotedBehind, [Next]_vars, NEW p \in Plugins
             PROVE  tracker'[p] <= version'[p] /\ states'[p] <= version'[p]
  BY DEF NotedBehind
<1>1. /\ version \in [Plugins -> Nat] /\ tracker \in [Plugins -> Nat]
      /\ states \in [Plugins -> Nat]
      /\ tracker[p] <= version[p] /\ states[p] <= version[p]
  BY DEF TypeOK, NotedBehind
<1>2. ASSUME NEW q \in Plugins, NEW c \in Configs, Configure(q, c)
      PROVE  tracker'[p] <= version'[p] /\ states'[p] <= version'[p]
  BY <1>1, <1>2 DEF Configure, mainVars
<1>3. CASE Boot \/ Poll
  BY <1>1, <1>3 DEF Boot, Poll, tableVars
<1>4. CASE BootBlind \/ Crash
  BY <1>1, <1>4 DEF BootBlind, Crash, Zero, tableVars
<1>5. CASE PollFails
  BY <1>1, <1>5 DEF PollFails, tableVars
<1>6. CASE Apply
  BY <1>1, <1>6 DEF Apply, tableVars
<1>7. CASE UNCHANGED <<version, tracker, states>>
  BY <1>1, <1>7
<1>8. CASE \/ \E q \in Plugins : TogglePlugin(q) \/ LoadConfig(q) \/ Register(q) \/ Exit(q)
           \/ StartContainer \/ EnsureRows \/ EnsureRowsFails \/ Wait \/ Monitor
           \/ UNCHANGED vars
  <2>1. UNCHANGED <<version, tracker, states>>
    BY <1>8 DEF TogglePlugin, LoadConfig, Register, Exit, StartContainer, EnsureRows,
                EnsureRowsFails, Wait, Monitor, tableVars, mainVars, vars
  <2> QED
    BY <2>1, <1>7
<1> QED
  BY <1>2, <1>3, <1>4, <1>5, <1>6, <1>8 DEF Next, Operator, Main, Faults

\* A subprocess with a stale configuration is one whose version main() has yet
\* to see: preserved by every step.
LEMMA StaleStep ==
  SupervisorAssumption /\ TypeOK /\ NotedBehind /\ StaleIsNoticed /\ [Next]_vars => StaleIsNoticed'
<1> SUFFICES ASSUME SupervisorAssumption, TypeOK, NotedBehind, StaleIsNoticed, [Next]_vars,
                    NEW p \in procs', child'[p] = "running", loaded'[p] # config'[p]
             PROVE  tracker'[p] # version'[p]
  BY DEF StaleIsNoticed
<1>0. TypeOK'
  BY TypeStep
<1>1. /\ p \in Plugins
      /\ version \in [Plugins -> Nat] /\ tracker \in [Plugins -> Nat]
      /\ child \in [Plugins -> {"none", "starting", "running", "dead"}]
      /\ loaded \in [Plugins -> Configs] /\ config \in [Plugins -> Configs]
      /\ procs = {q \in Plugins : child[q] # "none"}
      /\ tracker[p] <= version[p]
  BY <1>0 DEF TypeOK, NotedBehind
<1>2. ASSUME child[p] = "running", loaded[p] # config[p]
      PROVE  tracker[p] # version[p]
  BY <1>1, <1>2 DEF StaleIsNoticed
<1>3. ASSUME NEW q \in Plugins, NEW c \in Configs, Configure(q, c)
      PROVE  tracker'[p] # version'[p]
  BY <1>1, <1>2, <1>3 DEF Configure, mainVars, childVars
<1>4. ASSUME NEW q \in Plugins, LoadConfig(q)
      PROVE  tracker'[p] # version'[p]
  BY <1>1, <1>2, <1>4 DEF LoadConfig, tableVars, mainVars
<1>5. ASSUME NEW q \in Plugins, Exit(q)
      PROVE  tracker'[p] # version'[p]
  BY <1>1, <1>2, <1>5 DEF Exit, tableVars, mainVars
<1>6. CASE Boot \/ BootBlind \/ Crash
  BY <1>1, <1>6 DEF Boot, BootBlind, Crash, Enter
<1>7. CASE Apply
  BY <1>1, <1>2, <1>7 DEF Apply, Reconfigured, tableVars
<1>8. CASE Monitor
  BY <1>1, <1>2, <1>8 DEF Monitor, tableVars
<1>9. CASE \/ \E q \in Plugins : TogglePlugin(q) \/ Register(q)
           \/ StartContainer \/ EnsureRows \/ EnsureRowsFails \/ Wait \/ Poll \/ PollFails
           \/ UNCHANGED vars
  <2>1. UNCHANGED <<config, version, tracker, child, loaded>>
    BY <1>9 DEF TogglePlugin, Register, StartContainer, EnsureRows, EnsureRowsFails, Wait,
                Poll, PollFails, tableVars, mainVars, childVars, vars
  <2> QED
    BY <2>1, <1>2
<1> QED
  BY <1>3, <1>4, <1>5, <1>6, <1>7, <1>8, <1>9 DEF Next, Operator, Main, Faults

\* What is known to be off is not, or not for long, in processes: preserved by
\* every step.
LEMMA OffStep == TypeOK /\ OffIsDown /\ [Next]_vars => OffIsDown'
<1> SUFFICES ASSUME TypeOK, OffIsDown, [Next]_vars PROVE OffIsDown'
  OBVIOUS
<1>1. CASE Boot \/ Poll
  BY <1>1 DEF Boot, Poll, Enter, OffIsDown
<1>2. CASE BootBlind \/ Crash
  BY <1>2 DEF BootBlind, Crash, Enter, OffIsDown
<1>3. CASE PollFails
  BY <1>3 DEF PollFails, OffIsDown
<1>4. CASE Apply
  BY <1>4 DEF Apply, OffIsDown
<1>5. ASSUME off' \subseteq off, UNCHANGED <<seen, procs>>, spc' = "apply" <=> spc = "apply",
             spc' \in {"down", "bootstrap", "boot"} => spc \in {"down", "bootstrap", "boot"}
      PROVE  OffIsDown'
  BY <1>5 DEF OffIsDown
<1>6. CASE \/ \E q \in Plugins : \/ TogglePlugin(q) \/ LoadConfig(q) \/ Register(q) \/ Exit(q)
                                \/ \E c \in Configs : Configure(q, c)
           \/ StartContainer \/ EnsureRows \/ EnsureRowsFails \/ Wait \/ Monitor
           \/ UNCHANGED vars
  <2>1. /\ off' \subseteq off /\ UNCHANGED <<seen, procs>>
        /\ spc' = "apply" <=> spc = "apply"
        /\ spc' \in {"down", "bootstrap", "boot"} => spc \in {"down", "bootstrap", "boot"}
    BY <1>6 DEF TogglePlugin, LoadConfig, Register, Exit, Configure, StartContainer,
                EnsureRows, EnsureRowsFails, Wait, Monitor, mainVars, vars
  <2> QED
    BY <2>1, <1>5
<1> QED
  BY <1>1, <1>2, <1>3, <1>4, <1>6 DEF Next, Operator, Main, Faults

\* The invariant is inductive.
LEMMA InvStep == SupervisorAssumption => (Inv /\ [Next]_vars => Inv')
BY TypeStep, NotedStep, StaleStep, OffStep DEF Inv

\* No subprocess runs with an outdated configuration that the next poll would
\* miss, however edits, polls, crashes and restarts interleave.
THEOREM StaleIsAlwaysNoticed ==
  ASSUME SupervisorAssumption
  PROVE  Spec => []StaleIsNoticed
<1>1. Inv => StaleIsNoticed
  BY DEF Inv
<1> QED
  BY <1>1, InvInit, InvStep, PTL DEF Spec

\* A plugin known to be off is not started.
THEOREM OffPluginsStayOff ==
  ASSUME SupervisorAssumption
  PROVE  Spec => OffStaysOff
<1>1. Inv /\ [Next]_vars =>
        [\A p \in off : child'[p] = "starting" => child[p] = "starting"]_vars
  <2> SUFFICES ASSUME Inv, Next, NEW p \in off, child'[p] = "starting", child[p] # "starting"
               PROVE  FALSE
    BY DEF vars
  <2>1. /\ p \in Plugins
        /\ child \in [Plugins -> {"none", "starting", "running", "dead"}]
        /\ procs = {q \in Plugins : child[q] # "none"}
        /\ p \notin IF spc = "apply" THEN seen ELSE procs
        /\ spc # "boot"
    BY DEF Inv, TypeOK, OffIsDown
  <2>2. ASSUME NEW q \in Plugins, LoadConfig(q) \/ Exit(q) PROVE FALSE
    BY <2>1, <2>2 DEF LoadConfig, Exit
  <2>3. CASE Boot \/ BootBlind
    BY <2>1, <2>3 DEF Boot, BootBlind
  <2>4. CASE Apply
    BY <2>1, <2>4 DEF Apply, Started, Reconfigured
  <2>5. CASE Monitor
    BY <2>1, <2>5 DEF Monitor
  <2>6. CASE Crash
    BY <2>1, <2>6 DEF Crash
  <2>7. CASE \/ \E q \in Plugins : \/ TogglePlugin(q) \/ Register(q)
                                  \/ \E c \in Configs : Configure(q, c)
             \/ StartContainer \/ EnsureRows \/ EnsureRowsFails \/ Wait \/ Poll \/ PollFails
    BY <2>7 DEF TogglePlugin, Register, Configure, StartContainer, EnsureRows,
                EnsureRowsFails, Wait, Poll, PollFails, childVars
  <2> QED
    BY <2>2, <2>3, <2>4, <2>5, <2>6, <2>7 DEF Next, Operator, Main, Faults
<1> QED
  BY <1>1, InvInit, InvStep, PTL DEF Spec, OffStaysOff
=============================================================================
