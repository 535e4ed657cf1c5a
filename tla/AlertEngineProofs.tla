--------------------------- MODULE AlertEngineProofs ---------------------------
(***************************************************************************)
(* Proofs about the alerts worker, for any number of sensors, rules and    *)
(* channels, for every batch size, cooldown and window, and however the    *)
(* two tasks of the worker interleave, fail and restart.                   *)
(***************************************************************************)
EXTENDS AlertEngine, RedisStreamProofs

\* Whatever a step does is, to the stream, one of its operations.
LEMMA StepsAreStreamSteps == [Next]_vars => StreamStep(BatchSize)
BY DEF Next, vars, StreamStep, Environment, Engine, Scanner, Faults, Tick, Switch, Publish,
       IngestorWrites, StartWorker, EngineRead, EngineReadNoGroup, EngineAckBad, ProcessEvent,
       EngineAck, DispatchFire, Commit, StartScanner, Scan, Crash, ReadReplyLost, EventFails,
       StreamLost, DispatchFails

\* The bounds are numbers.
LEMMA Bounds == BatchSize \in Nat \ {0} /\ MaxTime \in Nat /\ MaxEdits \in Nat /\ MaxFaults \in Nat
BY AlertAssumption

\* No behaviour has more faults than it may.
LEMMA FaultType ==
  ASSUME TypeOK, Fault
  PROVE  faults' \in 0 .. MaxFaults
BY Bounds DEF TypeOK, Fault

\* An event that is finished leaves the batch well formed.
LEMMA FinishType ==
  ASSUME TypeOK, FinishEvent
  PROVE  /\ epc' \in {"ack", "event"} /\ batch' = batch /\ todo' \subseteq batch
         /\ done' \subseteq 1 .. last /\ BatchWorkedOff'
BY DEF FinishEvent, TypeOK, BatchWorkedOff

\* So does an actor that leaves dispatch_fires().
LEMMA LeaveType ==
  ASSUME TypeOK, BatchWorkedOff, NEW a \in Actors, Leave(a)
  PROVE  /\ epc' \in {epc, "ack", "event"} /\ batch' = batch /\ todo' \subseteq batch
         /\ done' \subseteq 1 .. last /\ BatchWorkedOff'
         /\ spc' \in {spc, "idle"} /\ UNCHANGED <<scannerStart, lastStart>>
<1>1. CASE FinishEvent /\ UNCHANGED scannerVars
  BY <1>1, FinishType DEF scannerVars
<1>2. CASE spc' = "idle" /\ UNCHANGED <<scannerStart, lastStart, engineVars>>
  BY <1>2 DEF engineVars, TypeOK, BatchWorkedOff
<1> QED
  BY <1>1, <1>2 DEF Leave

\* Decisions are fires.
LEMMA FiresType ==
  ASSUME TypeOK, NEW R \in SUBSET Rules
  PROVE  FiresNow(R) \subseteq Fire
BY DEF TypeOK, FiresNow, Fire

\* Nothing is running, nothing recorded.
LEMMA TypeInit == Init => TypeOK /\ BatchWorkedOff
<1> SUFFICES ASSUME Init PROVE TypeOK /\ BatchWorkedOff
  OBVIOUS
<1>1. StreamTypeOK
  BY StreamInitType DEF Init
<1>2. now \in Times /\ edits \in 0 .. MaxEdits /\ faults \in 0 .. MaxFaults
  BY AlertAssumption DEF Init, Times
<1>3. fires \in [Actors -> SUBSET Fire] /\ open \in [Actors -> SUBSET Fire]
  BY DEF Init, NoFires
<1>4. now = 1 /\ scannerStart = 0 /\ lastEvent = 0 /\ lastStart = 0
  BY DEF Init
<1>5. scannerStart \in 0 .. now /\ lastEvent \in 0 .. now /\ lastStart \in 0 .. now
  BY <1>4
<1> QED
  BY <1>1, <1>2, <1>3, <1>5 DEF Init, TypeOK, BatchWorkedOff

-----------------------------------------------------------------------------
\* The type invariant, with what it needs to know of the loop, is preserved.
LEMMA TypeStep == TypeOK /\ BatchWorkedOff /\ [Next]_vars => TypeOK' /\ BatchWorkedOff'
<1> SUFFICES ASSUME TypeOK, BatchWorkedOff, [Next]_vars PROVE TypeOK' /\ BatchWorkedOff'
  OBVIOUS
<1>1. /\ StreamTypeOK' /\ last <= last' /\ last \in Nat /\ last' \in Nat
      /\ Published \subseteq Published'
  <2>1. StreamTypeOK /\ StreamStep(BatchSize)
    BY StepsAreStreamSteps DEF TypeOK
  <2>2. StreamTypeOK' /\ Len(log) <= Len(log') /\ last <= last'
    BY <2>1, StreamTypeStep, Bounds
  <2>3. Len(log) \in Nat /\ Len(log') \in Nat /\ last \in Nat /\ last' \in Nat
    BY <2>1, <2>2 DEF StreamTypeOK
  <2> QED
    BY <2>2, <2>3 DEF Published
<1>2. 1 .. last \subseteq 1 .. last'
  BY <1>1
<1>3. /\ batch \subseteq 1 .. last' /\ done \subseteq 1 .. last' /\ ingested \subseteq Published'
      /\ todo \subseteq batch
  BY <1>1, <1>2 DEF TypeOK
<1>4. now \in Nat /\ lastStart <= now /\ now \in 0 .. now /\ 0 \in 0 .. now
  BY DEF TypeOK, Times
<1> USE <1>1, <1>2, <1>3, <1>4 DEF TypeOK, BatchWorkedOff
<1>5. CASE Environment
  <2> USE DEF engineVars, scannerVars, dispatchVars, adminVars
  <2>1. CASE Tick
    <3>1. now' \in Times /\ 0 .. now \subseteq 0 .. now'
      BY <2>1, Bounds DEF Tick, Times
    <3> QED
      BY <2>1, <3>1 DEF Tick
  <2>2. CASE Switch
    <3>1. edits' \in 0 .. MaxEdits
      BY <2>2, Bounds DEF Switch
    <3> QED
      BY <2>2, <3>1 DEF Switch
  <2>3. ASSUME NEW p \in Payloads, Publish(p) PROVE TypeOK' /\ BatchWorkedOff'
    BY <2>3 DEF Publish
  <2>4. ASSUME NEW i \in Ids, IngestorWrites(i) PROVE TypeOK' /\ BatchWorkedOff'
    BY <2>4 DEF IngestorWrites, streamVars, Published
  <2> QED
    BY <1>5, <2>1, <2>2, <2>3, <2>4 DEF Environment
<1>6. CASE StartWorker
  BY <1>6 DEF StartWorker, adminVars, dispatchVars
<1>7. CASE EngineRead
  <2>1. Batch(BatchSize) \subseteq 1 .. last'
    BY <1>7, ReadIsNew, Bounds DEF EngineRead
  <2>2. Malformed(Batch(BatchSize)) \subseteq Batch(BatchSize)
    BY DEF Malformed
  <2>3. done' \subseteq 1 .. last'
    BY <1>7, <2>1, <2>2 DEF EngineRead
  <2>4. CASE ProceedWith(Batch(BatchSize))
    BY <1>7, <2>1, <2>3, <2>4 DEF EngineRead, ProceedWith, adminVars, scannerVars, dispatchVars
  <2>5. CASE epc' = "badack" /\ batch' = Batch(BatchSize) /\ UNCHANGED <<todo, lastEvent>>
    BY <1>7, <2>1, <2>3, <2>5 DEF EngineRead, adminVars, scannerVars, dispatchVars
  <2> QED
    BY <1>7, <2>4, <2>5 DEF EngineRead
<1>8. CASE EngineReadNoGroup \/ Crash
  <2>1. Die /\ faults' \in 0 .. MaxFaults
    BY <1>8, FaultType DEF EngineReadNoGroup, Crash
  <2> QED
    BY <2>1 DEF Die, NoFires, adminVars
<1>9. CASE EngineAckBad
  <2>1. batch \ Malformed(batch) \subseteq batch
    OBVIOUS
  <2> QED
    BY <1>9, <2>1 DEF EngineAckBad, ProceedWith, adminVars, scannerVars, dispatchVars
<1>10. CASE EngineAck
  BY <1>10 DEF EngineAck, adminVars, scannerVars, dispatchVars
<1>11. CASE ProcessEvent
  <2>1. CASE FinishEvent /\ UNCHANGED fires
    BY <1>11, <2>1, FinishType DEF ProcessEvent, adminVars, scannerVars, streamVars
  <2>2. CASE \E i \in todo : /\ fires' = [fires EXCEPT !["engine"] = FiresNow(Decisions(i))]
                             /\ epc' = "dispatch" /\ UNCHANGED <<batch, todo, done>>
    <3>1. \A i \in todo : FiresNow(Decisions(i)) \subseteq Fire
      BY FiresType DEF Decisions
    <3>2. fires' \in [Actors -> SUBSET Fire]
      BY <2>2, <3>1
    <3> QED
      BY <1>11, <2>2, <3>2 DEF ProcessEvent, adminVars, scannerVars, streamVars
  <2> QED
    BY <1>11, <2>1, <2>2 DEF ProcessEvent
<1>12. CASE StartScanner
  BY <1>12 DEF StartScanner, adminVars, engineVars, dispatchVars, streamVars
<1>13. CASE Scan
  <2>1. FiresNow({r \in Rules : ShouldFire(r)}) \subseteq Fire
    BY FiresType
  <2>2. fires' \in [Actors -> SUBSET Fire] /\ spc' \in {"idle", "dispatch"}
    BY <1>13, <2>1 DEF Scan
  <2> QED
    BY <1>13, <2>2 DEF Scan, adminVars, engineVars, streamVars
<1>14. ASSUME NEW a \in Actors, DispatchFire(a) PROVE TypeOK' /\ BatchWorkedOff'
  <2>1. PICK f \in fires[a] :
          /\ fires' = [fires EXCEPT ![a] = @ \ {f}]
          /\ open' = [open EXCEPT ![a] = @ \cup {f}]
          /\ sent' = sent \cup ({f} \X (LinkedTo[f.rule] \cap live))
    BY <1>14 DEF DispatchFire
  <2>2. f \in Fire
    OBVIOUS
  <2>3. sent' \subseteq Fire \X Channels
    BY <2>1, <2>2
  <2>4. fires' \in [Actors -> SUBSET Fire] /\ open' \in [Actors -> SUBSET Fire]
    BY <2>1, <2>2
  <2> QED
    BY <1>14, <2>3, <2>4 DEF DispatchFire, adminVars, engineVars, scannerVars, streamVars
<1>15. ASSUME NEW a \in Actors, Commit(a) PROVE TypeOK' /\ BatchWorkedOff'
  <2>1. history' \subseteq Fire /\ open' \in [Actors -> SUBSET Fire]
    BY <1>15 DEF Commit
  <2> QED
    BY <1>15, <2>1, LeaveType DEF Commit, adminVars, streamVars
<1>16. ASSUME NEW a \in Actors, DispatchFails(a) PROVE TypeOK' /\ BatchWorkedOff'
  <2>1. faults' \in 0 .. MaxFaults
    BY <1>16, FaultType DEF DispatchFails
  <2>2. sent' \subseteq Fire \X Channels
    BY <1>16 DEF DispatchFails, PartlySent
  <2>3. fires' \in [Actors -> SUBSET Fire] /\ open' \in [Actors -> SUBSET Fire]
    BY <1>16 DEF DispatchFails
  <2> QED
    BY <1>16, <2>1, <2>2, <2>3, LeaveType DEF DispatchFails, adminVars, streamVars
<1>17. CASE ReadReplyLost \/ StreamLost \/ EventFails
  <2>1. faults' \in 0 .. MaxFaults
    BY <1>17, FaultType DEF ReadReplyLost, StreamLost, EventFails
  <2>2. CASE ReadReplyLost \/ StreamLost
    BY <2>1, <2>2 DEF ReadReplyLost, StreamLost, adminVars, engineVars, scannerVars, dispatchVars
  <2>3. CASE EventFails
    BY <2>1, <2>3, FinishType DEF EventFails, adminVars, scannerVars, dispatchVars, streamVars
  <2> QED
    BY <1>17, <2>2, <2>3
<1>18. CASE UNCHANGED vars
  BY <1>18 DEF vars, adminVars, engineVars, scannerVars, dispatchVars
<1> QED
  BY <1>5, <1>6, <1>7, <1>8, <1>9, <1>10, <1>11, <1>12, <1>13, <1>14, <1>15, <1>16, <1>17, <1>18
     DEF Next, Engine, Scanner, Faults, Actors

\* The state of the worker, of its tables and of its stream is always well formed.
THEOREM TypeCorrect == Spec => []TypeOK
BY TypeInit, TypeStep, PTL DEF Spec
-----------------------------------------------------------------------------
(***************************************************************************)
(* What a step may do to the fires, the open transactions and the table:   *)
(* decide, move a fire into the transaction, commit, roll back, or nothing.*)
(***************************************************************************)
Decides(a, R) ==
  /\ ~ InDispatch(a)
  /\ fires' = [fires EXCEPT ![a] = FiresNow(R)] /\ UNCHANGED <<open, history, sent>>
  /\ R # {} => InDispatch(a)'
  /\ \A b \in Actors \ {a} : InDispatch(b)' = InDispatch(b)

Writes(a) ==
  /\ InDispatch(a) /\ \A b \in Actors : InDispatch(b)' = InDispatch(b)
  /\ \E f \in fires[a] :
       /\ fires' = [fires EXCEPT ![a] = @ \ {f}]
       /\ open' = [open EXCEPT ![a] = @ \cup {f}]
       /\ sent' = sent \cup ({f} \X (LinkedTo[f.rule] \cap live))
  /\ UNCHANGED history

Commits(a) ==
  /\ fires[a] = {} /\ UNCHANGED <<fires, sent>>
  /\ history' = history \cup open[a] /\ open' = [open EXCEPT ![a] = {}]
  /\ \A b \in Actors \ {a} : InDispatch(b)' = InDispatch(b)

RollsBack(a) ==
  /\ fires' = [fires EXCEPT ![a] = {}] /\ open' = [open EXCEPT ![a] = {}]
  /\ sent \subseteq sent' /\ UNCHANGED history /\ faults' # 0
  /\ \A b \in Actors \ {a} : InDispatch(b)' = InDispatch(b)

RollsBackAll ==
  /\ fires' = NoFires /\ open' = NoFires /\ UNCHANGED <<history, sent>>
  /\ faults' # 0 \/ (epc # "down" /\ ~ created)

Undisturbed ==
  /\ UNCHANGED <<fires, open, history, sent>>
  /\ \A a \in Actors : InDispatch(a)' = InDispatch(a)

\* An actor that leaves dispatch_fires() does not disturb the other one.
LEMMA LeaveAlone ==
  ASSUME NEW a \in Actors, NEW b \in Actors \ {a}, Leave(a)
  PROVE  InDispatch(b)' = InDispatch(b)
BY DEF Leave, FinishEvent, InDispatch, Actors, scannerVars, engineVars

\* The tasks die together: preserved by every step.
LEMMA TogetherStep == TasksDieTogether /\ [Next]_vars => TasksDieTogether'
<1> SUFFICES ASSUME TasksDieTogether, [Next]_vars PROVE TasksDieTogether'
  OBVIOUS
<1> USE DEF TasksDieTogether
<1>1. ASSUME NEW a \in Actors, Leave(a), InDispatch(a) PROVE TasksDieTogether'
  BY <1>1 DEF Leave, FinishEvent, InDispatch, Actors, scannerVars, engineVars
<1>2. CASE \E a \in Actors : DispatchFire(a) \/ Commit(a) \/ DispatchFails(a)
  <2>1. PICK a \in Actors : InDispatch(a) /\ (Leave(a) \/ UNCHANGED <<epc, spc>>)
    BY <1>2 DEF DispatchFire, Commit, DispatchFails, engineVars, scannerVars
  <2> QED
    BY <1>1, <2>1
<1>3. CASE ~ \E a \in Actors : DispatchFire(a) \/ Commit(a) \/ DispatchFails(a)
  BY <1>3 DEF Next, vars, Environment, Engine, Scanner, Faults, Actors, Tick, Switch, Publish,
       IngestorWrites, StartWorker, EngineRead, EngineReadNoGroup, EngineAckBad, ProceedWith,
       ProcessEvent, FinishEvent, EngineAck, StartScanner, Scan, Crash, Die, ReadReplyLost,
       EventFails, StreamLost, engineVars, scannerVars
<1> QED
  BY <1>2, <1>3

\* There is nothing else a step can do to them.
LEMMA DispatchSteps ==
  ASSUME TypeOK, TasksDieTogether, [Next]_vars
  PROVE  \/ \E i \in todo : Decides("engine", Decisions(i))
         \/ spc = "idle" /\ Decides("scanner", {r \in Rules : ShouldFire(r)})
         \/ \E a \in Actors : Writes(a) \/ Commits(a) \/ RollsBack(a)
         \/ RollsBackAll \/ Undisturbed
<1>1. CASE Environment \/ UNCHANGED vars
  BY <1>1 DEF Environment, Tick, Switch, Publish, IngestorWrites, vars, engineVars, scannerVars,
              dispatchVars, Undisturbed, InDispatch
<1>2. CASE StartWorker \/ StartScanner
  BY <1>2 DEF TasksDieTogether, StartWorker, StartScanner, engineVars, dispatchVars, Undisturbed, InDispatch
<1>3. CASE EngineRead \/ EngineAckBad \/ EngineAck
  BY <1>3 DEF EngineRead, EngineAckBad, EngineAck, ProceedWith, scannerVars, dispatchVars,
              Undisturbed, InDispatch
<1>4. CASE EngineReadNoGroup \/ Crash
  BY <1>4 DEF EngineReadNoGroup, Crash, Fault, Die, RollsBackAll, TypeOK
<1>5. CASE ProcessEvent
  <2>1. CASE FinishEvent /\ UNCHANGED fires
    BY <1>5, <2>1 DEF ProcessEvent, FinishEvent, scannerVars, Undisturbed, InDispatch
  <2>2. CASE \E i \in todo : /\ fires' = [fires EXCEPT !["engine"] = FiresNow(Decisions(i))]
                             /\ epc' = "dispatch"
    BY <1>5, <2>2 DEF ProcessEvent, scannerVars, Decides, InDispatch, Actors
  <2> QED
    BY <1>5, <2>1, <2>2 DEF ProcessEvent
<1>6. CASE Scan
  BY <1>6 DEF Scan, engineVars, Decides, InDispatch, Actors
<1>7. ASSUME NEW a \in Actors, DispatchFire(a) PROVE Writes(a)
  BY <1>7 DEF DispatchFire, engineVars, scannerVars, Writes, InDispatch
<1>8. ASSUME NEW a \in Actors, Commit(a) PROVE Commits(a)
  BY <1>8, LeaveAlone DEF Commit, Commits
<1>9. ASSUME NEW a \in Actors, DispatchFails(a) PROVE RollsBack(a)
  <2>1. sent \subseteq sent'
    BY <1>9 DEF DispatchFails, PartlySent
  <2>2. faults' # 0
    BY <1>9 DEF DispatchFails, Fault, TypeOK
  <2> QED
    BY <1>9, <2>1, <2>2, LeaveAlone DEF DispatchFails, RollsBack
<1>10. CASE ReadReplyLost \/ StreamLost
  BY <1>10 DEF ReadReplyLost, StreamLost, engineVars, scannerVars, dispatchVars, Undisturbed,
               InDispatch
<1>11. CASE EventFails
  BY <1>11 DEF EventFails, FinishEvent, scannerVars, dispatchVars, Undisturbed, InDispatch
<1> QED
  BY <1>1, <1>2, <1>3, <1>4, <1>5, <1>6, <1>7, <1>8, <1>9, <1>10, <1>11
     DEF Next, Engine, Scanner, Faults, Actors

-----------------------------------------------------------------------------
(***************************************************************************)
(* Cooldown.                                                               *)
(***************************************************************************)

\* Whoever decides on a rule has checked that it is out of cooldown, and each
\* kind of rule is decided on by one actor.
LEMMA DecidedRules ==
  ASSUME TypeOK, NEW r \in Rules
  PROVE  /\ \A i \in todo : r \in Decisions(i) => ~ InCooldown(r) /\ RuleType[r] # "no_data"
         /\ ShouldFire(r) => ~ InCooldown(r) /\ RuleType[r] = "no_data"
BY DEF Decisions, Evaluate, ShouldFire

\* Out of cooldown, the rule's committed fires are a cooldown old.
LEMMA OutOfCooldown ==
  ASSUME TypeOK, NEW r \in Rules, ~ InCooldown(r), NEW h \in history, h.rule = r
  PROVE  h.at + Cooldown[r] <= now
<1>1. h.at \in Nat /\ now \in Nat /\ Cooldown[r] \in Nat
  BY AlertAssumption DEF TypeOK, Fire, Times
<1> QED
  BY <1>1 DEF InCooldown

\* Decided out of cooldown, and still so at the commit: preserved by every step.
LEMMA DecidedStep ==
  ASSUME TypeOK, TasksDieTogether, DecidedOutOfCooldown, [Next]_vars
  PROVE  DecidedOutOfCooldown'
<1> USE DEF TypeOK
<1>1. ASSUME NEW a \in Actors, NEW R \in SUBSET Rules, Decides(a, R),
             \A r \in R : ~ InCooldown(r) /\ (RuleType[r] = "no_data" <=> a = "scanner")
      PROVE  DecidedOutOfCooldown'
  <2>1. InHand(a)' = FiresNow(R)
    BY <1>1 DEF Decides, DecidedOutOfCooldown, InHand
  <2>2. \A b \in Actors \ {a} : InHand(b)' = InHand(b)
    BY <1>1 DEF Decides, InHand
  <2>3. \A f \in FiresNow(R) : f.rule \in R /\ f.at = now
    BY DEF FiresNow
  <2>4. \A f \in FiresNow(R) : \A h \in history :
          h.rule = f.rule => h.at + Cooldown[f.rule] <= f.at
    BY <1>1, <2>3, OutOfCooldown
  <2>5. R = {} => FiresNow(R) = {}
    BY DEF FiresNow
  <2> QED
    BY <1>1, <2>1, <2>2, <2>3, <2>4, <2>5 DEF DecidedOutOfCooldown, Decides
<1>2. ASSUME NEW a \in Actors, Writes(a) PROVE DecidedOutOfCooldown'
  <2>1. \A b \in Actors : InHand(b)' = InHand(b)
    BY <1>2 DEF Writes, InHand
  <2> QED
    BY <1>2, <2>1 DEF DecidedOutOfCooldown, Writes
<1>3. ASSUME NEW a \in Actors, Commits(a) PROVE DecidedOutOfCooldown'
  <2>1. InHand(a)' = {} /\ \A b \in Actors \ {a} : InHand(b)' = InHand(b)
    BY <1>3 DEF Commits, InHand
  <2>2. \A b \in Actors \ {a} : \A f \in InHand(b), h \in open[a] : h.rule # f.rule
    BY DEF DecidedOutOfCooldown, InHand, Actors
  <2> QED
    BY <1>3, <2>1, <2>2 DEF DecidedOutOfCooldown, Commits
<1>4. ASSUME NEW a \in Actors, RollsBack(a) PROVE DecidedOutOfCooldown'
  <2>1. InHand(a)' = {} /\ \A b \in Actors \ {a} : InHand(b)' = InHand(b)
    BY <1>4 DEF RollsBack, InHand
  <2> QED
    BY <1>4, <2>1 DEF DecidedOutOfCooldown, RollsBack
<1>5. CASE RollsBackAll
  BY <1>5 DEF RollsBackAll, NoFires, DecidedOutOfCooldown, InHand
<1>6. CASE Undisturbed
  BY <1>6 DEF Undisturbed, DecidedOutOfCooldown, InHand
<1>7. \A i \in todo : Decisions(i) \in SUBSET Rules
  BY DEF Decisions
<1>8. ASSUME NEW i \in todo, Decides("engine", Decisions(i)) PROVE DecidedOutOfCooldown'
  BY <1>1, <1>7, <1>8, DecidedRules DEF Actors
<1>9. ASSUME Decides("scanner", {r \in Rules : ShouldFire(r)}) PROVE DecidedOutOfCooldown'
  BY <1>1, <1>9, DecidedRules DEF Actors
<1> QED
  BY <1>2, <1>3, <1>4, <1>5, <1>6, <1>8, <1>9, DispatchSteps

\* A commit adds one fire of a rule at most, a cooldown after the others.
LEMMA CooldownStep ==
  ASSUME TypeOK, TasksDieTogether, DecidedOutOfCooldown, CooldownRespected, [Next]_vars
  PROVE  CooldownRespected'
<1>1. ASSUME NEW a \in Actors, Commits(a) PROVE CooldownRespected'
  <2> SUFFICES ASSUME NEW g \in history \cup open[a], NEW h \in history \cup open[a],
                      g.rule = h.rule, g.at < h.at
               PROVE  g.at + Cooldown[g.rule] <= h.at
    BY <1>1 DEF Commits, CooldownRespected
  <2>1. g.at \in Nat /\ h.at \in Nat /\ Cooldown[g.rule] \in Nat
    BY AlertAssumption DEF TypeOK, Fire, Times
  <2>2. CASE g \in history /\ h \in history
    BY <2>2 DEF CooldownRespected
  <2>3. CASE g \in history /\ h \in open[a]
    BY <2>3 DEF DecidedOutOfCooldown, InHand
  <2>4. CASE g \in open[a] /\ h \in history
    <3>1. h.at + Cooldown[g.rule] <= g.at
      BY <2>4 DEF DecidedOutOfCooldown, InHand
    <3> QED
      BY <2>1, <3>1
  <2>5. CASE g \in open[a] /\ h \in open[a]
    <3>1. g.at = h.at
      BY <2>5 DEF DecidedOutOfCooldown, InHand
    <3> QED
      BY <2>1, <3>1
  <2> QED
    BY <2>2, <2>3, <2>4, <2>5
<1>2. CASE UNCHANGED history
  BY <1>2 DEF CooldownRespected
<1> QED
  BY <1>1, <1>2, DispatchSteps DEF Decides, Writes, RollsBack, RollsBackAll, Undisturbed

-----------------------------------------------------------------------------
(***************************************************************************)
(* The table and the dispatch stream.                                      *)
(***************************************************************************)

\* The publications of an open transaction precede its commit: preserved.
LEMMA SentStep ==
  ASSUME TypeOK, TasksDieTogether, OpenWasSent, RecordedMeansSent, [Next]_vars
  PROVE  OpenWasSent' /\ RecordedMeansSent'
<1>1. edits' = 0 => edits = 0 /\ live' = live
  <2>1. UNCHANGED <<edits, live>> \/ edits' = edits + 1
    BY DEF Next, vars, Environment, Engine, Scanner, Faults, Tick, Switch, Publish,
       IngestorWrites, StartWorker, EngineRead, EngineReadNoGroup, EngineAckBad, ProcessEvent,
       EngineAck, DispatchFire, Commit, StartScanner, Scan, Crash, Die, ReadReplyLost,
       EventFails, StreamLost, DispatchFails, adminVars
  <2>2. edits \in Nat
    BY DEF TypeOK
  <2> QED
    BY <2>1, <2>2
<1> SUFFICES ASSUME edits' = 0 PROVE OpenWasSent' /\ RecordedMeansSent'
  BY DEF OpenWasSent, RecordedMeansSent
<1>2. /\ live' = Channels
      /\ \A a \in Actors : \A f \in open[a] : \A c \in LinkedTo[f.rule] : <<f, c>> \in sent
      /\ \A h \in history : \A c \in LinkedTo[h.rule] : <<h, c>> \in sent
  BY <1>1 DEF OpenWasSent, RecordedMeansSent
<1>3. ASSUME NEW a \in Actors, Writes(a) PROVE OpenWasSent' /\ RecordedMeansSent'
  <2>1. PICK f \in fires[a] : /\ open' = [open EXCEPT ![a] = @ \cup {f}]
                              /\ sent' = sent \cup ({f} \X (LinkedTo[f.rule] \cap live))
    BY <1>3 DEF Writes
  <2>2. LinkedTo[f.rule] \cap live = LinkedTo[f.rule]
    BY <1>1, <1>2, AlertAssumption DEF TypeOK, Fire
  <2>3. \A c \in LinkedTo[f.rule] : <<f, c>> \in sent'
    BY <2>1, <2>2
  <2>4. open \in [Actors -> SUBSET Fire]
    BY DEF TypeOK
  <2> QED
    BY <1>2, <1>3, <2>1, <2>3, <2>4 DEF Writes, OpenWasSent, RecordedMeansSent
<1>4. ASSUME NEW a \in Actors, Commits(a) PROVE OpenWasSent' /\ RecordedMeansSent'
  BY <1>2, <1>4 DEF Commits, OpenWasSent, RecordedMeansSent, TypeOK
<1>5. CASE /\ \A a \in Actors : open'[a] \subseteq open[a]
           /\ UNCHANGED history /\ sent \subseteq sent'
  BY <1>2, <1>5 DEF OpenWasSent, RecordedMeansSent
<1>6. ASSUME NEW a \in Actors, RollsBack(a) PROVE OpenWasSent' /\ RecordedMeansSent'
  BY <1>5, <1>6 DEF RollsBack, TypeOK
<1> QED
  BY <1>3, <1>4, <1>5, <1>6, DispatchSteps DEF Decides, RollsBackAll, NoFires, Undisturbed

\* The group is there until a fault removes it: preserved by every step.
LEMMA GroupStep ==
  ASSUME TypeOK, GroupThere, [Next]_vars
  PROVE  GroupThere'
<1> USE DEF GroupThere
<1>1. CASE StartWorker
  BY <1>1 DEF StartWorker, EnsureConsumerGroup
<1>2. CASE Crash \/ EngineReadNoGroup
  BY <1>2 DEF Crash, EngineReadNoGroup, Die
<1>3. CASE ReadReplyLost \/ EventFails \/ StreamLost \/ \E a \in Actors : DispatchFails(a)
  <2>1. faults' # 0
    BY <1>3 DEF ReadReplyLost, EventFails, StreamLost, DispatchFails, Fault, TypeOK
  <2> QED
    BY <2>1
<1>4. CASE EngineRead \/ EngineAckBad \/ EngineAck
  BY <1>4 DEF EngineRead, EngineAckBad, EngineAck, XReadGroup, XAck
<1>5. CASE \/ Environment \/ StartScanner \/ Scan \/ ProcessEvent
           \/ \E a \in Actors : DispatchFire(a) \/ Commit(a)
           \/ UNCHANGED vars
  <2>1. UNCHANGED <<created, faults>>
    BY <1>5 DEF Environment, Tick, Switch, Publish, XAdd, IngestorWrites, StartScanner, Scan,
                ProcessEvent, DispatchFire, Commit, vars, streamVars
  <2>2. epc' = "down" => epc = "down"
    BY <1>5 DEF Environment, Tick, Switch, Publish, IngestorWrites, StartScanner, Scan,
                ProcessEvent, FinishEvent, DispatchFire, Commit, Leave, engineVars, vars
  <2>3. epc = "down" => epc' = "down" \/ \E a \in Actors : Commit(a)
    BY <1>5 DEF Environment, Tick, Switch, Publish, IngestorWrites, StartScanner, Scan,
                ProcessEvent, DispatchFire, engineVars, vars
  <2>4. ASSUME NEW a \in Actors, Commit(a) PROVE epc = "down" => epc' = "down"
    BY <2>4 DEF Commit, InDispatch, Leave, engineVars, Actors
  <2> QED
    BY <2>1, <2>3, <2>4
<1> QED
  BY <1>1, <1>2, <1>3, <1>4, <1>5 DEF Next, Engine, Scanner, Faults, Actors

\* What was published is on record, or about to be: preserved while nothing fails.
LEMMA RecordedStep ==
  ASSUME TypeOK, TasksDieTogether, GroupThere, SentMeansRecorded, [Next]_vars
  PROVE  SentMeansRecorded'
<1>1. faults' = 0 => faults = 0
  <2>1. UNCHANGED faults \/ faults' = faults + 1
    BY DEF Next, vars, Environment, Engine, Scanner, Faults, Tick, Switch, Publish,
       IngestorWrites, StartWorker, EngineRead, EngineReadNoGroup, EngineAckBad, ProcessEvent,
       EngineAck, DispatchFire, Commit, StartScanner, Scan, Crash, ReadReplyLost,
       EventFails, StreamLost, DispatchFails, Fault
  <2> QED
    BY <2>1 DEF TypeOK
<1> SUFFICES ASSUME faults' = 0 PROVE SentMeansRecorded'
  BY DEF SentMeansRecorded
<1>2. \A m \in sent : m[1] \in history \cup open["engine"] \cup open["scanner"]
  BY <1>1 DEF SentMeansRecorded
<1>3. ASSUME NEW a \in Actors, Writes(a) PROVE SentMeansRecorded'
  <2>1. PICK f \in fires[a] : /\ open' = [open EXCEPT ![a] = @ \cup {f}]
                              /\ sent' = sent \cup ({f} \X (LinkedTo[f.rule] \cap live))
    BY <1>3 DEF Writes
  <2>2. \A m \in sent' : m \in sent \/ m[1] = f
    BY <2>1
  <2>3. open \in [Actors -> SUBSET Fire]
    BY DEF TypeOK
  <2>4. f \in open'[a] /\ open["engine"] \subseteq open'["engine"]
        /\ open["scanner"] \subseteq open'["scanner"]
    BY <2>1, <2>3 DEF Actors
  <2> QED
    BY <1>2, <1>3, <2>2, <2>4 DEF Writes, SentMeansRecorded, Actors
<1>4. ASSUME NEW a \in Actors, Commits(a) PROVE SentMeansRecorded'
  BY <1>2, <1>4 DEF Commits, SentMeansRecorded, TypeOK, Actors
<1>5. CASE UNCHANGED <<open, history, sent>>
  BY <1>2, <1>5 DEF SentMeansRecorded
<1>6. ~ RollsBackAll /\ ~ \E a \in Actors : RollsBack(a)
  BY <1>1 DEF RollsBackAll, RollsBack, GroupThere
<1> QED
  BY <1>3, <1>4, <1>5, <1>6, DispatchSteps DEF Decides, Undisturbed

-----------------------------------------------------------------------------
(***************************************************************************)
(* Grace after a restart.                                                  *)
(***************************************************************************)

\* The scanner's mark is no older than the start: preserved by every step.
LEMMA MarkStep ==
  ASSUME TypeOK, ScansAfterStart, [Next]_vars
  PROVE  (spc \in {"idle", "dispatch"} => lastStart <= scannerStart)'
<1>1. CASE StartWorker
  BY <1>1 DEF StartWorker
<1>2. CASE StartScanner
  BY <1>2 DEF StartScanner, TypeOK, Times
<1>3. CASE Crash \/ EngineReadNoGroup
  BY <1>3 DEF Crash, EngineReadNoGroup, Die
<1>4. CASE ~ (StartWorker \/ StartScanner \/ Crash \/ EngineReadNoGroup)
  <2>1. UNCHANGED <<lastStart, scannerStart>>
    BY <1>4 DEF Next, vars, Environment, Engine, Scanner, Faults, Tick, Switch, Publish,
       IngestorWrites, EngineRead, EngineAckBad, ProcessEvent, EngineAck, DispatchFire, Commit,
       Scan, ReadReplyLost, EventFails, StreamLost, DispatchFails, Leave, scannerVars
  <2>2. spc' \in {"idle", "dispatch"} => spc \in {"idle", "dispatch"}
    BY <1>4 DEF Next, vars, Environment, Engine, Scanner, Faults, Tick, Switch, Publish,
       IngestorWrites, EngineRead, EngineAckBad, ProcessEvent, EngineAck, DispatchFire, Commit,
       Scan, ReadReplyLost, EventFails, StreamLost, DispatchFails, Leave, InDispatch,
       scannerVars, Actors
  <2> QED
    BY <2>1, <2>2 DEF ScansAfterStart
<1> QED
  BY <1>1, <1>2, <1>3, <1>4

\* The scanner decides on windows it has watched: preserved by every step.
LEMMA GraceStep ==
  ASSUME TypeOK, TasksDieTogether, DecidedOutOfCooldown, ScansAfterStart, [Next]_vars
  PROVE  ScansAfterStart'
<1> USE DEF TypeOK
<1>1. lastStart' = lastStart \/ InHand("scanner")' = {}
  <2>1. CASE StartWorker
    BY <2>1 DEF StartWorker, TasksDieTogether, DecidedOutOfCooldown, InDispatch, InHand, Actors,
                dispatchVars
  <2>2. CASE ~ StartWorker
    BY <2>2 DEF Next, vars, Environment, Engine, Scanner, Faults, Tick, Switch, Publish,
       IngestorWrites, EngineRead, EngineReadNoGroup, EngineAckBad, ProcessEvent, EngineAck,
       DispatchFire, Commit, StartScanner, Scan, Crash, Die, ReadReplyLost, EventFails,
       StreamLost, DispatchFails, Leave, scannerVars
  <2> QED
    BY <2>1, <2>2
<1>2. CASE InHand("scanner")' \subseteq InHand("scanner")
  BY <1>1, <1>2, MarkStep DEF ScansAfterStart
<1>3. CASE spc = "idle" /\ Decides("scanner", {r \in Rules : ShouldFire(r)})
  <2>1. InHand("scanner")' = FiresNow({r \in Rules : ShouldFire(r)})
    BY <1>3 DEF Decides, DecidedOutOfCooldown, InHand, Actors
  <2>2. lastStart <= scannerStart /\ lastStart \in Nat /\ scannerStart \in Nat /\ now \in Nat
    BY <1>3 DEF ScansAfterStart, Times
  <2>3. \A r \in Rules : ShouldFire(r) => lastStart + Duration[r] <= now
    BY <2>2, AlertAssumption DEF ShouldFire
  <2>4. \A f \in InHand("scanner")' : lastStart + Duration[f.rule] <= f.at
    BY <2>1, <2>3 DEF FiresNow
  <2> QED
    BY <1>1, <2>4, MarkStep DEF ScansAfterStart
<1>4. ASSUME NEW a \in Actors, Writes(a) \/ Commits(a) \/ RollsBack(a)
      PROVE  InHand("scanner")' \subseteq InHand("scanner")
  BY <1>4 DEF Writes, Commits, RollsBack, InHand, Actors
<1>5. ASSUME NEW i \in todo, Decides("engine", Decisions(i))
      PROVE  InHand("scanner")' \subseteq InHand("scanner")
  BY <1>5 DEF Decides, InHand, Actors
<1>6. CASE RollsBackAll \/ Undisturbed
  BY <1>2, <1>6 DEF RollsBackAll, NoFires, Undisturbed, InHand, Actors
<1> QED
  BY <1>2, <1>3, <1>4, <1>5, <1>6, DispatchSteps

-----------------------------------------------------------------------------
(***************************************************************************)
(* The inductive invariant, and what it is for.                            *)
(***************************************************************************)
Inv ==
  /\ TypeOK /\ BatchWorkedOff /\ TasksDieTogether
  /\ DecidedOutOfCooldown /\ CooldownRespected
  /\ OpenWasSent /\ RecordedMeansSent
  /\ GroupThere /\ SentMeansRecorded
  /\ ScansAfterStart

\* The invariant holds at the start.
LEMMA InvInit == Init => Inv
<1> SUFFICES ASSUME Init PROVE Inv
  OBVIOUS
<1>1. TypeOK /\ BatchWorkedOff
  BY TypeInit
<1>2. TasksDieTogether /\ GroupThere
  BY DEF Init, TasksDieTogether, GroupThere
<1>3. \A a \in Actors : InHand(a) = {} /\ open[a] = {}
  BY DEF Init, NoFires, InHand
<1>4. history = {} /\ sent = {} /\ live = Channels /\ spc = "down"
  BY DEF Init
<1>5. DecidedOutOfCooldown /\ CooldownRespected
  BY <1>3, <1>4 DEF DecidedOutOfCooldown, CooldownRespected
<1>6. OpenWasSent /\ RecordedMeansSent /\ SentMeansRecorded
  BY <1>3, <1>4 DEF OpenWasSent, RecordedMeansSent, SentMeansRecorded
<1>7. ScansAfterStart
  BY <1>3, <1>4 DEF ScansAfterStart, Actors
<1> QED
  BY <1>1, <1>2, <1>5, <1>6, <1>7 DEF Inv

\* Every step preserves it.
LEMMA InvStep == Inv /\ [Next]_vars => Inv'
BY TypeStep, TogetherStep, DecidedStep, CooldownStep, SentStep, GroupStep, RecordedStep,
   GraceStep DEF Inv

\* Two fires of a rule on record are a cooldown apart.
THEOREM CooldownAlwaysRespected == Spec => []CooldownRespected
<1>1. Inv => CooldownRespected
  BY DEF Inv
<1> QED
  BY <1>1, InvInit, InvStep, PTL DEF Spec

\* A recorded fire was published to every channel of its rule.
THEOREM RecordedAlwaysSent == Spec => []RecordedMeansSent
<1>1. Inv => RecordedMeansSent
  BY DEF Inv
<1> QED
  BY <1>1, InvInit, InvStep, PTL DEF Spec

\* Without faults, a published fire is recorded, or about to be.
THEOREM SentAlwaysRecorded == Spec => []SentMeansRecorded
<1>1. Inv => SentMeansRecorded
  BY DEF Inv
<1> QED
  BY <1>1, InvInit, InvStep, PTL DEF Spec

\* No silence is recorded that reaches back over a start of the worker.
THEOREM GraceAlwaysRespected == Spec => GraceRespected
<1>1. Inv /\ [Next]_vars =>
        [\A h \in history' \ history : RuleType[h.rule] = "no_data" =>
           lastStart + Duration[h.rule] <= h.at]_vars
  <2> SUFFICES ASSUME Inv, [Next]_vars, NEW h \in history' \ history,
                      RuleType[h.rule] = "no_data"
               PROVE  lastStart + Duration[h.rule] <= h.at
    OBVIOUS
  <2>1. PICK a \in Actors : Commits(a)
    BY DispatchSteps DEF Inv, Decides, Writes, RollsBack, RollsBackAll, Undisturbed
  <2>2. h \in InHand(a)
    BY <2>1 DEF Commits, InHand
  <2>3. a = "scanner"
    BY <2>2 DEF Inv, DecidedOutOfCooldown
  <2> QED
    BY <2>2, <2>3 DEF Inv, ScansAfterStart
<1> QED
  BY <1>1, InvInit, InvStep, PTL DEF Spec, GraceRespected

-----------------------------------------------------------------------------
(***************************************************************************)
(* Instant alerts.  The event in hand has, for each rule it calls for, a   *)
(* fire on record or on its way there; without a fault it gets there.      *)
(***************************************************************************)
Calls(i, r) ==
  /\ log[i].parses /\ SensorOf[r] = log[i].sensor
  /\ RuleType[r] = "instant" /\ Compare(Condition[r], log[i].value, Threshold[r])

CoveredBy(i, r, H) ==
  \E h \in H : h.rule = r /\ (log[i].time <= h.at \/ log[i].time < h.at + Cooldown[r])

NoneAhead == \A i \in Published : log[i].time <= now

AllEnabled == edits = 0 => enabled = Rules

\* The lowest id left is the event in hand.
InTurn(i) == i \in todo /\ \A j \in todo : i <= j

EventCovered ==
  faults = 0 /\ edits = 0 /\ epc = "dispatch" =>
    \A i \in todo, r \in Rules :
      InTurn(i) /\ Calls(i, r) => CoveredBy(i, r, history \cup InHand("engine"))

\* Events are published at the time it is: preserved by every step.
LEMMA AheadStep ==
  ASSUME TypeOK, NoneAhead, [Next]_vars
  PROVE  NoneAhead'
<1>1. now \in Nat /\ now' \in Nat /\ now <= now'
  <2>1. now' = now \/ now' = now + 1
    BY DEF Next, vars, Environment, Engine, Scanner, Faults, Tick, Switch, Publish,
       IngestorWrites, StartWorker, EngineRead, EngineReadNoGroup, EngineAckBad, ProcessEvent,
       EngineAck, DispatchFire, Commit, StartScanner, Scan, Crash, Die, ReadReplyLost,
       EventFails, StreamLost, DispatchFails
  <2> QED
    BY <2>1 DEF TypeOK, Times
<1>2. \A i \in Published : log[i].time \in Nat /\ log'[i] = log[i]
  <2>1. \A i \in Published : log[i] \in Payloads
    BY DEF TypeOK, StreamTypeOK, Published
  <2> QED
    BY <2>1, StepsAreStreamSteps, EntriesNeverChange, Bounds, AlertAssumption DEF TypeOK, Times
<1>3. CASE \E p \in Payloads : Publish(p)
  <2>1. PICK p \in Payloads : p.time = now /\ log' = Append(log, p) /\ now' = now
    BY <1>3 DEF Publish, XAdd
  <2>2. \A i \in Published' : i \in Published \/ log'[i] = p
    BY <2>1 DEF Published, TypeOK, StreamTypeOK
  <2> QED
    BY <1>1, <1>2, <2>1, <2>2 DEF NoneAhead
<1>4. CASE ~ \E p \in Payloads : Publish(p)
  <2>1. log' = log
    BY <1>4 DEF Next, vars, streamVars, Environment, Engine, Scanner, Faults, Tick, Switch,
       IngestorWrites, StartWorker, EngineRead, EngineReadNoGroup, EngineAckBad, ProcessEvent,
       EngineAck, DispatchFire, Commit, StartScanner, Scan, Crash, ReadReplyLost, EventFails,
       StreamLost, DispatchFails, XReadGroup, XAck, EnsureConsumerGroup, LoseStream
  <2> QED
    BY <1>1, <1>2, <2>1 DEF NoneAhead, Published
<1> QED
  BY <1>3, <1>4

\* Faults and switches are counted, and only ever up.
LEMMA CountsStep ==
  ASSUME TypeOK, [Next]_vars
  PROVE  /\ faults' = 0 => faults = 0 /\ ~ Faults
         /\ edits' = 0 => edits = 0 /\ enabled' = enabled
<1>1. \/ faults' = faults /\ ~ Faults
      \/ faults' = faults + 1
  BY DEF Next, vars, Environment, Engine, Scanner, Faults, Tick, Switch, Publish,
     IngestorWrites, StartWorker, EngineRead, EngineReadNoGroup, EngineAckBad, ProcessEvent,
     EngineAck, DispatchFire, Commit, StartScanner, Scan, Crash, ReadReplyLost,
     EventFails, StreamLost, DispatchFails, Fault, TypeOK
<1>2. UNCHANGED <<edits, enabled>> \/ edits' = edits + 1
  BY DEF Next, vars, Environment, Engine, Scanner, Faults, Tick, Switch, Publish,
     IngestorWrites, StartWorker, EngineRead, EngineReadNoGroup, EngineAckBad, ProcessEvent,
     EngineAck, DispatchFire, Commit, StartScanner, Scan, Crash, Die, ReadReplyLost,
     EventFails, StreamLost, DispatchFails, adminVars
<1> QED
  BY <1>1, <1>2 DEF TypeOK

\* A rule an event calls for is decided on, or in the cooldown of a recorded fire.
LEMMA DecidedOrCooling ==
  ASSUME TypeOK, NoneAhead, enabled = Rules,
         NEW i \in todo, NEW r \in Rules, Calls(i, r), r \notin Decisions(i)
  PROVE  CoveredBy(i, r, history)
<1>1. InCooldown(r)
  BY DEF Calls, Decisions, Evaluate
<1>2. PICK h \in history : h.rule = r /\ now < h.at + Cooldown[r]
  BY <1>1 DEF InCooldown
<1>3. log[i].time \in Nat /\ log[i].time <= now
  <2>1. i \in Published
    BY DeliveredIds DEF TypeOK
  <2>2. log[i] \in Payloads
    BY <2>1 DEF TypeOK, StreamTypeOK, Published
  <2> QED
    BY <2>1, <2>2, AlertAssumption DEF NoneAhead, Times
<1>4. now \in Nat /\ h.at \in Nat /\ Cooldown[r] \in Nat
  BY AlertAssumption DEF TypeOK, Fire, Times
<1>5. log[i].time < h.at + Cooldown[r]
  BY <1>2, <1>3, <1>4
<1> QED
  BY <1>2, <1>5 DEF CoveredBy

\* Without faults and switches no event an instant rule waits for is lost.
LEMMA RaisedStep ==
  ASSUME Inv, NoneAhead, AllEnabled, EventCovered, InstantAlertRaised, [Next]_vars
  PROVE  AllEnabled' /\ EventCovered' /\ InstantAlertRaised'
<1> USE DEF Inv
<1>1. AllEnabled'
  BY CountsStep DEF AllEnabled
<1> SUFFICES ASSUME faults' = 0, edits' = 0 PROVE EventCovered' /\ InstantAlertRaised'
  BY <1>1 DEF EventCovered, InstantAlertRaised
<1>2. faults = 0 /\ edits = 0 /\ ~ Faults /\ enabled = Rules
  BY CountsStep DEF AllEnabled
<1>3. \A i \in done \cup todo : i \in Published /\ i \in Nat /\ log'[i] = log[i]
  <2>1. done \cup todo \subseteq Published
    BY DeliveredIds DEF TypeOK
  <2> QED
    BY <2>1, StepsAreStreamSteps, EntriesNeverChange, Bounds
       DEF TypeOK, Published, StreamTypeOK
<1>4. \A i \in done \cup todo, r \in Rules : Calls(i, r)' <=> Calls(i, r)
  BY <1>3 DEF Calls
<1>5. /\ history \subseteq history'
      /\ history \cup InHand("engine") \subseteq history' \cup InHand("engine")'
  <2>1. ~ RollsBackAll /\ ~ \E a \in Actors : RollsBack(a)
    BY <1>2 DEF RollsBackAll, RollsBack, GroupThere
  <2>2. ASSUME NEW a \in Actors, NEW R, Decides(a, R)
        PROVE  /\ history' = history
               /\ InHand("engine") \subseteq InHand("engine")'
    <3>1. InHand(a) = {}
      BY <2>2 DEF Decides, DecidedOutOfCooldown
    <3> QED
      BY <2>2, <3>1 DEF Decides, InHand, Actors, TypeOK
  <2>3. ASSUME NEW a \in Actors, Writes(a)
        PROVE  history' = history /\ InHand("engine") \subseteq InHand("engine")'
    BY <2>3 DEF Writes, InHand, Actors, TypeOK
  <2>4. ASSUME NEW a \in Actors, Commits(a)
        PROVE  /\ history \subseteq history'
               /\ InHand("engine") \subseteq history' \cup InHand("engine")'
    BY <2>4 DEF Commits, InHand, Actors, TypeOK
  <2>5. CASE Undisturbed
    BY <2>5 DEF Undisturbed, InHand
  <2> QED
    BY <2>1, <2>2, <2>3, <2>4, <2>5, DispatchSteps DEF Actors
<1>6. \A i \in done, r \in Rules : Calls(i, r) => CoveredBy(i, r, history)
  BY <1>2 DEF InstantAlertRaised, Calls, CoveredBy
<1>7. \A i \in done, r \in Rules : Calls(i, r)' => CoveredBy(i, r, history)'
  BY <1>3, <1>4, <1>5, <1>6 DEF CoveredBy
<1>8. ASSUME \A i \in done' \ done, r \in Rules : Calls(i, r)' => CoveredBy(i, r, history)'
      PROVE  InstantAlertRaised'
  BY <1>7, <1>8 DEF InstantAlertRaised, Calls, CoveredBy
<1>9. CASE ProcessEvent
  <2>1. PICK i \in todo :
          /\ InTurn(i)
          /\ IF Decisions(i) = {}
             THEN FinishEvent /\ UNCHANGED fires
             ELSE /\ fires' = [fires EXCEPT !["engine"] = FiresNow(Decisions(i))]
                  /\ epc' = "dispatch" /\ UNCHANGED <<batch, todo, done>>
    BY <1>9 DEF ProcessEvent, InTurn
  <2>2. \A j \in todo : InTurn(j) => j = i
    BY <1>3, <2>1 DEF InTurn
  <2>3. CASE Decisions(i) = {}
    <3>1. done' = done \cup {i} /\ epc' # "dispatch"
      BY <2>1, <2>2, <2>3 DEF FinishEvent, InTurn
    <3>2. \A r \in Rules : Calls(i, r) => CoveredBy(i, r, history)
      BY <1>2, <2>3, DecidedOrCooling
    <3>3. \A r \in Rules : Calls(i, r)' => CoveredBy(i, r, history)'
      BY <1>3, <1>4, <1>5, <3>2 DEF CoveredBy
    <3> QED
      BY <1>8, <3>1, <3>3 DEF EventCovered
  <2>4. CASE Decisions(i) # {}
    <3>1. done' = done /\ todo' = todo /\ fires'["engine"] = FiresNow(Decisions(i))
      BY <2>1, <2>4 DEF TypeOK, Actors
    <3>2. ASSUME NEW r \in Rules, Calls(i, r)
          PROVE  CoveredBy(i, r, history \cup InHand("engine"))'
      <4>1. CASE r \in Decisions(i)
        <5>1. [rule |-> r, at |-> now] \in InHand("engine")'
          BY <3>1, <4>1 DEF FiresNow, InHand
        <5>2. log'[i].time <= now
          BY <1>3 DEF NoneAhead
        <5> QED
          BY <5>1, <5>2 DEF CoveredBy
      <4>2. CASE r \notin Decisions(i)
        BY <1>2, <1>3, <1>5, <3>2, <4>2, DecidedOrCooling DEF CoveredBy
      <4> QED
        BY <4>1, <4>2
    <3>3. \A j \in todo' : InTurn(j)' => j = i
      BY <2>2, <3>1 DEF InTurn
    <3> QED
      BY <1>4, <1>8, <3>1, <3>2, <3>3 DEF EventCovered
  <2> QED
    BY <2>3, <2>4
<1>10. CASE Commit("engine")
  <2>1. PICK i \in todo : /\ InTurn(i) /\ done' = done \cup {i} /\ epc' # "dispatch"
    BY <1>10 DEF Commit, Leave, FinishEvent, InTurn
  <2>2. epc = "dispatch" /\ history \cup InHand("engine") = history'
    BY <1>10 DEF Commit, InDispatch, InHand
  <2>3. \A r \in Rules : Calls(i, r) => CoveredBy(i, r, history')
    BY <1>2, <2>1, <2>2 DEF EventCovered
  <2>4. \A r \in Rules : Calls(i, r)' => CoveredBy(i, r, history)'
    BY <1>3, <1>4, <2>3 DEF CoveredBy
  <2> QED
    BY <1>8, <2>1, <2>4 DEF EventCovered
<1>11. CASE EngineRead
  <2>1. log' = log /\ epc' # "dispatch" /\ done' = done \cup Malformed(Batch(BatchSize))
    BY <1>11 DEF EngineRead, XReadGroup, ProceedWith
  <2> QED
    BY <1>8, <2>1 DEF EventCovered, Malformed, Calls
<1>12. CASE done' = done /\ epc' # "dispatch"
  BY <1>8, <1>12 DEF EventCovered
<1>13. CASE UNCHANGED <<done, todo, epc>>
  <2>1. ASSUME NEW i \in todo, NEW r \in Rules, InTurn(i)', Calls(i, r)', epc = "dispatch"
        PROVE  CoveredBy(i, r, history \cup InHand("engine"))'
    <3>1. CoveredBy(i, r, history \cup InHand("engine"))
      BY <1>2, <1>4, <1>13, <2>1 DEF EventCovered, InTurn
    <3> QED
      BY <1>3, <1>5, <3>1 DEF CoveredBy
  <2> QED
    BY <1>8, <1>13, <2>1 DEF EventCovered
<1> QED
  BY <1>2, <1>9, <1>10, <1>11, <1>12, <1>13
     DEF Next, vars, Environment, Engine, Scanner, Tick, Switch, Publish,
       IngestorWrites, StartWorker, EngineReadNoGroup, EngineAckBad, ProceedWith, EngineAck,
       DispatchFire, Commit, Leave, StartScanner, Scan, Die, engineVars

\* As long as nothing fails and no rule is switched, an event past the threshold
\* of an instant rule is covered, once processed, by a fire of that rule.
THEOREM InstantAlertAlwaysRaised == Spec => []InstantAlertRaised
<1>1. Init => NoneAhead /\ AllEnabled /\ EventCovered /\ InstantAlertRaised
  BY DEF Init, StreamInit, NoneAhead, Published, AllEnabled, EventCovered, InstantAlertRaised
<1>2. /\ Inv /\ NoneAhead /\ [Next]_vars => NoneAhead'
      /\ Inv /\ NoneAhead /\ AllEnabled /\ EventCovered /\ InstantAlertRaised /\ [Next]_vars
           => AllEnabled' /\ EventCovered' /\ InstantAlertRaised'
  BY AheadStep, RaisedStep DEF Inv
<1> QED
  BY <1>1, <1>2, InvInit, InvStep, PTL DEF Spec

-----------------------------------------------------------------------------
(***************************************************************************)
(* The engine implements the consumer's contract.                          *)
(***************************************************************************)

\* A lost stream takes all of the batch in hand or none of it.
BatchWhole == batch \subseteq base + 1 .. last \/ batch \subseteq 1 .. base

\* What each point of the loop knows of the batch in hand.
HeldIsDone ==
  /\ epc \in {"down", "read"} => batch = {}
  /\ epc = "badack" => Malformed(batch) \subseteq done
  /\ epc \in {"event", "dispatch", "ack"} => batch \ todo \subseteq done

\* The batch in hand shrinks, is read anew, or stays: nothing else happens to it.
LEMMA BatchSteps ==
  ASSUME TypeOK, HeldIsDone, [Next]_vars
  PROVE  \/ EngineRead
         \/ batch' \subseteq batch /\ (LoseStream \/ UNCHANGED base)
<1>1. CASE StreamLost
  BY <1>1 DEF StreamLost, engineVars
<1>2. CASE ~ StreamLost /\ ~ EngineRead
  <2>1. UNCHANGED base
    BY <1>2 DEF Next, vars, streamVars, Environment, Engine, Scanner, Faults, Tick, Switch,
       Publish, IngestorWrites, StartWorker, EngineReadNoGroup, EngineAckBad, ProcessEvent,
       EngineAck, DispatchFire, Commit, StartScanner, Scan, Crash, ReadReplyLost, EventFails,
       DispatchFails, XAdd, XReadGroup, XAck, EnsureConsumerGroup
  <2>2. batch' \subseteq batch
    BY <1>2 DEF Next, vars, engineVars, Environment, Engine, Scanner, Faults, Tick, Switch,
       Publish, IngestorWrites, StartWorker, EngineReadNoGroup, EngineAckBad, ProceedWith,
       ProcessEvent, FinishEvent, EngineAck, DispatchFire, Commit, Leave, StartScanner, Scan,
       Crash, Die, ReadReplyLost, EventFails, DispatchFails
  <2> QED
    BY <2>1, <2>2
<1> QED
  BY <1>1, <1>2

\* A loss of the stream never parts the batch in hand.
LEMMA WholeStep ==
  ASSUME TypeOK, BatchWorkedOff, HeldIsDone, BatchWhole, [Next]_vars
  PROVE  BatchWhole'
<1>1. base \in Nat /\ last \in Nat /\ base <= last
  BY DEF TypeOK, StreamTypeOK
<1>2. base' \in Nat /\ last' \in Nat /\ last <= last' /\ batch' \subseteq 1 .. last'
  BY TypeStep, StepsAreStreamSteps, StreamTypeStep, Bounds DEF TypeOK, StreamTypeOK
<1>3. CASE EngineRead
  <2>1. batch' \subseteq Batch(BatchSize) /\ base' = base
    BY <1>3 DEF EngineRead, ProceedWith, XReadGroup
  <2>2. Batch(BatchSize) = last + 1 .. last'
    BY <1>3, ReadIsNew, Bounds DEF EngineRead, TypeOK
  <2> QED
    BY <1>1, <1>2, <2>1, <2>2 DEF BatchWhole
<1>4. CASE LoseStream
  BY <1>2, <1>4 DEF LoseStream, BatchWhole
<1>5. CASE batch' \subseteq batch /\ UNCHANGED base
  BY <1>1, <1>2, <1>5 DEF BatchWhole
<1> QED
  BY <1>3, <1>4, <1>5, BatchSteps

\* What the points of the loop know of the batch: preserved by every step.
LEMMA HeldStep ==
  ASSUME TypeOK, HeldIsDone, [Next]_vars
  PROVE  HeldIsDone'
<1>1. \A i \in batch : i \in Published /\ log'[i] = log[i]
  BY StepsAreStreamSteps, EntriesNeverChange, DeliveredIds, Bounds DEF TypeOK
<1>2. ASSUME FinishEvent, epc \in {"event", "dispatch"} PROVE HeldIsDone'
  BY <1>2 DEF FinishEvent, HeldIsDone
<1>3. CASE EngineRead
  <2>1. log' = log
    BY <1>3 DEF EngineRead, XReadGroup
  <2> QED
    BY <1>3, <2>1 DEF EngineRead, ProceedWith, Malformed, HeldIsDone
<1>4. CASE EngineAckBad
  BY <1>4 DEF EngineAckBad, ProceedWith, HeldIsDone
<1>5. CASE EngineAck \/ StartWorker
  BY <1>5 DEF EngineAck, StartWorker, HeldIsDone
<1>6. CASE EngineReadNoGroup \/ Crash
  BY <1>6 DEF EngineReadNoGroup, Crash, Die, HeldIsDone
<1>7. CASE ProcessEvent \/ EventFails
  BY <1>2, <1>7 DEF ProcessEvent, EventFails, HeldIsDone
<1>8. ASSUME NEW a \in Actors, Commit(a) \/ DispatchFails(a) PROVE HeldIsDone' \/ UNCHANGED engineVars
  BY <1>2, <1>8 DEF Commit, DispatchFails, Leave, InDispatch
<1>9. CASE UNCHANGED engineVars
  BY <1>1, <1>9 DEF engineVars, HeldIsDone, Malformed
<1> QED
  BY <1>3, <1>4, <1>5, <1>6, <1>7, <1>8, <1>9
     DEF Next, vars, Environment, Engine, Scanner, Faults, Actors, Tick, Switch, Publish,
         IngestorWrites, DispatchFire, StartScanner, Scan, ReadReplyLost, StreamLost

(***************************************************************************)
(* The contract's actions, in the terms of the engine.                     *)
(***************************************************************************)
LEMMA AsProgress ==
  ASSUME NEW S \in SUBSET batch, NEW D \in SUBSET batch, S \subseteq done,
         batch' = batch \ S, Acked' = Acked \cup S, done' = done \cup D,
         Waiting' = Waiting, last' = last
  PROVE  Contract!Next
<1>1. Contract!Progress(S, D)
  BY DEF Contract!Progress
<1> QED
  BY <1>1 DEF Contract!Next

\* A step that drops the batch unacknowledged, after whatever it got done.
LEMMA AsLetGo ==
  ASSUME NEW S \in SUBSET batch, NEW D \in SUBSET batch,
         batch' = batch \ S, Acked' = Acked, done' = done \cup D,
         Waiting' = Waiting, last' = last
  PROVE  Contract!Next
<1>1. Contract!LetGo(S, D)
  BY DEF Contract!LetGo
<1> QED
  BY <1>1 DEF Contract!Next

\* A step that takes entries off the queue.
LEMMA AsTake ==
  ASSUME NEW S \in SUBSET Waiting, NEW H \in SUBSET S, NEW D \in SUBSET H,
         batch' = batch \cup H, Acked' = Acked, done' = done \cup D,
         Waiting' = Waiting \ S, 1 .. last' = (1 .. last) \cup S
  PROVE  Contract!Next
<1>1. Contract!Take(S, H, D)
  BY DEF Contract!Take
<1> QED
  BY <1>1 DEF Contract!Next

\* Every step of the worker is a step of the contract, or none.
LEMMA ContractStep ==
  ASSUME TypeOK, BatchWorkedOff, HeldIsDone, BatchWhole, [Next]_vars
  PROVE  [Contract!Next]_(Contract!cvars)
<1>1. /\ todo \subseteq batch
      /\ base \in Nat /\ last \in Nat /\ base <= last /\ Len(log) \in Nat /\ last <= Len(log)
  BY DEF TypeOK, StreamTypeOK
<1>2. ASSUME NEW p \in Payloads, Publish(p) PROVE Contract!Next
  <2> DEFINE i == Len(log) + 1
  <2>1. i \in Ids /\ i \notin Waiting /\ i \notin 1 .. last
    BY <1>1, <1>2, StreamAssumption DEF Publish, XAdd, Ids, Waiting
  <2>2. Waiting' = Waiting \cup {i}
    <3>1. Len(log') = Len(log) + 1 /\ last' = last
      BY <1>2 DEF Publish, XAdd, TypeOK, StreamTypeOK
    <3> QED
      BY <1>1, <3>1 DEF Waiting
  <2>3. last' = last /\ batch' = batch /\ done' = done /\ Acked' = Acked
    BY <1>2 DEF Publish, XAdd, engineVars, Acked
  <2>4. Contract!Enqueue(i)
    BY <2>1, <2>2, <2>3 DEF Contract!Enqueue
  <2> QED
    BY <2>1, <2>4 DEF Contract!Next
<1>3. CASE EngineRead \/ ReadReplyLost
  <2>1. /\ Batch(BatchSize) \subseteq Waiting /\ Waiting' = Waiting \ Batch(BatchSize)
        /\ 1 .. last' = (1 .. last) \cup Batch(BatchSize) /\ Acked' = Acked
    BY <1>3, ReadTakes, Bounds DEF EngineRead, ReadReplyLost, TypeOK
  <2>2. CASE EngineRead
    <3>1. Malformed(Batch(BatchSize)) \subseteq Batch(BatchSize)
      BY DEF Malformed
    <3>2. /\ batch' = batch \cup Batch(BatchSize)
          /\ done' = done \cup Malformed(Batch(BatchSize))
      BY <2>2 DEF EngineRead, ProceedWith, HeldIsDone
    <3> QED
      BY <2>1, <3>1, <3>2, AsTake
  <2>3. CASE ReadReplyLost
    <3>1. batch' = batch \cup {} /\ done' = done \cup {}
      BY <2>3 DEF ReadReplyLost, engineVars
    <3> QED
      BY <2>1, <3>1, AsTake
  <2> QED
    BY <1>3, <2>2, <2>3
<1>4. ASSUME NEW S \in SUBSET batch, S \subseteq done, XAck(S), batch' = batch \ S, done' = done
      PROVE  Contract!Next
  <2>1. done' = done \cup {}
    BY <1>4
  <2>2. (Acked' = Acked \cup S \/ Acked' = Acked) /\ Waiting' = Waiting /\ last' = last
    BY <1>4, AckOfWhole DEF TypeOK, BatchWhole
  <2> QED
    BY <1>4, <2>1, <2>2, AsProgress, AsLetGo
<1>5. CASE EngineAckBad
  BY <1>4, <1>5 DEF EngineAckBad, ProceedWith, HeldIsDone, Malformed
<1>6. CASE EngineAck
  <2>1. batch \subseteq done
    BY <1>6 DEF EngineAck, HeldIsDone, BatchWorkedOff
  <2> QED
    BY <1>4, <1>6, <2>1 DEF EngineAck
<1>7. CASE UNCHANGED streamVars
  <2>0. Waiting' = Waiting /\ Acked' = Acked /\ last' = last
    BY <1>7 DEF streamVars, Waiting, Acked
  <2>1. CASE UNCHANGED engineVars
    BY <2>0, <2>1 DEF Contract!cvars, engineVars
  <2>2. CASE FinishEvent
    <3>1. PICK i \in todo : done' = done \cup {i} /\ batch' = batch
      BY <2>2 DEF FinishEvent
    <3>2. {i} \in SUBSET batch /\ {} \in SUBSET batch /\ batch' = batch \ {}
      BY <1>1, <3>1
    <3> QED
      BY <2>0, <3>1, <3>2, AsLetGo
  <2>3. CASE UNCHANGED <<batch, done>>
    BY <2>0, <2>3 DEF Contract!cvars
  <2>4. CASE Die
    <3>1. batch' = batch \ batch /\ done' = done \cup {}
      BY <2>4 DEF Die
    <3> QED
      BY <2>0, <3>1, AsLetGo
  <2>5. \/ UNCHANGED engineVars \/ FinishEvent \/ UNCHANGED <<batch, done>> \/ Die
        \/ EngineRead \/ ReadReplyLost \/ EngineAckBad \/ EngineAck
    BY DEF Next, vars, Environment, Engine, Scanner, Faults, Tick, Switch, Publish,
       IngestorWrites, StartWorker, EngineReadNoGroup, ProcessEvent, DispatchFire, Commit, Leave,
       StartScanner, Scan, Crash, EventFails, StreamLost, DispatchFails
  <2> QED
    BY <1>3, <1>5, <1>6, <2>1, <2>2, <2>3, <2>4, <2>5
<1>8. CASE StartWorker
  <2>1. Waiting' = Waiting /\ last' = last /\ Acked' = Acked
    BY <1>8 DEF StartWorker, EnsureConsumerGroup, Waiting, Acked, TypeOK, StreamTypeOK
  <2> QED
    BY <1>8, <2>1 DEF StartWorker, Contract!cvars
<1>9. CASE StreamLost
  <2>1. 1 .. last' = (1 .. last) \cup Waiting /\ Waiting' = {} /\ Acked' = {}
    BY <1>1, <1>9 DEF StreamLost, LoseStream, Waiting, Acked
  <2>2. batch' = batch /\ done' = done
    BY <1>9 DEF StreamLost, engineVars
  <2> QED
    BY <2>1, <2>2 DEF Contract!Purge, Contract!Next
<1> QED
  BY <1>2, <1>3, <1>5, <1>6, <1>7, <1>8, <1>9
     DEF Next, vars, Environment, Engine, Scanner, Faults, Tick, Switch, IngestorWrites,
         EngineReadNoGroup, ProcessEvent, DispatchFire, Commit, StartScanner, Scan, Crash,
         EventFails, DispatchFails

\* The engine keeps the consumer's contract with the telemetry stream: an event is
\* handed to it at most once, and acknowledged only after it was evaluated.
THEOREM EngineKeepsContract == Spec => ImplementsContract
<1>1. Init => Contract!Init /\ HeldIsDone /\ BatchWhole
  <2> SUFFICES ASSUME Init PROVE Contract!Init /\ HeldIsDone /\ BatchWhole
    OBVIOUS
  <2>1. Waiting = {} /\ 1 .. last = {} /\ Acked = {} /\ done = {} /\ batch = {}
    BY DEF Init, StreamInit, Waiting, Acked
  <2> QED
    BY <2>1 DEF Contract!Init, HeldIsDone, BatchWhole, Malformed
<1>2. Inv /\ HeldIsDone /\ BatchWhole /\ [Next]_vars => HeldIsDone' /\ BatchWhole'
  BY HeldStep, WholeStep DEF Inv
<1>3. Inv /\ HeldIsDone /\ BatchWhole /\ [Next]_vars => [Contract!Next]_(Contract!cvars)
  BY ContractStep DEF Inv
<1> QED
  BY <1>1, <1>2, <1>3, InvInit, InvStep, PTL DEF Spec, ImplementsContract, Contract!Spec

-----------------------------------------------------------------------------
\* What the contract is worth, to those the engine alerts.

\* The contract's own invariant, of whoever keeps it: what is in hand was taken.
LEMMA ContractInit == Contract!Init => Contract!Consistent
BY DEF Contract!Init, Contract!Consistent

\* Every step the contract allows keeps it.
LEMMA ContractPreserved ==
  Contract!Consistent /\ [Contract!Next]_(Contract!cvars) => Contract!Consistent'
BY DEF Contract!Consistent, Contract!Next, Contract!Enqueue, Contract!Take, Contract!Progress,
       Contract!LetGo, Contract!Purge, Contract!cvars

\* An acknowledged entry was evaluated or given up, and the engine does not hold it any more.
THEOREM AckedIsFinalAlways == Spec => []Contract!AckedIsFinal
<1>1. Contract!Consistent => Contract!AckedIsFinal
  BY DEF Contract!Consistent, Contract!AckedIsFinal
<1> QED
  BY <1>1, ContractInit, ContractPreserved, EngineKeepsContract, PTL
     DEF ImplementsContract, Contract!Spec

\* An entry is handed to the engine at most once, whatever fails.
THEOREM HandedOutOnceAlways == Spec => Contract!HandedOutOnce
<1>1. Contract!Consistent /\ [Contract!Next]_(Contract!cvars) =>
        [(batch' \ batch) \cap (1 .. last) = {} /\ (1 .. last) \cap Waiting' = {}]_(Contract!cvars)
  BY DEF Contract!Consistent, Contract!Next, Contract!Enqueue, Contract!Take,
         Contract!Progress, Contract!LetGo, Contract!Purge
<1> QED
  BY <1>1, ContractInit, ContractPreserved, EngineKeepsContract, PTL
     DEF ImplementsContract, Contract!Spec, Contract!HandedOutOnce

\* The engine evaluates only what it has in hand, and nothing is undone.
THEOREM WorkedOnlyInHandAlways == Spec => Contract!WorkedOnlyInHand
<1>1. [Contract!Next]_(Contract!cvars) =>
        [done \subseteq done' /\ done' \ done \subseteq batch \cup batch']_(Contract!cvars)
  BY DEF Contract!Next, Contract!Enqueue, Contract!Take, Contract!Progress, Contract!LetGo,
         Contract!Purge
<1> QED
  BY <1>1, EngineKeepsContract, PTL
     DEF ImplementsContract, Contract!Spec, Contract!WorkedOnlyInHand
=============================================================================
