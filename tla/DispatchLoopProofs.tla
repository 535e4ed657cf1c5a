-------------------------- MODULE DispatchLoopProofs --------------------------
(***************************************************************************)
(* The dispatch loop of an integration plugin sends no alert twice, sends  *)
(* them in order and acknowledges only what it tried to send, for any      *)
(* number of plugins, alerts, restarts and faults.                         *)
(***************************************************************************)
EXTENDS DispatchLoop, RedisStreamProofs

Inv == TypeOK /\ SentAtMostOnce /\ TriedBehind /\ AckedWasTried /\ PassedWasTried

\* Whatever the loop, the supervisor and the environment do is, to the stream,
\* one of its operations.
LEMMA StepsAreStreamSteps == [Next]_vars => StreamStep(BatchSize)
BY DEF Next, vars, StreamStep, Environment, Supervisor, RunLoop, Faults, TogglePlugin,
       Dispatch, Start, Stop, Read, ReadNoGroup, Skip, Deliver, AckBatch, Crash, CrashInSend,
       ReadReplyLost, StreamLost

\* Nothing has been delivered, nothing sent.
LEMMA InvInit == Init => Inv
<1> SUFFICES ASSUME Init PROVE Inv
  OBVIOUS
<1>1. StreamTypeOK
  BY StreamInitType DEF Init
<1>2. Acked = {}
  BY DEF Init, StreamInit, Acked
<1>3. last = 0
  BY DEF Init, StreamInit
<1>4. TypeOK
  <2>1. faults \in 0 .. MaxFaults
    BY DispatchAssumption DEF Init
  <2>2. attempts \in [Ids -> Nat] /\ lastTried \in 0 .. last
    BY <1>3 DEF Init
  <2> QED
    BY <1>1, <2>1, <2>2 DEF Init, TypeOK
<1>5. SentAtMostOnce /\ TriedBehind
  BY DEF Init, SentAtMostOnce, TriedBehind
<1>6. AckedWasTried /\ PassedWasTried
  BY <1>2 DEF Init, AckedWasTried, PassedWasTried
<1> QED
  BY <1>4, <1>5, <1>6 DEF Inv

-----------------------------------------------------------------------------
\* The type invariant is preserved by every step.
LEMMA TypeStep == TypeOK /\ [Next]_vars => TypeOK'
<1> SUFFICES ASSUME TypeOK, [Next]_vars PROVE TypeOK'
  OBVIOUS
<1> USE DispatchAssumption
<1>1. StreamTypeOK' /\ last <= last' /\ last \in Nat /\ last' \in Nat
  BY StepsAreStreamSteps, StreamTypeStep DEF TypeOK, StreamTypeOK
<1>2. batch \subseteq 1 .. last' /\ lastTried \in 0 .. last'
  BY <1>1 DEF TypeOK
<1> USE <1>1, <1>2 DEF TypeOK, loopVars, sendVars
<1>3. CASE TogglePlugin \/ \E p \in Payloads : Dispatch(p)
  BY <1>3 DEF TogglePlugin, Dispatch
<1>4. CASE Start \/ Stop
  BY <1>4 DEF Start, Stop, Gone
<1>5. CASE Read
  <2>1. Batch(BatchSize) \subseteq 1 .. last'
    BY <1>5, ReadIsNew DEF Read
  <2> QED
    BY <1>5, <2>1 DEF Read
<1>6. CASE ReadNoGroup \/ AckBatch
  BY <1>6 DEF ReadNoGroup, AckBatch, Gone
<1>7. ASSUME NEW i \in Ids, Skip(i) PROVE TypeOK'
  BY <1>7 DEF Skip
<1>8. ASSUME NEW i \in Ids, Deliver(i) PROVE TypeOK'
  BY <1>8 DEF Deliver, NextMessage
<1>9. ASSUME NEW i \in Ids, CrashInSend(i) PROVE TypeOK'
  BY <1>9 DEF CrashInSend, NextMessage, Gone, Fault
<1>10. CASE Crash \/ ReadReplyLost \/ StreamLost
  <2>1. faults' \in 0 .. MaxFaults
    BY <1>10 DEF Crash, ReadReplyLost, StreamLost, Fault
  <2>2. /\ UNCHANGED <<wanted, attempts, lastTried>>
        /\ UNCHANGED <<pc, batch, todo>> \/ Gone
    BY <1>10 DEF Crash, ReadReplyLost, StreamLost
  <2> QED
    BY <2>1, <2>2 DEF Gone
<1>11. CASE UNCHANGED vars
  BY <1>11 DEF vars
<1> QED
  BY <1>3, <1>4, <1>5, <1>6, <1>7, <1>8, <1>9, <1>10, <1>11
     DEF Next, Environment, Supervisor, RunLoop, Faults

\* The state of the loop and of its stream is always well formed.
THEOREM TypeCorrect == Spec => []TypeOK
<1>1. Init => TypeOK
  BY InvInit DEF Inv
<1> QED
  BY <1>1, TypeStep, PTL DEF Spec

-----------------------------------------------------------------------------
\* A try is a try of the oldest message left, which was never tried before.
LEMMA TryIsFirst ==
  ASSUME TypeOK, TriedBehind, NEW i \in Ids, NextMessage(i)
  PROVE  attempts[i] = 0 /\ lastTried < i
BY DEF TypeOK, TriedBehind, NextMessage

\* What a step that tries nothing may do to the counters and to the messages
\* before the loop.
LEMMA NothingTried ==
  ASSUME TypeOK, SentAtMostOnce, TriedBehind,
         UNCHANGED sendVars, todo' \subseteq todo
  PROVE  SentAtMostOnce' /\ TriedBehind'
BY DEF SentAtMostOnce, TriedBehind, sendVars, Ids

\* Alerts are tried once, oldest first: preserved by every step.
LEMMA TriedStep ==
  TypeOK /\ SentAtMostOnce /\ TriedBehind /\ [Next]_vars => SentAtMostOnce' /\ TriedBehind'
<1> SUFFICES ASSUME TypeOK, SentAtMostOnce, TriedBehind, [Next]_vars
             PROVE  SentAtMostOnce' /\ TriedBehind'
  OBVIOUS
<1>1. /\ attempts \in [Ids -> Nat] /\ lastTried \in Nat /\ last \in Nat /\ lastTried <= last
      /\ todo \subseteq Nat /\ Ids \subseteq Nat
  BY DEF TypeOK, StreamTypeOK, Ids
<1>2. ASSUME NEW i \in Ids, Deliver(i) \/ CrashInSend(i)
      PROVE  SentAtMostOnce' /\ TriedBehind'
  <2>1. attempts[i] = 0 /\ lastTried < i /\ \A j \in todo : i <= j
    BY <1>2, TryIsFirst DEF Deliver, CrashInSend, NextMessage
  <2>2. attempts' = [attempts EXCEPT ![i] = @ + 1] /\ lastTried' = i
    BY <1>2 DEF Deliver, CrashInSend
  <2>3. todo' = {} \/ todo' = todo \ {i}
    BY <1>2 DEF Deliver, CrashInSend, Gone
  <2>4. \A j \in Ids : attempts'[j] <= 1 /\ (attempts'[j] > 0 => j <= i)
    BY <1>1, <2>1, <2>2 DEF SentAtMostOnce, TriedBehind
  <2>5. \A j \in todo' : i < j
    <3> SUFFICES ASSUME NEW j \in todo' PROVE i < j
      OBVIOUS
    <3>1. j \in todo /\ j # i
      BY <2>3
    <3>2. j \in Nat /\ i \in Nat /\ i <= j
      BY <1>1, <2>1, <3>1
    <3> QED
      BY <3>1, <3>2
  <2> QED
    BY <2>2, <2>4, <2>5 DEF SentAtMostOnce, TriedBehind, Ids
<1>3. CASE Read
  <2>1. todo' = last + 1 .. last'
    BY <1>3, ReadIsNew, DispatchAssumption DEF Read, TypeOK
  <2>2. \A j \in todo' : lastTried < j
    BY <1>1, <2>1
  <2> QED
    BY <1>3, <2>2 DEF Read, sendVars, SentAtMostOnce, TriedBehind, Ids
<1>4. CASE \/ TogglePlugin \/ \E p \in Payloads : Dispatch(p)
           \/ Start \/ Stop \/ ReadNoGroup \/ AckBatch \/ \E i \in Ids : Skip(i)
           \/ Crash \/ ReadReplyLost \/ StreamLost \/ UNCHANGED vars
  <2>1. UNCHANGED sendVars /\ todo' \subseteq todo
    BY <1>4 DEF TogglePlugin, Dispatch, Start, Stop, ReadNoGroup, AckBatch, Skip, Crash,
                ReadReplyLost, StreamLost, Gone, loopVars, sendVars, vars
  <2> QED
    BY <2>1, NothingTried
<1> QED
  BY <1>2, <1>3, <1>4 DEF Next, Environment, Supervisor, RunLoop, Faults

-----------------------------------------------------------------------------
\* Once tried, always tried; and a delivered message stays what it is.
LEMMA TriedForGood ==
  ASSUME TypeOK, [Next]_vars, NEW i \in 1 .. last, Deliverable(i) => attempts[i] > 0
  PROVE  Deliverable(i)' => attempts'[i] > 0
<1>1. i \in Ids /\ log'[i] = log[i]
  BY DeliveredIds, EntriesNeverChange, StepsAreStreamSteps, DispatchAssumption DEF TypeOK
<1>2. attempts'[i] >= attempts[i] /\ attempts[i] \in Nat /\ attempts'[i] \in Nat
  <2>1. attempts' = attempts \/ \E j \in Ids : attempts' = [attempts EXCEPT ![j] = @ + 1]
    BY DEF Next, Environment, Supervisor, RunLoop, Faults, TogglePlugin, Dispatch, Start, Stop,
           Read, ReadNoGroup, Skip, Deliver, AckBatch, Crash, CrashInSend, ReadReplyLost,
           StreamLost, vars, sendVars
  <2> QED
    BY <1>1, <2>1 DEF TypeOK
<1> QED
  BY <1>1, <1>2 DEF Deliverable, Mine

\* The part of the batch that was passed was tried: preserved by every step.
LEMMA PassedStep == TypeOK /\ PassedWasTried /\ [Next]_vars => PassedWasTried'
<1> SUFFICES ASSUME TypeOK, PassedWasTried, [Next]_vars PROVE PassedWasTried'
  OBVIOUS
<1>1. \A i \in batch \ todo : Deliverable(i)' => attempts'[i] > 0
  BY TriedForGood DEF PassedWasTried, TypeOK
<1>2. ASSUME NEW i \in Ids, Skip(i) PROVE PassedWasTried'
  <2>1. ~ Deliverable(i)'
    BY <1>2 DEF Skip, Deliverable, Mine, streamVars
  <2> QED
    BY <1>1, <1>2, <2>1 DEF Skip, PassedWasTried, NextMessage
<1>3. ASSUME NEW i \in Ids, Deliver(i) PROVE PassedWasTried'
  <2>1. attempts'[i] > 0
    BY <1>3 DEF Deliver, TypeOK
  <2> QED
    BY <1>1, <1>3, <2>1 DEF Deliver, PassedWasTried, NextMessage
<1>4. CASE \/ Stop \/ Read \/ ReadNoGroup \/ AckBatch \/ Crash
           \/ \E i \in Ids : CrashInSend(i)
  BY <1>4 DEF Stop, Read, ReadNoGroup, AckBatch, Crash, CrashInSend, Gone, PassedWasTried
<1>5. CASE \/ TogglePlugin \/ \E p \in Payloads : Dispatch(p)
           \/ Start \/ ReadReplyLost \/ StreamLost \/ UNCHANGED vars
  <2>1. UNCHANGED <<batch, todo>> /\ (pc' # "loop" => pc # "loop")
    BY <1>5 DEF TogglePlugin, Dispatch, Start, ReadReplyLost, StreamLost, loopVars, vars
  <2> QED
    BY <1>1, <2>1 DEF PassedWasTried
<1> QED
  BY <1>2, <1>3, <1>4, <1>5 DEF Next, Environment, Supervisor, RunLoop, Faults

\* What is acknowledged was tried: preserved by every step.
LEMMA AckedStep ==
  TypeOK /\ AckedWasTried /\ PassedWasTried /\ [Next]_vars => AckedWasTried'
<1> SUFFICES ASSUME TypeOK, AckedWasTried, PassedWasTried, [Next]_vars,
                    NEW i \in Acked', Deliverable(i)'
             PROVE  attempts'[i] > 0
  BY DEF AckedWasTried
<1>1. Acked \subseteq 1 .. last
  BY DEF Acked, TypeOK, StreamTypeOK
<1>2. CASE i \in Acked
  BY <1>1, <1>2, TriedForGood DEF AckedWasTried
<1>3. CASE i \notin Acked
  <2>1. CASE AckBatch
    <3>1. i \in batch \ todo
      BY <1>3, <2>1, AckAcksGiven DEF AckBatch
    <3> QED
      BY <3>1, TriedForGood DEF PassedWasTried, TypeOK
  <2>2. CASE ~ AckBatch
    <3>1. \/ \E p \in Payloads : XAdd(p)
          \/ EnsureConsumerGroup \/ XReadGroup(BatchSize) \/ LoseStream
          \/ UNCHANGED streamVars
      BY <2>2 DEF Next, vars, Environment, Supervisor, RunLoop, Faults, TogglePlugin,
             Dispatch, Start, Stop, Read, ReadNoGroup, Skip, Deliver, Crash, CrashInSend,
             ReadReplyLost, StreamLost
    <3> QED
      BY <1>3, <3>1, OnlyAckAcks, DispatchAssumption DEF TypeOK
  <2> QED
    BY <2>1, <2>2
<1> QED
  BY <1>2, <1>3

\* The invariant is inductive.
LEMMA InvStep == Inv /\ [Next]_vars => Inv'
BY TypeStep, TriedStep, PassedStep, AckedStep DEF Inv

-----------------------------------------------------------------------------
\* No alert is sent twice, whatever crashes, stops and restarts there are.
THEOREM SentAtMostOnceAlways == Spec => []SentAtMostOnce
<1>1. Inv => SentAtMostOnce
  BY DEF Inv
<1> QED
  BY <1>1, InvInit, InvStep, PTL DEF Spec

\* No acknowledgement overtakes the attempt to send.
THEOREM AckedWasTriedAlways == Spec => []AckedWasTried
<1>1. Inv => AckedWasTried
  BY DEF Inv
<1> QED
  BY <1>1, InvInit, InvStep, PTL DEF Spec

\* Alerts go out in the order of their dispatch, across batches and restarts.
THEOREM AlertsInOrder == Spec => SentInOrder
<1>1. Inv /\ [Next]_vars =>
        [\A i \in Ids : attempts'[i] > attempts[i] => lastTried < i]_vars
  <2> SUFFICES ASSUME Inv, Next, NEW i \in Ids, attempts'[i] > attempts[i]
               PROVE  lastTried < i
    BY DEF vars
  <2>1. attempts[i] \in Nat
    BY DEF Inv, TypeOK
  <2>2. PICK j \in Ids : Deliver(j) \/ CrashInSend(j)
    BY <2>1 DEF Next, Environment, Supervisor, RunLoop, Faults, TogglePlugin, Dispatch, Start,
           Stop, Read, ReadNoGroup, Skip, AckBatch, Crash, ReadReplyLost, StreamLost, sendVars
  <2>3. i = j
    BY <2>1, <2>2 DEF Deliver, CrashInSend, Inv, TypeOK
  <2> QED
    BY <2>2, <2>3, TryIsFirst DEF Deliver, CrashInSend, Inv
<1> QED
  BY <1>1, InvInit, InvStep, PTL DEF Spec, SentInOrder
=============================================================================
