---------------------------- MODULE IngestorProofs ----------------------------
(***************************************************************************)
(* Proofs about the ingestor, for every number of sensors, devices,        *)
(* entries, faults and every batch size.                                   *)
(***************************************************************************)
EXTENDS Ingestor, RedisStreamProofs

(***************************************************************************)
(* Each step of the ingestor is one operation on the stream, or none.      *)
(***************************************************************************)
LEMMA StepsAreStreamSteps ==
  [Next]_vars => StreamStep(BatchSize)
BY DEF Next, Environment, RunConsumer, WriteBatch, Faults, StreamStep, vars, streamVars,
       Publish, RegisterSensor, DropSensor, TogglePlugin, Start, Read, ReadNoGroup, AckBad,
       LoadSensors, LoadDevices, Insert, InsertIndividually, UpdateLastSeen, AckGood,
       Crash, ReadReplyLost, WriteFails, InsertReplyLost, StreamLost

\* Marking entries keeps the map of verdicts a map of verdicts.
LEMMA MarkType ==
  ASSUME TypeOK, NEW S, NEW verdict \in Fates, Mark(S, verdict)
  PROVE  fate' \in [Ids -> Fates]
BY DEF Mark, TypeOK

\* The keys of delivered entries are pairs of a timestamp and a sensor.
LEMMA KeyType ==
  ASSUME TypeOK, NEW i \in 1 .. last
  PROVE  Key(i) \in Times \X Sensors
<1>1. i \in 1 .. Len(log)
  BY DEF TypeOK, StreamTypeOK
<1>2. log[i] \in Payloads
  BY <1>1 DEF TypeOK, StreamTypeOK
<1> QED
  BY <1>2, IngestorAssumption DEF Key, Times

(***************************************************************************)
(* The type invariant holds of the ingestor.                               *)
(***************************************************************************)
LEMMA TypeInit == Init => TypeOK
<1> SUFFICES ASSUME Init PROVE TypeOK
  OBVIOUS
<1>1. StreamTypeOK
  BY StreamInitType DEF Init
<1>2. lastSeen \in [Devices -> Times \cup {0}] /\ fate \in [Ids -> Fates]
  BY DEF Init, Fates
<1> QED
  BY <1>1, <1>2, IngestorAssumption DEF Init, StreamInit, TypeOK, Points

\* And every step keeps it so.
LEMMA TypeStep == TypeOK /\ [Next]_vars => TypeOK'
<1> SUFFICES ASSUME TypeOK, [Next]_vars PROVE TypeOK'
  OBVIOUS
<1> USE IngestorAssumption, StreamAssumption
<1>1. StreamTypeOK' /\ last <= last' /\ last \in Nat /\ last' \in Nat
  BY StepsAreStreamSteps, StreamTypeStep DEF TypeOK, StreamTypeOK
<1>2. batch \subseteq 1 .. last'
  BY <1>1 DEF TypeOK
<1>3. CASE Environment
  <2> USE <1>1, <1>2 DEF TypeOK, writerVars, registryVars, tableVars
  <2>1. ASSUME NEW p \in Payloads, Publish(p) PROVE TypeOK'
    BY <2>1 DEF Publish
  <2>2. ASSUME NEW s \in Sensors, RegisterSensor(s) PROVE TypeOK'
    BY <2>2 DEF RegisterSensor
  <2>3. ASSUME NEW s \in Sensors, DropSensor(s) PROVE TypeOK'
    BY <2>3 DEF DropSensor
  <2>4. ASSUME NEW p \in Plugins, TogglePlugin(p) PROVE TypeOK'
    BY <2>4 DEF TogglePlugin
  <2> QED
    BY <1>3, <2>1, <2>2, <2>3, <2>4 DEF Environment
<1>4. CASE RunConsumer
  <2> USE <1>1, <1>2 DEF TypeOK, writerVars, registryVars, tableVars, Points
  <2>1. CASE Start
    BY <2>1 DEF Start
  <2>2. CASE Read
    <3>0. Batch(BatchSize) \subseteq 1 .. last'
      BY <2>2, ReadIsNew DEF Read
    <3>1. pc' \in Points /\ batch' = Batch(BatchSize) /\ valid' \subseteq batch'
      BY <2>2 DEF Read, ProceedWith
    <3>2. fate' \in [Ids -> Fates]
      BY <2>2, MarkType DEF Read, Fates
    <3> QED
      BY <2>2, <3>0, <3>1, <3>2 DEF Read
  <2>3. CASE ReadNoGroup
    BY <2>3 DEF ReadNoGroup, Forget
  <2>4. CASE AckBad
    <3>1. pc' \in Points /\ batch' \subseteq batch /\ valid' \subseteq batch'
      BY <2>4 DEF AckBad, ProceedWith
    <3>2. fate' \in [Ids -> Fates]
      BY <2>4, MarkType DEF AckBad, Fates
    <3> QED
      BY <2>4, <3>1, <3>2 DEF AckBad
  <2>5. CASE LoadSensors
    BY <2>5 DEF LoadSensors
  <2>6. CASE LoadDevices
    <3>1. pc' \in Points /\ batch' \subseteq batch /\ valid' \subseteq batch'
      BY <2>6 DEF LoadDevices, Forget
    <3>2. fate' \in [Ids -> Fates]
      BY <2>6, MarkType DEF LoadDevices, Fates
    <3> QED
      BY <2>6, <3>1, <3>2 DEF LoadDevices
  <2>7. CASE Insert
    <3>0. {Key(i) : i \in valid} \subseteq Times \X Sensors
      BY KeyType
    <3>1. pc' \in Points /\ rows' \subseteq Times \X Sensors
      BY <2>7, <3>0 DEF Insert, InsertRows
    <3>2. fate' \in [Ids -> Fates]
      BY <2>7, MarkType DEF Insert, Fates
    <3> QED
      BY <2>7, <3>1, <3>2 DEF Insert
  <2>8. CASE InsertIndividually
    <3>1. pc' \in Points /\ rows' \subseteq Times \X Sensors
      BY <2>8, KeyType DEF InsertIndividually, InsertRows, Insertable
    <3>2. fate' \in [Ids -> Fates]
      BY <2>8 DEF InsertIndividually, Fates
    <3> QED
      BY <2>8, <3>1, <3>2 DEF InsertIndividually
  <2>9. CASE UpdateLastSeen
    <3>1. lastSeen' \in [Devices -> Times \cup {0}]
      BY <2>9 DEF UpdateLastSeen
    <3> QED
      BY <2>9, <3>1 DEF UpdateLastSeen
  <2>10. CASE AckGood
    BY <2>10 DEF AckGood, Forget
  <2> QED
    BY <1>4, <2>1, <2>2, <2>3, <2>4, <2>5, <2>6, <2>7, <2>8, <2>9, <2>10
       DEF RunConsumer, WriteBatch
<1>5. CASE Faults
  <2> USE <1>1, <1>2 DEF TypeOK, writerVars, registryVars, tableVars, Points, Fault, Forget
  <2>1. faults' \in 0 .. MaxFaults
    BY <1>5 DEF Faults, Crash, ReadReplyLost, WriteFails, InsertReplyLost, StreamLost
  <2>2. CASE Crash
    BY <2>1, <2>2 DEF Crash
  <2>3. CASE ReadReplyLost
    BY <2>1, <2>3 DEF ReadReplyLost
  <2>4. CASE WriteFails
    BY <2>1, <2>4 DEF WriteFails
  <2>5. CASE InsertReplyLost
    <3>1. rows' \subseteq Times \X Sensors
      BY <2>5, KeyType DEF InsertReplyLost
    <3>2. fate' \in [Ids -> Fates]
      BY <2>5, MarkType DEF InsertReplyLost, Fates
    <3> QED
      BY <2>1, <2>5, <3>1, <3>2 DEF InsertReplyLost
  <2>6. CASE StreamLost
    BY <2>1, <2>6 DEF StreamLost
  <2> QED
    BY <1>5, <2>2, <2>3, <2>4, <2>5, <2>6 DEF Faults
<1>6. CASE UNCHANGED vars
  BY <1>1, <1>2, <1>6 DEF TypeOK, vars, writerVars, registryVars, tableVars
<1> QED
  BY <1>3, <1>4, <1>5, <1>6 DEF Next

\* The state of the ingestor and of its stream is always well formed.
THEOREM TypeCorrect == Spec => []TypeOK
BY TypeInit, TypeStep, PTL DEF Spec

-----------------------------------------------------------------------------
(***************************************************************************)
(* Nothing is acknowledged that was not handled.  The invariant adds what  *)
(* each point of the loop knows of the batch in hand; a judged entry stays *)
(* judged, and entries become acknowledged by the two XACKs only, at       *)
(* points where the ids given to them are judged.                          *)
(***************************************************************************)
Inv == TypeOK /\ AckedWasHandled /\ HeldIsJudged

\* A verdict is never taken back: rows are not deleted, entries do not change,
\* and what is marked is marked for good.
LEMMA JudgedForGood ==
  ASSUME TypeOK, [Next]_vars, NEW i \in 1 .. last, Judged(i)
  PROVE  Judged(i)'
<1>0. i \in Published /\ i \in Ids
  BY DeliveredIds DEF TypeOK
<1>1. Key(i)' = Key(i)
  BY <1>0, StepsAreStreamSteps, EntriesNeverChange, IngestorAssumption DEF TypeOK, Key
<1>2. rows \subseteq rows'
  BY DEF Next, Environment, RunConsumer, WriteBatch, Faults, vars, tableVars, InsertRows,
         Publish, RegisterSensor, DropSensor, TogglePlugin, Start, Read, ReadNoGroup, AckBad,
         LoadSensors, LoadDevices, Insert, InsertIndividually, UpdateLastSeen, AckGood,
         Crash, ReadReplyLost, WriteFails, InsertReplyLost, StreamLost
<1>3. fate[i] # "open" /\ (fate[i] = "stored" => Key(i)' \in rows')
  BY <1>1, <1>2 DEF Judged
<1>4. fate[i] \in Fates
  BY <1>0 DEF TypeOK
<1>5. ASSUME NEW S, Mark(S, "refused") PROVE Judged(i)'
  BY <1>0, <1>3, <1>4, <1>5 DEF Mark, Judged, Fates
<1>6. ASSUME Mark(valid, "stored"), \A j \in valid : Key(j) \in rows' PROVE Judged(i)'
  BY <1>0, <1>1, <1>3, <1>4, <1>6 DEF Mark, Judged, Fates
<1>7. CASE Insert
  <2>1. CASE Insertable = valid
    BY <2>1, <1>6, <1>7 DEF Insert, InsertRows
  <2>2. CASE Insertable # valid
    BY <2>2, <1>3, <1>4, <1>7 DEF Insert, Judged, Fates
  <2> QED
    BY <2>1, <2>2
<1>8. CASE InsertIndividually
  <2>1. CASE i \in Insertable
    BY <2>1, <1>0, <1>1, <1>8 DEF InsertIndividually, InsertRows, Judged
  <2>2. CASE i \notin Insertable
    BY <2>2, <1>0, <1>3, <1>4, <1>8 DEF InsertIndividually, Judged, Fates
  <2> QED
    BY <2>1, <2>2
<1>9. CASE InsertReplyLost
  BY <1>6, <1>9 DEF InsertReplyLost
<1>10. CASE Read \/ AckBad \/ LoadDevices
  <2>1. UNCHANGED fate \/ \E S : Mark(S, "refused")
    BY <1>10 DEF Read, AckBad, LoadDevices
  <2> QED
    BY <2>1, <1>3, <1>4, <1>5 DEF Judged, Fates
<1>11. CASE UNCHANGED fate
  BY <1>3, <1>4, <1>11 DEF Judged, Fates
<1> QED
  BY <1>7, <1>8, <1>9, <1>10, <1>11
     DEF Next, Environment, RunConsumer, WriteBatch, Faults, vars,
         Publish, RegisterSensor, DropSensor, TogglePlugin, Start, ReadNoGroup,
         LoadSensors, UpdateLastSeen, AckGood, Crash, ReadReplyLost, WriteFails, StreamLost

\* Acknowledged entries were handled: preserved by every step.
LEMMA AckedStep ==
  ASSUME Inv, [Next]_vars
  PROVE  AckedWasHandled'
<1> USE DEF Inv
<1>1. Acked \subseteq 1 .. last /\ batch \subseteq 1 .. last
  BY DEF TypeOK, StreamTypeOK, Acked
<1>2. CASE AckBad
  <2>1. Acked' \subseteq Acked \cup Malformed(batch)
    BY <1>2, AckAcksGiven DEF AckBad
  <2>2. \A i \in Malformed(batch) : i \in 1 .. last /\ Judged(i)
    BY <1>1, <1>2 DEF AckBad, HeldIsJudged, Malformed
  <2> QED
    BY <1>1, <2>1, <2>2, JudgedForGood DEF AckedWasHandled
<1>3. CASE AckGood
  <2>1. Acked' \subseteq Acked \cup batch
    BY <1>3, AckAcksGiven DEF AckGood
  <2>2. \A i \in batch : i \in 1 .. last /\ Judged(i)
    BY <1>1, <1>3 DEF AckGood, HeldIsJudged
  <2> QED
    BY <1>1, <2>1, <2>2, JudgedForGood DEF AckedWasHandled
<1>4. CASE ~ AckBad /\ ~ AckGood
  <2>1. \/ \E p \in Payloads : XAdd(p)
        \/ EnsureConsumerGroup \/ XReadGroup(BatchSize) \/ LoseStream
        \/ UNCHANGED streamVars
    BY <1>4 DEF Next, Environment, RunConsumer, WriteBatch, Faults, vars, streamVars,
       Publish, RegisterSensor, DropSensor, TogglePlugin, Start, Read, ReadNoGroup,
       LoadSensors, LoadDevices, Insert, InsertIndividually, UpdateLastSeen,
       Crash, ReadReplyLost, WriteFails, InsertReplyLost, StreamLost
  <2>2. Acked' \subseteq Acked
    BY <2>1, OnlyAckAcks, IngestorAssumption DEF TypeOK
  <2> QED
    BY <1>1, <2>2, JudgedForGood DEF AckedWasHandled
<1> QED
  BY <1>2, <1>3, <1>4

\* What the points of the loop know of the batch: preserved by every step.
LEMMA HeldStep ==
  ASSUME Inv, [Next]_vars
  PROVE  HeldIsJudged'
<1> USE DEF Inv
<1>1. batch \subseteq 1 .. last /\ valid \subseteq batch /\ TypeOK
  BY DEF TypeOK
<1>2. \A i \in 1 .. last : Judged(i) => Judged(i)'
  BY <1>1, JudgedForGood
<1>3. \A i \in Published : log'[i] = log[i]
  BY StepsAreStreamSteps, EntriesNeverChange, IngestorAssumption DEF TypeOK
<1>4. batch \subseteq Published /\ batch \subseteq Ids
  BY <1>1, DeliveredIds DEF TypeOK
<1>5. CASE UNCHANGED writerVars
  <2>1. Malformed(batch)' = Malformed(batch)
    BY <1>3, <1>4, <1>5 DEF Malformed, writerVars
  <2> QED
    BY <1>1, <1>2, <1>5, <2>1 DEF HeldIsJudged, writerVars, Malformed
<1>6. CASE Forget("down") \/ Forget("read")
  BY <1>6 DEF Forget, HeldIsJudged
<1>7. CASE Start
  BY <1>7 DEF Start, HeldIsJudged
<1>8. CASE Read
  <2>0. Batch(BatchSize) \subseteq Ids /\ log' = log
    <3>1. /\ last' <= Len(log) /\ last \in Nat
          /\ Batch(BatchSize) = last + 1 .. last' /\ log' = log
      BY <1>8, ReadIsNew, IngestorAssumption DEF Read, XReadGroup, TypeOK, StreamTypeOK
    <3>2. Batch(BatchSize) \subseteq Published
      BY <1>8, <3>1 DEF Published, TypeOK, StreamTypeOK, Read, XReadGroup
    <3> QED
      BY <3>1, <3>2, DeliveredIds DEF TypeOK
  <2>1. CASE Malformed(Batch(BatchSize)) = {}
    <3>1. /\ pc' \in {"read", "ack", "sensors"}
          /\ pc' = "read" => batch' = {}
          /\ pc' = "ack" => batch' = BadIds(Batch(BatchSize))
      BY <1>8, <2>1 DEF Read, ProceedWith, BadIds
    <3>2. \A i \in BadIds(Batch(BatchSize)) : Judged(i)'
      BY <1>8, <2>0, <2>1 DEF Read, Mark, Judged, BadIds
    <3> QED
      BY <3>1, <3>2 DEF HeldIsJudged
  <2>2. CASE Malformed(Batch(BatchSize)) # {}
    <3>1. pc' = "badack" /\ batch' = Batch(BatchSize)
      BY <1>8, <2>2 DEF Read
    <3>2. \A i \in Malformed(Batch(BatchSize)) : Judged(i)'
      BY <1>8, <2>0, <2>2 DEF Read, Mark, Judged, Malformed
    <3> QED
      BY <2>0, <3>1, <3>2 DEF HeldIsJudged, Malformed
  <2> QED
    BY <2>1, <2>2
<1>9. CASE AckBad
  <2>1. /\ pc' \in {"read", "ack", "sensors"}
        /\ pc' = "read" => batch' = {}
        /\ pc' = "ack" => batch' \subseteq BadIds(batch)
    BY <1>9 DEF AckBad, ProceedWith, BadIds
  <2>2. \A i \in BadIds(batch) : Judged(i)'
    BY <1>9, <1>4 DEF AckBad, Mark, Judged, BadIds
  <2> QED
    BY <2>1, <2>2 DEF HeldIsJudged
<1>10. CASE LoadSensors
  BY <1>10 DEF LoadSensors, HeldIsJudged
<1>11. CASE LoadDevices /\ pc' # "read"
  <2>1. /\ pc' \in {"ack", "insert"} /\ batch' = batch
        /\ pc' = "ack" => valid' = {}
        /\ \A i \in batch \ valid' : i \in Ids /\ fate'[i] = "refused"
    BY <1>4, <1>11 DEF LoadDevices, Forget, Mark
  <2> QED
    BY <2>1 DEF HeldIsJudged, Judged
<1>12. CASE Insert
  <2>1. CASE Insertable = valid
    <3>1. \A i \in valid : Judged(i)'
      BY <1>1, <1>4, <1>12, <2>1 DEF Insert, InsertRows, Mark, Judged, Key, streamVars
    <3>2. pc' \in {"ack", "lastseen"} /\ batch' = batch
      BY <1>12, <2>1 DEF Insert, InsertRows
    <3>3. \A i \in batch : Judged(i)'
      BY <1>1, <1>2, <1>12, <3>1 DEF HeldIsJudged, Insert
    <3> QED
      BY <3>2, <3>3 DEF HeldIsJudged
  <2>2. CASE Insertable # valid
    BY <1>1, <1>2, <1>12, <2>2 DEF Insert, HeldIsJudged
  <2> QED
    BY <2>1, <2>2
<1>13. CASE InsertIndividually
  <2>1. \A i \in Insertable : Judged(i)'
    BY <1>1, <1>4, <1>13
       DEF InsertIndividually, InsertRows, Insertable, Judged, Key, streamVars
  <2>2. \A i \in valid \ Insertable : Judged(i)'
    BY <1>1, <1>4, <1>13 DEF InsertIndividually, Judged
  <2>3. pc' \in {"ack", "lastseen"} /\ batch' = batch
    BY <1>13 DEF InsertIndividually, InsertRows
  <2>4. \A i \in batch : Judged(i)'
    BY <1>1, <1>2, <1>13, <2>1, <2>2 DEF HeldIsJudged, InsertIndividually
  <2> QED
    BY <2>3, <2>4 DEF HeldIsJudged
<1>14. CASE UpdateLastSeen
  BY <1>1, <1>2, <1>14 DEF UpdateLastSeen, HeldIsJudged
<1> QED
  BY <1>5, <1>6, <1>7, <1>8, <1>9, <1>10, <1>11, <1>12, <1>13, <1>14
     DEF Next, Environment, RunConsumer, WriteBatch, Faults, vars,
         Publish, RegisterSensor, DropSensor, TogglePlugin, ReadNoGroup, LoadDevices, Forget,
         AckGood, Crash, ReadReplyLost, WriteFails, InsertReplyLost, StreamLost

\* The invariant holds at the start, and every step preserves it.
LEMMA InvInit == Init => Inv
<1> SUFFICES ASSUME Init PROVE Inv
  OBVIOUS
<1>1. Acked = {}
  BY DEF Init, StreamInit, Acked
<1>2. HeldIsJudged
  BY DEF Init, HeldIsJudged
<1> QED
  BY <1>1, <1>2, TypeInit DEF Inv, AckedWasHandled

\* The invariant is inductive: every step of the ingestor preserves it.
LEMMA InvStep == Inv /\ [Next]_vars => Inv'
BY TypeStep, AckedStep, HeldStep DEF Inv

\* Whatever fails, and however many producers, sensors and entries there are,
\* the ingestor acknowledges only what it has handled.
THEOREM AckedWasHandledAlways == Spec => []AckedWasHandled
<1>1. Inv => AckedWasHandled
  BY DEF Inv
<1> QED
  BY <1>1, InvInit, InvStep, PTL DEF Spec

-----------------------------------------------------------------------------
\* Events that arrive late, twice or after a failure never turn last_seen back.
THEOREM LastSeenMonotone == Spec => LastSeenNeverGoesBack
<1>1. TypeOK /\ [Next]_vars => [\A d \in Devices : lastSeen[d] <= lastSeen'[d]]_vars
  <2> SUFFICES ASSUME TypeOK, [Next]_vars, NEW d \in Devices
               PROVE  lastSeen[d] <= lastSeen'[d]
    OBVIOUS
  <2>1. lastSeen \in [Devices -> Nat]
    BY IngestorAssumption DEF TypeOK, Times
  <2>2. CASE UpdateLastSeen
    <3>1. PICK latest \in [Devices -> Times \cup {0}] :
            lastSeen' = [e \in Devices |->
                           IF lastSeen[e] < latest[e] THEN latest[e] ELSE lastSeen[e]]
      BY <2>2 DEF UpdateLastSeen
    <3>2. latest[d] \in Nat
      BY <3>1, IngestorAssumption DEF Times
    <3> QED
      BY <2>1, <3>1, <3>2
  <2>3. CASE UNCHANGED lastSeen
    BY <2>1, <2>3
  <2> QED
    BY <2>2, <2>3
       DEF Next, Environment, RunConsumer, WriteBatch, Faults, vars, tableVars,
           Publish, RegisterSensor, DropSensor, TogglePlugin, Start, Read, ReadNoGroup, AckBad,
           LoadSensors, LoadDevices, Insert, InsertIndividually, AckGood,
           Crash, ReadReplyLost, WriteFails, InsertReplyLost, StreamLost
<1> QED
  BY <1>1, TypeInit, TypeStep, PTL DEF Spec, LastSeenNeverGoesBack

-----------------------------------------------------------------------------
(***************************************************************************)
(* last_seen and the writes.  An entry the database was given keeps that   *)
(* verdict, because it is in nobody's hands any more once the batch has    *)
(* been let go: nothing delivers it again to be refused.                   *)
(***************************************************************************)
Accepted(i) == fate[i] \in {"stored", "skipped"}

AcceptedApart ==
  /\ \A i \in Ids : Accepted(i) => i \in 1 .. last
  /\ pc \notin {"lastseen", "ack"} => \A i \in batch : ~ Accepted(i)
  /\ pc = "lastseen" => \A i \in valid : Accepted(i)

\* Only an entry that is not accepted is ever refused.
LEMMA AcceptedForGood ==
  ASSUME TypeOK, AcceptedApart, [Next]_vars, NEW i \in Ids, Accepted(i)
  PROVE  Accepted(i)'
<1>1. i \in 1 .. last /\ (pc \notin {"lastseen", "ack"} => i \notin batch)
  BY DEF AcceptedApart
<1>2. CASE Read
  <2>1. last \in Nat /\ Batch(BatchSize) = last + 1 .. last'
    BY <1>2, ReadIsNew, IngestorAssumption DEF Read, TypeOK, StreamTypeOK
  <2>2. i \notin Batch(BatchSize)
    BY <1>1, <2>1
  <2> QED
    BY <1>2, <2>2 DEF Read, Mark, Malformed, BadIds, Accepted
<1>3. CASE AckBad
  BY <1>1, <1>3 DEF AckBad, Mark, BadIds, Accepted
<1>4. CASE LoadDevices
  BY <1>1, <1>4 DEF LoadDevices, Mark, Accepted
<1>5. CASE Insert \/ InsertIndividually \/ InsertReplyLost
  BY <1>5 DEF Insert, InsertIndividually, InsertReplyLost, Mark, Accepted
<1>6. CASE UNCHANGED fate
  BY <1>6 DEF Accepted
<1> QED
  BY <1>2, <1>3, <1>4, <1>5, <1>6
     DEF Next, Environment, RunConsumer, WriteBatch, Faults, vars,
         Publish, RegisterSensor, DropSensor, TogglePlugin, Start, ReadNoGroup,
         LoadSensors, UpdateLastSeen, AckGood, Crash, ReadReplyLost, WriteFails, StreamLost

\* Accepted entries stay apart: preserved by every step.
LEMMA ApartStep ==
  ASSUME Inv, AcceptedApart, [Next]_vars
  PROVE  AcceptedApart'
<1> USE DEF Inv
<1>1. /\ batch \subseteq Ids /\ valid \subseteq batch /\ batch \subseteq 1 .. last
      /\ last \in Nat /\ last' \in Nat /\ last <= last'
  BY StepsAreStreamSteps, StreamTypeStep, DeliveredIds, IngestorAssumption
     DEF TypeOK, StreamTypeOK
<1>2. CASE UNCHANGED fate /\ UNCHANGED writerVars
  BY <1>1, <1>2 DEF AcceptedApart, Accepted, writerVars
<1>3. CASE UNCHANGED fate /\ (Forget("down") \/ Forget("read"))
  BY <1>1, <1>3 DEF AcceptedApart, Accepted, Forget
<1>4. CASE Start
  BY <1>1, <1>4 DEF Start, AcceptedApart, Accepted
<1>5. CASE Read
  <2>1. /\ \A i \in Batch(BatchSize) : i \in Ids /\ i \notin 1 .. last
        /\ Batch(BatchSize) \subseteq 1 .. last'
    <3>1. last < last' /\ last' <= Len(log) /\ Batch(BatchSize) = last + 1 .. last'
      BY <1>5, ReadIsNew, IngestorAssumption DEF Read, TypeOK
    <3>2. Batch(BatchSize) \subseteq Published
      BY <1>1, <3>1 DEF Published, TypeOK, StreamTypeOK
    <3> QED
      BY <1>1, <3>1, <3>2, DeliveredIds DEF TypeOK
  <2>2. \A i \in Ids : Accepted(i)' => Accepted(i) /\ i \notin Batch(BatchSize)
    BY <1>5, <2>1 DEF Read, Mark, Malformed, BadIds, Accepted, AcceptedApart
  <2>3. batch' = Batch(BatchSize) /\ pc' # "lastseen"
    BY <1>5 DEF Read, ProceedWith
  <2> QED
    BY <1>1, <2>1, <2>2, <2>3 DEF AcceptedApart
<1>6. CASE AckBad
  <2>1. \A i \in Ids : Accepted(i)' => Accepted(i)
    BY <1>6 DEF AckBad, Mark, BadIds, Accepted
  <2>2. batch' \subseteq batch /\ pc' # "lastseen" /\ pc = "badack"
    BY <1>6 DEF AckBad, ProceedWith
  <2> QED
    BY <1>1, <2>1, <2>2 DEF AcceptedApart
<1>7. CASE LoadSensors
  BY <1>1, <1>7 DEF LoadSensors, AcceptedApart, Accepted
<1>8. CASE LoadDevices
  <2>1. \A i \in Ids : Accepted(i)' => Accepted(i)
    BY <1>8 DEF LoadDevices, Mark, Accepted
  <2>2. batch' \subseteq batch /\ pc' # "lastseen" /\ pc = "devices"
    BY <1>8 DEF LoadDevices, Forget
  <2> QED
    BY <1>1, <2>1, <2>2 DEF AcceptedApart
<1>9. CASE Insert
  <2>1. CASE Insertable = valid
    <3>1. /\ \A i \in Ids : Accepted(i)' => Accepted(i) \/ i \in valid
          /\ \A i \in valid : Accepted(i)'
          /\ pc' \in {"lastseen", "ack"} /\ valid' = valid
      BY <1>1, <1>9, <2>1 DEF Insert, InsertRows, Mark, Accepted
    <3> QED
      BY <1>1, <3>1 DEF AcceptedApart
  <2>2. CASE Insertable # valid
    BY <1>1, <1>9, <2>2 DEF Insert, AcceptedApart, Accepted
  <2> QED
    BY <2>1, <2>2
<1>10. CASE InsertIndividually
  <2>1. Insertable \subseteq valid
    BY DEF Insertable
  <2>2. /\ \A i \in Ids : Accepted(i)' => Accepted(i) \/ i \in valid
        /\ \A i \in valid : Accepted(i)'
        /\ pc' \in {"lastseen", "ack"} /\ valid' = valid
    BY <1>1, <1>10, <2>1 DEF InsertIndividually, InsertRows, Accepted
  <2> QED
    BY <1>1, <2>2 DEF AcceptedApart
<1>11. CASE UpdateLastSeen
  BY <1>1, <1>11 DEF UpdateLastSeen, AcceptedApart, Accepted
<1>12. CASE InsertReplyLost
  <2>1. \A i \in Ids : Accepted(i)' => Accepted(i) \/ i \in valid
    BY <1>12 DEF InsertReplyLost, Mark, Accepted
  <2>2. batch' = {} /\ pc' = "read"
    BY <1>12 DEF InsertReplyLost, Forget
  <2> QED
    BY <1>1, <2>1, <2>2 DEF AcceptedApart
<1> QED
  BY <1>2, <1>3, <1>4, <1>5, <1>6, <1>7, <1>8, <1>9, <1>10, <1>11, <1>12
     DEF Next, Environment, RunConsumer, WriteBatch, Faults, vars,
         Publish, RegisterSensor, DropSensor, TogglePlugin, ReadNoGroup,
         AckGood, Crash, ReadReplyLost, WriteFails, StreamLost

\* What is noted as stored is in the table.
StoredInRows == \A i \in Ids : fate[i] = "stored" => Key(i) \in rows

\* The note and the row come with one commit, and neither goes: preserved.
LEMMA StoredStep ==
  ASSUME Inv, AcceptedApart, StoredInRows, [Next]_vars
  PROVE  StoredInRows'
<1> USE DEF Inv
<1> SUFFICES ASSUME NEW i \in Ids, fate'[i] = "stored" PROVE Key(i)' \in rows'
  BY DEF StoredInRows
<1>1. CASE fate[i] = "stored"
  <2>1. i \in 1 .. last
    BY <1>1 DEF AcceptedApart, Accepted
  <2>2. Judged(i)'
    BY <1>1, <2>1, JudgedForGood DEF Judged, StoredInRows
  <2> QED
    BY <2>2 DEF Judged
<1>2. CASE fate[i] # "stored"
  <2>1. \/ Insert /\ Insertable = valid /\ i \in valid
        \/ InsertIndividually /\ i \in Insertable
        \/ InsertReplyLost /\ i \in valid
    BY <1>2
       DEF Next, Environment, RunConsumer, WriteBatch, Faults, vars, Mark,
           Publish, RegisterSensor, DropSensor, TogglePlugin, Start, Read, ReadNoGroup, AckBad,
           LoadSensors, LoadDevices, Insert, InsertIndividually, UpdateLastSeen, AckGood,
           Crash, ReadReplyLost, WriteFails, InsertReplyLost, StreamLost
  <2> QED
    BY <2>1 DEF Insert, InsertIndividually, InsertReplyLost, InsertRows, Key, streamVars
<1> QED
  BY <1>1, <1>2

\* A device's last_seen is the time of an entry the database was given: preserved.
LEMMA BackedStep ==
  ASSUME Inv, AcceptedApart, StoredInRows, StoredInRows', LastSeenBacked, [Next]_vars
  PROVE  LastSeenBacked'
<1> USE DEF Inv
<1>1. \A i \in Published : i \in Published' /\ log'[i] = log[i]
  BY StepsAreStreamSteps, EntriesNeverChange, IngestorAssumption DEF TypeOK
<1>2. valid \subseteq Published /\ Published \subseteq Ids
  BY DeliveredIds DEF TypeOK
<1>3. \A i \in Ids : Accepted(i) => Accepted(i)'
  BY AcceptedForGood
<1>7. Published' \subseteq Ids
  <2>1. TypeOK'
    BY TypeStep
  <2> QED
    BY <2>1, StreamAssumption DEF TypeOK, StreamTypeOK, Published, Ids
<1> SUFFICES ASSUME NEW d \in Devices, lastSeen'[d] # 0
             PROVE  \E i \in Published' : /\ log'[i].device = d /\ log'[i].time = lastSeen'[d]
                                          /\ Accepted(i)'
  BY <1>7 DEF LastSeenBacked, Accepted, StoredInRows
<1>4. CASE lastSeen'[d] = lastSeen[d]
  <2>1. PICK i \in Published : log[i].device = d /\ log[i].time = lastSeen[d] /\ Accepted(i)
    BY <1>4 DEF LastSeenBacked, Accepted
  <2> QED
    BY <1>1, <1>2, <1>3, <1>4, <2>1
<1>5. CASE UpdateLastSeen /\ lastSeen'[d] # lastSeen[d]
  <2>1. PICK latest \in [Devices -> Times \cup {0}] :
          /\ Latest(d, latest[d])
          /\ lastSeen' = [e \in Devices |->
                            IF lastSeen[e] < latest[e] THEN latest[e] ELSE lastSeen[e]]
    BY <1>5 DEF UpdateLastSeen
  <2>2. lastSeen'[d] = latest[d] /\ latest[d] # 0
    BY <1>5, <2>1
  <2>3. PICK i \in valid : log[i].device = d /\ log[i].time = latest[d]
    BY <2>1, <2>2 DEF Latest
  <2>4. Accepted(i)
    BY <1>5, <2>3 DEF UpdateLastSeen, AcceptedApart
  <2> QED
    BY <1>1, <1>2, <1>3, <2>2, <2>3, <2>4
<1>6. UpdateLastSeen \/ UNCHANGED lastSeen
  BY DEF Next, Environment, RunConsumer, WriteBatch, Faults, vars, tableVars,
         Publish, RegisterSensor, DropSensor, TogglePlugin, Start, Read, ReadNoGroup, AckBad,
         LoadSensors, LoadDevices, Insert, InsertIndividually, AckGood,
         Crash, ReadReplyLost, WriteFails, InsertReplyLost, StreamLost
<1> QED
  BY <1>4, <1>5, <1>6

(***************************************************************************)
(* Whatever fails, devices.last_seen is the time of an event that passed   *)
(* the checks, and whose row is in the table or was skipped by the per-row *)
(* fallback: never of a refused event or of a batch that was not written.  *)
(***************************************************************************)
THEOREM LastSeenAlwaysBacked == Spec => []LastSeenBacked
<1>1. Init => AcceptedApart /\ StoredInRows /\ LastSeenBacked
  BY DEF Init, AcceptedApart, Accepted, StoredInRows, LastSeenBacked
<1>2. Inv /\ AcceptedApart /\ StoredInRows /\ LastSeenBacked /\ [Next]_vars
        => AcceptedApart' /\ StoredInRows' /\ LastSeenBacked'
  BY ApartStep, StoredStep, BackedStep
<1> QED
  BY <1>1, <1>2, InvInit, InvStep, PTL DEF Spec

-----------------------------------------------------------------------------
(***************************************************************************)
(* last_seen and the rows.  Between the two transactions a row may be      *)
(* newer than its device's last_seen, but then an entry in hand makes up   *)
(* for it: it was checked that its device is the one its sensor is of.     *)
(***************************************************************************)
OwnersChecked ==
  pc \in {"devices", "insert", "rowwise", "lastseen"} =>
    \A i \in valid : OwnerOf[log[i].sensor] = log[i].device

\* The row is no newer than last_seen, or than what is about to become it.
Covered(k) ==
  \/ k[1] <= lastSeen[OwnerOf[k[2]]]
  \/ pc = "lastseen" /\ \E i \in valid : log[i].device = OwnerOf[k[2]] /\ k[1] <= log[i].time

RowsCovered == faults = 0 => \A k \in rows : Covered(k)

\* The owners of the entries to be written stay checked: preserved by every step.
LEMMA OwnersStep ==
  ASSUME TypeOK, OwnersChecked, [Next]_vars
  PROVE  OwnersChecked'
<1>1. \A i \in valid : log'[i] = log[i]
  BY StepsAreStreamSteps, EntriesNeverChange, DeliveredIds, IngestorAssumption DEF TypeOK
<1>2. \/ pc' \notin {"devices", "insert", "rowwise", "lastseen"}
      \/ LoadSensors
      \/ valid' \subseteq valid /\ pc \in {"devices", "insert", "rowwise", "lastseen"}
  BY DEF Next, Environment, RunConsumer, WriteBatch, Faults, vars, writerVars, ProceedWith,
         Forget, InsertRows,
         Publish, RegisterSensor, DropSensor, TogglePlugin, Start, Read, ReadNoGroup, AckBad,
         LoadDevices, Insert, InsertIndividually, UpdateLastSeen, AckGood,
         Crash, ReadReplyLost, WriteFails, InsertReplyLost, StreamLost
<1>3. CASE LoadSensors
  BY <1>1, <1>3 DEF LoadSensors, OwnersChecked
<1> QED
  BY <1>1, <1>2, <1>3 DEF OwnersChecked

\* What is inserted is covered by the entries it comes from.
LEMMA InsertedCovered ==
  ASSUME TypeOK, OwnersChecked, RowsCovered, faults = 0, pc \in {"insert", "rowwise"},
         NEW S \in SUBSET valid, InsertRows(S), valid' = valid,
         UNCHANGED <<streamVars, lastSeen>>
  PROVE  \A k \in rows' : Covered(k)'
<1>1. \A k \in rows : k[1] <= lastSeen[OwnerOf[k[2]]]
  BY DEF RowsCovered, Covered
<1>2. CASE {Key(i) : i \in S} \subseteq rows
  BY <1>1, <1>2 DEF InsertRows, Covered
<1>3. CASE ~ ({Key(i) : i \in S} \subseteq rows)
  <2>1. pc' = "lastseen"
    BY <1>3 DEF InsertRows
  <2>2. ASSUME NEW i \in S, NEW k, k = Key(i) PROVE Covered(k)'
    <3>1. log[i].time \in Nat /\ Key(i) = <<log[i].time, log[i].sensor>>
      <4>1. i \in 1 .. last
        BY DEF TypeOK
      <4>2. log[i] \in Payloads
        BY <4>1 DEF TypeOK, StreamTypeOK
      <4> QED
        BY <4>2, IngestorAssumption DEF Key
    <3>2. OwnerOf[log[i].sensor] = log[i].device /\ log' = log /\ i \in valid'
      BY DEF OwnersChecked, streamVars
    <3> QED
      BY <2>1, <2>2, <3>1, <3>2 DEF Covered
  <2>3. ASSUME NEW k \in rows PROVE Covered(k)'
    BY <1>1, <2>3 DEF Covered
  <2> QED
    BY <2>2, <2>3 DEF InsertRows
<1> QED
  BY <1>2, <1>3

\* The UPDATE brings last_seen up to the entries in hand.
LEMMA UpdateCovers ==
  ASSUME TypeOK, RowsCovered, faults = 0, UpdateLastSeen
  PROVE  \A k \in rows' : Covered(k)'
<1>1. lastSeen \in [Devices -> Nat]
  BY IngestorAssumption DEF TypeOK, Times
<1>2. PICK latest \in [Devices -> Times \cup {0}] :
        /\ \A d \in Devices : Latest(d, latest[d])
        /\ lastSeen' = [e \in Devices |->
                          IF lastSeen[e] < latest[e] THEN latest[e] ELSE lastSeen[e]]
  BY DEF UpdateLastSeen
<1> SUFFICES ASSUME NEW k \in rows PROVE k[1] <= lastSeen'[OwnerOf[k[2]]]
  BY DEF UpdateLastSeen, Covered
<1> DEFINE d == OwnerOf[k[2]]
<1>3. k[1] \in Nat /\ d \in Devices
  BY IngestorAssumption DEF TypeOK, Times
<1>4. latest[d] \in Nat /\ lastSeen[d] \in Nat
  BY <1>1, <1>2, <1>3, IngestorAssumption DEF Times
<1>5. /\ lastSeen'[d] = IF lastSeen[d] < latest[d] THEN latest[d] ELSE lastSeen[d]
  BY <1>2, <1>3
<1>6. CASE k[1] <= lastSeen[d]
  BY <1>3, <1>4, <1>5, <1>6
<1>7. CASE \E i \in valid : log[i].device = d /\ k[1] <= log[i].time
  <2>1. PICK i \in valid : log[i].device = d /\ k[1] <= log[i].time
    BY <1>7
  <2>2. log[i].time \in Nat
    <3>1. i \in 1 .. last
      BY DEF TypeOK
    <3>2. log[i] \in Payloads
      BY <3>1 DEF TypeOK, StreamTypeOK
    <3> QED
      BY <3>2, IngestorAssumption
  <2>3. log[i].time <= latest[d]
    <3>1. Latest(d, latest[d])
      BY <1>2, <1>3
    <3> QED
      BY <2>1, <3>1 DEF Latest
  <2> QED
    BY <1>3, <1>4, <1>5, <2>1, <2>2, <2>3
<1> QED
  BY <1>6, <1>7 DEF RowsCovered, Covered

\* Without a fault every row stays covered: preserved by every step.
LEMMA CoveredStep ==
  ASSUME TypeOK, OwnersChecked, RowsCovered, [Next]_vars
  PROVE  RowsCovered'
<1>1. faults' = 0 => faults = 0 /\ ~ Faults
  BY DEF Next, Environment, RunConsumer, WriteBatch, Faults, vars, Fault, TypeOK,
         Publish, RegisterSensor, DropSensor, TogglePlugin, Start, Read, ReadNoGroup, AckBad,
         LoadSensors, LoadDevices, Insert, InsertIndividually, UpdateLastSeen, AckGood,
         Crash, ReadReplyLost, WriteFails, InsertReplyLost, StreamLost
<1> SUFFICES ASSUME faults = 0, ~ Faults PROVE \A k \in rows' : Covered(k)'
  BY <1>1 DEF RowsCovered
<1>2. \A i \in valid : log'[i] = log[i]
  BY StepsAreStreamSteps, EntriesNeverChange, DeliveredIds, IngestorAssumption DEF TypeOK
<1>3. CASE Insert
  <2>1. CASE Insertable = valid
    <3>1. /\ pc = "insert" /\ InsertRows(valid) /\ valid' = valid
          /\ UNCHANGED <<streamVars, lastSeen>>
      BY <1>3, <2>1 DEF Insert
    <3> QED
      BY <3>1, InsertedCovered
  <2>2. CASE Insertable # valid
    BY <1>3, <2>2 DEF Insert, RowsCovered, Covered
  <2> QED
    BY <2>1, <2>2
<1>4. CASE InsertIndividually
  <2>1. /\ pc = "rowwise" /\ InsertRows(Insertable) /\ valid' = valid
        /\ UNCHANGED <<streamVars, lastSeen>>
    BY <1>4 DEF InsertIndividually
  <2> QED
    BY <2>1, InsertedCovered DEF Insertable
<1>5. CASE UpdateLastSeen
  BY <1>5, UpdateCovers
<1>6. CASE UNCHANGED <<rows, lastSeen>> /\ pc # "lastseen"
  BY <1>6 DEF RowsCovered, Covered
<1>7. CASE UNCHANGED <<rows, lastSeen, pc, valid>>
  BY <1>2, <1>7 DEF RowsCovered, Covered
<1> QED
  BY <1>3, <1>4, <1>5, <1>6, <1>7
     DEF Next, Environment, RunConsumer, WriteBatch, vars, writerVars, tableVars,
         Publish, RegisterSensor, DropSensor, TogglePlugin, Start, Read, ReadNoGroup, AckBad,
         LoadSensors, LoadDevices, AckGood

\* As long as nothing fails, no row of a device is newer than its last_seen, but
\* for the moment between the two transactions.
THEOREM LastSeenAlwaysCovers == Spec => []LastSeenCoversRows
<1>1. Init => OwnersChecked /\ RowsCovered
  BY DEF Init, OwnersChecked, RowsCovered
<1>2. /\ TypeOK /\ OwnersChecked /\ [Next]_vars => OwnersChecked'
      /\ TypeOK /\ OwnersChecked /\ RowsCovered /\ [Next]_vars => RowsCovered'
  BY OwnersStep, CoveredStep
<1>3. RowsCovered => LastSeenCoversRows
  BY DEF RowsCovered, Covered, LastSeenCoversRows
<1> QED
  BY <1>1, <1>2, <1>3, TypeInit, TypeStep, PTL DEF Spec

-----------------------------------------------------------------------------
(***************************************************************************)
(* The ingestor implements the consumer's contract.                        *)
(***************************************************************************)

\* A loss of the stream never parts the batch in hand.
LEMMA BatchWholeStep ==
  ASSUME TypeOK, BatchWhole, [Next]_vars
  PROVE  BatchWhole'
<1>1. base \in Nat /\ last \in Nat /\ base <= last /\ base <= Len(log)
  BY DEF TypeOK, StreamTypeOK
<1>2. StreamTypeOK' /\ last <= last'
  BY StepsAreStreamSteps, StreamTypeStep, IngestorAssumption DEF TypeOK
<1>3. base' \in Nat /\ last' \in Nat
  BY <1>2 DEF StreamTypeOK
<1>4. CASE LoseStream
  <2>1. last' = base' /\ batch' \subseteq 1 .. last'
    <3>1. TypeOK'
      BY TypeStep
    <3> QED
      BY <1>4, <3>1 DEF LoseStream, TypeOK
  <2> QED
    BY <2>1 DEF BatchWhole
<1>5. CASE Read
  <2>1. base' = base /\ batch' \subseteq Batch(BatchSize)
    BY <1>5 DEF Read, XReadGroup, ProceedWith
  <2>2. Batch(BatchSize) = last + 1 .. last'
    BY <1>5, ReadIsNew, IngestorAssumption DEF Read, TypeOK
  <2> QED
    BY <1>1, <1>3, <2>1, <2>2 DEF BatchWhole
<1>6. CASE ~ LoseStream /\ ~ Read
  <2>1. base' = base
    BY <1>6, StepsAreStreamSteps
       DEF StreamStep, XAdd, EnsureConsumerGroup, XReadGroup, XAck, streamVars
  <2>2. batch' \subseteq batch
    BY <1>6 DEF Next, Environment, RunConsumer, WriteBatch, Faults, vars, writerVars,
       ProceedWith, Forget, Publish, RegisterSensor, DropSensor, TogglePlugin, Start,
       ReadNoGroup, AckBad, LoadSensors, LoadDevices, Insert, InsertIndividually,
       UpdateLastSeen, AckGood, Crash, ReadReplyLost, WriteFails, InsertReplyLost, StreamLost
  <2> QED
    BY <1>1, <1>2, <1>3, <2>1, <2>2 DEF BatchWhole
<1> QED
  BY <1>4, <1>5, <1>6

\* Marking deals with the entries marked, and with no others.
LEMMA MarkDeals ==
  ASSUME TypeOK, NEW S \in SUBSET Ids, NEW verdict \in Fates \ {"open"}, Mark(S, verdict)
  PROVE  Done' = Done \cup S
BY DEF TypeOK, Mark, Done, Fates

(***************************************************************************)
(* The contract's actions, in the terms of the ingestor: what a step has   *)
(* to do to the stream and to the batch to be one of them.                 *)
(***************************************************************************)
LEMMA AsProgress ==
  ASSUME NEW S \in SUBSET batch, NEW D \in SUBSET batch, S \subseteq Done,
         batch' = batch \ S, Acked' = Acked \cup S, Done' = Done \cup D,
         Waiting' = Waiting, last' = last
  PROVE  Contract!Next
<1>1. Contract!Progress(S, D)
  BY DEF Contract!Progress
<1> QED
  BY <1>1 DEF Contract!Next

\* A step that drops the batch unacknowledged, after whatever it got done.
LEMMA AsLetGo ==
  ASSUME NEW S \in SUBSET batch, NEW D \in SUBSET batch,
         batch' = batch \ S, Acked' = Acked, Done' = Done \cup D,
         Waiting' = Waiting, last' = last
  PROVE  Contract!Next
<1>1. Contract!LetGo(S, D)
  BY DEF Contract!LetGo
<1> QED
  BY <1>1 DEF Contract!Next

\* A step that takes entries off the queue.
LEMMA AsTake ==
  ASSUME NEW S \in SUBSET Waiting, NEW H \in SUBSET S, NEW D \in SUBSET H,
         batch' = batch \cup H, Acked' = Acked, Done' = Done \cup D,
         Waiting' = Waiting \ S, 1 .. last' = (1 .. last) \cup S
  PROVE  Contract!Next
<1>1. Contract!Take(S, H, D)
  BY DEF Contract!Take
<1> QED
  BY <1>1 DEF Contract!Next

\* So an XACK of the batch, or of part of it, acknowledges it or nothing.
LEMMA AckOfBatch ==
  ASSUME TypeOK, BatchWhole, NEW S \in SUBSET batch, XAck(S)
  PROVE  /\ Acked' = Acked \cup S \/ Acked' = Acked
         /\ Waiting' = Waiting /\ last' = last
BY AckOfWhole DEF TypeOK, BatchWhole

\* Every step of the ingestor is a step of the contract, or none.
LEMMA ContractStep ==
  ASSUME Inv, BatchWhole, [Next]_vars
  PROVE  [Contract!Next]_(Contract!cvars)
<1> USE DEF Inv
<1>0. /\ batch \subseteq Ids /\ valid \subseteq batch
      /\ base \in Nat /\ last \in Nat /\ base <= last /\ Len(log) \in Nat /\ last <= Len(log)
  BY DeliveredIds DEF TypeOK, StreamTypeOK
<1>1. ASSUME NEW p \in Payloads, Publish(p) PROVE Contract!Next
  <2> DEFINE i == Len(log) + 1
  <2>1. i \in Ids /\ i \notin Waiting /\ i \notin 1 .. last
    BY <1>0, <1>1, StreamAssumption DEF Publish, XAdd, Ids, Waiting
  <2>2. Waiting' = Waiting \cup {i}
    <3>1. Len(log') = Len(log) + 1 /\ last' = last
      BY <1>1 DEF Publish, XAdd, TypeOK, StreamTypeOK
    <3> QED
      BY <1>0, <3>1 DEF Waiting
  <2>3. last' = last /\ batch' = batch /\ Done' = Done /\ Acked' = Acked
    BY <1>1 DEF Publish, XAdd, writerVars, Done, Acked
  <2>4. Contract!Enqueue(i)
    BY <2>1, <2>2, <2>3 DEF Contract!Enqueue
  <2> QED
    BY <2>1, <2>4 DEF Contract!Next
<1>2. CASE Read
  <2>1. PICK D \in SUBSET Batch(BatchSize) : Mark(D, "refused")
    BY <1>2 DEF Read, Malformed, BadIds
  <2>2. /\ Batch(BatchSize) \subseteq Waiting /\ Batch(BatchSize) \subseteq Ids
        /\ Waiting' = Waiting \ Batch(BatchSize)
        /\ 1 .. last' = (1 .. last) \cup Batch(BatchSize) /\ Acked' = Acked
    BY <1>2, ReadTakes, IngestorAssumption DEF Read, TypeOK
  <2>3. Done' = Done \cup D
    BY <2>1, <2>2, MarkDeals DEF Fates
  <2>4. batch = {} /\ batch' = Batch(BatchSize)
    BY <1>2 DEF Read, ProceedWith, HeldIsJudged
  <2> QED
    BY <2>2, <2>3, <2>4, AsTake
<1>3. CASE ReadReplyLost
  <2>1. Done' = Done \cup {} /\ batch' = batch \cup {}
    BY <1>3 DEF ReadReplyLost, writerVars, Done
  <2>2. /\ Batch(BatchSize) \subseteq Waiting /\ Waiting' = Waiting \ Batch(BatchSize)
        /\ 1 .. last' = (1 .. last) \cup Batch(BatchSize) /\ Acked' = Acked
    BY <1>3, ReadTakes, IngestorAssumption DEF ReadReplyLost, TypeOK
  <2> QED
    BY <2>1, <2>2, AsTake
<1>4. CASE AckBad
  <2>1. Done' = Done \cup BadIds(batch)
    BY <1>0, <1>4, MarkDeals DEF AckBad, BadIds, Fates
  <2>2. Malformed(batch) \subseteq Done
    BY <1>0, <1>4 DEF AckBad, HeldIsJudged, Judged, Malformed, Done
  <2>3. Malformed(batch) \subseteq batch /\ BadIds(batch) \subseteq batch
    BY DEF Malformed, BadIds
  <2>4. batch' = batch \ Malformed(batch)
    BY <1>4 DEF AckBad, ProceedWith
  <2>5. XAck(Malformed(batch))
    BY <1>4 DEF AckBad
  <2> QED
    BY <2>1, <2>2, <2>3, <2>4, <2>5, AckOfBatch, AsProgress, AsLetGo
<1>5. CASE AckGood
  <2>1. batch \subseteq Done
    BY <1>0, <1>5 DEF AckGood, HeldIsJudged, Judged, Done
  <2>2. batch' = batch \ batch /\ Done' = Done \cup {} /\ XAck(batch)
    BY <1>5 DEF AckGood, Forget, Done
  <2> QED
    BY <2>1, <2>2, AckOfBatch, AsProgress, AsLetGo
<1>6. CASE UNCHANGED streamVars
  <2>0. Waiting' = Waiting /\ Acked' = Acked /\ last' = last
    BY <1>6 DEF streamVars, Waiting, Acked
  <2>1. ASSUME Forget("down") \/ Forget("read"), UNCHANGED fate PROVE Contract!Next
    <3>1. batch' = batch \ batch /\ Done' = Done \cup {}
      BY <2>1 DEF Forget, Done
    <3> QED
      BY <2>0, <3>1, AsLetGo
  <2>2. ASSUME NEW D \in SUBSET batch, batch' = batch, Done' = Done \cup D
        PROVE  Contract!Next
    <3>1. /\ {} \in SUBSET batch /\ {} \subseteq Done
          /\ batch' = batch \ {} /\ Acked' = Acked \cup {}
      BY <2>0, <2>2
    <3>2. Contract!Progress({}, D)
      BY <2>0, <2>2, <3>1 DEF Contract!Progress
    <3> QED
      BY <3>1, <3>2 DEF Contract!Next
  <2>3. CASE UNCHANGED <<batch, fate>>
    BY <2>0, <2>3 DEF Contract!cvars, Done
  <2>4. CASE LoadDevices
    <3>1. CASE Forget("read") /\ UNCHANGED fate
      BY <2>1, <3>1
    <3>2. CASE batch' = batch /\ \E D \in SUBSET batch : Mark(D, "refused")
      BY <1>0, <2>2, <3>2, MarkDeals DEF Fates
    <3> QED
      BY <2>4, <3>1, <3>2 DEF LoadDevices
  <2>5. CASE Insert
    <3>1. CASE Mark(valid, "stored")
      BY <1>0, <2>2, <2>5, <3>1, MarkDeals DEF Insert, Fates
    <3>2. CASE UNCHANGED fate
      BY <2>3, <2>5, <3>2 DEF Insert
    <3> QED
      BY <2>5, <3>1, <3>2 DEF Insert
  <2>6. CASE InsertIndividually
    <3>1. Done' = Done \cup valid
      BY <1>0, <2>6 DEF InsertIndividually, Insertable, Done, TypeOK, Fates
    <3> QED
      BY <1>0, <2>2, <2>6, <3>1 DEF InsertIndividually
  <2>7. CASE InsertReplyLost
    <3>1. Done' = Done \cup valid
      BY <1>0, <2>7, MarkDeals DEF InsertReplyLost, Fates
    <3>2. batch' = batch \ batch
      BY <2>7 DEF InsertReplyLost, Forget
    <3> QED
      BY <1>0, <2>0, <3>1, <3>2, AsLetGo
  <2>8. \/ UNCHANGED <<batch, fate>> \/ LoadDevices \/ Insert \/ InsertIndividually
        \/ InsertReplyLost \/ Read \/ AckBad \/ AckGood
        \/ (Forget("down") \/ Forget("read")) /\ UNCHANGED fate
    BY DEF Next, Environment, RunConsumer, WriteBatch, Faults, vars, writerVars,
       Publish, RegisterSensor, DropSensor, TogglePlugin, Start, ReadNoGroup,
       LoadSensors, UpdateLastSeen, Crash, ReadReplyLost, WriteFails, StreamLost
  <2> QED
    BY <1>2, <1>4, <1>5, <2>1, <2>3, <2>4, <2>5, <2>6, <2>7, <2>8
<1>7. CASE Start
  <2>1. Waiting' = Waiting /\ last' = last /\ Acked' = Acked
    BY <1>7 DEF Start, EnsureConsumerGroup, Waiting, Acked, TypeOK, StreamTypeOK
  <2> QED
    BY <1>7, <2>1 DEF Start, Contract!cvars, Done
<1>8. CASE StreamLost
  <2>1. 1 .. last' = (1 .. last) \cup Waiting /\ Waiting' = {} /\ Acked' = {}
    BY <1>0, <1>8 DEF StreamLost, LoseStream, Waiting, Acked
  <2>2. batch' = batch /\ Done' = Done
    BY <1>8 DEF StreamLost, writerVars, Done
  <2> QED
    BY <2>1, <2>2 DEF Contract!Purge, Contract!Next
<1> QED
  BY <1>1, <1>2, <1>3, <1>4, <1>5, <1>6, <1>7, <1>8
     DEF Next, Environment, RunConsumer, WriteBatch, Faults, vars,
         RegisterSensor, DropSensor, TogglePlugin, ReadNoGroup, LoadSensors, LoadDevices,
         Insert, InsertIndividually, UpdateLastSeen, Crash, WriteFails, InsertReplyLost

(***************************************************************************)
(* The ingestor keeps the consumer's contract: an entry is handed to it at *)
(* most once, worked on only while it holds it, and acknowledged only      *)
(* after it was dealt with.                                                *)
(***************************************************************************)
THEOREM IngestorKeepsContract == Spec => ImplementsContract
<1>1. Init => Contract!Init
  <2> SUFFICES ASSUME Init PROVE Contract!Init
    OBVIOUS
  <2>1. Waiting = {} /\ 1 .. last = {} /\ Acked = {} /\ Done = {} /\ batch = {}
    BY DEF Init, StreamInit, Waiting, Acked, Done
  <2> QED
    BY <2>1 DEF Contract!Init
<1>2. Init => BatchWhole
  BY DEF Init, BatchWhole
<1>3. Inv /\ BatchWhole /\ [Next]_vars => BatchWhole'
  BY BatchWholeStep DEF Inv
<1>4. Inv /\ BatchWhole /\ [Next]_vars => [Contract!Next]_(Contract!cvars)
  BY ContractStep
<1> QED
  BY <1>1, <1>2, <1>3, <1>4, InvInit, InvStep, PTL DEF Spec, ImplementsContract, Contract!Spec

-----------------------------------------------------------------------------
\* What the contract is worth, to those who read what the ingestor wrote.

\* The contract's own invariant, of whoever keeps it: what is in hand was taken.
LEMMA ContractInit == Contract!Init => Contract!Consistent
BY DEF Contract!Init, Contract!Consistent

\* Every step the contract allows keeps it.
LEMMA ContractPreserved ==
  Contract!Consistent /\ [Contract!Next]_(Contract!cvars) => Contract!Consistent'
BY DEF Contract!Consistent, Contract!Next, Contract!Enqueue, Contract!Take, Contract!Progress,
       Contract!LetGo, Contract!Purge, Contract!cvars

\* An acknowledged entry was judged, and the ingestor does not hold it any more.
THEOREM AckedIsFinalAlways == Spec => []Contract!AckedIsFinal
<1>1. Contract!Consistent => Contract!AckedIsFinal
  BY DEF Contract!Consistent, Contract!AckedIsFinal
<1> QED
  BY <1>1, ContractInit, ContractPreserved, IngestorKeepsContract, PTL
     DEF ImplementsContract, Contract!Spec

\* An entry is handed to the ingestor at most once, whatever fails.
THEOREM HandedOutOnceAlways == Spec => Contract!HandedOutOnce
<1>1. Contract!Consistent /\ [Contract!Next]_(Contract!cvars) =>
        [(batch' \ batch) \cap (1 .. last) = {} /\ (1 .. last) \cap Waiting' = {}]_(Contract!cvars)
  BY DEF Contract!Consistent, Contract!Next, Contract!Enqueue, Contract!Take,
         Contract!Progress, Contract!LetGo, Contract!Purge
<1> QED
  BY <1>1, ContractInit, ContractPreserved, IngestorKeepsContract, PTL
     DEF ImplementsContract, Contract!Spec, Contract!HandedOutOnce

\* The ingestor judges only what it has in hand, and nothing is undone.
THEOREM WorkedOnlyInHandAlways == Spec => Contract!WorkedOnlyInHand
<1>1. [Contract!Next]_(Contract!cvars) =>
        [Done \subseteq Done' /\ Done' \ Done \subseteq batch \cup batch']_(Contract!cvars)
  BY DEF Contract!Next, Contract!Enqueue, Contract!Take, Contract!Progress, Contract!LetGo,
         Contract!Purge
<1> QED
  BY <1>1, IngestorKeepsContract, PTL
     DEF ImplementsContract, Contract!Spec, Contract!WorkedOnlyInHand
=============================================================================
