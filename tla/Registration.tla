----------------------------- MODULE Registration -----------------------------
(***************************************************************************)
(* A plugin makes itself known: on every start it sends its registrations  *)
(* to a stream (sdk/context.py), and the ingestor upserts them one by one, *)
(* each in a transaction of its own, and acknowledges each whatever came   *)
(* of it (workers/ingestor/registration.py).  A device refers to its       *)
(* plugin's row and a sensor to its device's.                              *)
(***************************************************************************)
EXTENDS RedisStream, FiniteSets

CONSTANTS
  Parent,     \* for each row: the row it refers to, or Absent
  Catalogue,  \* the rows in the order in which a start registers them
  BatchSize,  \* count of XREADGROUP
  MaxStarts,  \* bound on the starts of the plugin
  MaxFaults,  \* bound on failures
  Absent

VARIABLES
  row,     \* tables plugins, devices, sensors: what each row says, and its parent
  starts,  \* starts of the plugin: each may say something new of its rows
  next,    \* the position in Catalogue it has come to
  pc,      \* where the consumer is: at "ensure", "read", "handle" or "ack"
  batch,   \* the ids it was given and has not acknowledged
  clean,   \* (history) nothing has failed since the plugin last started
  faults

vars == <<streamVars, row, starts, next, pc, batch, clean, faults>>
consumer == <<pc, batch>>

Rows == DOMAIN Parent
Messages == [row : Rows, says : 1 .. MaxStarts]

\* What the constants have to be.
RegistrationAssumption ==
  /\ BatchSize \in Nat \ {0} /\ MaxStarts \in Nat \ {0} /\ MaxFaults \in Nat
  /\ Catalogue \in Seq(Rows) /\ Absent \notin Rows /\ Payloads = Messages
  /\ \A x \in Rows : Parent[x] \in Rows \cup {Absent}
  /\ Absent \notin [says : 1 .. MaxStarts, parent : Rows \cup {Absent}]
  /\ MaxEntries = MaxStarts * Len(Catalogue)

Exists(x) == row[x] # Absent

\* Type invariant, with the foreign keys; and no id is held twice.
TypeOK ==
  /\ StreamTypeOK
  /\ \A x \in Rows : Exists(x) =>
       /\ row[x].says \in 1 .. MaxStarts
       /\ row[x].parent = Absent \/ Exists(row[x].parent)
  /\ starts \in 0 .. MaxStarts /\ next \in 1 .. Len(Catalogue) + 1
  /\ pc \in {"ensure", "read", "handle", "ack"} /\ batch \subseteq Published
  /\ (pc \in {"handle", "ack"}) <=> (batch # {})
  /\ clean \in BOOLEAN /\ faults \in 0 .. MaxFaults

-----------------------------------------------------------------------------
\* The plugin.  Whatever it was doing, its process begins anew.
PluginStart ==
  /\ starts < MaxStarts /\ starts' = starts + 1
  /\ next' = 1 /\ clean' = TRUE
  /\ UNCHANGED <<streamVars, row, consumer, faults>>

\* register_plugin(), register_device(), register_sensor()
Register ==
  /\ starts > 0 /\ next <= Len(Catalogue)
  /\ XAdd([row |-> Catalogue[next], says |-> starts])
  /\ next' = next + 1
  /\ UNCHANGED <<row, starts, consumer, clean, faults>>

-----------------------------------------------------------------------------
\* The consumer.

Ensure ==
  /\ pc = "ensure" /\ EnsureConsumerGroup /\ pc' = "read"
  /\ UNCHANGED <<row, starts, next, batch, clean, faults>>

Read ==
  /\ pc = "read" /\ XReadGroup(BatchSize)
  /\ batch' = Batch(BatchSize) /\ pc' = "handle"
  /\ UNCHANGED <<row, starts, next, clean, faults>>

\* The group is gone: an error nothing catches ends the ingestor, and its next
\* incarnation makes the group again.
ReadNoGroup ==
  /\ pc = "read" /\ ~ created /\ pc' = "ensure"
  /\ UNCHANGED <<streamVars, row, starts, next, batch, clean, faults>>

Oldest == CHOOSE i \in batch : \A j \in batch : i <= j

\* Mutant of Upsert: a row is inserted whatever it refers to.
UpsertUnchecked(m) ==
  IF Exists(m.row) THEN [row EXCEPT ![m.row].says = m.says]
  ELSE [row EXCEPT ![m.row] = [says |-> m.says, parent |-> Parent[m.row]]]

\* _upsert_plugin(), _upsert_device(), _upsert_sensor(): an insert needs the row
\* it refers to; a row that is there keeps its parent, and is told anew.
Upsert(m) ==
  LET parent == Parent[m.row] IN
    IF Exists(m.row) THEN [row EXCEPT ![m.row].says = m.says]
    ELSE IF parent # Absent /\ ~ Exists(parent) THEN row
    ELSE [row EXCEPT ![m.row] = [says |-> m.says, parent |-> parent]]

Handle ==
  /\ pc = "handle" /\ pc' = "ack"
  /\ row' = Upsert(log[Oldest])
  /\ UNCHANGED <<streamVars, starts, next, batch, clean, faults>>

\* Mutant of Ack: the whole batch is acknowledged with its first message.
AckAll ==
  /\ pc = "ack" /\ XAck(batch)
  /\ batch' = {} /\ pc' = "read"
  /\ UNCHANGED <<row, starts, next, clean, faults>>

\* "Always ACK"
Ack ==
  /\ pc = "ack" /\ XAck({Oldest})
  /\ batch' = batch \ {Oldest}
  /\ pc' = IF batch' = {} THEN "read" ELSE "handle"
  /\ UNCHANGED <<row, starts, next, clean, faults>>

-----------------------------------------------------------------------------
\* What may fail.
Fault == faults < MaxFaults /\ faults' = faults + 1 /\ clean' = FALSE

\* The transaction fails: the message is logged and acknowledged all the same.
HandleFails ==
  /\ pc = "handle" /\ Fault /\ pc' = "ack"
  /\ UNCHANGED <<streamVars, row, starts, next, batch>>

\* The reply of XREADGROUP is lost: the batch is pending for nobody.
ReadReplyLost ==
  /\ pc = "read" /\ Fault /\ XReadGroup(BatchSize)
  /\ UNCHANGED <<row, starts, next, consumer>>

\* The ingestor ends, for instance because an XACK failed, and starts again.
IngestorRestarts ==
  /\ Fault /\ pc' = "ensure" /\ batch' = {}
  /\ UNCHANGED <<streamVars, row, starts, next>>

RedisRestarts ==
  /\ Fault /\ LoseStream /\ UNCHANGED <<row, starts, next, consumer>>

-----------------------------------------------------------------------------
Init ==
  /\ StreamInit /\ row = [x \in Rows |-> Absent]
  /\ starts = 0 /\ next = 1 /\ pc = "ensure" /\ batch = {}
  /\ clean = FALSE /\ faults = 0

Consumer == Ensure \/ Read \/ ReadNoGroup \/ Handle \/ Ack

Next ==
  \/ PluginStart \/ Register \/ Consumer
  \/ HandleFails \/ ReadReplyLost \/ IngestorRestarts \/ RedisRestarts

\* A plugin that has started goes on to register; the consumer is a loop.
Fairness == WF_vars(Register) /\ WF_vars(Consumer)

Spec == Init /\ [][Next]_vars /\ Fairness

-----------------------------------------------------------------------------
\* A row, once there, stays, and never goes back to what an earlier start said of
\* it: registrations are applied in the order they were sent, and a batch that is
\* lost is never taken up again.
SaysNeverGoesBack ==
  [][\A x \in Rows : Exists(x) => Exists(x)' /\ row[x].says <= row'[x].says]_vars

\* Missed registrations heal themselves: whatever was lost before, once the
\* plugin starts and nothing fails after that, all its rows are there and say
\* what that start says of them (registration.py, "self-healing").
RegistrationsHeal ==
  clean ~> \/ ~ clean
           \/ \A x \in Rows : Exists(x) /\ row[x].says = starts
===============================================================================
