----------------------------- MODULE DispatchLoop -----------------------------
(***************************************************************************)
(* How an integration plugin delivers alerts: run_dispatch_loop() of       *)
(* sdk/integration_runtime.py in the plugin's subprocess.  Every plugin    *)
(* has a consumer group of its own on the dispatch stream, so each is      *)
(* given every event and sends those that name it.  The supervisor stops   *)
(* the subprocess when the plugin is switched off, at any await, and       *)
(* starts it again when it is switched on or was found dead.               *)
(***************************************************************************)
EXTENDS RedisStream

CONSTANTS
  Plugins, Self,  \* the integration plugins, and the one modelled
  BatchSize,      \* count=20 in the code
  MaxFaults       \* bound on the number of faults in a behaviour

ASSUME DispatchAssumption ==
  /\ Self \in Plugins
  /\ Payloads \subseteq [plugin : Plugins, decodes : BOOLEAN]
  /\ BatchSize \in Nat \ {0} /\ MaxFaults \in Nat

VARIABLES
  wanted,    \* plugins.is_active
  pc,        \* where the loop is
  batch,     \* ids in hand
  todo,      \* those the loop has not come to; the others are in ack_ids
  attempts,  \* history variable: how often send() was called for each id
  lastTried, \* history variable: the last id send() was called for (0: none)
  faults     \* number of faults so far

loopVars == <<pc, batch, todo>>
sendVars == <<attempts, lastTried>>
vars == <<streamVars, wanted, loopVars, sendVars, faults>>

Mine(i) == log[i].plugin = Self
Deliverable(i) == Mine(i) /\ log[i].decodes

\* Type invariant: the loop holds only ids it was delivered, and has tried none
\* that it was not.
TypeOK ==
  /\ StreamTypeOK
  /\ wanted \in BOOLEAN /\ faults \in 0 .. MaxFaults
  /\ pc \in {"down", "read", "loop"}
  /\ batch \subseteq 1 .. last /\ todo \subseteq batch
  /\ attempts \in [Ids -> Nat] /\ lastTried \in 0 .. last

Init ==
  /\ StreamInit
  /\ wanted = FALSE /\ pc = "down" /\ batch = {} /\ todo = {}
  /\ attempts = [i \in Ids |-> 0] /\ lastTried = 0 /\ faults = 0

-----------------------------------------------------------------------------
\* dispatch_fires() publishes an event for a channel of some plugin.
Dispatch(p) ==
  /\ XAdd(p)
  /\ UNCHANGED <<wanted, loopVars, sendVars, faults>>

\* update_plugin(): the administrator's switch.
TogglePlugin ==
  /\ wanted' = ~ wanted
  /\ UNCHANGED <<streamVars, loopVars, sendVars, faults>>

\* The subprocess is gone, and with it whatever it had not acknowledged.
Gone == pc' = "down" /\ batch' = {} /\ todo' = {}

\* The supervisor starts the subprocess, which enters the loop.
Start ==
  /\ pc = "down" /\ wanted
  /\ EnsureConsumerGroup
  /\ pc' = "read"
  /\ UNCHANGED <<wanted, batch, todo, sendVars, faults>>

\* The supervisor finds the plugin switched off and terminates it.
Stop ==
  /\ pc # "down" /\ ~ wanted
  /\ Gone
  /\ UNCHANGED <<streamVars, wanted, sendVars, faults>>

Read ==
  /\ pc = "read"
  /\ XReadGroup(BatchSize)
  /\ pc' = "loop" /\ batch' = Batch(BatchSize) /\ todo' = Batch(BatchSize)
  /\ UNCHANGED <<wanted, sendVars, faults>>

\* NOGROUP is no connection error: the subprocess ends.
ReadNoGroup ==
  /\ pc = "read" /\ ~ created
  /\ Gone
  /\ UNCHANGED <<streamVars, wanted, sendVars, faults>>

\* Mutant of NextMessage: the batch is worked through from its end.
NewestMessage(i) == pc = "loop" /\ i \in todo /\ \A j \in todo : j <= i

\* The message the loop is at.
NextMessage(i) == pc = "loop" /\ i \in todo /\ \A j \in todo : i <= j

\* Mutant of Skip: a message that cannot be decoded is tried again, for ever.
SkipForeign(i) ==
  /\ NextMessage(i) /\ ~ Mine(i)
  /\ todo' = todo \ {i}
  /\ UNCHANGED <<streamVars, wanted, pc, batch, sendVars, faults>>

\* For another plugin, or not to be decoded: acknowledged with the batch.
Skip(i) ==
  /\ NextMessage(i) /\ ~ Deliverable(i)
  /\ todo' = todo \ {i}
  /\ UNCHANGED <<streamVars, wanted, pc, batch, sendVars, faults>>

\* Mutant of Deliver: a send() that failed is tried once more on the spot.
DeliverWithRetry(i) ==
  /\ NextMessage(i) /\ Deliverable(i)
  /\ \E tries \in 1 .. 2 : attempts' = [attempts EXCEPT ![i] = @ + tries]
  /\ lastTried' = i
  /\ todo' = todo \ {i}
  /\ UNCHANGED <<streamVars, wanted, pc, batch, faults>>

\* plugin.send(): whether it returns True, False or raises, the message is done.
Deliver(i) ==
  /\ NextMessage(i) /\ Deliverable(i)
  /\ attempts' = [attempts EXCEPT ![i] = @ + 1] /\ lastTried' = i
  /\ todo' = todo \ {i}
  /\ UNCHANGED <<streamVars, wanted, pc, batch, faults>>

\* Mutant of AckBatch: acknowledges before the messages are sent.
AckBatchEarly ==
  /\ pc = "loop" /\ todo = batch
  /\ XAck(batch)
  /\ pc' = "read" /\ batch' = {} /\ todo' = {}
  /\ UNCHANGED <<wanted, sendVars, faults>>

\* One XACK for the batch.
AckBatch ==
  /\ pc = "loop" /\ todo = {}
  /\ XAck(batch)
  /\ pc' = "read" /\ batch' = {} /\ UNCHANGED todo
  /\ UNCHANGED <<wanted, sendVars, faults>>

-----------------------------------------------------------------------------
(* Faults                                                                   *)

Fault == faults < MaxFaults /\ faults' = faults + 1

\* Killed; or the XACK fails, which nothing catches.
Crash ==
  /\ Fault /\ pc # "down"
  /\ Gone
  /\ UNCHANGED <<streamVars, wanted, sendVars>>

\* Killed while send() was awaiting the mail server: it may have gone out.
CrashInSend(i) ==
  /\ Fault /\ NextMessage(i) /\ Deliverable(i)
  /\ attempts' = [attempts EXCEPT ![i] = @ + 1] /\ lastTried' = i
  /\ Gone
  /\ UNCHANGED <<streamVars, wanted>>

ReadReplyLost ==
  /\ Fault /\ pc = "read"
  /\ XReadGroup(BatchSize)
  /\ UNCHANGED <<wanted, loopVars, sendVars>>

StreamLost ==
  /\ Fault
  /\ LoseStream
  /\ UNCHANGED <<wanted, loopVars, sendVars>>

-----------------------------------------------------------------------------
Environment == TogglePlugin \/ \E p \in Payloads : Dispatch(p)

RunLoop ==
  \/ Read \/ ReadNoGroup \/ AckBatch
  \/ \E i \in Ids : Skip(i) \/ Deliver(i)

Supervisor == Start \/ Stop

Faults ==
  \/ Crash \/ ReadReplyLost \/ StreamLost
  \/ \E i \in Ids : CrashInSend(i)

Next == Environment \/ Supervisor \/ RunLoop \/ Faults

Spec == Init /\ [][Next]_vars

\* The supervisor's loop never ends, and a subprocess that runs makes progress.
FairSpec == Spec /\ WF_vars(Supervisor) /\ WF_vars(RunLoop)

-----------------------------------------------------------------------------
(* Properties                                                               *)

\* No alert is sent twice: not after a failed send(), a crash in the middle
\* of a batch, a restart of the plugin, or a new consumer group.
SentAtMostOnce == \A i \in Ids : attempts[i] <= 1

\* Alerts go out in the order in which they were dispatched.
SentInOrder ==
  [][\A i \in Ids : attempts'[i] > attempts[i] => lastTried < i]_vars

(***************************************************************************)
(* What the loop acknowledged was not for it, not to be decoded, or was    *)
(* sent: the acknowledgement never overtakes send().                       *)
(***************************************************************************)
AckedWasTried ==
  \A i \in Acked : Deliverable(i) => attempts[i] > 0

\* Why: whatever was tried lies behind what the loop has still before it.
TriedBehind ==
  /\ \A i \in Ids : attempts[i] > 0 => i <= lastTried
  /\ \A i \in todo : lastTried < i

\* Why: the part of the batch the loop has passed is what it will acknowledge.
PassedWasTried ==
  /\ pc # "loop" => batch = {}
  /\ \A i \in batch \ todo : Deliverable(i) => attempts[i] > 0

Stranded(i) == i \in pel \ batch

(***************************************************************************)
(* An alert for a plugin that stays switched on is sent in the end, unless *)
(* the stream is lost or a failure or a stop strands it.                   *)
(***************************************************************************)
AlertSent ==
  \A i \in Ids :
    (i \in Published /\ Deliverable(i)) ~>
       \/ attempts[i] > 0 \/ i <= base \/ Stranded(i) \/ ~ wanted
=============================================================================
