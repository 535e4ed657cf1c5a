-------------------------- MODULE RedisStreamProofs --------------------------
(***************************************************************************)
(* What every consumer of a stream may rely on, whatever it schedules.     *)
(***************************************************************************)
EXTENDS RedisStream, TLAPS

StreamStep(n) ==
  \/ \E p \in Payloads : XAdd(p)
  \/ EnsureConsumerGroup
  \/ XReadGroup(n)
  \/ \E S : XAck(S)
  \/ LoseStream
  \/ UNCHANGED streamVars

\* An empty stream, without a group, is well formed.
LEMMA StreamInitType == StreamInit => StreamTypeOK
<1> SUFFICES ASSUME StreamInit PROVE StreamTypeOK
  OBVIOUS
<1>1. log \in Seq(Payloads) /\ Len(log) = 0
  BY DEF StreamInit
<1>2. base = 0 /\ last = 0 /\ pel = {} /\ created = FALSE
  BY DEF StreamInit
<1>3. Len(log) <= MaxEntries
  BY <1>1, StreamAssumption
<1>4. base \in 0 .. Len(log) /\ last \in base .. Len(log)
  BY <1>1, <1>2
<1>5. pel \subseteq base + 1 .. last
  BY <1>2
<1> QED
  BY <1>1, <1>2, <1>3, <1>4, <1>5 DEF StreamTypeOK

(***************************************************************************)
(* Every operation on the stream keeps its state well formed, whoever      *)
(* schedules it: the group's cursor stays between the first entry still in *)
(* Redis and the last one published, and only delivered entries pend.      *)
(***************************************************************************)
LEMMA StreamTypeStep ==
  ASSUME StreamTypeOK, NEW n \in Nat \ {0},
         StreamStep(n)
  PROVE  /\ StreamTypeOK'
         /\ Len(log) <= Len(log') /\ last <= last'
<1> USE StreamAssumption DEF StreamTypeOK
<1>1. CASE \E p \in Payloads : XAdd(p)
  BY <1>1 DEF XAdd
<1>2. CASE EnsureConsumerGroup
  BY <1>2 DEF EnsureConsumerGroup
<1>3. CASE XReadGroup(n)
  <2>1. last < Len(log)
    BY <1>3 DEF XReadGroup, Waiting
  <2>2. last' \in base .. Len(log) /\ last < last'
    BY <1>3, <2>1 DEF XReadGroup
  <2>3. pel' = pel \cup last + 1 .. last'
    BY <1>3 DEF XReadGroup, Batch
  <2>4. log' = log /\ base' = base /\ created' = TRUE
    BY <1>3 DEF XReadGroup
  <2>5. pel' \subseteq base' + 1 .. last'
    BY <2>2, <2>3, <2>4
  <2>6. Len(log) <= Len(log') /\ last <= last'
    BY <2>2, <2>4
  <2> QED
    BY <2>2, <2>4, <2>5, <2>6
<1>4. CASE \E S : XAck(S)
  <2>1. pel' \subseteq pel /\ log' = log /\ base' = base /\ last' = last /\ created' = created
    BY <1>4 DEF XAck
  <2>2. Len(log) <= Len(log') /\ last <= last'
    BY <2>1
  <2> QED
    BY <2>1, <2>2
<1>5. CASE LoseStream
  <2>1. log' = log /\ base' = Len(log) /\ last' = Len(log) /\ created' = FALSE /\ pel' = {}
    BY <1>5 DEF LoseStream
  <2>2. base' \in 0 .. Len(log') /\ last' \in base' .. Len(log')
    BY <2>1
  <2>3. Len(log) <= Len(log') /\ last <= last'
    BY <2>1
  <2> QED
    BY <2>1, <2>2, <2>3
<1>6. CASE UNCHANGED streamVars
  BY <1>6 DEF streamVars
<1> QED
  BY <1>1, <1>2, <1>3, <1>4, <1>5, <1>6 DEF StreamStep

\* Only published ids are delivered, and there are at most MaxEntries of them.
LEMMA DeliveredIds ==
  StreamTypeOK => 1 .. last \subseteq Published /\ Published \subseteq Ids
BY StreamAssumption DEF StreamTypeOK, Published, Ids

(***************************************************************************)
(* An entry, once published, never changes.                                *)
(***************************************************************************)
LEMMA EntriesNeverChange ==
  ASSUME StreamTypeOK, NEW n \in Nat \ {0}, StreamStep(n)
  PROVE  \A i \in Published : i \in Published' /\ log'[i] = log[i]
<1>1. CASE \E p \in Payloads : XAdd(p)
  BY <1>1 DEF XAdd, StreamTypeOK, Published
<1>2. CASE UNCHANGED log
  BY <1>2 DEF StreamTypeOK, Published
<1> QED
  BY <1>1, <1>2 DEF StreamStep, EnsureConsumerGroup, XReadGroup, XAck, LoseStream, streamVars

(***************************************************************************)
(* A read delivers ids the group has not delivered before, up to its new   *)
(* cursor.                                                                 *)
(***************************************************************************)
LEMMA ReadIsNew ==
  ASSUME StreamTypeOK, NEW n \in Nat \ {0}, XReadGroup(n)
  PROVE  /\ last < last' /\ last' <= Len(log)
         /\ Batch(n) = last + 1 .. last'
<1>1. last < Len(log)
  BY DEF XReadGroup, Waiting, StreamTypeOK
<1> QED
  BY <1>1 DEF XReadGroup, Batch, StreamTypeOK

(***************************************************************************)
(* XACK is the only operation that acknowledges: every other one leaves    *)
(* no entry acknowledged that was not before.                              *)
(***************************************************************************)
LEMMA OnlyAckAcks ==
  ASSUME StreamTypeOK, NEW n \in Nat \ {0},
         \/ \E p \in Payloads : XAdd(p)
         \/ EnsureConsumerGroup \/ XReadGroup(n) \/ LoseStream
         \/ UNCHANGED streamVars
  PROVE  Acked' \subseteq Acked
<1> USE DEF StreamTypeOK, Acked
<1>1. CASE \E p \in Payloads : XAdd(p)
  BY <1>1 DEF XAdd
<1>2. CASE EnsureConsumerGroup
  <2>1. CASE created
    BY <1>2, <2>1 DEF EnsureConsumerGroup
  <2>2. CASE ~ created
    BY <1>2, <2>2 DEF EnsureConsumerGroup
  <2> QED
    BY <2>1, <2>2
<1>3. CASE XReadGroup(n)
  <2>1. base' = base /\ pel' = pel \cup (last + 1 .. last') /\ last' \in Nat /\ last \in Nat
    BY <1>3, ReadIsNew DEF XReadGroup
  <2> QED
    BY <2>1
<1>4. CASE LoseStream
  BY <1>4 DEF LoseStream
<1>5. CASE UNCHANGED streamVars
  BY <1>5 DEF streamVars
<1> QED
  BY <1>1, <1>2, <1>3, <1>4, <1>5

\* And XACK acknowledges nothing but the ids it is given.
LEMMA AckAcksGiven ==
  ASSUME NEW S, XAck(S)
  PROVE  Acked' \subseteq Acked \cup S
BY DEF XAck, Acked

\* A read takes its batch off the queue and acknowledges nothing.
LEMMA ReadTakes ==
  ASSUME StreamTypeOK, NEW n \in Nat \ {0}, XReadGroup(n)
  PROVE  /\ Batch(n) \subseteq Waiting
         /\ Batch(n) \subseteq Ids
         /\ Waiting' = Waiting \ Batch(n)
         /\ 1 .. last' = (1 .. last) \cup Batch(n)
         /\ Acked' = Acked
         /\ log' = log
<1>1. /\ last < last' /\ last' <= Len(log) /\ Batch(n) = last + 1 .. last'
      /\ log' = log /\ base' = base /\ pel' = pel \cup Batch(n)
  BY ReadIsNew DEF XReadGroup
<1>2. /\ last \in Nat /\ last' \in Nat /\ base \in Nat /\ base <= last /\ Len(log) \in Nat
      /\ Len(log) <= MaxEntries
  BY <1>1 DEF StreamTypeOK, XReadGroup
<1>3. Batch(n) \subseteq Waiting /\ Batch(n) \subseteq Ids
  BY <1>1, <1>2, StreamAssumption DEF Waiting, Ids
<1>4. Waiting' = Waiting \ Batch(n)
  BY <1>1, <1>2 DEF Waiting
<1>5. 1 .. last' = (1 .. last) \cup Batch(n)
  BY <1>1, <1>2
<1>6. Acked' = Acked
  BY <1>1, <1>2 DEF Acked
<1> QED
  BY <1>1, <1>3, <1>4, <1>5, <1>6

\* An XACK of entries of a batch the stream still has acknowledges them; of one it
\* has lost, nothing.
LEMMA AckOfWhole ==
  ASSUME StreamTypeOK, NEW B, B \subseteq base + 1 .. last \/ B \subseteq 1 .. base,
         NEW S \in SUBSET B, XAck(S)
  PROVE  /\ Acked' = Acked \cup S \/ Acked' = Acked
         /\ Waiting' = Waiting /\ last' = last
<1>1. base \in Nat /\ last \in Nat
  BY DEF StreamTypeOK
<1>2. CASE B \subseteq base + 1 .. last
  BY <1>2 DEF XAck, Acked, Waiting
<1>3. CASE B \subseteq 1 .. base
  <2>1. S \cap (base + 1 .. last) = {}
    BY <1>1, <1>3
  <2> QED
    BY <2>1 DEF XAck, Acked, Waiting
<1> QED
  BY <1>2, <1>3
=============================================================================
