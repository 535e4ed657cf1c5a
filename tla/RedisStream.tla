----------------------------- MODULE RedisStream -----------------------------
(***************************************************************************)
(* One Redis stream as one consumer group sees it, reduced to the four     *)
(* commands nodelens/redis/streams.py issues (XADD, XGROUP CREATE,         *)
(* XREADGROUP with the id ">", XACK) and to the loss of the whole key: the *)
(* compose file runs Redis without persistence, the deployment profile     *)
(* evicts keys under memory pressure, and nothing ever trims a stream.     *)
(*                                                                         *)
(* The log only grows: an entry's id is its position, and an id is never   *)
(* reused, as Redis ids are not.  Losing the key moves base to the end of  *)
(* the log.  The module is passive: a consumer module EXTENDS it and       *)
(* schedules its operations.                                               *)
(***************************************************************************)
EXTENDS Naturals, Sequences

CONSTANTS
  Payloads,    \* what the producers may put in an entry
  MaxEntries   \* bound on the number of XADDs in a behaviour

ASSUME StreamAssumption == MaxEntries \in Nat

VARIABLES
  log,      \* every entry ever added, in the order of their ids
  base,     \* entries 1..base are no longer in Redis
  created,  \* does the consumer group exist?
  last,     \* the group's last-delivered id
  pel       \* the group's pending entries: delivered and not acknowledged

streamVars == <<log, base, created, last, pel>>

Ids == 1 .. MaxEntries
Published == 1 .. Len(log)          \* the ids given out so far
Waiting == last + 1 .. Len(log)     \* the ids the group has yet to deliver
Acked == (base + 1 .. last) \ pel   \* acknowledged, and still in Redis

\* The stream is well formed: whatever is pending was delivered and still exists,
\* nothing is delivered past the end of the log, and no group delivers before
\* it is created.
StreamTypeOK ==
  /\ log \in Seq(Payloads) /\ Len(log) <= MaxEntries
  /\ base \in 0 .. Len(log)
  /\ created \in BOOLEAN
  /\ last \in base .. Len(log)
  /\ pel \subseteq base + 1 .. last
  /\ ~ created => last = base

StreamInit ==
  /\ log = << >> /\ base = 0
  /\ created = FALSE /\ last = 0 /\ pel = {}

\* publish_event(): one XADD.
XAdd(p) ==
  /\ Len(log) < MaxEntries
  /\ log' = Append(log, p)
  /\ UNCHANGED <<base, created, last, pel>>

\* ensure_consumer_group(): XGROUP CREATE with id 0, so that a new group is
\* to be delivered everything still in the stream; BUSYGROUP is swallowed.
EnsureConsumerGroup ==
  /\ created' = TRUE
  /\ last' = IF created THEN last ELSE base
  /\ pel' = IF created THEN pel ELSE {}
  /\ UNCHANGED <<log, base>>

\* Mutant of Batch: read_stream() asks for the pending entries as well.
BatchWithPending(n) ==
  pel \cup last + 1 .. (IF last + n <= Len(log) THEN last + n ELSE Len(log))

\* The entries read_stream(count = n) is given: the oldest never delivered.
Batch(n) == last + 1 .. (IF last + n <= Len(log) THEN last + n ELSE Len(log))

\* read_stream(): the id ">" asks for new entries only, never for pending ones.
XReadGroup(n) ==
  /\ created /\ Waiting # {}
  /\ last' = IF last + n <= Len(log) THEN last + n ELSE Len(log)
  /\ pel' = pel \cup Batch(n)
  /\ UNCHANGED <<log, base, created>>

\* ack()
XAck(ids) ==
  /\ pel' = pel \ ids
  /\ UNCHANGED <<log, base, created, last>>

\* Mutant of LoseStream: the group outlives its stream.
LoseStreamKeepingGroup ==
  /\ base' = Len(log)
  /\ UNCHANGED <<log, created, last, pel>>

\* Redis restarts empty, or evicts the key and with it the group.
LoseStream ==
  /\ base' = Len(log) /\ last' = Len(log)
  /\ created' = FALSE /\ pel' = {}
  /\ UNCHANGED log
=============================================================================
