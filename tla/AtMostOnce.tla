------------------------------ MODULE AtMostOnce ------------------------------
(***************************************************************************)
(* What a NodeLens stream consumer promises about each entry.  All of them *)
(* (the ingestor, the alert engine, the dispatch loop of an integration)   *)
(* are built on the same read / work / acknowledge loop:                   *)
(*                                                                         *)
(*   - an entry is handed to a consumer at most once, ever;                *)
(*   - the consumer works on an entry only while it holds it;              *)
(*   - an entry is acknowledged only after it was dealt with;              *)
(*   - an entry the consumer lets go of is never handed out again, whether *)
(*     or not it was dealt with.                                           *)
(*                                                                         *)
(* The last line is the price of the first: the contract allows an entry   *)
(* to be dropped, and says nothing stronger can be relied on.              *)
(***************************************************************************)
CONSTANT Ids   \* the entries

VARIABLES
  queued,  \* in the stream, not handed out yet
  taken,   \* handed out at some time
  held,    \* in the hands of the running consumer
  done,    \* dealt with
  acked    \* acknowledged, and still in the stream

cvars == <<queued, taken, held, done, acked>>

Init ==
  /\ queued = {} /\ taken = {} /\ held = {}
  /\ done = {} /\ acked = {}

Enqueue(i) ==
  /\ i \notin queued \cup taken
  /\ queued' = queued \cup {i}
  /\ UNCHANGED <<taken, held, done, acked>>

\* The entries S leave the queue; H of them reach the consumer, which may
\* discard some (D) at sight.
Take(S, H, D) ==
  /\ queued' = queued \ S
  /\ taken' = taken \cup S
  /\ held' = held \cup H
  /\ done' = done \cup D
  /\ UNCHANGED acked

\* The consumer deals with D, and acknowledges S, dealt with before.
Progress(S, D) ==
  /\ S \subseteq done
  /\ held' = held \ S
  /\ acked' = acked \cup S
  /\ done' = done \cup D
  /\ UNCHANGED <<queued, taken>>

\* The consumer loses or gives up what it holds, perhaps after working on it.
LetGo(S, D) ==
  /\ held' = held \ S
  /\ done' = done \cup D
  /\ UNCHANGED <<queued, taken, acked>>

\* The stream itself is lost.
Purge ==
  /\ taken' = taken \cup queued
  /\ queued' = {} /\ acked' = {}
  /\ UNCHANGED <<held, done>>

Next ==
  \/ \E i \in Ids : Enqueue(i)
  \/ \E S \in SUBSET queued : \E H \in SUBSET S : \E D \in SUBSET H : Take(S, H, D)
  \/ \E S, D \in SUBSET held : Progress(S, D) \/ LetGo(S, D)
  \/ Purge

Spec == Init /\ [][Next]_cvars

-----------------------------------------------------------------------------
\* What whoever keeps the contract gives its callers.

\* Type correctness: nothing is in two places, or was worked on unseen.
Consistent ==
  /\ queued \cap taken = {}
  /\ held \subseteq taken /\ done \subseteq taken
  /\ acked \subseteq done /\ acked \cap held = {}

\* Acknowledged entries were dealt with, and nobody holds them any more.
AckedIsFinal == acked \subseteq done /\ acked \cap held = {}

\* An entry that comes into the consumer's hands was never handed out before,
\* and an entry that was handed out never returns to the queue.
HandedOutOnce ==
  [][(held' \ held) \cap taken = {} /\ taken \cap queued' = {}]_cvars

\* What is dealt with is dealt with by its holder, and stays so.
WorkedOnlyInHand ==
  [][done \subseteq done' /\ done' \ done \subseteq held \cup held']_cvars
=============================================================================
