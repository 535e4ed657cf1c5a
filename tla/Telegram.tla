------------------------------- MODULE Telegram -------------------------------
(***************************************************************************)
(* The listener of the Telegram integration, which answers /start          *)
(* (src/plugins/integrations/telegram).  Telegram keeps the updates until  *)
(* a getUpdates with a higher offset confirms them; the plugin's offset is *)
(* in memory only.  That plugin's alerts are DispatchLoop's subject.       *)
(***************************************************************************)
EXTENDS Naturals, Sequences, FiniteSets

CONSTANTS
  Chats,       \* chats that may write to the bot
  MaxUpdates,  \* bound on the updates ever made
  MaxFaults    \* bound on failures and restarts

\* What the constants have to be.
TelegramAssumption == MaxUpdates \in Nat /\ MaxFaults \in Nat

VARIABLES
  updates,    \* what was ever written to the bot: the chat, and is it a /start?
  confirmed,  \* Telegram has forgotten the updates up to this one
  channels,   \* chat_id of the active channels
  offset,     \* the last update the plugin has taken, 0 when none
  batch,      \* the updates of the last answer, still to be taken
  pc,         \* where the listener is: at "poll", "take", "lookup" or "reply"
  verdict,    \* what the reply will say
  replies,    \* per update, the replies that reached its chat
  gaveUp,     \* (history) updates whose reply failed
  runs,       \* (history) incarnations of the plugin that have taken each update
  faults

listener == <<offset, batch, pc, verdict>>
vars == <<updates, confirmed, channels, listener, replies, gaveUp, runs, faults>>

UpdateIds == 1 .. MaxUpdates
Made == 1 .. Len(updates)

\* Somebody who wants an answer has got it, or it failed.
Dealt(u) == updates[u].start => replies[u] > 0 \/ u \in gaveUp

\* Type invariant: also that Telegram forgets only what was taken, and a /start only
\* when it was answered or its answer failed.
TypeOK ==
  /\ updates \in Seq([chat : Chats, start : BOOLEAN]) /\ Len(updates) <= MaxUpdates
  /\ confirmed \in 0 .. Len(updates) /\ offset \in 0 .. Len(updates)
  /\ \A u \in Made : u <= confirmed => runs[u] > 0 /\ Dealt(u)
  /\ channels \subseteq Chats /\ batch \subseteq Made /\ gaveUp \subseteq Made
  /\ pc \in {"poll", "take", "lookup", "reply"} /\ verdict \in BOOLEAN
  /\ \A u \in UpdateIds : replies[u] <= runs[u]
  /\ faults \in 0 .. MaxFaults

-----------------------------------------------------------------------------
\* The world: somebody writes to the bot, an operator edits the channels.
Say(chat, start) ==
  /\ Len(updates) < MaxUpdates
  /\ updates' = Append(updates, [chat |-> chat, start |-> start])
  /\ UNCHANGED <<confirmed, channels, listener, replies, gaveUp, runs, faults>>

SetChannel(chat) ==
  /\ channels' = IF chat \in channels THEN channels \ {chat} ELSE channels \cup {chat}
  /\ UNCHANGED <<updates, confirmed, listener, replies, gaveUp, runs, faults>>

-----------------------------------------------------------------------------
\* The listener: _poll_updates_loop().

\* Without an offset Telegram answers with all it has kept.
Kept == confirmed' + 1 .. Len(updates)
Confirm == confirmed' = IF offset > confirmed THEN offset ELSE confirmed

GetUpdates ==
  /\ pc = "poll" /\ Confirm
  /\ Kept # {} /\ batch' = Kept /\ pc' = "take"
  /\ UNCHANGED <<updates, channels, offset, verdict, replies, gaveUp, runs, faults>>

\* The request or its answer is lost, or an error: after 5 s, again.
PollFails ==
  /\ pc = "poll" /\ faults < MaxFaults /\ faults' = faults + 1
  /\ Confirm \/ UNCHANGED confirmed
  /\ UNCHANGED <<updates, channels, listener, replies, gaveUp, runs>>

First == CHOOSE u \in batch : \A v \in batch : u <= v

\* Where the listener goes on after an update.
Onward(rest) == IF rest = {} THEN "poll" ELSE "take"

\* Mutant of Take: the offset skips one update more.
TakeSkipping ==
  /\ pc = "take"
  /\ offset' = IF First < Len(updates) THEN First + 1 ELSE First
  /\ runs' = [runs EXCEPT ![First] = @ + 1]
  /\ IF updates[First].start THEN pc' = "lookup" /\ UNCHANGED batch
     ELSE batch' = batch \ {First} /\ pc' = Onward(batch')
  /\ UNCHANGED <<updates, confirmed, channels, verdict, replies, gaveUp, faults>>

\* The offset passes an update before it is handled; only /start is answered.
Take ==
  /\ pc = "take" /\ offset' = First
  /\ runs' = [runs EXCEPT ![First] = @ + 1]
  /\ IF updates[First].start THEN pc' = "lookup" /\ UNCHANGED batch
     ELSE batch' = batch \ {First} /\ pc' = Onward(batch')
  /\ UNCHANGED <<updates, confirmed, channels, verdict, replies, gaveUp, faults>>

\* _configured_chat_ids()
Lookup ==
  /\ pc = "lookup" /\ pc' = "reply"
  /\ verdict' = (updates[First].chat \in channels)
  /\ UNCHANGED <<updates, confirmed, channels, offset, batch, replies, gaveUp, runs, faults>>

Done == batch' = batch \ {First} /\ pc' = Onward(batch')

Reply ==
  /\ pc = "reply" /\ Done
  /\ replies' = [replies EXCEPT ![First] = @ + 1]
  /\ UNCHANGED <<updates, confirmed, channels, offset, verdict, gaveUp, runs, faults>>

\* The channels cannot be read, or Telegram refuses the reply: logged, no retry.
ReplyFails ==
  /\ pc \in {"lookup", "reply"} /\ faults < MaxFaults /\ faults' = faults + 1
  /\ gaveUp' = gaveUp \cup {First} /\ Done
  /\ UNCHANGED <<updates, confirmed, channels, offset, verdict, replies, runs>>

\* The plugin's process ends and starts again.
Restart ==
  /\ faults < MaxFaults /\ faults' = faults + 1
  /\ offset' = 0 /\ batch' = {} /\ pc' = "poll"
  /\ UNCHANGED <<updates, confirmed, channels, verdict, replies, gaveUp, runs>>

-----------------------------------------------------------------------------
Init ==
  /\ updates = <<>> /\ confirmed = 0 /\ channels \in SUBSET Chats
  /\ offset = 0 /\ batch = {} /\ pc = "poll" /\ verdict = FALSE
  /\ replies = [u \in UpdateIds |-> 0] /\ gaveUp = {} /\ runs = [u \in UpdateIds |-> 0]
  /\ faults = 0

Listener == GetUpdates \/ Take \/ Lookup \/ Reply

Next ==
  \/ \E chat \in Chats : SetChannel(chat) \/ \E start \in BOOLEAN : Say(chat, start)
  \/ Listener \/ PollFails \/ ReplyFails \/ Restart

\* The listener's loop runs while the plugin does.
Fairness == WF_vars(Listener)

Spec == Init /\ [][Next]_vars /\ Fairness

-----------------------------------------------------------------------------
\* Every /start is answered, unless that very answer failed: no update is passed
\* over, whatever polls failed and however often the plugin was restarted.
StartAnswered ==
  \A u \in UpdateIds :
    (u \in Made /\ updates[u].start) ~> (replies[u] > 0 \/ u \in gaveUp)
===============================================================================
