---------------------------- MODULE AlertEngineMC ----------------------------
(* Two small sites: an instant and an aggregated rule on one sensor, and a  *)
(* no_data rule on a sensor next to a busy one.                             *)
EXTENDS AlertEngine, TLC

CONSTANTS s1, s2, hot, mean, quiet, mail, chat

\* hot: an instant rule with two channels; mean: an aggregated rule without.
\* quiet: a no_data rule on the same sensor, with one channel.
MCSensorOf == [r \in Rules |-> s1]
MCRuleType == [r \in Rules |-> CASE r = hot -> "instant" [] r = mean -> "aggregated"
                                 [] r = quiet -> "no_data"]
MCCondition == [r \in Rules |-> IF r = mean THEN "gte" ELSE "gt"]
MCThreshold == [r \in Rules |-> 1]
MCDuration == [r \in Rules |-> IF r = quiet THEN 2 ELSE 1]
MCCooldown == [r \in Rules |-> 2]
MCLinkedTo == [r \in Rules |-> CASE r = hot -> {mail, chat} [] r = mean -> {}
                                 [] r = quiet -> {mail}]

Entries(S, V) == [sensor : S, value : V, time : Times, parses : {TRUE}]
Junk == [sensor : {s1}, value : {0}, time : {1}, parses : {FALSE}]

\* One sensor, with readings at and past a threshold of 1, and junk.
EngineEntries == Entries({s1}, {1, 2}) \cup Junk

\* No definition tells the two channels of hot apart.
ChannelSymmetry == Permutations({mail, chat})

\* A sensor to fall silent, and another that keeps the pipeline alive.
ScannerEntries == Entries({s1, s2}, {0})
=============================================================================
