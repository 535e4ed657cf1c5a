----------------------------- MODULE IngestorMC -----------------------------
(* Two devices of two plugins with one sensor each, and readings chosen so  *)
(* that every branch of the writer is taken.                                *)
EXTENDS Ingestor

CONSTANTS s1, s2, d1, d2, p1, p2

MCOwnerOf == [s \in {s1, s2} |-> IF s = s1 THEN d1 ELSE d2]
MCPluginOf == [d \in {d1, d2} |-> IF d = d1 THEN p1 ELSE p2]

Reading(s, d, t, k) == [sensor |-> s, device |-> d, time |-> t, kind |-> k]

\* Readings of one device in and out of order, and one of another device.
GoodReadings ==
  {Reading(s1, d1, 2, "aware"), Reading(s1, d1, 1, "aware"), Reading(s2, d2, 1, "aware")}

\* A sensor claimed by the wrong device, a bad id, an unparseable message, and
\* a timestamp without a zone.
OddReadings ==
  {Reading(s2, d1, 2, "aware"), Reading(s1, d1, 1, "badid"),
   Reading(s1, d1, 1, "malformed"), Reading(s1, d1, 1, "naive")}

AllReadings == GoodReadings \cup OddReadings
=============================================================================
