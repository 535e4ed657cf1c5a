-------------------------------- MODULE Storage --------------------------------
(***************************************************************************)
(* What the ingestor does with the storage settings: the compression and   *)
(* retention policies it sets when it starts (db/__init__.py), and the     *)
(* disk-budget enforcer (retention.py), beside the database's own          *)
(* retention job and the writers that fill the table.  The enforcer's      *)
(* three statements are one transaction, each with its own snapshot.  The  *)
(* second asks the database for a column by a name that TimescaleDB's      *)
(* function does not give; the tests' stand-in for it does.                *)
(***************************************************************************)
EXTENDS SystemSettings, FiniteSetsExt

CONSTANTS
  Answers,    \* the columns chunks_detailed_size() may give: a set of sets of names
  MaxTime,    \* the table's chunks are 1 .. MaxTime, oldest first
  MaxGrowth,  \* bound on the units of telemetry ever written
  MaxFaults   \* bound on failures and restarts

VARIABLES
  size,     \* of each chunk, in halves of a gigabyte; 0 when there is none
  grown,    \* the units written, at most MaxGrowth
  policy,   \* the compression and retention ages the database's jobs use
  pc,       \* where the ingestor is
  tick,     \* what the tick has read: budget, total, cutoff
  retired,  \* (history) the retention job has dropped chunks since the tick measured
  faults

disk == <<size, grown, policy, pc, tick, retired, faults>>
vars == <<settings, disk>>

Chunks == 1 .. MaxTime
Places == {"start", "policies", "sleep", "tick", "size", "list", "drop"}
Budget(values) == values["budget"].value
None == 0

\* What the constants have to be.
StorageAssumption ==
  /\ SystemSettingsAssumption
  /\ MaxTime \in Nat /\ MaxGrowth \in Nat /\ MaxFaults \in Nat

\* What the chunks up to each one take together.
UpTo(sizes) ==
  LET sum[t \in 0 .. MaxTime] == IF t = 0 THEN 0 ELSE sum[t - 1] + sizes[t] IN sum

Total(sizes) == UpTo(sizes)[MaxTime]

\* Type invariant: also that a tick drops only beyond its budget.
TypeOK ==
  /\ SettingsTypeOK
  /\ size \in [Chunks -> 0 .. MaxGrowth] /\ Total(size) <= grown /\ grown <= MaxGrowth
  /\ pc \in Places /\ faults \in 0 .. MaxFaults
  /\ pc = "list" => tick.total > tick.budget
  /\ pc = "drop" => tick.cutoff \in Chunks

-----------------------------------------------------------------------------
\* select_chunks_to_drop(): a chunk goes when what is left without the older
\* ones is still above 95% of the budget.
Target(budget) == (95 * budget) \div 100

Present(sizes) == {t \in Chunks : sizes[t] > 0}

\* Mutant of SelectChunks: the projection is tested after the chunk was taken.
SelectChunksLate(total, budget, sizes) ==
  LET goes == CASE budget <= 0 -> Present(sizes)
                [] budget > 0 /\ total <= budget -> {}
                [] OTHER -> {t \in Present(sizes) :
                               t = 1 \/ total - UpTo(sizes)[t - 2] > Target(budget)}
  IN  IF goes = {} THEN None ELSE Max(goes)

SelectChunks(total, budget, sizes) ==
  LET goes == CASE budget <= 0 -> Present(sizes)
                [] budget > 0 /\ total <= budget -> {}
                [] OTHER -> {t \in Present(sizes) : total - UpTo(sizes)[t - 1] > Target(budget)}
  IN  IF goes = {} THEN None ELSE Max(goes)

-----------------------------------------------------------------------------
\* The ingestor needs the settings: from its cache, or by a reload of its own,
\* after which it goes on at once.
StartReload ==
  pc \in {"start", "tick"} /\ ReloadRead("ingestor") /\ UNCHANGED disk

\* c: the cache as it is when the ingestor goes on.
GoOn(c) ==
  /\ pc' = IF pc = "start" THEN "policies" ELSE "size"
  /\ tick' = IF pc = "start" THEN c ELSE [budget |-> Budget(c), total |-> 0, cutoff |-> None]
  /\ UNCHANGED <<size, grown, policy, retired, faults>>

FinishReload == ReloadStore("ingestor") /\ GoOn(cache'["ingestor"])

UseCache ==
  /\ pc \in {"start", "tick"} /\ cache["ingestor"] # Absent
  /\ GoOn(cache["ingestor"]) /\ UNCHANGED settings

\* apply_storage_policies(): both policies are replaced in one transaction.
ApplyPolicies ==
  /\ pc = "policies"
  /\ policy' = [k \in {"compression", "retention"} |-> tick[k].value]
  /\ pc' = "sleep" /\ UNCHANGED <<settings, size, grown, tick, retired, faults>>

\* run_disk_budget_enforcer(): it sleeps first.
Wake == pc = "sleep" /\ pc' = "tick"
        /\ UNCHANGED <<settings, size, grown, policy, tick, retired, faults>>

\* enforce_once(), statement by statement.
Measure ==
  /\ pc = "size"
  /\ IF Total(size) <= tick.budget THEN pc' = "sleep" /\ UNCHANGED tick
     ELSE pc' = "list" /\ tick' = [tick EXCEPT !.total = Total(size)]
  /\ retired' = FALSE
  /\ UNCHANGED <<settings, size, grown, policy, faults>>

\* The columns the second statement selects.
Asked == {"range_end", "total_bytes"}

\* Without one of them it raises, and that tick is over: it is logged, and the
\* next is tried.
ListChunks ==
  /\ pc = "list"
  /\ \E columns \in Answers :
       \/ /\ Asked \subseteq columns
          /\ LET cutoff == SelectChunks(tick.total, tick.budget, size) IN
               /\ tick' = [tick EXCEPT !.cutoff = cutoff]
               /\ pc' = IF cutoff = None THEN "sleep" ELSE "drop"
       \/ ~ (Asked \subseteq columns) /\ pc' = "sleep" /\ UNCHANGED tick
  /\ UNCHANGED <<settings, size, grown, policy, retired, faults>>

DropUpTo(t) == [u \in Chunks |-> IF u <= t THEN 0 ELSE size[u]]

\* drop_chunks() and the commit.
DropChunks ==
  /\ pc = "drop"
  /\ size' = DropUpTo(tick.cutoff)
  /\ pc' = "sleep" /\ UNCHANGED <<settings, grown, policy, tick, retired, faults>>

\* A tick fails, and the next will try again; a failure at the start ends the
\* process.  Whoever starts it again, it begins with an empty cache.
TickFails ==
  /\ pc \in {"tick", "size", "list", "drop"} /\ faults < MaxFaults
  /\ faults' = faults + 1 /\ pc' = "sleep"
  /\ load' = [load EXCEPT !["ingestor"] = Absent]
  /\ UNCHANGED <<rows, cache, req, edits, size, grown, policy, tick, retired>>

IngestorRestarts ==
  /\ faults < MaxFaults /\ faults' = faults + 1
  /\ Restart("ingestor") /\ pc' = "start"
  /\ UNCHANGED <<size, grown, policy, tick, retired>>

ApiRestarts ==
  /\ faults < MaxFaults /\ faults' = faults + 1
  /\ Restart("api") /\ UNCHANGED <<size, grown, policy, pc, tick, retired>>

-----------------------------------------------------------------------------
\* The world around: telemetry of any age is written, and the database's job
\* drops the chunks the retention policy calls too old.
Write(t) ==
  /\ grown < MaxGrowth /\ grown' = grown + 1
  /\ size' = [size EXCEPT ![t] = @ + 1]
  /\ UNCHANGED <<settings, policy, pc, tick, retired, faults>>

Retire(t) ==
  /\ policy # Absent /\ size[t] > 0
  /\ size' = DropUpTo(t) /\ retired' = TRUE
  /\ UNCHANGED <<settings, grown, policy, pc, tick, faults>>

-----------------------------------------------------------------------------
Init ==
  /\ SettingsInit
  /\ size = [t \in Chunks |-> 0] /\ grown = 0
  /\ policy = Absent /\ pc = "start" /\ tick = Absent
  /\ retired = FALSE /\ faults = 0

Ingestor ==
  \/ StartReload \/ FinishReload \/ UseCache \/ ApplyPolicies
  \/ Wake \/ Measure \/ ListChunks \/ DropChunks

\* Mutant of CacheExpires: the cache is kept as long as the process.
CacheStays == FALSE /\ UNCHANGED vars

CacheExpires == Expire("ingestor") /\ UNCHANGED disk

Next ==
  \/ Api /\ UNCHANGED disk
  \/ CacheExpires \/ Ingestor
  \/ TickFails \/ IngestorRestarts \/ ApiRestarts
  \/ \E t \in Chunks : Write(t) \/ Retire(t)

\* The event loop runs what is ready, and 30 seconds pass; whether clients ask
\* for anything, the api answers them or telemetry comes in is left open.
Fairness ==
  /\ WF_vars(Ingestor)
  /\ WF_vars(CacheExpires)

Spec == Init /\ [][Next]_vars /\ Fairness

-----------------------------------------------------------------------------
\* Of any drop that happens: it is just enough.  Without the newest of the chunks it
\* drops, the table would be above 95% of the budget the tick had read; and what it
\* leaves is within that, but for what was written after the size was measured.
\* Unless the retention job took chunks since.
DropsJustEnough ==
  [][DropChunks /\ ~ retired =>
       /\ Total(DropUpTo(tick.cutoff - 1)) > Target(tick.budget)
       /\ tick.budget >= 0 =>
            Total(size') <= Target(tick.budget) + (Total(size) - tick.total)]_vars

\* A stored setting takes effect, over every race of an edit with a reload in flight
\* or an expired cache and over failed ticks and restarts: once the settings are left
\* alone, the enforcer goes on measuring for ever, and from some moment on every tick
\* works with the budget in the table.
SettingsTakeEffect ==
  /\ []<>(pc = "size")
  /\ <>[](pc \in {"size", "list", "drop"} => tick.budget = Budget(Effective(rows)))

\* What retention.py promises in its first lines: a table that exceeds the budget is
\* brought back within it.  In the end, once the settings are left alone and no more
\* telemetry comes.
BudgetRespected == <>[](Total(size) <= Budget(Effective(rows)))
===============================================================================
