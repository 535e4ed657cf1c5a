------------------------------ MODULE Migrations ------------------------------
(***************************************************************************)
(* The database schema at start-up: init_models() (db/__init__.py) and the *)
(* Alembic revisions.  The API, the ingestor and the alerts worker all     *)
(* call it when they start, at the same time; one that fails ends, and is  *)
(* started again.  Stamping and upgrading are a transaction each, in which *)
(* creating what there is already is an error.                             *)
(***************************************************************************)
EXTENDS Naturals, Sequences

CONSTANTS
  Procs,     \* the processes that call init_models()
  MaxFaults, \* bound on the times a process is stopped
  Absent     \* no table alembic_version

\* What the constants have to be.
MigrationsAssumption == MaxFaults \in Nat /\ Absent \notin Nat

VARIABLES
  objects,  \* the tables, and the columns that were added to plugins
  version,  \* the last revision in alembic_version, 0 when it is empty
  pc,       \* where each process is
  look,     \* what each has found: is there alembic_version, and its revision
  late,     \* (history) a baseline was stamped on what Alembic had brought further
  faults

vars == <<objects, version, pc, look, late, faults>>

\* The revisions: what each adds.
Baseline == {"plugins", "dashboards", "devices", "sensors", "telemetry", "alert_rules",
             "alert_history", "notification_channels", "alert_rule_channels",
             "dashboard_widgets"}
PluginDescription == {"plugins.description"}
SystemSettingsTable == {"system_settings"}
UsersTable == {"users"}
PluginConfigColumns == {"plugins.config", "plugins.config_schema", "plugins.config_version"}

Revisions == <<Baseline, PluginDescription, SystemSettingsTable, UsersTable,
               PluginConfigColumns>>
Latest == Len(Revisions)
Adds(from, to) == UNION {Revisions[i] : i \in from + 1 .. to}
Schema == Adds(0, Latest)

\* Type invariant: also that the revision on record is the schema's, and whoever is
\* ready has the whole schema, as long as no baseline was stamped late.
TypeOK ==
  /\ objects \subseteq Schema /\ version \in {Absent} \cup 0 .. Latest
  /\ pc \in [Procs -> {"alembic", "plugins", "stamp", "read", "upgrade", "ready"}]
  /\ look \in [Procs -> [alembic : BOOLEAN, revision : 0 .. Latest]]
  /\ late \in BOOLEAN /\ faults \in 0 .. MaxFaults
  /\ ~ late /\ version # Absent => objects = Adds(0, version)
  /\ ~ late => \A p \in Procs : pc[p] = "ready" => objects = Schema

-----------------------------------------------------------------------------
Go(p, place) == pc' = [pc EXCEPT ![p] = place]
Nothing == [alembic |-> FALSE, revision |-> 0]

\* init_models(): is there a table alembic_version?
LookForAlembic(p) ==
  /\ pc[p] = "alembic" /\ Go(p, "plugins")
  /\ look' = [look EXCEPT ![p].alembic = version # Absent]
  /\ UNCHANGED <<objects, version, late, faults>>

\* Mutant of LookForPlugins: no schema is taken for one older than Alembic.
LookForPluginsNever(p) ==
  /\ pc[p] = "plugins" /\ Go(p, "read")
  /\ UNCHANGED <<objects, version, look, late, faults>>

\* Is there a table plugins?  A schema without alembic_version is a baseline.
LookForPlugins(p) ==
  /\ pc[p] = "plugins"
  /\ Go(p, IF "plugins" \in objects /\ ~ look[p].alembic THEN "stamp" ELSE "read")
  /\ UNCHANGED <<objects, version, look, late, faults>>

\* command.stamp(cfg, "0001_baseline")
Stamp(p) ==
  /\ pc[p] = "stamp" /\ Go(p, "read")
  /\ version' = 1 /\ late' = (late \/ version \notin {Absent, 1})
  /\ UNCHANGED <<objects, look, faults>>

\* command.upgrade(cfg, "head"): the transaction begins with the revision the
\* database has ...
ReadRevision(p) ==
  /\ pc[p] = "read" /\ Go(p, "upgrade")
  /\ look' = [look EXCEPT ![p].revision = IF version = Absent THEN 0 ELSE version]
  /\ UNCHANGED <<objects, version, late, faults>>

\* ... and commits all the revisions after it, or none and the process ends.
Upgrade(p) ==
  /\ pc[p] = "upgrade"
  /\ LET new == Adds(look[p].revision, Latest) IN
       IF new \cap objects = {}
       THEN /\ objects' = objects \cup new
            /\ version' = IF new = {} THEN version ELSE Latest
            /\ Go(p, "ready") /\ UNCHANGED look
       ELSE /\ Go(p, "alembic") /\ look' = [look EXCEPT ![p] = Nothing]
            /\ UNCHANGED <<objects, version>>
  /\ UNCHANGED <<late, faults>>

\* A process is stopped, or loses the database, and starts again.
Restart(p) ==
  /\ faults < MaxFaults /\ faults' = faults + 1
  /\ Go(p, "alembic") /\ look' = [look EXCEPT ![p] = Nothing]
  /\ UNCHANGED <<objects, version, late>>

-----------------------------------------------------------------------------
\* A new database, one from before Alembic, or one of an earlier release.
Init ==
  /\ \/ objects = {} /\ version \in {Absent, 0}
     \/ objects = Baseline /\ version = Absent
     \/ \E v \in 1 .. Latest : objects = Adds(0, v) /\ version = v
  /\ pc = [p \in Procs |-> "alembic"] /\ look = [p \in Procs |-> Nothing]
  /\ late = FALSE /\ faults = 0

Start(p) ==
  LookForAlembic(p) \/ LookForPlugins(p) \/ Stamp(p) \/ ReadRevision(p) \/ Upgrade(p)

Next == \E p \in Procs : Start(p) \/ Restart(p)

Fairness == \A p \in Procs : WF_vars(Start(p))

Spec == Init /\ [][Next]_vars /\ Fairness

-----------------------------------------------------------------------------
\* Whatever the database was, and in whatever order the processes start, fail
\* and start again, all get ready on the whole schema (init_models, "safe to
\* call on every startup"), unless one stamped the baseline late: it had looked
\* for alembic_version before another had made it.
SchemaReached ==
  <>(late \/ (objects = Schema /\ \A p \in Procs : pc[p] = "ready"))
===============================================================================
