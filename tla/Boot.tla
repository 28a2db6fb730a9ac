-------------------------------- MODULE Boot --------------------------------
(***************************************************************************)
(* How engine instances come into service (main.rs): configuration,        *)
(* migrations, schema probes, the version marker, and then the reaper, the *)
(* sweep and the listener.  Instances of several releases boot at the same *)
(* time against one database, are replaced by the operator, crash, and are *)
(* restarted by the container runtime.                                     *)
(*                                                                         *)
(* This repository is one release, with migrations 1 to 4 and version 1;   *)
(* the checks exist for the day there are two, so a release is what        *)
(* differs between them: the migrations it carries and the version it      *)
(* requires.  sqlx's migration run is external, modelled by its calls.     *)
(***************************************************************************)
EXTENDS Integers, FiniteSets, FiniteSetsExt, Functions

CONSTANTS
  Instances,      \* engine containers that share the database
  Releases,       \* engine images, numbered in the order they were made
  LastMigration,  \* release -> the last migration it carries
  Required,       \* release -> REQUIRED_SCHEMA_VERSION
  Created,        \* migration -> the tables it creates if they are absent
  SetsVersion,    \* migration -> the version it writes to the marker, or 0
  Probed,         \* the tables main.rs probes
  Schemas,        \* what the database can hold before the first boot
  Misconfigured,  \* instances without a usable environment
  Nobody,         \* the migration lock is free
  MaxDeploys,     \* bound: images replaced
  MaxCrashes      \* bound: processes or connections lost

Migrations == DOMAIN Created

\* The tables TransityTerminal's own migrations create.
TerminalTables == {"seat_inventory", "seat_holds"}

ASSUME BootAssumption ==
  /\ Releases # {} /\ Releases \subseteq Nat /\ IsFiniteSet(Releases)
  /\ Migrations \subseteq Nat
  /\ LastMigration \in [Releases -> Migrations]
  /\ Required \in [Releases -> Nat]
  /\ Created \in [Migrations -> SUBSET Probed]
  /\ SetsVersion \in [Migrations -> Nat]
  /\ \A m, n \in Migrations :   \* a later migration never sets a lower version
       m < n /\ SetsVersion[n] > 0 => SetsVersion[m] <= SetsVersion[n]
  /\ TerminalTables \subseteq Probed
  /\ Schemas \subseteq [Probed -> {"absent", "expected", "other"}]
  /\ Misconfigured \subseteq Instances
  /\ Nobody \notin Instances
  /\ MaxDeploys \in Nat /\ MaxCrashes \in Nat

VARIABLES
  pc,             \* how far each instance is
  image,          \* the release each instance runs
  todo,           \* migrations it found missing, once it has the lock
  lock,           \* who has sqlx's migration lock
  applied,        \* _sqlx_migrations
  schema,         \* table -> absent, with the expected columns, or with others
  version,        \* engine_schema_meta, 0 while it has no row
  provided,       \* TransityTerminal's migrations made the seat tables
  deploys,        \* images replaced so far
  crashes         \* crashes so far

db == <<applied, schema, version, provided>>
vars == <<pc, image, todo, lock, db, deploys, crashes>>

Carried(i) == {m \in Migrations : m <= LastMigration[image[i]]}

Init ==
  /\ pc = [i \in Instances |-> "down"]
  /\ image \in [Instances -> Releases]
  /\ todo = [i \in Instances |-> {}]
  /\ lock = Nobody
  /\ applied = {}
  /\ schema \in Schemas
  /\ version = 0
  /\ provided = \A t \in TerminalTables : schema[t] # "absent"
  /\ deploys = 0
  /\ crashes = 0

-----------------------------------------------------------------------------

\* The process goes on to the next place.
Step(i, from, to) == pc[i] = from /\ pc' = [pc EXCEPT ![i] = to]

\* The process ends; its sessions end with it, and so do their locks.
Ended(i) ==
  /\ pc' = [pc EXCEPT ![i] = "down"]
  /\ todo' = [todo EXCEPT ![i] = {}]
  /\ lock' = IF lock = i THEN Nobody ELSE lock

\* Slip: the process reports the error and hangs instead of exiting.
HangsAt(i, place) ==
  /\ pc[i] = place
  /\ UNCHANGED vars

\* main returns an error: the process exits, to be restarted.
ExitsAt(i, place) ==
  /\ pc[i] = place
  /\ Ended(i)
  /\ UNCHANGED <<image, db, deploys, crashes>>

\* restart: unless-stopped
Start(i) ==
  /\ Step(i, "down", "config")
  /\ UNCHANGED <<image, todo, lock, db, deploys, crashes>>

\* Config::from_env, and the first connection.
Configure(i) ==
  /\ i \notin Misconfigured
  /\ Step(i, "config", "migrate")
  /\ UNCHANGED <<image, todo, lock, db, deploys, crashes>>

ConfigRefused(i) == i \in Misconfigured /\ ExitsAt(i, "config")

\* sqlx: take the lock, list what was applied.
LockMigrations(i) ==
  /\ lock = Nobody
  /\ Step(i, "migrate", "validate")
  /\ lock' = i
  /\ UNCHANGED <<image, todo, db, deploys, crashes>>

\* VersionMissing: the database has a migration this binary does not know.
NewerDatabase(i) == ~(applied \subseteq Carried(i)) /\ ExitsAt(i, "validate")

\* Slip: the migrations can be run again, so all of them are.
AllCarried(i) == Carried(i)

Missing(i) == Carried(i) \ applied

Validate(i) ==
  /\ applied \subseteq Carried(i)
  /\ Step(i, "validate", "apply")
  /\ todo' = [todo EXCEPT ![i] = Missing(i)]
  /\ UNCHANGED <<image, lock, db, deploys, crashes>>

\* Slip: every migration bumps the version.
MarkedNext(m) == version + 1

\* The version after migration m: INSERT ... ON CONFLICT DO UPDATE.
Marked(m) == IF SetsVersion[m] > 0 THEN SetsVersion[m] ELSE version

\* One migration with its row in _sqlx_migrations, in one transaction.
\* CREATE TABLE IF NOT EXISTS leaves a table that is there as it is.
Apply(i) ==
  /\ pc[i] = "apply"
  /\ \E m \in todo[i] :
       /\ \A n \in todo[i] : m <= n
       /\ applied' = applied \cup {m}
       /\ schema' = [t \in Probed |-> IF t \in Created[m] /\ schema[t] = "absent"
                                      THEN "expected" ELSE schema[t]]
       /\ version' = Marked(m)
       /\ todo' = [todo EXCEPT ![i] = @ \ {m}]
  /\ UNCHANGED <<pc, image, lock, provided, deploys, crashes>>

\* A table has other columns than expected: an index or a comment of the
\* migration may name one that is not there.  The transaction is undone.
ApplyFails(i) ==
  /\ todo[i] # {}
  /\ \E t \in Probed : schema[t] = "other"
  /\ ExitsAt(i, "apply")

Migrated(i) ==
  /\ todo[i] = {}
  /\ Step(i, "apply", "probe")
  /\ lock' = Nobody
  /\ UNCHANGED <<image, todo, db, deploys, crashes>>

\* Slip: only that the tables are there is probed.
TablesExist == \A t \in Probed : schema[t] # "absent"

\* SELECT the expected columns FROM each table LIMIT 0.
Probes == \A t \in Probed : schema[t] = "expected"

ProbePasses(i) ==
  /\ Probes
  /\ Step(i, "probe", "marker")
  /\ UNCHANGED <<image, todo, lock, db, deploys, crashes>>

ProbeFails(i) == ~Probes /\ ExitsAt(i, "probe")

\* Slip: a marker that is there is enough.
MarkerPresent(i) == version > 0

MarkerMatches(i) == version = Required[image[i]]

\* SELECT value FROM engine_schema_meta: the version is right.
MarkerPasses(i) ==
  /\ MarkerMatches(i)
  /\ Step(i, "marker", "checked")
  /\ UNCHANGED <<image, todo, lock, db, deploys, crashes>>

MarkerFails(i) == ~MarkerMatches(i) /\ ExitsAt(i, "marker")

\* The reaper and the sweep are spawned; the database is not asked again.
StartTasks(i) ==
  /\ Step(i, "checked", "started")
  /\ UNCHANGED <<image, todo, lock, db, deploys, crashes>>

\* The listener is bound.
Serve(i) ==
  /\ Step(i, "started", "serving")
  /\ UNCHANGED <<image, todo, lock, db, deploys, crashes>>

-----------------------------------------------------------------------------

\* The operator replaces the image of an instance, by a newer or older one.
Deploy(i, r) ==
  /\ deploys < MaxDeploys
  /\ deploys' = deploys + 1
  /\ r # image[i]
  /\ image' = [image EXCEPT ![i] = r]
  /\ Ended(i)
  /\ UNCHANGED <<db, crashes>>

\* The process dies, loses the database, or cannot bind its port.
Crash(i) ==
  /\ crashes < MaxCrashes
  /\ crashes' = crashes + 1
  /\ pc[i] # "down"
  /\ Ended(i)
  /\ UNCHANGED <<image, db, deploys>>

Boots(i) ==
  \/ Start(i) \/ Configure(i) \/ ConfigRefused(i)
  \/ NewerDatabase(i) \/ Validate(i) \/ Apply(i) \/ ApplyFails(i) \/ Migrated(i)
  \/ ProbePasses(i) \/ ProbeFails(i)
  \/ MarkerPasses(i) \/ MarkerFails(i)
  \/ StartTasks(i) \/ Serve(i)

Next ==
  \E i \in Instances :
    \/ Boots(i) \/ LockMigrations(i)
    \/ Crash(i)
    \/ \E r \in Releases : Deploy(i, r)

Spec == Init /\ [][Next]_vars

\* Processes run, the container runtime restarts them, and PostgreSQL serves
\* those who wait for an advisory lock in turn.
Fairness ==
  \A i \in Instances : WF_vars(Boots(i)) /\ SF_vars(LockMigrations(i))

FairSpec == Spec /\ Fairness

-----------------------------------------------------------------------------
(* Properties *)

Places == {"down", "config", "migrate", "validate", "apply", "probe",
           "marker", "checked", "started", "serving"}

\* The instances are somewhere on their way, the database has known parts.
TypeOK ==
  /\ pc \in [Instances -> Places]
  /\ image \in [Instances -> Releases]
  /\ todo \in [Instances -> SUBSET Migrations]
  /\ lock \in Instances \cup {Nobody}
  /\ applied \subseteq Migrations
  /\ schema \in [Probed -> {"absent", "expected", "other"}]
  /\ version \in {0} \cup Range(SetsVersion)
  /\ provided \in BOOLEAN

(***************************************************************************)
(* Whatever the fleet does later, an instance that reaps or serves stands  *)
(* on the tables it probed, with every migration it carries, and the       *)
(* marker is not below the version it requires: what a later boot of       *)
(* another instance does to the database never takes that away.  It can    *)
(* be above it: others migrate after the check, before the tasks start too.*)
(***************************************************************************)
InService(i) == pc[i] \in {"started", "serving"}

ServesOnItsTables ==
  \A i \in Instances : InService(i) =>
    /\ Carried(i) \subseteq applied
    /\ \A t \in Probed : schema[t] = "expected"
    /\ version >= Required[image[i]]

(***************************************************************************)
(* The version marker never goes back.  The migration that writes it       *)
(* overwrites whatever is there (ON CONFLICT DO UPDATE), so an engine that *)
(* ran it again would mark the newer schema as its own.                    *)
(***************************************************************************)
VersionNeverFalls == [][version' >= version]_vars

\* The boot checks are behind it.
Cleared(i) == pc[i] \in {"checked", "started", "serving"}

(***************************************************************************)
(* "fail fast on boot if the deployed binary expects a schema version      *)
(* different from the one applied to the database" (migration 0004): no    *)
(* instance gets past its checks once a migration of a later version is    *)
(* in, even one that another instance applied after this one's own         *)
(* migration run, by which sqlx would have refused the database.           *)
(***************************************************************************)
PassesOnItsVersion ==
  [][\A i \in Instances :
       ~Cleared(i) /\ Cleared(i)' =>
         \A m \in applied : SetsVersion[m] <= Required[image[i]]]_vars

(***************************************************************************)
(* An instance that stays on the newest release serves in the end, though  *)
(* others of older releases crash and restart against the same database.   *)
(***************************************************************************)
Sound == \A t \in Probed : schema[t] # "other"

NewestServes ==
  \A i \in Instances \ Misconfigured :
    <>[](image[i] = Max(Releases)) /\ []Sound => <>[](pc[i] = "serving")

(***************************************************************************)
(* "the most common deployment mistake is pointing DATABASE_URL at the     *)
(* wrong Neon project (e.g. an empty DB ...) ... Any error -> exit 1"      *)
(* (main.rs): an engine does not serve a database without the tables of    *)
(* TransityTerminal.                                                       *)
(***************************************************************************)
EmptyDatabaseRefused ==
  ~provided => \A i \in Instances : pc[i] # "serving"

=============================================================================
