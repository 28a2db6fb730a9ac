----------------------------- MODULE BootProofs -----------------------------
(***************************************************************************)
(* Proofs about Boot, for any number of instances, releases, migrations    *)
(* and crashes.  The inductive invariant is BootInv: the lock keeps the    *)
(* list of missing migrations true while they are applied, so the applied  *)
(* ones are an unbroken series, and the marker is the last version in it.  *)
(***************************************************************************)
EXTENDS Boot, TLAPS

USE DEF vars, db

\* Each variable is in its range.
Typed ==
  /\ pc \in [Instances -> Places]
  /\ image \in [Instances -> Releases]
  /\ todo \in [Instances -> SUBSET Migrations]
  /\ lock \in Instances \cup {Nobody}
  /\ applied \subseteq Migrations
  /\ schema \in [Probed -> {"absent", "expected", "other"}]
  /\ version \in Nat

\* Whoever works on the migrations holds the lock and knows what is missing.
OneMigrates ==
  \A i \in Instances :
    /\ pc[i] \in {"validate", "apply"} => lock = i
    /\ pc[i] = "apply" => applied \subseteq Carried(i) /\ todo[i] = Missing(i)

\* Applied migrations have no gap, and the marker is the highest version set.
Series ==
  /\ \A m \in applied, n \in Migrations : n < m => n \in applied
  /\ \A m \in applied : SetsVersion[m] <= version
  /\ version = 0 \/ \E m \in applied : SetsVersion[m] = version

\* What an instance has passed on its way stays true.
Passed ==
  \A i \in Instances :
    /\ pc[i] \in {"probe", "marker", "checked", "started", "serving"} => Carried(i) \subseteq applied
    /\ pc[i] \in {"marker", "checked", "started", "serving"} => Probes
    /\ Cleared(i) => version >= Required[image[i]]

BootInv == Typed /\ OneMigrates /\ Series /\ Passed

-----------------------------------------------------------------------------


LEMMA InitInv == Init => BootInv
  BY BootAssumption
  DEF Init, BootInv, Typed, OneMigrates, Series, Passed, Places, Cleared

\* The process of one instance ends, and its image may be replaced.
LEMMA EndedKeeps ==
  ASSUME BootInv, NEW i \in Instances, Ended(i), UNCHANGED <<applied, schema, version>>,
         image' \in [Instances -> Releases],
         \A j \in Instances \ {i} : image'[j] = image[j]
  PROVE  BootInv'
<1>1. \A j \in Instances \ {i} : /\ pc'[j] = pc[j] /\ todo'[j] = todo[j]
                                 /\ Carried(j)' = Carried(j) /\ Missing(j)' = Missing(j)
  BY DEF BootInv, Typed, Ended, Carried, Missing
<1>2. pc'[i] = "down" /\ Typed'
  BY DEF BootInv, Typed, Ended, Places
<1>3. OneMigrates'
  BY <1>1, <1>2 DEF BootInv, OneMigrates, Ended
<1>4. Series'
  BY DEF BootInv, Series
<1>5. Passed'
  BY <1>1, <1>2 DEF BootInv, Passed, Cleared, Probes
<1> QED
  BY <1>2, <1>3, <1>4, <1>5 DEF BootInv

\* An instance goes on, and nothing else changes but its list and the lock.
LEMMA StepKeeps ==
  ASSUME BootInv, NEW i \in Instances, NEW from \in Places, NEW to \in Places,
         Step(i, from, to), UNCHANGED <<applied, schema, version, image>>,
         todo' \in [Instances -> SUBSET Migrations], lock' \in Instances \cup {Nobody},
         \A j \in Instances \ {i} : todo'[j] = todo[j],
         \A j \in Instances \ {i} : lock = j => lock' = j \/ pc[j] \notin {"validate", "apply"},
         to \in {"validate", "apply"} => lock' = i,
         to = "apply" => applied \subseteq Carried(i) /\ todo'[i] = Missing(i),
         to \in {"probe", "marker", "checked", "started", "serving"} => Carried(i) \subseteq applied,
         to \in {"marker", "checked", "started", "serving"} => Probes,
         to \in {"checked", "started", "serving"} => version >= Required[image[i]]
  PROVE  BootInv'
<1>1. /\ \A j \in Instances \ {i} : pc'[j] = pc[j]
      /\ \A j \in Instances : Carried(j)' = Carried(j) /\ Missing(j)' = Missing(j)
  BY DEF BootInv, Typed, Step, Carried, Missing
<1>2. pc'[i] = to /\ Typed'
  BY DEF BootInv, Typed, Step
<1>3. OneMigrates'
  BY <1>1, <1>2 DEF BootInv, OneMigrates
<1>4. Series'
  BY DEF BootInv, Series
<1>5. Passed'
  BY <1>1, <1>2 DEF BootInv, Passed, Cleared, Probes
<1> QED
  BY <1>2, <1>3, <1>4, <1>5 DEF BootInv

\* The migration that comes next continues the series.
LEMMA ApplyKeeps ==
  ASSUME BootInv, NEW i \in Instances, Apply(i)
  PROVE  BootInv' /\ version' >= version
<1> PICK m \in todo[i] :
      /\ \A n \in todo[i] : m <= n
      /\ applied' = applied \cup {m}
      /\ schema' = [t \in Probed |-> IF t \in Created[m] /\ schema[t] = "absent"
                                     THEN "expected" ELSE schema[t]]
      /\ version' = Marked(m)
      /\ todo' = [todo EXCEPT ![i] = @ \ {m}]
  BY DEF Apply
<1>1. /\ pc[i] = "apply" /\ lock = i /\ UNCHANGED <<pc, image, lock>>
      /\ applied \subseteq Carried(i) /\ todo[i] = Missing(i)
  BY DEF BootInv, OneMigrates, Apply
<1>2. m \in Migrations /\ m \notin applied /\ m \in Nat
  BY <1>1, BootAssumption DEF Missing, Carried
<1>3. \A n \in Migrations : n < m => n \in applied
  <2> SUFFICES ASSUME NEW n \in Migrations, n < m PROVE n \in applied
    OBVIOUS
  <2>1. n \in Nat /\ LastMigration[image[i]] \in Nat
    BY BootAssumption DEF BootInv, Typed
  <2>2. n \in Carried(i)
    BY <1>1, <1>2, <2>1 DEF Carried, Missing
  <2> QED
    BY <1>1, <1>2, <2>1, <2>2 DEF Missing
<1>4. \A n \in applied : n < m
  BY <1>2, BootAssumption DEF BootInv, Typed, Series
<1>5. version' \in Nat /\ version' >= version /\ SetsVersion[m] <= version'
      /\ (version' = SetsVersion[m] \/ version' = version)
  <2>1. SetsVersion[m] \in Nat /\ version \in Nat /\ \A n \in applied : SetsVersion[n] \in Nat
    BY <1>2, BootAssumption DEF BootInv, Typed
  <2>2. CASE SetsVersion[m] > 0
    <3>1. \A n \in applied : SetsVersion[n] <= SetsVersion[m]
      BY <1>2, <1>4, <2>2, BootAssumption DEF BootInv, Typed
    <3> QED
      BY <2>1, <2>2, <3>1 DEF BootInv, Series, Marked
  <2>3. CASE ~(SetsVersion[m] > 0)
    BY <2>1, <2>3 DEF Marked
  <2> QED
    BY <2>2, <2>3
<1>6. Typed'
  BY <1>1, <1>2, <1>5 DEF BootInv, Typed
<1>7. OneMigrates'
  <2>1. \A j \in Instances \ {i} : pc[j] \notin {"validate", "apply"}
    BY <1>1 DEF BootInv, OneMigrates
  <2>2. applied' \subseteq Carried(i)' /\ todo'[i] = Missing(i)'
    BY <1>1, <1>2 DEF BootInv, Typed, Carried, Missing
  <2> QED
    BY <1>1, <2>1, <2>2 DEF OneMigrates
<1>8. Series'
  <2>1. \A n \in applied', l \in Migrations : l < n => l \in applied'
    BY <1>3 DEF BootInv, Series
  <2>2. \A n \in applied' : SetsVersion[n] <= version'
    BY <1>5, BootAssumption DEF BootInv, Typed, Series
  <2>3. version' = 0 \/ \E n \in applied' : SetsVersion[n] = version'
    BY <1>5 DEF BootInv, Series
  <2> QED
    BY <2>1, <2>2, <2>3 DEF Series
<1>9. Passed'
  <2>1. Probes => Probes'
    BY DEF Probes
  <2>2. \A j \in Instances : Carried(j)' = Carried(j)
    BY <1>1 DEF Carried
  <2>3. \A j \in Instances : version >= Required[image[j]] => version' >= Required[image[j]]
    <3>1. version \in Nat /\ \A j \in Instances : Required[image[j]] \in Nat
      BY BootAssumption DEF BootInv, Typed
    <3> QED
      BY <1>5, <3>1
  <2> QED
    BY <1>1, <2>1, <2>2, <2>3 DEF BootInv, Passed, Cleared
<1> QED
  BY <1>5, <1>6, <1>7, <1>8, <1>9 DEF BootInv

-----------------------------------------------------------------------------

\* Every step of a boot, a crash or a deployment keeps the invariant, and the
\* marker does not fall.
LEMMA NextKeeps ==
  ASSUME BootInv, [Next]_vars
  PROVE  BootInv' /\ version' >= version
<1>0. Typed /\ version >= version
  BY DEF BootInv, Typed
<1>1. ASSUME NEW i \in Instances, Apply(i) PROVE BootInv' /\ version' >= version
  BY <1>1, ApplyKeeps
<1>2. ASSUME NEW i \in Instances, NEW place, ExitsAt(i, place)
      PROVE  BootInv' /\ version' >= version
  BY <1>0, <1>2, EndedKeeps DEF ExitsAt, Typed
<1>3. ASSUME NEW i \in Instances, Crash(i) PROVE BootInv' /\ version' >= version
  BY <1>0, <1>3, EndedKeeps DEF Crash, Typed
<1>4. ASSUME NEW i \in Instances, NEW r \in Releases, Deploy(i, r)
      PROVE  BootInv' /\ version' >= version
  BY <1>0, <1>4, EndedKeeps DEF Deploy, Typed
<1>5. ASSUME NEW i \in Instances, Start(i) PROVE BootInv' /\ version' >= version
  BY <1>0, <1>5, StepKeeps DEF Start, Typed, Places
<1>6. ASSUME NEW i \in Instances, Configure(i) PROVE BootInv' /\ version' >= version
  BY <1>0, <1>6, StepKeeps DEF Configure, Typed, Places
<1>7. ASSUME NEW i \in Instances, LockMigrations(i)
      PROVE  BootInv' /\ version' >= version
  BY <1>0, <1>7, StepKeeps, BootAssumption DEF LockMigrations, Typed, Places
<1>8. ASSUME NEW i \in Instances, Validate(i) PROVE BootInv' /\ version' >= version
  <2>1. lock = i
    BY <1>8 DEF Validate, Step, BootInv, OneMigrates
  <2>2. todo' \in [Instances -> SUBSET Migrations]
    BY <1>0, <1>8 DEF Validate, Missing, Carried, Typed
  <2> QED
    BY <1>0, <1>8, <2>1, <2>2, StepKeeps DEF Validate, Typed, Places
<1>9. ASSUME NEW i \in Instances, Migrated(i) PROVE BootInv' /\ version' >= version
  <2>1. lock = i /\ Carried(i) \subseteq applied
    BY <1>9 DEF Migrated, Step, BootInv, OneMigrates, Missing
  <2> QED
    BY <1>0, <1>9, <2>1, StepKeeps DEF Migrated, Typed, Places
<1>10. ASSUME NEW i \in Instances, ProbePasses(i) PROVE BootInv' /\ version' >= version
  <2>1. Carried(i) \subseteq applied
    BY <1>10 DEF ProbePasses, Step, BootInv, Passed
  <2> QED
    BY <1>0, <1>10, <2>1, StepKeeps DEF ProbePasses, Typed, Places
<1>11. ASSUME NEW i \in Instances, MarkerPasses(i) PROVE BootInv' /\ version' >= version
  <2>1. Carried(i) \subseteq applied /\ Probes /\ version >= Required[image[i]]
    BY <1>0, <1>11 DEF MarkerPasses, MarkerMatches, Step, BootInv, Passed
  <2> QED
    BY <1>0, <1>11, <2>1, StepKeeps DEF MarkerPasses, Typed, Places
<1>12. ASSUME NEW i \in Instances, StartTasks(i) PROVE BootInv' /\ version' >= version
  <2>1. Carried(i) \subseteq applied /\ Probes /\ version >= Required[image[i]]
    BY <1>12 DEF StartTasks, Step, BootInv, Passed, Cleared
  <2> QED
    BY <1>0, <1>12, <2>1, StepKeeps DEF StartTasks, Typed, Places
<1>13. ASSUME NEW i \in Instances, Serve(i) PROVE BootInv' /\ version' >= version
  <2>1. Carried(i) \subseteq applied /\ Probes /\ version >= Required[image[i]]
    BY <1>13 DEF Serve, Step, BootInv, Passed, Cleared
  <2> QED
    BY <1>0, <1>13, <2>1, StepKeeps DEF Serve, Typed, Places
<1>14. CASE UNCHANGED vars
  BY <1>0, <1>14
  DEF BootInv, Typed, OneMigrates, Series, Passed, Cleared, Probes, Carried, Missing
<1> QED
  BY <1>1, <1>2, <1>3, <1>4, <1>5, <1>6, <1>7, <1>8, <1>9, <1>10, <1>11, <1>12, <1>13, <1>14
  DEF Next, Boots, ConfigRefused, NewerDatabase, ApplyFails, ProbeFails, MarkerFails

LEMMA Invariant == Spec => []BootInv
<1>1. BootInv /\ [Next]_vars => BootInv'
  BY NextKeeps
<1> QED
  BY <1>1, InitInv, PTL DEF Spec

(***************************************************************************)
(* An instance in service stands on the tables it probed and on its own    *)
(* migrations, under a marker not below the version it requires, whatever  *)
(* other releases do to the database later.                                *)
(***************************************************************************)
THEOREM ServesSound == Spec => []ServesOnItsTables
<1>1. BootInv => ServesOnItsTables
  BY DEF BootInv, Passed, Probes, ServesOnItsTables, InService, Cleared
<1> QED
  BY <1>1, Invariant, PTL

\* Everything stays in its range: in particular, a marker that was not
\* written by some migration is never seen.
THEOREM TypeCorrect == Spec => []TypeOK
<1>1. BootInv => /\ pc \in [Instances -> Places]
                 /\ image \in [Instances -> Releases]
                 /\ todo \in [Instances -> SUBSET Migrations]
                 /\ lock \in Instances \cup {Nobody}
                 /\ applied \subseteq Migrations
                 /\ schema \in [Probed -> {"absent", "expected", "other"}]
  BY DEF BootInv, Typed
<1>2. BootInv => version \in {0} \cup Range(SetsVersion)
  BY BootAssumption DEF BootInv, Typed, Series, Range
<1>3. Init => provided \in BOOLEAN
  BY DEF Init
<1>4. provided \in BOOLEAN /\ [Next]_vars => (provided \in BOOLEAN)'
  BY DEF Next, Boots, Start, Configure, ConfigRefused, LockMigrations, NewerDatabase,
         Validate, Apply, ApplyFails, Migrated, ProbePasses, ProbeFails, MarkerPasses,
         MarkerFails, StartTasks, Serve, Deploy, Crash, ExitsAt
<1>5. Spec => [](provided \in BOOLEAN)
  BY <1>3, <1>4, PTL DEF Spec
<1>6. BootInv /\ provided \in BOOLEAN => TypeOK
  BY <1>1, <1>2 DEF TypeOK
<1> QED
  BY <1>5, <1>6, Invariant, PTL

\* The version marker never goes back, in any order of boots and crashes.
THEOREM VersionRises == Spec => VersionNeverFalls
<1>1. BootInv /\ [Next]_vars => [version' >= version]_vars
  BY NextKeeps
<1> QED
  BY <1>1, Invariant, PTL DEF Spec, VersionNeverFalls

(***************************************************************************)
(* No instance gets past the boot checks of a release that a migration in  *)
(* the database has left behind, whoever applied it and whenever: the      *)
(* marker it reads is the highest version that any of them sets.           *)
(***************************************************************************)
THEOREM ChecksHold == Spec => PassesOnItsVersion
<1> DEFINE Passes ==
      \A i \in Instances :
        ~Cleared(i) /\ Cleared(i)' =>
          \A m \in applied : SetsVersion[m] <= Required[image[i]]
<1>1. ASSUME BootInv, [Next]_vars PROVE [Passes]_vars
  <2> SUFFICES ASSUME NEW i \in Instances, ~Cleared(i), Cleared(i)'
               PROVE  MarkerPasses(i)
    BY <1>1 DEF MarkerPasses, MarkerMatches, BootInv, Series
  <2>1. \A j \in Instances : pc' # [pc EXCEPT ![j] = "down"]
    BY <1>1 DEF BootInv, Typed, Cleared
  <2> QED
    BY <1>1, <2>1
    DEF Next, Boots, Start, Configure, ConfigRefused, LockMigrations, NewerDatabase,
        Validate, Apply, ApplyFails, Migrated, ProbePasses, ProbeFails, MarkerPasses,
        MarkerFails, StartTasks, Serve, Deploy, Crash, ExitsAt, Ended, Step, Cleared,
        BootInv, Typed
<1> QED
  BY <1>1, Invariant, PTL DEF Spec, PassesOnItsVersion

=============================================================================
