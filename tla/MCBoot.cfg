SPECIFICATION FairSpec
CONSTANTS
  e1 = e1
  e2 = e2
  e3 = e3
  Nobody = Nobody
  Instances = {e1, e2, e3}
  Misconfigured = {e3}
  Releases <- MCReleases
  LastMigration <- MCLastMigration
  Required <- MCRequired
  Created <- MCCreated
  SetsVersion <- MCSetsVersion
  Probed <- MCTables
  Schemas <- MCSchemas
  MaxDeploys = 2
  MaxCrashes = 1
INVARIANTS
  TypeOK
  ServesOnItsTables
PROPERTIES
  VersionNeverFalls
  PassesOnItsVersion
  NewestServes
