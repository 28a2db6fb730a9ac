SPECIFICATION FairSpec
CONSTANTS
  e1 = e1
  e2 = e2
  e3 = e3
  Nobody = Nobody
  Instances = {e1}
  Misconfigured = {}
  Releases <- MCReleases
  LastMigration <- MCLastMigration
  Required <- MCRequired
  Created <- MCCreated
  SetsVersion <- MCSetsVersion
  Probed <- MCTables
  Schemas <- MCSchemas
  MaxDeploys = 0
  MaxCrashes = 0
INVARIANT
  EmptyDatabaseRefused
