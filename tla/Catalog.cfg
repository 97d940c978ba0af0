\* Two runners, one test and one save at a time, one change of each kind.
CONSTANTS
    Runners = {1, 2}
    Urls = {"u1", "u2"}
    Manifests <- MCManifests
    FirstManifest <- MCFirstManifest
    Registered <- MCRegistered
    Drafts <- MCDrafts
    Loop = Loop
    Admins = {a1}
    Editors = {e1}
    Workflows = {1}
    NoUrl = "none"
    MaxVersions = 1
    MaxEdits = 1
    MaxChanges = 1
SPECIFICATION CatalogFairSpec
INVARIANTS CatalogTypeOK SnapshotsAccepted ReportIsSound KnownFromItsUrl
PROPERTIES HealthConverges
