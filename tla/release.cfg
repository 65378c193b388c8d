\* The runs of several tags, one after the other or at once.
SPECIFICATION Spec
CONSTANTS
    MaxVersion = 3
    MaxCommits = 2
    MaxFaults = 1
INVARIANTS
    IndexNamesReleases
    ManifestNotOlder
    LatestIsNewest
    SlimIsNewest
PROPERTIES
    EntriesStay
\* All tags are released, or failed for good.
CHECK_DEADLOCK FALSE
