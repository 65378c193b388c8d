\* The push fails after the release was created.
SPECIFICATION FairSpec
CONSTANTS
    MaxVersion = 1
    MaxCommits = 4
    MaxFaults = 0
PROPERTIES
    ReleasedIsIndexed
CHECK_DEADLOCK FALSE
