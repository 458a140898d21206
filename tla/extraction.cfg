SPECIFICATION MCSpec
CONSTANT Entries <- MCEntries
CONSTANT MaxEntries = 3
CONSTANT MakesSpecials = TRUE
CONSTANT Hosts <- MCHosts
CONSTANT TempNames <- MCTempNames
CONSTANT HostNames = {"a", "b"}
CONSTANT Chunks = 2
CONSTANT Worlds <- MCWorlds
INVARIANT PlanTopology
INVARIANT PlanLinksBack
INVARIANT ReportIsTrue
INVARIANT DirectoryModes
INVARIANT WholeEntriesOnly
PROPERTY HostObjectsKept
CHECK_DEADLOCK FALSE
