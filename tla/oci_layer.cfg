SPECIFICATION MCSpec
CONSTANT Entries <- MCEntries
CONSTANT MaxEntries = 3
CONSTANT Worlds <- MCWorlds
CONSTANT MakesSpecials = FALSE
CONSTANT Hosts <- MCHosts
CONSTANT TempNames <- MCTempNames
CONSTANT HostNames = {}
CONSTANT Chunks = 1
CONSTANT WhiteoutOf <- MCWhiteoutOf
INVARIANT LowerKept
INVARIANT CleanMeansOverlay
CHECK_DEADLOCK FALSE
