CONSTANTS
  BlockSize = 2
  MaxVatDiscovery = 4
  MaxVatHistory = 3
  Anchor = 1
  MaxFsdExtents = 2
  Buffer = 2
  Supported = {102, 150, 200, 201, 250, 260}
CONSTANTS
  VolumeSequence <- ParseVolumeSequence
  FileSets <- FileSetSequence
  FileEntry <- ParseFileEntry
  NextRecord <- NextFid
SPECIFICATION Spec
INVARIANT IndexIsOneCopy
INVARIANT ContentIsTheFile
INVARIANT SoundIsRead
PROPERTY EveryStepAdvances
