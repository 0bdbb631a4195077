CONSTANTS
  MAX_FILES = 16
  DIR_ENTRY_BYTES = 72
  SECTOR_SIZE = 512
  MAX_FILE_NAME_BYTES = 48
  TotalSectors = 13
  SectorUnits = 2
  Zero = Zero
  NoName = NoName
  Garbled = Garbled
  NoSb = NoSb
  NoFile = NoFile
  A = A  B = B  X = X  Y = Y
  P1 = P1  P2 = P2  P3 = P3  P4 = P4  P5 = P5  P6 = P6  P7 = P7
  Symbols = {X, Y}
  Names <- MCNames
  NameLen <- MCNameLen
  OpNames = {A, B}
  DataInputs <- MCDataInputs
  PreFiles <- MCPreFiles
  MaxFaults = 1
  BlankBoot = FALSE
SPECIFICATION Spec
INVARIANT TypeOK
INVARIANT MemExtentsAllocated
INVARIANT DiskExtentsAllocated
INVARIANT OkIsDurable
INVARIANT MountableWithoutFaults
INVARIANT ReadAllowedWithoutFaults
