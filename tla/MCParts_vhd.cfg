SPECIFICATION Spec
CONSTANTS
  Inodes = {1, 2, 3}
  ArchiveSessions = {1, 2, 3}
  ArchiveThreads = {a1, a2}
  MaxRecords = 2
  MaxArchiveOps = 3
  AuditEvents = {"scan"}
  MaxAuditId = 4
  MaxAuditRuns = 3
  Savers = {p1, p2}
  MaxSchedulers = 3
  PollsPerTick = 2
  Targets = {"photos", "docs"}
  MaxPerTarget = 2
  MaxSnapshots = 3
  Agents = {"lab", "attic"}
  MaxRegistryOps = 5
  MaxPulls = 2
  Containers = {"a"}
  MaxSourceWrites = 4
  ByteXor <- BitwiseXor
  CarvingChunkSize = 6
  CarvingOverlapSize = 3
  ErasedPageSize = 3
  FragmentGapMinSize = 2
  MaxRemovableGaps = 2
  MaxAssemblySegments = 3
  MaxFragmentGapCandidates = 4
  MinSegmentSize = 4
  MinGrainEntries = 2
  MibSectors = 16
  ScanLimit = 64
  RaidArrays <- SmallArrays
  Captures <- SmallCaptures
  CarvedImages <- SmallCarvedImages
  DiskFiles <- SmallDiskFiles
  SourceDisks <- SmallSourceDisks
  ScanResults <- SmallScanResults
  Machines = {}
  Readers = {"vdisk"}
INVARIANT BitmapIsOneSector
SYMMETRY Symmetry
CHECK_DEADLOCK FALSE
