CONSTANTS
    Results <- MCResults
    SafeName <- MCSafeName
    Selections <- MCSelections
    Strategies <- AllStrategies
    Destinations <- MCDestinations
    Occupied <- MCOccupied
    MaxForeign = 1
    MaxFiles = 2
    Unresolved = Unresolved
SPECIFICATION Spec
CHECK_DEADLOCK FALSE
INVARIANTS WholeArtifacts ManifestTruthful UserFilesKept CleanEnd
PROPERTIES ImplementsPromise ExportEnds
