SPECIFICATION ToolsSpec
CONSTANTS
    CapabilityOrder <- MCCapabilities
    IdOrder <- MCIds
    Paths <- MCPaths
    Directories <- MCDirectories
    Commands <- MCCommands
    Profiles <- MCProfiles
    Bytes = {0, 1}
    MaxChunks = 2
    MaxEdits = 1
    MaxRuns = 2
    PageSize = 2
    StackBase = 6
    StackBytes = 2
    Word = 64
    Identifiers = {"app", "tool", "i686", "i686-zenov-none", "any"}
    LowerNames = {"app", "tool"}
    Versions <- MCVersions
    Entrypoints <- MCEntrypoints
    Padded <- MCPadded
    Requirements <- MCRequirements
    NativeRequirements = {"tool@0.2"}
    MaxManifest = 20
    MaxNativeManifest = 18
    MaxPayload = 9
    PackageLimit = 20
    Trailer = 2
    IsoOffset = 2
    Names <- MCNames
    Setups <- MCSetups
    Contents <- MCContents
    Directory <- MCDirectory
    CommandLines <- MCCommandLines
    Chunk = 3
    HeadSample = 3
    MaxRewrites = 1
    MaxJobs = 1
INVARIANTS
    ReadyPlanClosed
    PlanIndependentOfNames
    DigestOfOneContent
    VerifiedIsCanonical
    ImportedRuns
    ProbeExact
CHECK_DEADLOCK FALSE
