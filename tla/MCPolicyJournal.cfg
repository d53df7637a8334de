CONSTANTS
    zgdb = zgdb
    zcap = zcap
    zmid = zmid
    NoDomain = NoDomain
    Domains <- MCDomains
    Audited <- MCAudited
    SeedVersion = 2
    MaxVersion = 4
    MaxEvents = 2
    LastGeneration = TRUE
SPECIFICATION Spec
INVARIANTS
    Bootable
    HotJournalIsolated
    ReadyMeansWhole
    EnforcedIsDurable
    AuditExact
PROPERTIES
    GenerationSteps
    UpdateEnds
