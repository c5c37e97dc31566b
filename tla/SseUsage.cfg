SPECIFICATION Spec
CONSTANTS
    UsageAtoms <- MCUsageAtoms
    RawUsage <- MCRawUsage
    NotInt = NotInt
    NoUsage = NoUsage
    Streams <- MCStreams
INVARIANTS
    TypeOK
    ChunkingIrrelevant
    ZeroBillsExplained
