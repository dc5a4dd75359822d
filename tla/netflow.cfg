SPECIFICATION FairSpec
CONSTANTS
    Source = {"r1", "r2"}
    SourceHash <- Apart
    TemplateId = {256, 320}
    TEMPLATES_PER_SOURCE = 64
    Layout <- Layouts
    Uses <- TwoExporters
    None = None
    V5 = V5
    Zeroes = Zeroes
    MaxRecords = 2
    MaxSent = 3
    Padding = {0, 3}
INVARIANTS
    TypeOK
PROPERTIES
    MisreadHasCause
    NoPhantomRecord
    DataCounted
    HandlerReturns
