\* Every text of up to five lines, with two snapshots and lines of all kinds;
\* and the fake node's commands on those of up to three.
SPECIFICATION FakeSpec
CONSTANTS
    PlainKeys = {"cores"}
    HashKeys = {"#note"}
    Values = {"1", "2"}
    Texts = {"text"}
    NoText = NoText
    Snapshots <- SnapshotNames
    MaxLines = 5
    FlagKeys = {"balloon", "cores"}
    FieldOrder <- KeyOrder
    Descriptions <- SetTo
    MaxSeed = 3
    MaxCommands = 2
CHECK_DEADLOCK FALSE
INVARIANTS
    SectionsRight
    RoundTrip
    Reparse
PROPERTIES
    SetMerges
