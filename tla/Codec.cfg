\* A caller who applies one config until there is nothing left to set; and
\* every property string of up to three items.
SPECIFICATION PSpec
CONSTANTS
    Scalars = {"cores", "onboot", "nodes", "position"}
    Families = {"virtio", "virtiofs"}
    Name <- FieldName
    Kind <- FieldKind
    Pointers = {"onboot", "nodes"}
    ReadOnly = {"position"}
    MaxIndex = 11
    Mantissa = 3
    Nil = Nil
    Words <- TextWords
    Files <- ConfigFiles
    Structs <- Configs
    MaxCommands = 2
    Properties <- Disk
    Items <- DiskItems
    Givens <- Disks
    MaxInt = 12
    MaxItems = 3
INVARIANTS
    Idempotent
    Applied
    FailsForCause
    ItemsInPlace
    Reread
PROPERTIES
    LeftAlone
