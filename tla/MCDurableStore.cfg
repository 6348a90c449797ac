SPECIFICATION Spec
CONSTANTS
    RecordKinds <- MCKinds
    BodyCells <- MCBodyCells
    max_journal_records = 2
    Documents = {"doc1", "doc2"}
    MaxItems = 3
    MaxSeq = 4
INVARIANTS
    SnapshotNeverTorn
    SequencesIncrease
PROPERTIES
    ImplementsJournal
    ForcedPrefixKept
CHECK_DEADLOCK FALSE
