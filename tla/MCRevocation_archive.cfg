SPECIFICATION Spec
INVARIANT ArchiveCounts
CHECK_DEADLOCK FALSE
CONSTANTS
    None = None
    Input <- ArchiveInput
