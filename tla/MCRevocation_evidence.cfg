SPECIFICATION Spec
INVARIANTS TypeOK Grounded RecordIsTrue NewestDecides FallbackExplained
CHECK_DEADLOCK FALSE
CONSTANTS
    None = None
    Input <- EvidenceInput
