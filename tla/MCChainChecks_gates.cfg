SPECIFICATION Spec
INVARIANTS TypeOK PathLenAsRFC CountersAreDue PlainAnswer AnswerIsConnected NoInhibitedMapping
CHECK_DEADLOCK FALSE
CONSTANTS
    a = a
    b = b
    c = c
    AnyPolicy = AnyPolicy
    Kind = {"dns", "uri"}
    Policy <- MCPolicy
    Name <- MCName
    Input <- GateInput
