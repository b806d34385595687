SPECIFICATION Spec
INVARIANTS TypeOK BatchOnNewest SomeoneCanWrite
PROPERTY RaisedIsOver
CHECK_DEADLOCK FALSE
CONSTANTS
    Instance = {api1, api2}
    MaxCalls = 6
    MaxRestarts = 1
