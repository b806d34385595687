SPECIFICATION Spec
PROPERTY RaisesOnlyUnderContention
CHECK_DEADLOCK FALSE
CONSTANTS
    Instance = {api1, api2}
    MaxCalls = 4
    MaxRestarts = 0
