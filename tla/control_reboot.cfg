SPECIFICATION ControlSpec
CONSTANTS
    q1 = q1
    q2 = q2
    Requests <- OneRequest
    MaxFailures = 0
    MaxReboots = 1
INVARIANT
    SettingsInForce
