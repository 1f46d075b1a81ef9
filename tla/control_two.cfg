SPECIFICATION ControlSpec
CONSTANTS
    q1 = q1
    q2 = q2
    Requests <- TwoRequests
    MaxFailures = 0
    MaxReboots = 0
INVARIANTS
    RescanIsPaused
\*  SettingsTakeEffect
