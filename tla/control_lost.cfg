SPECIFICATION ControlSpec
CONSTANTS
    q1 = q1
    q2 = q2
    Requests <- OneRequest
    MaxFailures = 0
    MaxReboots = 0
PROPERTIES
    PauseSuspends
\*  ResumeUnpauses
