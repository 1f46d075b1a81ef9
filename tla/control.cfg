SPECIFICATION PromptSpec
CONSTANTS
    q1 = q1
    q2 = q2
    Requests <- OneRequest
    MaxFailures = 1
    MaxReboots = 1
INVARIANTS
    ChannelsTellStatus
    StoppedHasNoLoop
    SettingsTakeEffect
PROPERTIES
    PauseSuspends
