\* The collector restarts inside a maintenance window.
CONSTANTS
    Cooldown = 3
    WarnHold = 1
    Worlds <- OnlyDeathInWindow
SPECIFICATION Spec
INVARIANT OpenOnlyInEffect
