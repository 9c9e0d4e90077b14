\* The collector dies after an incident and before its state is saved.
CONSTANTS
    Cooldown = 3
    WarnHold = 1
    Worlds <- OnlyOneDeath
SPECIFICATION Spec
INVARIANT OpenRowIsTracked
