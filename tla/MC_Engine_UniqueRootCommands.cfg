CONSTANTS
    Names <- MCNames
    Builtins <- MCBuiltins
    MaxEntries = 3

SPECIFICATION Spec

\* Start-up ends in Execute or in an exit.
CHECK_DEADLOCK FALSE

INVARIANT
    UniqueRootCommands
