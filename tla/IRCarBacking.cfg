SPECIFICATION Spec
CONSTANTS
    maxSpeed = 6
    maxTurn = 2
INVARIANT BackingSlowsSideNamed
