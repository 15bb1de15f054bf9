CONSTANTS
    Nodes <- Registry
    Submissions <- ArmOnly
    MaxDisturbances = 1
SPECIFICATION Spec
INVARIANT PlacementFiltered
