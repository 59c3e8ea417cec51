SPECIFICATION CuratorSpec
CONSTANTS
    Curators = {"A", "B"}
    MaxWrites = 1
    MaxSwitches = 2
INVARIANTS FiguresAreOfTheWallet
CHECK_DEADLOCK FALSE
