\* A loader of one cell and a writer of two; three addresses for their values.
CONSTANTS
    Loaders = {"r"}
    Writers = {"w"}
    SwapCells = {"x", "y"}
    OptionCells = {}
    Addresses = {1, 2, 3}
    MaxGuards <- GuardLimits
    MaxValues = 5
SPECIFICATION SwSpec
PROPERTIES
    LoadReturnsHeld
CHECK_DEADLOCK FALSE
