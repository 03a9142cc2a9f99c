CONSTANTS
    Combos <- Bound
    Codes = {1, 2}
    Keymaps <- Layouts
    Contested <- Wanted
    MaxBindings = 2
    MaxEvents = 2
SPECIFICATION Spec
CHECK_DEADLOCK FALSE
INVARIANTS
    GrabsFollowKeymap
