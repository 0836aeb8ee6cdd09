CONSTANTS
    Handlers = {"depth", "mux"}
    Kinds = {"cmd", "block", "hwmc", "once"}
    Budgets <- MCBudgets
    MaxFaults = 2
    Free = Free
    Active = {"depth", "ir"}
SPECIFICATION Spec
INVARIANTS OwnAnswer UpdateSound FlagAgrees DataTypeRight
PROPERTIES CallsEnd
CHECK_DEADLOCK FALSE
