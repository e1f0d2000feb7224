SPECIFICATION Simulation
CONSTANTS
    Sessions <- MCSessions
    Draw <- MCDraw
    Price <- MCPrice
    TaxRate = 800
    EndAt <- MCEnd
    ReorderPoint = 2
    FirstStock = 5
    Null = Null
INVARIANTS
    GeneratedIsValid
    OneStoryPerOrder
CHECK_DEADLOCK FALSE
