SPECIFICATION UpkeepSpec
CONSTANTS
    Instances = {i1, i2}
    Orders = {o1, o2}
    Stuck = {o1}
    Reservations = {r1}
    OrderBatch = 1
    MaxPerSweep = 1
    MaxStops = 1
PROPERTIES OrdersTurn ReadsCatchUp
CHECK_DEADLOCK FALSE
