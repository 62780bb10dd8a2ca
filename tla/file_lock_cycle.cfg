CONSTANTS
    p1 = p1
    p2 = p2
    i1 = i1
    i2 = i2
    Nobody = Nobody
    Thread = {p1, p2}
    Owner = {p1, p2}
    Inode = {i1, i2}
    OffMax = 0
    Depth = 4
    Mine <- MCMine
    Flock <- MCFlockOne
SPECIFICATION Spec
INVARIANT NoCycleSleeps
CHECK_DEADLOCK FALSE
