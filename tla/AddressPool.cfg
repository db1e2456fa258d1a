CONSTANT Width = 4
SPECIFICATION PoolSpec
INVARIANTS
    PoolIsTheRange
PROPERTY PoolGetsBuilt
