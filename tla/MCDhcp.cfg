CONSTANTS
    m1 = m1
    m2 = m2
    Macs = {m1, m2}
    Addrs <- MCAddrs
    Pool <- MCPool
    NoMac = NoMac
    NoIp = NoIp
    MaxInbox = 2
    MaxReplies = 1
SYMMETRY Symmetry
SPECIFICATION Spec
INVARIANTS
    PoolConserved
    GrantsAreOwned
    NoSharedAddress
PROPERTY ImplementsLeaseBook
