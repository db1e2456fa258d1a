CONSTANTS
    m1 = m1
    m2 = m2
    Macs = {m1, m2}
    NoMac = NoMac
    lan1 = lan1
    lan2 = lan2
    wan1 = wan1
    LanIps = {lan1, lan2}
    WanIps = {wan1}
    RouterIp = RouterIp
    BcastIp = BcastIp
    NoIp = NoIp
    MaxInbox = 2
SPECIFICATION Spec
SYMMETRY Symmetry
INVARIANTS
    CacheFollowsOwners
PROPERTIES
    WanReachesOwner
    AnswersReturnToAsker
