SPECIFICATION Spec
CONSTANTS
    r0 = r0
    r1 = r1
    misc = misc
    ArchRegs = {r0, r1}
    MiscRegs = {misc}
    PhysRegs = {p1, p2, p3, p4}
    Platforms <- MCPlatforms
SYMMETRY Symmetry
INVARIANTS RegistersConserved OwnedNotFree MapsAgree NothingLost AssertionsHold Serialized NoLostWakeup
