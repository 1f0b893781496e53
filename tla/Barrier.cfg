CONSTANTS
    t1 = t1
    t2 = t2
    t3 = t3
    t4 = t4
    Threads = {t1, t2, t3, t4}
    Modulus = 2
    Rounds = 4
SPECIFICATION FairBarrierSpec
INVARIANTS RoundsSeparate
PROPERTIES WaitReturns
