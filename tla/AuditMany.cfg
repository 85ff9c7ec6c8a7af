CONSTANTS
    t1 = t1
    t2 = t2
    w1 = w1
    w2 = w2
    w3 = w3
    Tenants = {t1, t2}
    Writers = {w1, w2, w3}
    Owner <- TwoAndOne
    Bodies = {"a", "b"}
    MaxSeq = 4
SPECIFICATION FairSpec
INVARIANTS TypeOK EveryEventContinues BreaksAreForks
PROPERTIES EveryRecordEnds IsAppendOnly
