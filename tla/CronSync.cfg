CONSTANTS
    t1 = t1
    t2 = t2
    c1 = c1
    c2 = c2
    c3 = c3
    Tenants = {t1, t2}
    Crons = {c1, c2, c3}
    TenantOf <- OneOrTwo
    Valid = {c1, c2}
    Reconciles = {1, 2}
SPECIFICATION FairSpec
PROPERTIES KeepsWhatIsFirable TasksFollowTheRows
