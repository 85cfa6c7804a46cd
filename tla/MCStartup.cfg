CONSTANTS
    Servers = {s1, s2}
    Tools = {t1}
    LastVersion = 2
    Guarded = {2}
    Ids = {i1, i2}
    Names = {admin, other}
    Admin = admin
    NoUser = NoUser
    MaxFaults = 2
SPECIFICATION FairSpec
INVARIANTS TypeOK IndexNeverRefused
PROPERTIES RefinesUpgrade QuietUntilEnabled ServersServe
