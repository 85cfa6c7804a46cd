CONSTANTS
    Servers = {s1}
    Tools = {}
    LastVersion = 1
    Guarded = {}
    Ids = {i1}
    Names = {admin, other}
    Admin = admin
    NoUser = NoUser
    MaxFaults = 1
SPECIFICATION Spec
PROPERTIES RestoredStartsQuiet
