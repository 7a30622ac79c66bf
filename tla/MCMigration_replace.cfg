CONSTANTS
    n1 = n1
    n2 = n2
    n3 = n3
    k1 = k1
    k2 = k2
    w1 = w1
    FirstVal = FirstVal
    NoVal = NoVal
    Nodes = {n1, n2, n3}
    Joining = {n3}
    Keys = {k1, k2}
    Old <- MCOld
    New <- MCNew
    Writers = {w1}
    Entry = {n2}
    WrittenKeys = {k2}
    MaxBegins = 2
SPECIFICATION MigrationSpec
INVARIANT KeyKept
 
 
CHECK_DEADLOCK FALSE
