SPECIFICATION FairPageSpec
CONSTANTS
    PageSocket = {s1, s2}
    Break = 1
    MaxConnects = 2
    MaxOld = 1
    MaxMounts = 1
    NoSocket = NoSocket
INVARIANT NeverStalls
PROPERTY PageStaysFed
