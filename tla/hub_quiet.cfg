SPECIFICATION FairSpec
CONSTANTS
    Agent = {a1}
    Socket = {s1, s2}
    IP = {ip1}
    ViewerTtls = {2}
    HttpTtls = {1}
    MaxSkew = 1
    MaxViewers = 2
    MaxViewersPerIp = 2
    AllowRestart = TRUE
    None = None
PROPERTY ExpiredViewerRemovedOnceQuiet
