SPECIFICATION HistorySpec
CONSTANTS
    Agent = {a1}
    Socket = {s1, s2, s3}
    IP = {ip1, ip2}
    ViewerTtls = {2}
    HttpTtls = {1}
    MaxSkew = 1
    MaxViewers = 2
    MaxViewersPerIp = 1
    AllowRestart = TRUE
    None = None
VIEW View
SYMMETRY Symmetry
INVARIANTS SessionIndex ViewerLimits ViewerDeadlineArmed AdminScreenUntilEvicted
    PublicScreenUntilEvicted OneAgentUntilEvicted ClientDeadlineUntilEvicted
