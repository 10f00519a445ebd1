CONSTANTS
    Workers = {w1, w2}
    w1 = w1
    w2 = w2
    Mails = {ana, leo}
    Partners = {pia}
    ana = ana
    leo = leo
    pia = pia
    Platform = Platform
    acme = acme
    zeta = zeta
    Llcs = {acme, zeta}
    NoLlc = NoLlc
    Files <- MCFiles
    Worlds <- MCWorlds
    MaxRequests = 4
    MaxFolders = 3
    MaxTwins = 2
    MaxCalls = 3
SPECIFICATION Spec
INVARIANTS RightFolder OneFolder OnceEach
CHECK_DEADLOCK FALSE
