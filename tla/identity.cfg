SPECIFICATION IdentitySpec
CONSTANTS
    Root = Root
    Maya = Maya
    Pia = Pia
    Ana = Ana
    Luis = Luis
    Boxes = {Root, Maya, Pia, Ana, Luis}
    Typed <- MCTyped
    Worlds <- MCWorlds
    MaxUsers = 5
    MaxClients = 4
    MaxCalls = 4
    ada = ada
    pia = pia
    cleo = cleo
    tom = tom
    People = {ada, pia, cleo, tom}
    Nobody = Nobody
    d1 = d1
    d2 = d2
    Domains = {d1, d2}
    NoDomain = NoDomain
    Platform = Platform
    b1 = b1
    b2 = b2
    Browsers = {b1, b2}
    Scenes <- MCScenes
    MaxAttempts = 2
    MaxResends = 1
    MaxChallenges = 2
    MaxLoginCalls = 7
INVARIANTS
    AdminRemains
    NoTwins
    EmailsAgree
    OnePortal
    OriginsAreLive
    OneCode
    OperatorKept
PROPERTIES
    SessionsFit
    ViewsOpen
CHECK_DEADLOCK FALSE
