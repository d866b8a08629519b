SPECIFICATION FairSpec
CONSTANTS
    Modulus = 16
    ReceiveWindow = 4
    MaxRetries = 3
    Zlb = Zlb
    NoMsg = NoMsg
    None = None
    EmptyCookie = EmptyCookie
    PwA = PwA
    PwB = PwB
    C1 = C1
    C2 = C2
    Secret = Secret
    Scenario <- BringUp
INVARIANTS
    SettledSessionsAgree
    DeadOnlyAfterFault
PROPERTIES
    SessionsComeUp
    TunnelComesUp
CHECK_DEADLOCK FALSE
