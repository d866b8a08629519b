SPECIFICATION Spec
CONSTANTS
    Modulus = 16
    ReceiveWindow = 4
    MaxRetries = 1
    Zlb = Zlb
    NoMsg = NoMsg
    None = None
    EmptyCookie = EmptyCookie
    PwA = PwA
    PwB = PwB
    C1 = C1
    C2 = C2
    Secret = Secret
    Scenario <- PeerRestart
INVARIANTS
    NobodyWaitsInVain
CHECK_DEADLOCK FALSE
