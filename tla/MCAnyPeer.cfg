SPECIFICATION FairSpec
CONSTANTS
    Modulus = 16
    ReceiveWindow = 1
    MaxRetries = 1
    Zlb = Zlb
    NoMsg = NoMsg
    None = None
    EmptyCookie = EmptyCookie
    PwA = PwA
    C1 = C1
    C2 = C2
    C3 = C3
    Cfg <- Config
    Bodies <- PeerBodies
    Commands <- IpCommands
    Bounds <- LongOrLate
INVARIANTS
    TypeOK
    HelloIffEstablished
    NetdevOfHandshake
    
    NetdevMissing
PROPERTY
    SilentPeerNoticed
CHECK_DEADLOCK FALSE
