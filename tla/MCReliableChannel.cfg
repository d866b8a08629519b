CONSTANTS
  Modulus = 10
  ReceiveWindow = 2
  MaxRetries = 1
  Zlb = Zlb
  NoMsg = NoMsg
  MaxSent <- OneWayOrBoth
  MaxOutstanding = 4
  MaxAge = 5
  MaxInFlight = 2
SPECIFICATION FairSpec
INVARIANTS TypeOK ExactlyOnceInOrder NothingForgotten BufferInWindow IndInv
PROPERTIES EventuallySettled ImplementsFifo
CHECK_DEADLOCK FALSE
