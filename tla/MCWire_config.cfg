SPECIFICATION Spec
CONSTANTS
    None = None
    Negative = Negative
    Keystream <- Stream
    Documents <- AllFiles
    Fragile <- FragileFiles
    Masks = {1, 2, 4, 8, 16, 32, 64, 128}
    RandomVector <- Vector
    PeerSid <- AnySid
    Ns = 65535
    Nr = 258
INVARIANT
    StartsWhatItAccepts
CHECK_DEADLOCK FALSE
