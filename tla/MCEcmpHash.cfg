\* EcmpHash against a bit-level murmur3_32 on every key of up to eight bytes.
CONSTANTS
    KeyBytes = {1, 200}
    Seeds <- MCSeeds
    MaxKeyLen = 8
    Pads <- ZeroPad
    Junks <- ZeroJunk
    Protocols = {17}
SPECIFICATION Spec
INVARIANT EcmpHashIsMurmur3
\* Every key has been enumerated once the longest is reached.
CHECK_DEADLOCK FALSE
