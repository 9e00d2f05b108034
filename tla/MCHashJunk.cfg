\* The five-tuple hash and the ECMP hash of one flow over indeterminate bytes.
CONSTANTS
    KeyBytes = {1}
    Seeds <- MCSeeds
    MaxKeyLen = 0
    Pads <- AnyPad
    Junks <- AnyJunk
    Protocols = {17, 255}
SPECIFICATION Spec
INVARIANT HashesIgnoreUninitialisedBytes
CHECK_DEADLOCK FALSE
