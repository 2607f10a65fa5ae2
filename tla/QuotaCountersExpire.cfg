\* No Redis error: one counter expires between a GET and the INCR.
SPECIFICATION Spec
CONSTANTS
    alice1 = alice1
    alice2 = alice2
    bob = bob
    short = short
    long = long
    tokens = tokens
    ip = ip
    Handlers <- MCHandlers
    RequestKeys <- MCRequestKeys
    TokenKeys <- MCTokenKeys
    KeysOf <- MCKeysOf
    Limit <- MCLimit
    TokenCount = 0
    MaxRequests = 4
    MaxResets = 1
    MaxFaults = 0
\* The bounds stop the model.
CHECK_DEADLOCK FALSE
INVARIANT CountersExpire
