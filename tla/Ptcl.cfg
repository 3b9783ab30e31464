\* A count of words of ten bits, so that it carries at 128 bytes.
CHECK_DEADLOCK FALSE  \* one message
CONSTANTS
    WordModulus = 1024
    Junk = {255}
    Message <- MCMessage
    Payload <- MCPayload
    Chunk = {1, 63, 64, 130}
    Damaged = {20, 59, 64, 68, 70}
SPECIFICATION Spec
INVARIANTS
    HashedExact
    FrameRoundTrip
