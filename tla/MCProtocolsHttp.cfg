\* Answers of up to three packets that arrive in any pieces, with the
\* connection closed once; requests that fit a buffer of 8 bytes and one that
\* does not.
CONSTANTS
    Protocols = {"http"}
    AnswerLists <- Answers
    Requests = {0, 3, 6}
    MAX_SENDBUF_SIZE = 8
    MaxAsked = 2
    MaxClosed = 1
    SlotSize = 10
SPECIFICATION MCSpec
INVARIANTS
    WholeFrames
\* All answers have come and all requests are sent.
CHECK_DEADLOCK FALSE
