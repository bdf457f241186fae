SPECIFICATION Spec
CONSTANTS
    Timeout = 2
    NodeArgs = {0, 5, 6, 128}
    MaxNow = 3
    MaxReceived = 15
    Muxes <- MCMuxes
    Payloads <- MCPayloads
    AbortArgs <- MCAborts
    Responses <- MCResponses
INVARIANTS TypeOK TimerMatchesTransfer DownloadInBounds PendingIsCurrent
PROPERTIES EndsAreAccounted
