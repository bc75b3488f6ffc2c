SPECIFICATION GatewaySpec
CONSTANTS
    Members = {1, 2}
    MaxWallets = 2
    MaxRequests = 2
    ZrpcTimeout = TRUE
CHECK_DEADLOCK FALSE
INVARIANTS
    EveryAnswerIsEnvelope
