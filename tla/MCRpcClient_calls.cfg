SPECIFICATION Spec
CONSTANTS
    None = None
    RPC_MAX_RETRIES = 3
    GET_LOGS_REQUEST_DELAY = 2
    RPC_RETRY_BASE_DELAY = 4
    RPC_RETRY_MAX_DELAY = 10
    RetryAfters = {0, 20}
    Latencies = {0, 1, 3}
INVARIANTS
    TypeOK
    GivesUpOnlyWhenExhausted
PROPERTIES
    Paced
