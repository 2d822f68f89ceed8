CHECK_DEADLOCK FALSE
CONSTANTS
    close_wait = 1
    socket_stall = 3
    watch = 1
    Cap = 1
    OutCap = 1
    Quarter = 1
    MaxSent = 4
    first_polled = "up"
SPECIFICATION MCSpec
INVARIANTS PausedGivenLimit
