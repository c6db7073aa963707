SPECIFICATION Spec
CONSTANTS
    s1 = s1
    s2 = s2
    s3 = s3
    Socks <- MCSocks
    Oldest <- MCOldest
    Listener = Listener
    None = None
    Fds <- MCFds
    NoFd <- MCNoFd
    Size = 2
    Window = 3
    Limit = 1
    Burst = 2
    MaxArrivals = 1
    MaxInput = 2
    MaxReloads = 1
CHECK_DEADLOCK FALSE
INVARIANTS TypeOK Delivered LoopSound
