SPECIFICATION Spec
CONSTANTS
    N = 3
    alice = alice
    bob = bob
    carol = carol
    nick1 = nick1
    nick2 = nick2
    Users = {alice, bob, carol}
    Home <- HomeOf
    Nicks = {nick1, nick2}
    Times = {1, 2, 3}
    NoNick = NoNick
    HistorySize = 2
    Starts <- SomeStarts
    MaxWork = 2
CHECK_DEADLOCK FALSE
INVARIANTS TypeOK NicksSound ServersAgree
