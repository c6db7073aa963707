SPECIFICATION Spec
CONSTANTS
    N = 2
    alice = alice
    bob = bob
    carol = carol
    Users = {alice, carol}
    Home <- HomeOf
    Keys = {11, 12}
    Limits = {1, 2}
    Masks = {m1}
    Matched <- MatchedBy
    Changes <- SomeChanges
    Texts = {t1, t2}
    Times = {1, 2}
    NoText = NoText
    MaxBans = 1
    MaxInvites = 1
    Starts <- SomeStarts
    MaxWork = 3
    MaxLinks = 1
SYMMETRY Topics
CHECK_DEADLOCK FALSE
INVARIANTS TypeOK Counted CopiesAgree
