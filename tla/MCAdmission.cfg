SPECIFICATION Spec
CONSTANTS
    host1 = host1
    host2 = host2
    users = users
    local = local
    Slots = {c1, c2}
    Hosts = {host1, host2}
    Default = users
    Others = {local}
    NoClass = NoClass
    Configs <- SomeConfigs
    TriggerCount = 2
    TriggerTime = 0
    Lengths <- SomeLengths
    Cache = 1
    Masks <- SomeMasks
    Times = {0, 1}
    LastTime = 2
    MaxWork = 4
SYMMETRY Symmetry
CHECK_DEADLOCK FALSE
INVARIANTS TypeOK ClassesCounted ThrottledForCause
PROPERTIES CheckIsFinal
