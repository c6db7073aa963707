SPECIFICATION Spec
CONSTANTS
    east = east
    mid = mid
    west = west
    None = None
    Servers = {east, mid, west}
    Hubs = {east, mid}
    Hubbings <- AllButOne
    Peers <- Anyone
    MaxConns = 3
SYMMETRY Alike
CHECK_DEADLOCK FALSE
INVARIANTS TypeOK TreeSound ViewsAgree
