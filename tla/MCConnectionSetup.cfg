SPECIFICATION Spec
CONSTANTS
  Conns = {c1, c2}
  Ips = {ip1, ip2}
  BadIps = {ip2}
  Hosts = {good, bad}
  BadHosts = {bad}
SYMMETRY ConnSymmetry
CHECK_DEADLOCK FALSE
INVARIANTS TypeOK StagesSound
