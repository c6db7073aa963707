SPECIFICATION FairSpec
CONSTANTS
  name = name
  six = six
  bad = bad
  ircd = ircd
  oper = oper
  Keys = {name, six, bad}
  SixKeys = {six, bad}
  BadKeys = {bad}
  Users = {ircd, oper}
  Asks <- MCAsks
  Confs <- MCConfs
  MaxHooks = 1
CHECK_DEADLOCK FALSE
INVARIANTS TypeOK LookupsSound CallersHeard
 
