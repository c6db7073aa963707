SPECIFICATION LoaderSpec
CONSTANTS
  ircd = ircd
  proto = proto
  cmd = cmd
  i1 = i1
  i2 = i2
  o1 = o1
  o2 = o2
  Objects = {o1, o2}
  Items = {i1, i2}
  Sizes = {1, 2}
  MaxSize = 3
  First = {o1}
  Modules = {ircd, proto, cmd}
  Needs <- MCNeeds
  Owner <- MCOwner
  SizeOf <- MCSizeOf
  Keeps = {proto}
  Tables <- MCTables
  Core = ircd
  Guarded = {ircd}
  Conf <- MCConf
  Exported = {ircd}
  Uses <- MCUses
  MaxOpens = 1
  MaxDeps = 1
  Changes = 2
CHECK_DEADLOCK FALSE
INVARIANTS LoaderTypeOK ItemsFit Restored LoaderSound
PROPERTIES KeepsPromise
