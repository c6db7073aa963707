SPECIFICATION Spec
CONSTANTS
  Events = {e1, e2}
  Once = {e2}
  Cond = {e1}
  OneHook = {}
  Funcs = {f, g}
  Values = {"alwaysok", "ok", "text"}
  Structs = {s1, s2, s3}
  FirstMax = 2
  MaxDepth = 2
  MaxNum = 3
SYMMETRY HookSymmetry
CHECK_DEADLOCK FALSE
INVARIANTS TypeOK CallsSound
