------------------------------ MODULE MCModules ------------------------------
(* Instances of ModuleLoader: ircd, a command that needs it and a protocol  *)
(* that needs both.                                                         *)
EXTENDS ModuleLoader

CONSTANTS ircd, proto, cmd, i1, i2, o1, o2

MCNeeds == (ircd :> <<>>) @@ (proto :> <<ircd, cmd>>) @@ (cmd :> <<ircd>>)
MCOwner == (i1 :> cmd) @@ (i2 :> proto)
MCSizeOf == (i1 :> 1) @@ (i2 :> 2)
MCTables == (ircd :> "symbol") @@ (cmd :> "command") @@ (proto :> "protocol")
MCConf == <<ircd>>
MCUses == {<<o1, i2>>, <<o2, i1>>}
=============================================================================
