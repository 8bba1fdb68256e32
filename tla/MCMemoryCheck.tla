--------------------------- MODULE MCMemoryCheck ----------------------------
(* Model-checking instance of MemoryCheck: a hooked function in its module, *)
(* and a module without hooks that comes and goes.                          *)
EXTENDS MemoryCheck, MCBACSession

Hooks == <<"LdrLoadDll">>
Modules == {"ntdll", "plugin"}
HomeOf == [h \in Range(Hooks) |-> "ntdll"]
=============================================================================
