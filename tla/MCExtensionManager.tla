-------------------------- MODULE MCExtensionManager --------------------------
(* Two extensions, one of which depends on the other, that both ship one   *)
(* entity.                                                                 *)
EXTENDS ExtensionManager, TLC

MCNeeds == [e \in Extension |-> IF e = "app" THEN {"base"} ELSE {}]
MCImports == [e \in Extension |-> Entity]

Slots == Permutations(Call)
=============================================================================
