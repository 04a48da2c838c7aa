------------------------------- MODULE MCPBKVS -------------------------------
(* Small instances of PBKVS. *)
EXTENDS PBKVS, TLC

put(k, v) == [typ |-> "put", key |-> k, value |-> v]
get(k) == [typ |-> "get", key |-> k, value |-> NoValue]

Two == 19 :> {put("k", "a")} @@ 20 :> {put("l", "b"), get("k")}
One == 19 :> {put("k", "a")}

AsSpecified == [elects |-> TRUE, overtake |-> FALSE]
AsBuilt == [elects |-> FALSE, overtake |-> TRUE]
Both == {AsSpecified, AsBuilt}
Specified == {AsSpecified}
Built == {AsBuilt}
Accurate == {}
Nervous == {<<1, 2>>}
=============================================================================
