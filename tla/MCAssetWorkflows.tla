-------------------------- MODULE MCAssetWorkflows --------------------------
(***************************************************************************)
(* Asset workflows for TLC.                                                *)
(***************************************************************************)
EXTENDS AssetWorkflows, TLC

CONSTANTS h1, h2

(* Rotations and deletes of a rule without executions; executions of a     *)
(* rule without a key, whose action requires approval or not.              *)
Signing == [events |-> {}, ticks |-> {}, handlers |-> {h1, h2}, keys |-> Versions,
            enabled |-> {"keep"}, gated |-> FALSE]
Running(g) == [events |-> Executions, ticks |-> Ticks, handlers |-> {h1}, keys |-> {},
               enabled |-> {"on", "off"}, gated |-> g]
All == {Signing} \cup {Running(g) : g \in BOOLEAN}
=============================================================================
