-------------------------- MODULE MCParetoSelection --------------------------
(***************************************************************************)
(* All lists of up to four choices with three areas and three delays: a    *)
(* new value can remove several elements, be equal to one in the middle or *)
(* be worse than the last one.                                             *)
(***************************************************************************)
EXTENDS ParetoSelection
=============================================================================
