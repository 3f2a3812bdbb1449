------------------------------- MODULE MCPrReceipt -------------------------------
(* P with its subagent A, which started B and may start B2; S, a sidechain, *)
(* with C.                                                                  *)
EXTENDS PrReceipt, TLC

CONSTANTS P, A, B, B2, S, C

Tree == P :> {} @@ A :> {P} @@ B :> {P, A} @@ B2 :> {P, A} @@ S :> {} @@ C :> {S}
================================================================================
