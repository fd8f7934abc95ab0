--------------------------- MODULE MCPancakeDelivery ---------------------------
(* Instances of PancakeDelivery for TLC. *)
EXTENDS PancakeDelivery

CONSTANTS inbox, comment, brief

MCImageCount == [p \in Reply |-> CASE p = inbox -> 3 [] p = comment -> 1 [] OTHER -> 1]
MCTogether == {{inbox}, {comment, brief}}
=============================================================================
