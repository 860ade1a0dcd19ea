---------------------------- MODULE MCUpTransfer ----------------------------
(* The instance of UpTransfer: one data site with two chunks.                *)
EXTENDS UpTransfer, TLC

CONSTANTS s1, c1, c2

MCOwner    == c1 :> s1 @@ c2 :> s1
MCPriority == c1 :> 2 @@ c2 :> 1
MCSize     == c1 :> 2 @@ c2 :> 1
=============================================================================
