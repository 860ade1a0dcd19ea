---------------------------- MODULE MCDot11Join ----------------------------
(* The instances of Dot11Join: three channels the first of which cannot be   *)
(* listened to, two access points of the own network and a foreign one that  *)
(* shares the second one's channel.                                          *)
EXTENDS Dot11Join, TLC

CONSTANTS a1, a2, f

MCHome == a1 :> 1 @@ a2 :> 2 @@ f :> 2
============================================================================
