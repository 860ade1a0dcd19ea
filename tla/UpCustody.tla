------------------------------ MODULE UpCustody ------------------------------
(***************************************************************************)
(* What the daemon of a mobile data collector promises about data chunks,  *)
(* whatever the radio, TCP and the path do: a chunk is collected at most   *)
(* once, is uploaded only after it was collected, is uploaded at most      *)
(* once, and no two chunks are under way at the same time.  An upload that *)
(* did not work out gives the chunk back, and the turn may pass at once to *)
(* the next chunk.                                                         *)
(***************************************************************************)
CONSTANT Chunk
VARIABLE custody

Custody == {"away", "held", "sending", "uploaded"}

Init == custody = [c \in Chunk |-> "away"]

Collect(c) ==
  /\ custody[c] = "away"
  /\ custody' = [custody EXCEPT ![c] = "held"]

Free == \A c \in Chunk : custody[c] # "sending"

Start(c) ==
  /\ Free
  /\ custody[c] = "held"
  /\ custody' = [custody EXCEPT ![c] = "sending"]

\* The upload of c ends as "held" or "uploaded" and nothing else starts.
End(c, outcome) ==
  /\ custody[c] = "sending"
  /\ custody' = [custody EXCEPT ![c] = outcome]

\* The upload of c ends and that of d starts.
Pass(c, outcome, d) ==
  /\ custody[c] = "sending"
  /\ custody[d] = "held"
  /\ custody' = [custody EXCEPT ![c] = outcome, ![d] = "sending"]

Next ==
  \E c \in Chunk :
    \/ Collect(c)
    \/ Start(c)
    \/ \E outcome \in {"held", "uploaded"} :
         End(c, outcome) \/ \E d \in Chunk : Pass(c, outcome, d)

Spec == Init /\ [][Next]_custody
=============================================================================
