----------------------------- MODULE TcpService -----------------------------
(***************************************************************************)
(* What TCP promises an application about each connection: an open that    *)
(* was asked for is answered, once, with success or failure; a connection  *)
(* that is open may end, once, and a failed or ended one stays so.  The    *)
(* side that accepts a connection hears of it only when it is open.        *)
(***************************************************************************)
CONSTANTS Active, Passive
VARIABLE service

Phase == {"idle", "asked", "failed", "open", "ended"}

Init == service = [c \in Active \cup Passive |-> "idle"]

Ask(c) == /\ service[c] = "idle"
          /\ service' = [service EXCEPT ![c] = "asked"]

Answer(c) == /\ service[c] = "asked"
             /\ \E how \in {"open", "failed"} : service' = [service EXCEPT ![c] = how]

Accept(c) == /\ service[c] = "idle"
             /\ service' = [service EXCEPT ![c] = "open"]

\* Connections come to nothing or to an end; the slow timer may give up on several
\* at once.
GiveUp(S) ==
  /\ \A c \in S : service[c] \in {"asked", "open"}
  /\ service' = [c \in Active \cup Passive |->
                  IF c \notin S THEN service[c]
                  ELSE IF service[c] = "asked" THEN "failed" ELSE "ended"]

Next ==
  \/ \E c \in Active : Ask(c) \/ Answer(c)
  \/ \E c \in Passive : Accept(c)
  \/ \E S \in SUBSET (Active \cup Passive) : GiveUp(S)

Spec == Init /\ [][Next]_service

\* No open waits for its answer for ever.
Answered == \A c \in Active : service[c] = "asked" ~> service[c] # "asked"

LiveSpec == Spec /\ Answered
=============================================================================
