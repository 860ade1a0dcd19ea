----------------------------- MODULE MCDot11Dcf -----------------------------
(* A cell for TLC: an access point and two stations, hidden from each other. *)
EXTENDS Dot11Dcf

CONSTANTS ap, s1, s2

Cell == {ap, s1, s2}
Reach == {<<ap, s1>>, <<s1, ap>>, <<ap, s2>>, <<s2, ap>>}
Ask(id, kind, to, via, rts) ==
    [id |-> id, kind |-> kind, to |-> to, via |-> via, rts |-> rts]
Join == [n \in Cell |->
    CASE n = ap -> <<Ask(5, "data", s1, "network", TRUE)>>
      [] n = s1 -> <<>>
      [] n = s2 -> <<Ask(3, "mgmt", ap, "mgmt", FALSE)>>]
Down == [n \in Cell |->
    CASE n = ap -> <<Ask(5, "data", s1, "network", TRUE),
                     Ask(6, "data", s1, "network", FALSE)>>
      [] n = s1 -> <<>>
      [] n = s2 -> <<Ask(3, "data", ap, "data", FALSE)>>]
Wide == [n \in Cell |->
    CASE n = ap -> <<Ask(5, "data", Everyone, "network", FALSE)>>
      [] n = s1 -> <<Ask(1, "data", ap, "network", FALSE)>>
      [] n = s2 -> <<Ask(3, "data", ap, "network", FALSE)>>]
Traffic == {Join, Down, Wide}
=============================================================================
