----------------------------- MODULE UpHandoff -----------------------------
(***************************************************************************)
(* What a data site and a mobile data collector promise each other about   *)
(* data chunks, whatever the radio and TCP do.  The site offers a chunk it *)
(* keeps, takes the offer back only while nothing of the chunk has got     *)
(* through, and claims it handed over only once.  The collector announces  *)
(* a chunk before it has it whole, each once, and only after an offer.     *)
(***************************************************************************)
CONSTANT Chunks
VARIABLES at,   \* where the site thinks each chunk is
          got   \* what the collector has been told of each chunk, in order

Init ==
    /\ at = [c \in Chunks |-> "kept"]
    /\ got = [c \in Chunks |-> <<>>]

Offer(c) ==
    /\ at[c] = "kept"
    /\ at' = [at EXCEPT ![c] = "offered"]
    /\ UNCHANGED got

TakeBack(c) ==
    /\ at[c] = "offered" /\ got[c] = <<>>
    /\ at' = [at EXCEPT ![c] = "kept"]
    /\ UNCHANGED got

\* The offer of c is taken back, and d is offered instead.
Swap(c, d) ==
    /\ at[c] = "offered" /\ got[c] = <<>> /\ at[d] = "kept"
    /\ at' = [at EXCEPT ![c] = "kept", ![d] = "offered"]
    /\ UNCHANGED got

Claim(c) ==
    /\ at[c] = "offered"
    /\ at' = [at EXCEPT ![c] = "claimed"]
    /\ UNCHANGED got

\* The site claims c and turns to d.
ClaimNext(c, d) ==
    /\ at[c] = "offered" /\ at[d] = "kept"
    /\ at' = [at EXCEPT ![c] = "claimed", ![d] = "offered"]
    /\ UNCHANGED got

Announce(c) ==
    /\ at[c] # "kept" /\ got[c] = <<>>
    /\ got' = [got EXCEPT ![c] = <<"header">>]
    /\ UNCHANGED at

Receive(c) ==
    /\ got[c] = <<"header">>
    /\ got' = [got EXCEPT ![c] = <<"header", "whole">>]
    /\ UNCHANGED at

Next ==
    \/ \E c \in Chunks : Offer(c) \/ TakeBack(c) \/ Claim(c) \/ Announce(c) \/ Receive(c)
    \/ \E c, d \in Chunks : Swap(c, d) \/ ClaimNext(c, d)

Spec == Init /\ [][Next]_<<at, got>>
=============================================================================
