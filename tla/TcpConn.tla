------------------------------ MODULE TcpConn ------------------------------
(***************************************************************************)
(* The connections of one node's TCP: the user requests (listen, connect,  *)
(* send, disconnect) of transport_tcp_usrreq.cpp, the timers of            *)
(* transport_tcp_timer.cpp, and the drop and close with their reports to   *)
(* the application of transport_tcp_subr.cpp.                              *)
(*                                                                         *)
(* tcp_input and tcp_output are not in the repository.  They appear as     *)
(* environment actions that do to states and timers what those functions   *)
(* and the network may do.  Sequence numbers, windows and round-trip       *)
(* times are left out; time is the tick of the slow timeout (500 ms).      *)
(***************************************************************************)
EXTENDS Integers, Sequences

CONSTANTS
  Active,         \* connections a local application opens (its unique ids)
  Passive,        \* connections a remote node opens to a listening port
  None,           \* no control block
  Pair,           \* the addresses and ports of each connection
  KeepInitShort,  \* TCPTV_KEEP_INIT_SHORT: patience with an open, in ticks
  KeepInit,       \* TCPTV_KEEP_INIT
  KeepIdle,       \* TCPTV_KEEP_IDLE
  KeepIntvl,      \* TCPTV_KEEPINTVL
  MaxIdle,        \* TCPTV_MAXIDLE
  Msl2,           \* 2 * TCPTV_MSL
  RexmtTime,      \* retransmission time by number of retransmissions so far
  PersistTime,    \* persist time, set by tcp_setpersist
  PersistIdle,    \* idle time after which a persisting connection is dropped
  MaxShift,       \* TCP_MAXRXTSHIFT
  MaxInput        \* BOUND: segments the peers send on open connections

Conn  == Active \cup Passive
Timer == {"REXMT", "PERSIST", "KEEP", "2MSL"}
State == {"SYN_SENT", "SYN_RECEIVED", "ESTABLISHED", "CLOSE_WAIT", "FIN_WAIT_1",
          "CLOSING", "LAST_ACK", "FIN_WAIT_2", "TIME_WAIT"}
Embryonic == {"SYN_SENT", "SYN_RECEIVED"}
Usrreq == {"NONE", "OPEN", "CONNECTED", "CLOSE"}
Result == {"opened", "failed", "passive_close", "active_close"}

\* BOUND: t_idle is not counted beyond this; no comparison tells more.
IdleCap == IF KeepIdle + MaxIdle > PersistIdle THEN KeepIdle + MaxIdle ELSE PersistIdle

Block == [st : State, usrreq : Usrreq, timer : [Timer -> Nat], idle : 0..IdleCap,
          shift : 0..MaxShift]

Positive == Nat \ {0}

ASSUME TimeAssumption ==
  /\ {KeepInitShort, KeepInit, KeepIdle, KeepIntvl, Msl2, PersistTime} \subseteq Positive
  /\ {MaxIdle, PersistIdle, MaxShift, MaxInput} \subseteq Nat
  /\ RexmtTime \in [0..MaxShift -> Positive]

\* Every open of an application takes a port of its own (nextPortNum, "next
\* available port number", application.h).
ASSUME ConnAssumption ==
  /\ Active \cap Passive = {}
  /\ None \notin Block
  /\ DOMAIN Pair = Conn
  /\ \A c, d \in Conn : Pair[c] = Pair[d] => c = d

VARIABLES
  block,   \* the protocol block of each connection, None when there is none
  asked,   \* the connections that were opened or came in
  told,    \* what the application was told of each connection
  inputs,  \* segments received so far (for the bound)
  port     \* the port of Passive: has it a listening block?

vars == <<block, asked, told, inputs, port>>

Init ==
  /\ block = [c \in Conn |-> None]
  /\ asked = {}
  /\ told = [c \in Conn |-> <<>>]
  /\ inputs = 0
  /\ port = "closed"

Live(c) == block[c] # None

Idle == [t \in Timer |-> 0]

-----------------------------------------------------------------------------
(* Reports: tcp_close frees a block and tells its application.             *)

\* Slip: a connection that never opened is closed without a word.
SilentReport(b) ==
  CASE b.usrreq = "CONNECTED" -> <<"passive_close">>
    [] b.usrreq = "CLOSE"     -> <<"active_close">>
    [] OTHER                  -> <<>>

\* Slip: an open that failed is reported as a close.
FailedAsClosed(b) ==
  CASE b.usrreq \in {"OPEN", "CONNECTED"} -> <<"passive_close">>
    [] b.usrreq = "CLOSE"                 -> <<"active_close">>
    [] OTHER                              -> <<>>

CloseReport(b) ==
  CASE b.usrreq = "OPEN"      -> <<"failed">>
    [] b.usrreq = "CONNECTED" -> <<"passive_close">>
    [] b.usrreq = "CLOSE"     -> <<"active_close">>
    [] OTHER                  -> <<>>

\* The blocks become those of b; the ones that are gone were closed.
Become(b) ==
  /\ block' = b
  /\ told' = [c \in Conn |-> IF Live(c) /\ b[c] = None
                             THEN told[c] \o CloseReport(block[c]) ELSE told[c]]

Tell(c, result) == told' = [told EXCEPT ![c] = Append(@, result)]

-----------------------------------------------------------------------------
(* User requests.                                                          *)

\* Slip: the keep-alive timer is not started.
NoPatience == [Idle EXCEPT !["REXMT"] = RexmtTime[0]]

\* The timers of a new block: patience with the open, and tcp_output's own.
OpenTimers == [Idle EXCEPT !["KEEP"] = KeepInitShort, !["REXMT"] = RexmtTime[0]]

\* tcp_newtcpcb: nothing requested, no timer runs.
NewTcpcb == [st |-> "CLOSED", usrreq |-> "NONE", timer |-> Idle, idle |-> 0, shift |-> 0]

NewBlock(st, usrreq, timer) ==
  [NewTcpcb EXCEPT !.st = st, !.usrreq = usrreq, !.timer = timer]

\* tcp_listen.  When the lookup finds a block for the port the listen is refused and
\* nothing changes; the application only prints the result.
Listen ==
  /\ port = "closed"
  /\ port' = "listening"
  /\ UNCHANGED <<block, asked, told, inputs>>

\* tcp_connect.  If the addresses and ports are in use the report goes to whoever
\* uses them.
Connect(c) ==
  /\ c \in Active \ asked
  /\ asked' = asked \cup {c}
  /\ UNCHANGED inputs
  /\ LET users == {d \in Conn : Live(d) /\ Pair[d] = Pair[c]} IN
     IF users = {}
     THEN /\ block' = [block EXCEPT ![c] = NewBlock("SYN_SENT", "OPEN", OpenTimers)]
          /\ UNCHANGED told
     ELSE /\ \E d \in users : Tell(d, "failed")
          /\ UNCHANGED block

\* tcp_send on a connection that was reported open: tcp_output sends and starts
\* the retransmission timer, or the persist timer when the window is closed.
Send(c, t) ==
  /\ Live(c)
  /\ block[c].st \in {"ESTABLISHED", "CLOSE_WAIT"}
  /\ block[c].timer["REXMT"] = 0 /\ block[c].timer["PERSIST"] = 0
  /\ block' = [block EXCEPT ![c].timer[t] = IF t = "REXMT" THEN RexmtTime[0] ELSE PersistTime]
  /\ UNCHANGED <<asked, told, inputs>>

\* tcp_usrclosed
UserClosed(b) ==
  CASE b.st \in {"SYN_RECEIVED", "ESTABLISHED"} -> [b EXCEPT !.st = "FIN_WAIT_1"]
    [] b.st = "CLOSE_WAIT" -> [b EXCEPT !.st = "LAST_ACK"]
    [] b.st = "FIN_WAIT_2" -> [b EXCEPT !.timer["2MSL"] = MaxIdle]
    [] OTHER -> b

\* tcp_output sends the FIN of a connection that was closed just now.
SendFin(b, was) ==
  IF b.st = was THEN b
  ELSE [b EXCEPT !.timer["REXMT"] = IF @ = 0 THEN RexmtTime[b.shift] ELSE @,
                 !.timer["PERSIST"] = 0]

MarkClose(b) == [b EXCEPT !.usrreq = "CLOSE"]

\* tcp_disconnect, by an application that was told its connection is open (so the
\* branch for an embryonic connection is not taken); it may call more than once.
Disconnect(c) ==
  /\ told[c] # <<>> /\ told[c][1] = "opened"
  /\ Live(c)
  /\ block' = [block EXCEPT ![c] = SendFin(UserClosed(MarkClose(@)), @.st)]
  /\ UNCHANGED <<asked, told, inputs>>

-----------------------------------------------------------------------------
(* Timers: tcp_timers and tcp_slowtimo.  The handlers of two timers that   *)
(* expire in the same tick do not disturb each other, and the first one    *)
(* that closes the connection ends the matter.                             *)

RexmtDrops(b) == b.shift >= MaxShift

PersistDrops(b) == b.shift = MaxShift /\ (b.idle >= KeepIdle \/ b.idle >= PersistIdle)

\* The statement "goto dropit" stands outside the if: whatever the state, the
\* connection is dropped, and the keep-alive probes after it are never sent.
KeepDrops(b) == TRUE

Closes2Msl(b) == b.st = "TIME_WAIT" \/ b.idle > MaxIdle

\* Does the handler of timer t close the connection?
Closes(b, t) ==
  \/ t = "REXMT" /\ RexmtDrops(b)
  \/ t = "PERSIST" /\ PersistDrops(b)
  \/ t = "KEEP" /\ KeepDrops(b)
  \/ t = "2MSL" /\ Closes2Msl(b)

\* Slip: decremented after the comparison with zero.
TooLate(b, t) == b.timer[t] > 0 /\ b.timer[t] = 0

Due(b, t) == b.timer[t] = 1

\* Slip: the number of retransmissions is not limited.
Unlimited(b) == b.shift + 1

Backed(b) == IF b.shift < MaxShift THEN b.shift + 1 ELSE b.shift

\* The time a handler that goes on sets its timer to.
Again(b, t) ==
  CASE t = "REXMT"   -> RexmtTime[Backed(b)]
    [] t = "PERSIST" -> PersistTime
    [] OTHER         -> KeepIntvl

Tick(b) ==
  IF \E t \in Timer : Due(b, t) /\ Closes(b, t) THEN None
  ELSE [b EXCEPT
          !.timer = [t \in Timer |-> IF Due(b, t) THEN Again(b, t)
                                     ELSE IF @[t] > 0 THEN @[t] - 1 ELSE 0],
          !.shift = IF Due(b, "REXMT") \/ Due(b, "PERSIST") THEN Backed(b) ELSE @,
          !.idle  = IF @ < IdleCap THEN @ + 1 ELSE @]

SlowTimo ==
  /\ Become([c \in Conn |-> IF Live(c) THEN Tick(block[c]) ELSE None])
  /\ UNCHANGED <<asked, inputs, port>>

-----------------------------------------------------------------------------
(* The environment: tcp_input, tcp_output and the network.                 *)

\* A SYN for a listening port.
Incoming(c) ==
  /\ c \in Passive \ asked
  /\ port = "listening"
  /\ asked' = asked \cup {c}
  /\ block' = [block EXCEPT ![c] = NewBlock("SYN_RECEIVED", "NONE",
                                            [OpenTimers EXCEPT !["KEEP"] = KeepInit])]
  /\ UNCHANGED <<told, inputs>>

\* Any acceptable segment: the peer is alive.
Heard(b) == [b EXCEPT !.idle = 0, !.timer["KEEP"] = KeepIdle]
Acked(b) == [b EXCEPT !.timer["REXMT"] = 0, !.timer["PERSIST"] = 0, !.shift = 0]

\* The handshake is complete.
Established(c) ==
  /\ Live(c)
  /\ block[c].st \in Embryonic
  /\ block' = [block EXCEPT ![c] = [Acked(Heard(@)) EXCEPT !.st = "ESTABLISHED",
                                                           !.usrreq = "CONNECTED"]]
  /\ Tell(c, "opened")
  /\ UNCHANGED <<asked, inputs>>

Receive(c, b) ==
  /\ Live(c)
  /\ block[c].st \notin Embryonic
  /\ inputs < MaxInput
  /\ inputs' = inputs + 1
  /\ UNCHANGED asked
  /\ Become([block EXCEPT ![c] = b])

\* Data or an acknowledgement of some of the data.
Segment(c) == Receive(c, Heard(block[c]))

\* Everything that was sent is acknowledged, a FIN too.
AckedAll(c) ==
  /\ Live(c)
  /\ LET b == Acked(Heard(block[c])) IN
     CASE b.st = "FIN_WAIT_1" ->
            \E limit \in {0, MaxIdle} :
              Receive(c, [b EXCEPT !.st = "FIN_WAIT_2", !.timer["2MSL"] = limit])
       [] b.st = "CLOSING" ->
            Receive(c, [b EXCEPT !.st = "TIME_WAIT", !.timer = [Idle EXCEPT !["2MSL"] = Msl2]])
       [] b.st = "LAST_ACK" -> Receive(c, None)
       [] OTHER -> Receive(c, b)

FinReceived(c) ==
  /\ Live(c)
  /\ LET b == Heard(block[c]) IN
     CASE b.st = "ESTABLISHED" -> Receive(c, [b EXCEPT !.st = "CLOSE_WAIT"])
       [] b.st = "FIN_WAIT_1"  -> Receive(c, [b EXCEPT !.st = "CLOSING"])
       [] b.st = "FIN_WAIT_2"  ->
            Receive(c, [b EXCEPT !.st = "TIME_WAIT", !.timer = [Idle EXCEPT !["2MSL"] = Msl2]])
       [] OTHER -> Receive(c, b)

\* A reset, in any state: tcp_drop or tcp_close.
Reset(c) ==
  /\ Live(c)
  /\ Become([block EXCEPT ![c] = None])
  /\ UNCHANGED <<asked, inputs>>

-----------------------------------------------------------------------------
UserNext == \E c \in Conn : \/ Connect(c)
                            \/ \E t \in {"REXMT", "PERSIST"} : Send(c, t)
                            \/ Disconnect(c)

InputNext == \E c \in Conn : \/ Incoming(c) \/ Established(c) \/ Segment(c)
                             \/ AckedAll(c) \/ FinReceived(c) \/ Reset(c)

Next == \/ Listen
        \/ SlowTimo
        \/ (UserNext \/ InputNext) /\ UNCHANGED port

Spec == Init /\ [][Next]_vars

\* Only the slow timeout is sure to come; the peers may be silent for ever.
FairSpec == Spec /\ WF_vars(SlowTimo)

-----------------------------------------------------------------------------
(* Properties.                                                             *)

TypeOK ==
  /\ block \in [Conn -> Block \cup {None}]
  /\ asked \subseteq Conn
  /\ told \in [Conn -> Seq(Result)]
  /\ inputs \in 0..MaxInput
  /\ port \in {"closed", "listening"}

Opened(c)   == told[c] = <<"opened">>
Finished(c) == told[c] \in {<<"opened", "passive_close">>, <<"opened", "active_close">>}

\* What the application was told of a connection agrees with its block in every
\* state: nothing while it opens, one success while it lives, and exactly one failure
\* or one close when it is gone, however it went.  A connection that came in and
\* never completed is never heard of.
Answers ==
  \A c \in Conn :
    IF Live(c)
    THEN told[c] = IF block[c].usrreq \in {"NONE", "OPEN"} THEN <<>> ELSE <<"opened">>
    ELSE \/ told[c] = <<>> /\ (c \in Passive \/ c \notin asked)
         \/ told[c] = <<"failed">> /\ c \in Active
         \/ Finished(c)

HasGuard(b) == \/ b.timer["KEEP"] > 0
               \/ b.timer["2MSL"] > 0 /\ b.st = "TIME_WAIT"

\* Every block has a timer running that ends it if its peer says no more: no path
\* through opens, closes and acknowledgements leaves one that lives for ever.
Guarded == \A c \in Conn : Live(c) => HasGuard(block[c])

\* A close that was asked for comes to an end, even if the peer is never heard again.
ClosesEnd == \A c \in Conn : (Live(c) /\ block[c].usrreq = "CLOSE") ~> ~Live(c)

service ==
  [c \in Conn |-> IF told[c] = <<>>
                  THEN IF c \in Active \cap asked THEN "asked" ELSE "idle"
                  ELSE IF told[c] = <<"failed">> THEN "failed"
                  ELSE IF Opened(c) THEN "open" ELSE "ended"]

\* TCP keeps the promises of TcpService.
Service == INSTANCE TcpService WITH service <- service
ServiceSpec == Service!LiveSpec

OnlyKeepDue(b) == /\ b.timer["KEEP"] = 1
                  /\ \A t \in Timer \ {"KEEP"} : b.timer[t] # 1

\* The keep-alive timer drops an established connection only if it "has been idle
\* for more than the sum of TCPTV_KEEP_IDLE ... and TCPTV_MAXIDLE".
KeepDropsIdle ==
  [][SlowTimo => \A c \in Conn :
       (Live(c) /\ block[c].st \notin Embryonic /\ OnlyKeepDue(block[c]) /\ block'[c] = None)
       => block[c].idle >= KeepIdle + MaxIdle]_vars
=============================================================================
