---------------------------- MODULE TcpConnProofs ----------------------------
(***************************************************************************)
(* Theorems about TcpConn: types, the agreement of reports and blocks, the *)
(* timers that guard every block, and the promises of TcpService.          *)
(***************************************************************************)
EXTENDS TcpConn, SequenceTheorems, TLAPS

-----------------------------------------------------------------------------
(* Types.                                                                  *)

LEMMA TimeFacts ==
  /\ KeepInitShort \in Positive /\ KeepInit \in Positive /\ KeepIdle \in Positive
  /\ KeepIntvl \in Positive /\ Msl2 \in Positive /\ PersistTime \in Positive
  /\ MaxIdle \in Nat /\ PersistIdle \in Nat /\ MaxShift \in Nat /\ MaxInput \in Nat
  /\ \A n \in 0..MaxShift : RexmtTime[n] \in Positive
  /\ IdleCap \in Nat
BY TimeAssumption DEF TimeAssumption, IdleCap, Positive

LEMMA NewTimers ==
  /\ Idle \in [Timer -> Nat]
  /\ OpenTimers \in [Timer -> Nat]
  /\ [OpenTimers EXCEPT !["KEEP"] = KeepInit] \in [Timer -> Nat]
BY TimeFacts DEF Idle, OpenTimers, Timer, Positive

LEMMA NewBlockType ==
  ASSUME NEW st \in State, NEW usrreq \in Usrreq, NEW timer \in [Timer -> Nat]
  PROVE  NewBlock(st, usrreq, timer) \in Block
<1> DEFINE b == NewTcpcb
           Any == [st : State \cup {"CLOSED"}, usrreq : Usrreq, timer : [Timer -> Nat],
                   idle : 0..IdleCap, shift : 0..MaxShift]
<1>1. b \in Any
  BY TimeFacts, NewTimers DEF NewTcpcb, Usrreq
<1> HIDE DEF b
<1>2. [b EXCEPT !.st = st, !.usrreq = usrreq, !.timer = timer] \in Block
  BY <1>1 DEF Block
<1> QED
  BY <1>2 DEF NewBlock, b

LEMMA BlockFields ==
  ASSUME NEW b \in Block
  PROVE  /\ b.st \in State /\ b.usrreq \in Usrreq /\ b.timer \in [Timer -> Nat]
         /\ b.idle \in 0..IdleCap /\ b.shift \in 0..MaxShift
         /\ b # None
         /\ \A t \in Timer : b.timer[t] \in Nat
BY ConnAssumption DEF Block, ConnAssumption

LEMMA UserType ==
  ASSUME NEW b \in Block
  PROVE  SendFin(UserClosed(MarkClose(b)), b.st) \in Block
<1>1. MarkClose(b) \in Block /\ MarkClose(b).st = b.st
  BY DEF MarkClose, Block, Usrreq
<1>2. UserClosed(MarkClose(b)) \in Block
  BY <1>1, TimeFacts DEF UserClosed, Block, State, Timer
<1> DEFINE d == UserClosed(MarkClose(b))
<1>3. d.shift \in 0..MaxShift /\ RexmtTime[d.shift] \in Nat
  BY <1>2, BlockFields, TimeFacts DEF Positive
<1> HIDE DEF d
<1>4. [d EXCEPT !.timer["REXMT"] = IF @ = 0 THEN RexmtTime[d.shift] ELSE @,
                !.timer["PERSIST"] = 0] \in Block
  BY <1>2, <1>3 DEF d, Block, Timer
<1> QED
  BY <1>2, <1>4 DEF SendFin, d

LEMMA InputType ==
  ASSUME NEW b \in Block
  PROVE  /\ Heard(b) \in Block
         /\ Acked(Heard(b)) \in Block
         /\ Heard(b).st = b.st /\ Acked(Heard(b)).st = b.st
         /\ Heard(b).usrreq = b.usrreq /\ Acked(Heard(b)).usrreq = b.usrreq
         /\ Heard(b).timer["KEEP"] > 0 /\ Acked(Heard(b)).timer["KEEP"] > 0
<1>1. KeepIdle \in Nat /\ KeepIdle > 0
  BY TimeFacts DEF Positive
<1> DEFINE heard == [b.timer EXCEPT !["KEEP"] = KeepIdle]
           acked == [[heard EXCEPT !["REXMT"] = 0] EXCEPT !["PERSIST"] = 0]
<1>2. /\ heard \in [Timer -> Nat] /\ heard["KEEP"] > 0
      /\ acked \in [Timer -> Nat] /\ acked["KEEP"] > 0
  BY <1>1, BlockFields DEF Timer
<1>3. Heard(b) = [b EXCEPT !.idle = 0, !.timer = heard]
  BY BlockFields DEF Heard, Block
<1>4. Acked(Heard(b)) = [b EXCEPT !.idle = 0, !.timer = acked, !.shift = 0]
  BY <1>3, BlockFields DEF Acked, Block
<1> HIDE DEF heard, acked
<1>5. 0 \in 0..IdleCap /\ 0 \in 0..MaxShift
  BY TimeFacts
<1>6. /\ Heard(b) \in Block /\ Heard(b).st = b.st /\ Heard(b).usrreq = b.usrreq
      /\ Heard(b).timer = heard
  BY <1>2, <1>3, <1>5 DEF Block
<1>7. /\ Acked(Heard(b)) \in Block /\ Acked(Heard(b)).st = b.st
      /\ Acked(Heard(b)).usrreq = b.usrreq /\ Acked(Heard(b)).timer = acked
  BY <1>2, <1>4, <1>5 DEF Block
<1> QED
  BY <1>2, <1>6, <1>7

LEMMA TickType ==
  ASSUME NEW b \in Block
  PROVE  \/ Tick(b) = None
         \/ /\ Tick(b) \in Block
            /\ Tick(b).st = b.st /\ Tick(b).usrreq = b.usrreq
            /\ b.timer["KEEP"] > 0 => Tick(b).timer["KEEP"] > 0
            /\ b.timer["2MSL"] > 0 => Tick(b).timer["2MSL"] > 0
<1> SUFFICES ASSUME Tick(b) # None
             PROVE  /\ Tick(b) \in Block
                    /\ Tick(b).st = b.st /\ Tick(b).usrreq = b.usrreq
                    /\ b.timer["KEEP"] > 0 => Tick(b).timer["KEEP"] > 0
                    /\ b.timer["2MSL"] > 0 => Tick(b).timer["2MSL"] > 0
  OBVIOUS
<1> DEFINE timer == [t \in Timer |-> IF Due(b, t) THEN Again(b, t)
                                     ELSE IF b.timer[t] > 0 THEN b.timer[t] - 1 ELSE 0]
           shift == IF Due(b, "REXMT") \/ Due(b, "PERSIST") THEN Backed(b) ELSE b.shift
           idle  == IF b.idle < IdleCap THEN b.idle + 1 ELSE b.idle
<1>1. /\ ~Due(b, "KEEP")
      /\ Tick(b) = [b EXCEPT !.timer = timer, !.shift = shift, !.idle = idle]
  BY DEF Tick, Closes, KeepDrops, Timer
<1>2. Backed(b) \in 0..MaxShift
  BY BlockFields, TimeFacts DEF Backed
<1>3. \A t \in Timer : Again(b, t) \in Positive
  BY <1>2, TimeFacts DEF Again, Timer
<1>4. timer \in [Timer -> Nat] /\ shift \in 0..MaxShift /\ idle \in 0..IdleCap
  BY <1>2, <1>3, BlockFields, TimeFacts DEF Positive
<1>5. /\ b.timer["KEEP"] > 0 => timer["KEEP"] > 0
      /\ b.timer["2MSL"] > 0 => timer["2MSL"] > 0
  BY <1>1, <1>3, BlockFields DEF Due, Timer, Positive
<1> HIDE DEF timer, shift, idle
<1> QED
  BY <1>1, <1>4, <1>5 DEF Block

-----------------------------------------------------------------------------
(* What a step does to one connection.                                     *)

Kinds(c) ==
  /\ Live(c) => /\ c \in asked
                /\ block[c].usrreq = "NONE" => c \in Passive
                /\ block[c].usrreq = "OPEN" => c \in Active
                /\ block[c].st \in Embryonic <=> block[c].usrreq \in {"NONE", "OPEN"}
  /\ told[c] # <<>> => c \in asked

Same(c) == /\ block'[c] = block[c] /\ told'[c] = told[c]
           /\ c \in asked' <=> c \in asked

Starts(c) == /\ ~Live(c) /\ c \notin asked /\ c \in asked'
             /\ block'[c] \in Block /\ HasGuard(block'[c]) /\ block'[c].st \in Embryonic
             /\ \/ block'[c].usrreq = "OPEN" /\ c \in Active
                \/ block'[c].usrreq = "NONE" /\ c \in Passive
             /\ told'[c] = told[c]

Goes(c) == /\ Live(c) /\ c \in asked'
           /\ block'[c] \in Block /\ HasGuard(block'[c])
           /\ block'[c].usrreq = block[c].usrreq
           /\ block'[c].st \in Embryonic <=> block[c].st \in Embryonic
           /\ told'[c] = told[c]

Opens(c) == /\ Live(c) /\ c \in asked' /\ block[c].st \in Embryonic
            /\ block'[c] \in Block /\ HasGuard(block'[c])
            /\ block'[c].usrreq = "CONNECTED" /\ block'[c].st \notin Embryonic
            /\ told'[c] = Append(told[c], "opened")

Closing(c) == /\ Live(c) /\ c \in asked' /\ block[c].st \notin Embryonic
              /\ block'[c] \in Block /\ HasGuard(block'[c])
              /\ block'[c].usrreq = "CLOSE" /\ block'[c].st \notin Embryonic
              /\ told'[c] = told[c]

Ends(c) == /\ Live(c) /\ c \in asked' /\ block'[c] = None
           /\ told'[c] = told[c] \o CloseReport(block[c])

Alone(c) == /\ Starts(c) \/ Goes(c) \/ Opens(c) \/ Closing(c) \/ Ends(c)
            /\ \A d \in Conn \ {c} : Same(d)

\* The reports.
LEMMA TwoWords ==
  ASSUME NEW x, NEW y
  PROVE  <<x>> \o <<y>> = <<x, y>>
<1> DEFINE S == {x, y}
           p == <<x>>
           q == <<y>>
           r == <<x, y>>
<1>1. p \in Seq(S) /\ q \in Seq(S) /\ r \in Seq(S)
  OBVIOUS
<1>2. /\ Len(p) = 1 /\ Len(q) = 1 /\ Len(r) = 2
      /\ p[1] = x /\ q[1] = y /\ r[1] = x /\ r[2] = y
  OBVIOUS
<1> HIDE DEF p, q, r
<1>3. /\ p \o q \in Seq(S) /\ Len(p \o q) = 2
      /\ \A i \in 1..2 : (p \o q)[i] = IF i <= 1 THEN p[i] ELSE q[i - 1]
  BY <1>1, <1>2, ConcatProperties
<1>4. \A i \in 1..2 : (p \o q)[i] = r[i]
  BY <1>2, <1>3
<1>5. p \o q = r
  BY <1>1, <1>2, <1>3, <1>4, SeqEqual
<1> QED
  BY <1>5 DEF p, q, r

LEMMA Words ==
  /\ Append(<<>>, "opened") = <<"opened">>
  /\ <<>> \o <<>> = <<>>
  /\ <<>> \o <<"failed">> = <<"failed">>
OBVIOUS

LEMMA WordsDiffer ==
  /\ <<"opened">> # <<>> /\ <<"failed">> # <<>> /\ <<"opened">> # <<"failed">>
  /\ \A x : <<"opened", x>> # <<>> /\ <<"opened", x>> # <<"failed">>
           /\ <<"opened", x>> # <<"opened">>
OBVIOUS

LEMMA WordsType ==
  /\ <<>> \in Seq(Result) /\ <<"opened">> \in Seq(Result) /\ <<"failed">> \in Seq(Result)
  /\ <<"opened", "passive_close">> \in Seq(Result)
  /\ <<"opened", "active_close">> \in Seq(Result)
BY DEF Result

LEMMA ReportIs ==
  ASSUME NEW b \in Block
  PROVE  /\ b.usrreq = "OPEN" => CloseReport(b) = <<"failed">>
         /\ b.usrreq = "CONNECTED" => CloseReport(b) = <<"passive_close">>
         /\ b.usrreq = "CLOSE" => CloseReport(b) = <<"active_close">>
         /\ b.usrreq = "NONE" => CloseReport(b) = <<>>
BY DEF CloseReport

Effect(c) == Same(c) \/ Starts(c) \/ Goes(c) \/ Opens(c) \/ Closing(c) \/ Ends(c)

AnswerOf(c) ==
  IF Live(c)
  THEN told[c] = IF block[c].usrreq \in {"NONE", "OPEN"} THEN <<>> ELSE <<"opened">>
  ELSE \/ told[c] = <<>> /\ (c \in Passive \/ c \notin asked)
       \/ told[c] = <<"failed">> /\ c \in Active
       \/ Finished(c)

\* What is kept of one connection.
Sound(c) == /\ block[c] \in Block \cup {None}
            /\ told[c] \in Seq(Result)
            /\ AnswerOf(c) /\ Kinds(c)
            /\ Live(c) => HasGuard(block[c])

\* Every effect keeps a connection sound.
LEMMA EffectSound ==
  ASSUME NEW c \in Conn, Sound(c), Effect(c)
  PROVE  Sound(c)'
<1>1. CASE Same(c)
  BY <1>1 DEF Same, Sound, AnswerOf, Kinds, Live, Finished
<1>2. CASE Starts(c)
  <2>1. told[c] = <<>> /\ told'[c] = <<>>
    BY <1>2 DEF Starts, Sound, Kinds
  <2>2. block'[c] # None
    BY <1>2, BlockFields DEF Starts
  <2> QED
    BY <1>2, <2>1, <2>2, WordsType, ConnAssumption
    DEF Starts, Sound, AnswerOf, Kinds, Live, ConnAssumption, Embryonic
<1>3. CASE Goes(c)
  <2>1. block'[c] # None
    BY <1>3, BlockFields DEF Goes
  <2> QED
    BY <1>3, <2>1 DEF Goes, Sound, AnswerOf, Kinds, Live
<1>4. CASE Opens(c)
  <2>1. told[c] = <<>>
    BY <1>4 DEF Opens, Sound, AnswerOf, Kinds
  <2>2. told'[c] = <<"opened">> /\ block'[c] # None
    BY <1>4, <2>1, Words, BlockFields DEF Opens
  <2> QED
    BY <1>4, <2>2, WordsType DEF Opens, Sound, AnswerOf, Kinds, Live
<1>5. CASE Closing(c)
  <2>1. told[c] = <<"opened">>
    BY <1>5 DEF Closing, Sound, AnswerOf, Kinds
  <2>2. told'[c] = <<"opened">> /\ block'[c] # None
    BY <1>5, <2>1, BlockFields DEF Closing
  <2> QED
    BY <1>5, <2>2, WordsType DEF Closing, Sound, AnswerOf, Kinds, Live
<1>6. CASE Ends(c)
  <2>1. block[c] \in Block /\ block[c].usrreq \in Usrreq
    BY <1>6, BlockFields DEF Ends, Sound, Live
  <2>2. CASE block[c].usrreq = "OPEN"
    <3>1. told'[c] = <<"failed">> /\ c \in Active
      BY <1>6, <2>1, <2>2, Words, ReportIs DEF Ends, Sound, AnswerOf, Kinds
    <3> QED
      BY <1>6, <3>1, WordsType DEF Ends, Sound, AnswerOf, Kinds, Live
  <2>3. CASE block[c].usrreq = "NONE"
    <3>1. told'[c] = <<>> /\ c \in Passive
      BY <1>6, <2>1, <2>3, Words, ReportIs DEF Ends, Sound, AnswerOf, Kinds
    <3> QED
      BY <1>6, <3>1, WordsType DEF Ends, Sound, AnswerOf, Kinds, Live
  <2>4. CASE block[c].usrreq = "CONNECTED"
    <3>1. told'[c] = <<"opened", "passive_close">>
      BY <1>6, <2>1, <2>4, TwoWords, ReportIs DEF Ends, Sound, AnswerOf
    <3> QED
      BY <1>6, <3>1, WordsType DEF Ends, Sound, AnswerOf, Kinds, Live, Finished
  <2>5. CASE block[c].usrreq = "CLOSE"
    <3>1. told'[c] = <<"opened", "active_close">>
      BY <1>6, <2>1, <2>5, TwoWords, ReportIs DEF Ends, Sound, AnswerOf
    <3> QED
      BY <1>6, <3>1, WordsType DEF Ends, Sound, AnswerOf, Kinds, Live, Finished
  <2> QED
    BY <2>1, <2>2, <2>3, <2>4, <2>5 DEF Usrreq
<1> QED
  BY <1>1, <1>2, <1>3, <1>4, <1>5, <1>6 DEF Effect

-----------------------------------------------------------------------------
(* What the actions do.                                                    *)

AllSound == \A c \in Conn : Sound(c)

Frame == /\ block' = [c \in Conn |-> block'[c]]
         /\ told' = [c \in Conn |-> told'[c]]
         /\ asked' \subseteq Conn
         /\ inputs' \in 0..MaxInput

LEMMA LiveType ==
  ASSUME NEW c \in Conn, Sound(c), Live(c)
  PROVE  /\ block[c] \in Block /\ c \in asked /\ HasGuard(block[c])
         /\ block[c].st \in Embryonic <=> block[c].usrreq \in {"NONE", "OPEN"}
BY DEF Sound, Live, Kinds

\* An open starts a block: its ports are its own.
LEMMA ConnectAlone ==
  ASSUME TypeOK, AllSound, NEW c \in Conn, Connect(c)
  PROVE  Starts(c) /\ Alone(c) /\ Frame
<1> DEFINE new == NewBlock("SYN_SENT", "OPEN", OpenTimers)
<1>1. {d \in Conn : Live(d) /\ Pair[d] = Pair[c]} = {}
  BY ConnAssumption DEF ConnAssumption, Connect, AllSound, Sound, Kinds
<1>2. /\ block' = [block EXCEPT ![c] = new] /\ told' = told
      /\ asked' = asked \cup {c} /\ inputs' = inputs /\ c \notin asked /\ c \in Active
  BY <1>1 DEF Connect
<1>3. new \in Block
  BY NewTimers, NewBlockType DEF State, Usrreq
<1>4. new.usrreq = "OPEN" /\ new.st = "SYN_SENT" /\ HasGuard(new)
  BY TimeFacts DEF NewBlock, NewTcpcb, HasGuard, OpenTimers, Idle, Timer, Positive
<1> HIDE DEF new
<1>5. ~Live(c)
  BY <1>2 DEF AllSound, Sound, Kinds
<1>6. Starts(c)
  BY <1>2, <1>3, <1>4, <1>5 DEF Starts, TypeOK, Embryonic
<1>7. \A d \in Conn \ {c} : Same(d)
  BY <1>2 DEF Same, TypeOK
<1> QED
  BY <1>2, <1>6, <1>7 DEF Alone, Frame, TypeOK

LEMMA IncomingAlone ==
  ASSUME TypeOK, AllSound, NEW c \in Conn, Incoming(c)
  PROVE  Starts(c) /\ Alone(c) /\ Frame
<1> DEFINE timer == [OpenTimers EXCEPT !["KEEP"] = KeepInit]
           new == NewBlock("SYN_RECEIVED", "NONE", timer)
<1>1. /\ block' = [block EXCEPT ![c] = new] /\ told' = told
      /\ asked' = asked \cup {c} /\ inputs' = inputs /\ c \notin asked /\ c \in Passive
  BY DEF Incoming
<1>2. new \in Block
  BY NewTimers, NewBlockType DEF State, Usrreq
<1>3. timer["KEEP"] > 0
  BY TimeFacts DEF OpenTimers, Idle, Timer, Positive
<1>4. new.usrreq = "NONE" /\ new.st = "SYN_RECEIVED" /\ HasGuard(new)
  BY <1>3 DEF NewBlock, NewTcpcb, HasGuard
<1> HIDE DEF new
<1>5. ~Live(c)
  BY <1>1 DEF AllSound, Sound, Kinds
<1>6. Starts(c)
  BY <1>1, <1>2, <1>4, <1>5 DEF Starts, TypeOK, Embryonic
<1>7. \A d \in Conn \ {c} : Same(d)
  BY <1>1 DEF Same, TypeOK
<1> QED
  BY <1>1, <1>6, <1>7 DEF Alone, Frame, TypeOK

LEMMA SendAlone ==
  ASSUME TypeOK, AllSound, NEW c \in Conn, NEW t \in {"REXMT", "PERSIST"}, Send(c, t)
  PROVE  Goes(c) /\ Alone(c) /\ Frame
<1> DEFINE time == IF t = "REXMT" THEN RexmtTime[0] ELSE PersistTime
           timer == [block[c].timer EXCEPT ![t] = time]
           new == [block[c] EXCEPT !.timer = timer]
<1>1. /\ block' = [block EXCEPT ![c] = new] /\ told' = told
      /\ asked' = asked /\ inputs' = inputs /\ Live(c)
  BY DEF Send
<1>2. time \in Nat
  BY TimeFacts DEF Positive
<1>3. /\ timer \in [Timer -> Nat] /\ timer["KEEP"] = block[c].timer["KEEP"]
      /\ timer["2MSL"] = block[c].timer["2MSL"]
  BY <1>1, <1>2, LiveType, BlockFields DEF AllSound, Timer
<1> HIDE DEF timer
<1>4. /\ new \in Block /\ new.usrreq = block[c].usrreq /\ new.st = block[c].st
      /\ new.timer = timer
  BY <1>1, <1>3, LiveType DEF AllSound, Block
<1> HIDE DEF new
<1>5. HasGuard(new)
  BY <1>1, <1>3, <1>4, LiveType DEF AllSound, HasGuard
<1>6. Goes(c)
  BY <1>1, <1>4, <1>5, LiveType DEF Goes, TypeOK, AllSound
<1>7. \A d \in Conn \ {c} : Same(d)
  BY <1>1 DEF Same, TypeOK
<1> QED
  BY <1>1, <1>6, <1>7 DEF Alone, Frame, TypeOK

LEMMA UserFields ==
  ASSUME NEW b \in Block, b.st \notin Embryonic, HasGuard(b)
  PROVE  LET n == SendFin(UserClosed(MarkClose(b)), b.st) IN
         n.usrreq = "CLOSE" /\ n.st \notin Embryonic /\ HasGuard(n)
<1> DEFINE m == MarkClose(b)
           d == UserClosed(m)
           n == SendFin(d, b.st)
<1>1. m \in Block /\ m.st = b.st /\ m.usrreq = "CLOSE" /\ m.timer = b.timer
  BY DEF MarkClose, Block, Usrreq
<1> HIDE DEF m
<1>2. /\ d \in Block /\ d.usrreq = "CLOSE" /\ d.st \notin Embryonic
      /\ d.timer["KEEP"] = b.timer["KEEP"]
      /\ b.st = "TIME_WAIT" => d = m
  BY <1>1, TimeFacts, BlockFields DEF UserClosed, Block, State, Timer, Embryonic
<1> HIDE DEF d
<1>3. /\ n.usrreq = "CLOSE" /\ n.st = d.st /\ n.timer["KEEP"] = b.timer["KEEP"]
      /\ b.st = "TIME_WAIT" => n = d
  BY <1>1, <1>2 DEF SendFin, Block, Timer
<1> HIDE DEF n
<1>4. HasGuard(n)
  BY <1>1, <1>2, <1>3 DEF HasGuard
<1> QED
  BY <1>2, <1>3, <1>4 DEF n, d, m

LEMMA DisconnectAlone ==
  ASSUME TypeOK, AllSound, NEW c \in Conn, Disconnect(c)
  PROVE  Closing(c) /\ Alone(c) /\ Frame
<1> DEFINE new == SendFin(UserClosed(MarkClose(block[c])), block[c].st)
<1>1. /\ block' = [block EXCEPT ![c] = new] /\ told' = told
      /\ asked' = asked /\ inputs' = inputs /\ Live(c) /\ told[c] # <<>>
  BY DEF Disconnect
<1>2. block[c] \in Block /\ HasGuard(block[c]) /\ c \in asked
  BY <1>1, LiveType DEF AllSound
<1>3. block[c].st \notin Embryonic
  BY <1>1, LiveType DEF AllSound, Sound, AnswerOf
<1>4. new \in Block
  BY <1>2, UserType
<1>5. new.usrreq = "CLOSE" /\ new.st \notin Embryonic /\ HasGuard(new)
  BY <1>2, <1>3, UserFields
<1> HIDE DEF new
<1>6. Closing(c)
  BY <1>1, <1>2, <1>3, <1>4, <1>5 DEF Closing, TypeOK
<1>7. \A d \in Conn \ {c} : Same(d)
  BY <1>1 DEF Same, TypeOK
<1> QED
  BY <1>1, <1>6, <1>7 DEF Alone, Frame, TypeOK

LEMMA EstablishedAlone ==
  ASSUME TypeOK, AllSound, NEW c \in Conn, Established(c)
  PROVE  Opens(c) /\ Alone(c) /\ Frame
<1> DEFINE heard == Acked(Heard(block[c]))
           new == [heard EXCEPT !.st = "ESTABLISHED", !.usrreq = "CONNECTED"]
<1>1. /\ block' = [block EXCEPT ![c] = new]
      /\ told' = [told EXCEPT ![c] = Append(@, "opened")]
      /\ asked' = asked /\ inputs' = inputs /\ Live(c) /\ block[c].st \in Embryonic
  BY DEF Established, Tell
<1>2. block[c] \in Block /\ c \in asked
  BY <1>1, LiveType DEF AllSound
<1>3. heard \in Block /\ heard.timer["KEEP"] > 0
  BY <1>2, InputType
<1> HIDE DEF heard
<1>4. /\ new \in Block /\ new.usrreq = "CONNECTED" /\ new.st = "ESTABLISHED"
      /\ new.timer = heard.timer
  BY <1>3 DEF Block, State, Usrreq
<1> HIDE DEF new
<1>5. HasGuard(new)
  BY <1>3, <1>4 DEF HasGuard
<1>6. Opens(c)
  BY <1>1, <1>2, <1>4, <1>5 DEF Opens, TypeOK, Embryonic
<1>7. \A d \in Conn \ {c} : Same(d)
  BY <1>1 DEF Same, TypeOK
<1> QED
  BY <1>1, <1>6, <1>7 DEF Alone, Frame, TypeOK

\* The blocks become those of b, of which that of c is gone.
LEMMA GoneAlone ==
  ASSUME TypeOK, AllSound, NEW c \in Conn, Live(c),
         Become([block EXCEPT ![c] = None]), asked' = asked
  PROVE  Ends(c) /\ \A d \in Conn \ {c} : Same(d)
<1>1. /\ block' = [block EXCEPT ![c] = None]
      /\ told' = [d \in Conn |-> IF Live(d) /\ [block EXCEPT ![c] = None][d] = None
                                 THEN told[d] \o CloseReport(block[d]) ELSE told[d]]
  BY DEF Become
<1>2. block'[c] = None /\ told'[c] = told[c] \o CloseReport(block[c])
  BY <1>1 DEF TypeOK
<1>3. c \in asked
  BY LiveType DEF AllSound
<1>4. \A d \in Conn \ {c} : block'[d] = block[d] /\ told'[d] = told[d]
  BY <1>1 DEF TypeOK, Live
<1> QED
  BY <1>2, <1>3, <1>4 DEF Ends, Same

LEMMA ResetAlone ==
  ASSUME TypeOK, AllSound, NEW c \in Conn, Reset(c)
  PROVE  Ends(c) /\ Alone(c) /\ Frame
<1>1. /\ Live(c) /\ Become([block EXCEPT ![c] = None]) /\ asked' = asked /\ inputs' = inputs
  BY DEF Reset
<1>2. Ends(c) /\ \A d \in Conn \ {c} : Same(d)
  BY <1>1, GoneAlone
<1>3. Frame
  BY <1>1 DEF Become, Frame, TypeOK
<1> QED
  BY <1>2, <1>3 DEF Alone

\* A segment that leaves the block b.
LEMMA ReceiveAlone ==
  ASSUME TypeOK, AllSound, NEW c \in Conn, NEW b, Receive(c, b),
         \/ b = None
         \/ /\ b \in Block /\ b.usrreq = block[c].usrreq
            /\ b.st \notin Embryonic /\ HasGuard(b)
  PROVE  (Goes(c) \/ Ends(c)) /\ Alone(c) /\ Frame
<1>1. /\ Live(c) /\ block[c].st \notin Embryonic /\ inputs < MaxInput
      /\ inputs' = inputs + 1 /\ asked' = asked /\ Become([block EXCEPT ![c] = b])
  BY DEF Receive
<1>2. Frame
  <2>1. inputs' \in 0..MaxInput
    BY <1>1, TimeFacts DEF TypeOK
  <2>2. /\ block' = [d \in Conn |-> block'[d]]
        /\ told' = [d \in Conn |-> told'[d]]
    BY <1>1 DEF Become, TypeOK
  <2> QED
    BY <1>1, <2>1, <2>2 DEF Frame, TypeOK
<1>3. CASE b = None
  <2>1. Ends(c) /\ \A d \in Conn \ {c} : Same(d)
    BY <1>1, <1>3, GoneAlone
  <2> QED
    BY <1>2, <2>1 DEF Alone
<1>4. CASE /\ b \in Block /\ b.usrreq = block[c].usrreq
           /\ b.st \notin Embryonic /\ HasGuard(b)
  <2>1. b # None
    BY <1>4, BlockFields
  <2>2. /\ block' = [block EXCEPT ![c] = b]
        /\ told' = [d \in Conn |-> IF Live(d) /\ [block EXCEPT ![c] = b][d] = None
                                   THEN told[d] \o CloseReport(block[d]) ELSE told[d]]
    BY <1>1 DEF Become
  <2>3. block'[c] = b /\ told'[c] = told[c]
    BY <2>1, <2>2 DEF TypeOK
  <2>4. \A d \in Conn \ {c} : block'[d] = block[d] /\ told'[d] = told[d]
    BY <2>2 DEF TypeOK, Live
  <2>5. c \in asked
    BY <1>1, LiveType DEF AllSound
  <2>6. Goes(c) /\ \A d \in Conn \ {c} : Same(d)
    BY <1>1, <1>4, <2>3, <2>4, <2>5 DEF Goes, Same
  <2> QED
    BY <1>2, <2>6 DEF Alone
<1> QED
  BY <1>3, <1>4

LEMMA SegmentAlone ==
  ASSUME TypeOK, AllSound, NEW c \in Conn, Segment(c)
  PROVE  (Goes(c) \/ Ends(c)) /\ Alone(c) /\ Frame
<1>1. Receive(c, Heard(block[c])) /\ Live(c) /\ block[c].st \notin Embryonic
  BY DEF Segment, Receive
<1>2. /\ Heard(block[c]) \in Block /\ Heard(block[c]).usrreq = block[c].usrreq
      /\ Heard(block[c]).st \notin Embryonic /\ HasGuard(Heard(block[c]))
  BY <1>1, LiveType, InputType DEF AllSound, HasGuard
<1> QED
  BY <1>1, <1>2, ReceiveAlone

\* A block that entered TIME_WAIT, or FIN_WAIT_2, or any other state.
LEMMA MovedType ==
  ASSUME NEW b \in Block
  PROVE  /\ LET n == [b EXCEPT !.st = "TIME_WAIT", !.timer = [Idle EXCEPT !["2MSL"] = Msl2]]
            IN n \in Block /\ n.usrreq = b.usrreq /\ n.st \notin Embryonic /\ HasGuard(n)
         /\ b.timer["KEEP"] > 0 =>
              \A limit \in {0, MaxIdle} :
                LET n == [b EXCEPT !.st = "FIN_WAIT_2", !.timer["2MSL"] = limit]
                IN n \in Block /\ n.usrreq = b.usrreq /\ n.st \notin Embryonic /\ HasGuard(n)
         /\ b.timer["KEEP"] > 0 =>
              \A st \in State \ Embryonic :
                LET n == [b EXCEPT !.st = st]
                IN n \in Block /\ n.usrreq = b.usrreq /\ n.st \notin Embryonic /\ HasGuard(n)
<1>1. LET n == [b EXCEPT !.st = "TIME_WAIT", !.timer = [Idle EXCEPT !["2MSL"] = Msl2]]
      IN n \in Block /\ n.usrreq = b.usrreq /\ n.st \notin Embryonic /\ HasGuard(n)
  <2> DEFINE timer == [Idle EXCEPT !["2MSL"] = Msl2]
  <2>1. timer \in [Timer -> Nat] /\ timer["2MSL"] > 0
    BY TimeFacts, NewTimers DEF Timer, Idle, Positive
  <2> HIDE DEF timer
  <2>2. LET n == [b EXCEPT !.st = "TIME_WAIT", !.timer = timer]
        IN n \in Block /\ n.usrreq = b.usrreq /\ n.st \notin Embryonic /\ HasGuard(n)
    BY <2>1 DEF Block, State, Embryonic, HasGuard
  <2> QED
    BY <2>2 DEF timer
<1>2. ASSUME NEW limit \in {0, MaxIdle}, b.timer["KEEP"] > 0
      PROVE  LET n == [b EXCEPT !.st = "FIN_WAIT_2", !.timer["2MSL"] = limit]
             IN n \in Block /\ n.usrreq = b.usrreq /\ n.st \notin Embryonic /\ HasGuard(n)
  <2> DEFINE timer == [b.timer EXCEPT !["2MSL"] = limit]
  <2>1. timer \in [Timer -> Nat] /\ timer["KEEP"] > 0
    BY <1>2, TimeFacts, BlockFields DEF Timer
  <2> HIDE DEF timer
  <2>2. LET n == [b EXCEPT !.st = "FIN_WAIT_2", !.timer = timer]
        IN n \in Block /\ n.usrreq = b.usrreq /\ n.st \notin Embryonic /\ HasGuard(n)
    BY <2>1 DEF Block, State, Embryonic, HasGuard
  <2> QED
    BY <2>2 DEF timer
<1>3. ASSUME NEW st \in State \ Embryonic, b.timer["KEEP"] > 0
      PROVE  LET n == [b EXCEPT !.st = st]
             IN n \in Block /\ n.usrreq = b.usrreq /\ n.st \notin Embryonic /\ HasGuard(n)
  BY <1>3 DEF Block, HasGuard
<1> QED
  BY <1>1, <1>2, <1>3

LEMMA AckedAllAlone ==
  ASSUME TypeOK, AllSound, NEW c \in Conn, AckedAll(c)
  PROVE  (Goes(c) \/ Ends(c)) /\ Alone(c) /\ Frame
<1> DEFINE b == Acked(Heard(block[c]))
           Fits(n) == \/ n = None
                      \/ /\ n \in Block /\ n.usrreq = block[c].usrreq
                         /\ n.st \notin Embryonic /\ HasGuard(n)
<1>1. Live(c)
  BY DEF AckedAll
<1>2. /\ b \in Block /\ b.usrreq = block[c].usrreq /\ b.st = block[c].st
      /\ b.timer["KEEP"] > 0
  BY <1>1, LiveType, InputType DEF AllSound
<1>3. \E n : Receive(c, n) /\ (block[c].st \notin Embryonic => Fits(n))
  <2> DEFINE wait == [b EXCEPT !.st = "TIME_WAIT", !.timer = [Idle EXCEPT !["2MSL"] = Msl2]]
  <2>1. CASE b.st = "FIN_WAIT_1"
    <3>1. PICK limit \in {0, MaxIdle} :
                 Receive(c, [b EXCEPT !.st = "FIN_WAIT_2", !.timer["2MSL"] = limit])
      BY <2>1 DEF AckedAll
    <3>2. Fits([b EXCEPT !.st = "FIN_WAIT_2", !.timer["2MSL"] = limit])
      BY <1>2, MovedType
    <3> QED
      BY <3>1, <3>2
  <2>2. CASE b.st = "CLOSING"
    <3>1. Receive(c, wait)
      BY <2>2 DEF AckedAll
    <3>2. Fits(wait)
      BY <1>2, MovedType
    <3> QED
      BY <3>1, <3>2
  <2>3. CASE b.st = "LAST_ACK"
    BY <2>3 DEF AckedAll
  <2>4. CASE b.st \notin {"FIN_WAIT_1", "CLOSING", "LAST_ACK"}
    <3>1. Receive(c, b)
      BY <2>4 DEF AckedAll
    <3> QED
      BY <1>2, <3>1 DEF HasGuard
  <2> QED
    BY <2>1, <2>2, <2>3, <2>4
<1>4. PICK n : Receive(c, n) /\ (block[c].st \notin Embryonic => Fits(n))
  BY <1>3
<1>5. block[c].st \notin Embryonic
  BY <1>4 DEF Receive
<1> QED
  BY <1>4, <1>5, ReceiveAlone

LEMMA FinReceivedAlone ==
  ASSUME TypeOK, AllSound, NEW c \in Conn, FinReceived(c)
  PROVE  (Goes(c) \/ Ends(c)) /\ Alone(c) /\ Frame
<1> DEFINE b == Heard(block[c])
           wait == [b EXCEPT !.st = "TIME_WAIT", !.timer = [Idle EXCEPT !["2MSL"] = Msl2]]
           Fits(n) == /\ n \in Block /\ n.usrreq = block[c].usrreq
                      /\ n.st \notin Embryonic /\ HasGuard(n)
<1>1. Live(c)
  BY DEF FinReceived
<1>2. /\ b \in Block /\ b.usrreq = block[c].usrreq /\ b.st = block[c].st
      /\ b.timer["KEEP"] > 0
  BY <1>1, LiveType, InputType DEF AllSound
<1>3. \E n : Receive(c, n) /\ (block[c].st \notin Embryonic => Fits(n))
  <2>1. CASE b.st = "ESTABLISHED"
    <3>1. Receive(c, [b EXCEPT !.st = "CLOSE_WAIT"])
      BY <2>1 DEF FinReceived
    <3>2. Fits([b EXCEPT !.st = "CLOSE_WAIT"])
      BY <1>2, MovedType DEF State, Embryonic
    <3> QED
      BY <3>1, <3>2
  <2>2. CASE b.st = "FIN_WAIT_1"
    <3>1. Receive(c, [b EXCEPT !.st = "CLOSING"])
      BY <2>2 DEF FinReceived
    <3>2. Fits([b EXCEPT !.st = "CLOSING"])
      BY <1>2, MovedType DEF State, Embryonic
    <3> QED
      BY <3>1, <3>2
  <2>3. CASE b.st = "FIN_WAIT_2"
    <3>1. Receive(c, wait)
      BY <2>3 DEF FinReceived
    <3>2. Fits(wait)
      BY <1>2, MovedType
    <3> QED
      BY <3>1, <3>2
  <2>4. CASE b.st \notin {"ESTABLISHED", "FIN_WAIT_1", "FIN_WAIT_2"}
    <3>1. Receive(c, b)
      BY <2>4 DEF FinReceived
    <3> QED
      BY <1>2, <3>1 DEF HasGuard
  <2> QED
    BY <2>1, <2>2, <2>3, <2>4
<1>4. PICK n : Receive(c, n) /\ (block[c].st \notin Embryonic => Fits(n))
  BY <1>3
<1>5. block[c].st \notin Embryonic
  BY <1>4 DEF Receive
<1> QED
  BY <1>4, <1>5, ReceiveAlone

\* The slow timeout: every connection goes on or ends.
LEMMA SlowTimoEffect ==
  ASSUME TypeOK, AllSound, SlowTimo
  PROVE  /\ \A c \in Conn : Same(c) \/ Goes(c) \/ Ends(c)
         /\ Frame
<1> DEFINE next == [c \in Conn |-> IF Live(c) THEN Tick(block[c]) ELSE None]
<1>1. /\ block' = next /\ asked' = asked /\ inputs' = inputs
      /\ told' = [c \in Conn |-> IF Live(c) /\ next[c] = None
                                THEN told[c] \o CloseReport(block[c]) ELSE told[c]]
  BY DEF SlowTimo, Become
<1>2. ASSUME NEW c \in Conn
      PROVE  Same(c) \/ Goes(c) \/ Ends(c)
  <2>1. block'[c] = (IF Live(c) THEN Tick(block[c]) ELSE None)
    BY <1>1
  <2>2. told'[c] = (IF Live(c) /\ block'[c] = None
                    THEN told[c] \o CloseReport(block[c]) ELSE told[c])
    BY <1>1
  <2>3. CASE ~Live(c)
    BY <1>1, <2>1, <2>2, <2>3 DEF Same, Live
  <2>4. CASE Live(c) /\ Tick(block[c]) = None
    BY <1>1, <2>1, <2>2, <2>4, LiveType DEF Ends, AllSound
  <2>5. CASE Live(c) /\ Tick(block[c]) # None
    <3>1. block[c] \in Block /\ c \in asked /\ HasGuard(block[c])
      BY <2>5, LiveType DEF AllSound
    <3> DEFINE n == Tick(block[c])
    <3>2. /\ n \in Block /\ n.st = block[c].st /\ n.usrreq = block[c].usrreq
          /\ block[c].timer["KEEP"] > 0 => n.timer["KEEP"] > 0
          /\ block[c].timer["2MSL"] > 0 => n.timer["2MSL"] > 0
      BY <2>5, <3>1, TickType
    <3> HIDE DEF n
    <3>3. HasGuard(n)
      BY <3>1, <3>2 DEF HasGuard
    <3>4. block'[c] = n /\ told'[c] = told[c] /\ c \in asked'
      BY <1>1, <2>1, <2>2, <2>5, <3>1 DEF n
    <3> QED
      BY <2>5, <3>2, <3>3, <3>4 DEF Goes
  <2> QED
    BY <2>3, <2>4, <2>5
<1>3. Frame
  BY <1>1 DEF Frame, TypeOK
<1> QED
  BY <1>2, <1>3

-----------------------------------------------------------------------------
(* The theorems.                                                           *)

LEMMA ListenEffect ==
  ASSUME TypeOK, Listen
  PROVE  Frame /\ \A c \in Conn : Same(c)
<1>1. block' = block /\ told' = told /\ asked' = asked /\ inputs' = inputs
  BY DEF Listen
<1>2. Frame
  BY <1>1 DEF Frame, TypeOK
<1>3. \A c \in Conn : Same(c)
  BY <1>1 DEF Same, TypeOK
<1> QED
  BY <1>2, <1>3

LEMMA PortType ==
  ASSUME TypeOK, Next
  PROVE  port' \in {"closed", "listening"}
<1>1. port' = port \/ port' = "listening"
  BY DEF Next, Listen, SlowTimo
<1> QED
  BY <1>1 DEF TypeOK

LEMMA NextEffect ==
  ASSUME TypeOK, AllSound, Next
  PROVE  Frame /\ \A c \in Conn : Effect(c)
<1>1. \A c \in Conn : Alone(c) => \A d \in Conn : Effect(d)
  BY DEF Alone, Effect
<1>2. ASSUME NEW c \in Conn,
             \/ Connect(c) \/ (\E t \in {"REXMT", "PERSIST"} : Send(c, t)) \/ Disconnect(c)
             \/ Incoming(c) \/ Established(c) \/ Segment(c)
             \/ AckedAll(c) \/ FinReceived(c) \/ Reset(c)
      PROVE  Frame /\ Alone(c)
  BY <1>2, ConnectAlone, SendAlone, DisconnectAlone, IncomingAlone, EstablishedAlone,
     SegmentAlone, AckedAllAlone, FinReceivedAlone, ResetAlone
<1>3. CASE SlowTimo
  BY <1>3, SlowTimoEffect DEF Effect
<1>4. CASE Listen
  BY <1>4, ListenEffect DEF Effect
<1> QED
  BY <1>1, <1>2, <1>3, <1>4 DEF Next, UserNext, InputNext

IInv == TypeOK /\ AllSound

LEMMA IInvInit == Init => IInv
<1> SUFFICES ASSUME Init PROVE IInv
  OBVIOUS
<1>1. TypeOK
  BY TimeFacts, WordsType DEF Init, TypeOK
<1>2. \A c \in Conn : Sound(c)
  BY WordsType DEF Init, Sound, AnswerOf, Kinds, Live
<1> QED
  BY <1>1, <1>2 DEF IInv, AllSound

LEMMA IInvStep == IInv /\ [Next]_vars => IInv'
<1> SUFFICES ASSUME IInv, [Next]_vars PROVE IInv'
  OBVIOUS
<1>1. CASE Next
  <2>1. Frame /\ \A c \in Conn : Sound(c)'
    BY <1>1, NextEffect, EffectSound DEF IInv, AllSound
  <2>2. \A c \in Conn : block'[c] \in Block \cup {None} /\ told'[c] \in Seq(Result)
    BY <2>1 DEF Sound
  <2>3. TypeOK'
    BY <1>1, <2>1, <2>2, PortType DEF IInv, Frame, TypeOK
  <2> QED
    BY <2>1, <2>3 DEF IInv, AllSound
<1>2. CASE UNCHANGED vars
  BY <1>2 DEF vars, IInv, TypeOK, AllSound, Sound, AnswerOf, Kinds, Live, Finished
<1> QED
  BY <1>1, <1>2

THEOREM IInvAlways == Spec => []IInv
<1> QED
  BY IInvInit, IInvStep, PTL DEF Spec

\* The state stays well-typed: counters of retransmissions never exceed
\* TCP_MAXRXTSHIFT, timers never fall below zero, and reports are of the known kinds.
THEOREM TcpTypeCorrect == Spec => []TypeOK
<1>1. IInv => TypeOK
  BY DEF IInv
<1> QED
  BY <1>1, IInvAlways, PTL

\* tcp_close and the handshake report to the application so that what it was told
\* agrees with the block: one answer to every open, one close of every connection.
THEOREM AnswersAlways == Spec => []Answers
<1>1. IInv => Answers
  BY DEF IInv, AllSound, Sound, AnswerOf, Answers
<1> QED
  BY <1>1, IInvAlways, PTL

\* Every block has a keep-alive timer running, or is in TIME_WAIT with its 2MSL timer.
THEOREM GuardedAlways == Spec => []Guarded
<1>1. IInv => Guarded
  BY DEF IInv, AllSound, Sound, Guarded
<1> QED
  BY <1>1, IInvAlways, PTL

-----------------------------------------------------------------------------
(* TcpConn implements TcpService (its safety part).                        *)

LEMMA PhaseSame ==
  ASSUME NEW c \in Conn, Sound(c), Same(c) \/ Goes(c) \/ Closing(c)
  PROVE  service'[c] = service[c]
<1>1. told'[c] = told[c] /\ (c \in asked' <=> c \in asked)
  BY DEF Same, Goes, Closing, Sound, Kinds
<1> QED
  BY <1>1 DEF service, Opened

LEMMA PhaseStarts ==
  ASSUME NEW c \in Conn, Sound(c), Starts(c)
  PROVE  /\ service[c] = "idle"
         /\ c \in Active => service'[c] = "asked"
         /\ c \notin Active => service'[c] = "idle"
<1>1. told[c] = <<>> /\ told'[c] = <<>> /\ c \notin asked /\ c \in asked'
  BY DEF Starts, Sound, Kinds
<1> QED
  BY <1>1 DEF service

LEMMA PhaseOpens ==
  ASSUME NEW c \in Conn, Sound(c), Opens(c)
  PROVE  /\ c \in Active => service[c] = "asked"
         /\ c \notin Active => service[c] = "idle"
         /\ service'[c] = "open"
<1>1. told[c] = <<>> /\ c \in asked
  BY DEF Opens, Sound, AnswerOf, Kinds
<1>2. told'[c] = <<"opened">>
  BY <1>1, Words DEF Opens
<1> QED
  BY <1>1, <1>2, WordsDiffer DEF service, Opened

LEMMA PhaseEnds ==
  ASSUME NEW c \in Conn, Sound(c), Ends(c)
  PROVE  \/ service'[c] = service[c]
         \/ service[c] = "asked" /\ service'[c] = "failed"
         \/ service[c] = "open" /\ service'[c] = "ended"
<1>1. block[c] \in Block /\ block[c].usrreq \in Usrreq /\ Live(c) /\ c \in asked
  BY BlockFields DEF Ends, Sound, Live, Kinds
<1>2. CASE block[c].usrreq = "OPEN"
  <2>1. told[c] = <<>> /\ told'[c] = <<"failed">> /\ c \in Active
    BY <1>1, <1>2, Words, ReportIs DEF Ends, Sound, AnswerOf, Kinds
  <2> QED
    BY <1>1, <2>1, WordsDiffer DEF service
<1>3. CASE block[c].usrreq = "NONE"
  <2>1. told[c] = <<>> /\ told'[c] = <<>> /\ c \in asked'
    BY <1>1, <1>3, Words, ReportIs DEF Ends, Sound, AnswerOf, Kinds
  <2> QED
    BY <1>1, <2>1 DEF service
<1>4. CASE block[c].usrreq \in {"CONNECTED", "CLOSE"}
  <2>1. told[c] = <<"opened">>
    BY <1>1, <1>4 DEF Sound, AnswerOf
  <2>2. \E x : told'[c] = <<"opened", x>>
    BY <1>1, <1>4, <2>1, TwoWords, ReportIs DEF Ends
  <2> QED
    BY <2>1, <2>2, WordsDiffer DEF service, Opened
<1> QED
  BY <1>1, <1>2, <1>3, <1>4 DEF Usrreq

\* service is a function on the connections, before and after.
LEMMA PhaseFun ==
  /\ service = [d \in Active \cup Passive |-> service[d]]
  /\ service' = [d \in Active \cup Passive |-> service'[d]]
BY DEF service, Conn

LEMMA ImplementsStep == IInv /\ [Next]_vars => [Service!Next]_service
<1> SUFFICES ASSUME IInv, [Next]_vars PROVE Service!Next \/ service' = service
  OBVIOUS
<1> USE DEF IInv, AllSound
<1>1. ASSUME NEW c \in Conn, Alone(c), Starts(c)
      PROVE  Service!Next \/ service' = service
  <2>1. \A d \in Conn \ {c} : service'[d] = service[d]
    BY <1>1, PhaseSame DEF Alone
  <2>2. CASE c \in Active
    <3>1. service[c] = "idle" /\ service' = [service EXCEPT ![c] = "asked"]
      BY <1>1, <2>1, <2>2, PhaseStarts, PhaseFun DEF Conn
    <3> QED
      BY <2>2, <3>1 DEF Service!Next, Service!Ask
  <2>3. CASE c \notin Active
    BY <1>1, <2>1, <2>3, PhaseStarts, PhaseFun DEF Conn
  <2> QED
    BY <2>2, <2>3
<1>2. ASSUME NEW c \in Conn, Alone(c), Opens(c)
      PROVE  Service!Next
  <2>1. \A d \in Conn \ {c} : service'[d] = service[d]
    BY <1>2, PhaseSame DEF Alone
  <2>2. service' = [service EXCEPT ![c] = "open"]
    BY <1>2, <2>1, PhaseOpens, PhaseFun DEF Conn
  <2>3. CASE c \in Active
    BY <1>2, <2>2, <2>3, PhaseOpens DEF Service!Next, Service!Answer
  <2>4. CASE c \notin Active
    BY <1>2, <2>2, <2>4, PhaseOpens DEF Service!Next, Service!Accept, Conn
  <2> QED
    BY <2>3, <2>4
<1>3. ASSUME \A c \in Conn : Same(c) \/ Goes(c) \/ Closing(c) \/ Ends(c)
      PROVE  Service!Next
  <2> DEFINE S == {c \in Active \cup Passive : service'[c] # service[c]}
  <2>1. \A c \in Conn : \/ service'[c] = service[c]
                        \/ service[c] = "asked" /\ service'[c] = "failed"
                        \/ service[c] = "open" /\ service'[c] = "ended"
    BY <1>3, PhaseSame, PhaseEnds
  <2>2. \A c \in S : service[c] \in {"asked", "open"}
    BY <2>1 DEF Conn
  <2>3. \A c \in Active \cup Passive :
          service'[c] = IF c \notin S THEN service[c]
                        ELSE IF service[c] = "asked" THEN "failed" ELSE "ended"
    BY <2>1 DEF Conn
  <2>4. Service!GiveUp(S)
    BY <2>2, <2>3, PhaseFun DEF Service!GiveUp
  <2> QED
    BY <2>4 DEF Service!Next
<1>4. CASE Next
  <2>1. ASSUME NEW c \in Conn,
               \/ Connect(c) \/ (\E t \in {"REXMT", "PERSIST"} : Send(c, t)) \/ Disconnect(c)
               \/ Incoming(c) \/ Established(c) \/ Segment(c)
               \/ AckedAll(c) \/ FinReceived(c) \/ Reset(c)
        PROVE  Alone(c)
    BY <2>1, ConnectAlone, SendAlone, DisconnectAlone, IncomingAlone, EstablishedAlone,
       SegmentAlone, AckedAllAlone, FinReceivedAlone, ResetAlone
  <2>2. CASE SlowTimo
    BY <1>3, <2>2, SlowTimoEffect
  <2>3. ASSUME NEW c \in Conn, Alone(c)
        PROVE  Service!Next \/ service' = service
    BY <1>1, <1>2, <1>3, <2>3 DEF Alone
  <2>4. CASE Listen
    BY <1>3, <2>4, ListenEffect
  <2> QED
    BY <1>4, <2>1, <2>2, <2>3, <2>4 DEF Next, UserNext, InputNext
<1>5. CASE UNCHANGED vars
  BY <1>5 DEF vars, service, Opened
<1> QED
  BY <1>4, <1>5

\* What the requests, timers and segments do to a connection is, for its application,
\* an open that is answered at most once and an end that comes at most once.
THEOREM Implements == Spec => Service!Spec
<1>1. Init => Service!Init
  BY DEF Init, service, Service!Init, Conn
<1> QED
  BY <1>1, ImplementsStep, IInvAlways, PTL DEF Spec, Service!Spec
=============================================================================
