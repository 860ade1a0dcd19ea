-------------------------- MODULE Dot11JoinProofs --------------------------
(***************************************************************************)
(* Theorems about Dot11Join, for all access points, channels, networks and *)
(* bounds: what a station has joined is consistent, a scan is complete and *)
(* no station is forgotten.  The invariants that an active scan breaks are *)
(* proved without one (see Dot11Join); Quiet says that there is none.      *)
(***************************************************************************)
EXTENDS Dot11Join, WellFoundedInduction, TLAPS

-----------------------------------------------------------------------------
(* The inductive invariant: the exchange.                                  *)

(* No active scan: scanType is fixed by the configuration.                  *)
Quiet == scanType # "active"

(* The station has chosen an access point and asks it, or is about to.      *)
Asking == state \in {"wfauth", "wfassoc", "wfreassoc"} \/ timer \in {"authStart", "reassocStart"}

Requests == [kind : {"probe"}, ap : {None}]
            \cup [kind : {"auth", "assoc", "reassoc"}, ap : Aps \cup {None}]

Answers == [kind : {"probe", "auth", "assoc", "reassoc"}, ap : Aps, good : BOOLEAN]

(* The types, but for what the scan alone changes (Ranges).                 *)
Typed ==
    /\ scanType \in {"disabled", "passive", "active"}
    /\ state \in {"idle", "wfscan", "wfauth", "authFinished", "wfassoc",
                  "wfreassoc", "joined", "error"}
    /\ authenticated \in BOOLEAN /\ associated \in BOOLEAN
    /\ scanStarted \in BOOLEAN
    /\ sending \in BOOLEAN /\ resetPending \in BOOLEAN
    /\ timer \in Timers
    /\ heard \subseteq Aps
    /\ proposed \in Aps \cup {None} /\ apAddr \in Aps \cup {None}
    /\ associatedAp \in Aps \cup {None}
    /\ out \in Seq(Requests)
    /\ sending => out # <<>>
    /\ answers \subseteq Answers
    /\ listed \in [Aps -> {"never", "listed", "struck"}]

(* An access point grants only after it has listed the station, and only to *)
(* its own network.                                                         *)
AnswersListed ==
    \A answer \in answers :
        answer.good /\ answer.kind \in {"assoc", "reassoc"}
        => answer.ap \in OwnSsid /\ listed[answer.ap] # "never"

(* Whoever made the station associated had listed it.                       *)
Served ==
    associated =>
        \E a \in OwnSsid :
            /\ listed[a] # "never"
            /\ Quiet => Home[a] = Home[associatedAp]

(* JoinCompleted tells the daemon the address it sets.                      *)
Told == told = associatedAp

(* What the states of the exchange say of the two flags.                    *)
Flags ==
    /\ state \notin {"error", "authFinished"}
    /\ associated => authenticated /\ associatedAp \in OwnSsid
    /\ timer = "enable" => state = "idle"
    /\ state = "idle" => ~authenticated /\ ~associated
    /\ state = "wfauth" => ~authenticated /\ ~associated
    /\ state \in {"wfassoc", "wfreassoc"} => authenticated /\ ~associated
    /\ state = "joined" => associated

(* When each timer can be alive.  The timer of an authentication that has   *)
(* been answered is followed by the request that the answer has queued.     *)
TimerSound ==
    /\ timer \notin {"short", "long"}
    /\ timer = "beaconWait" => state = "wfscan" /\ scanStarted /\ (authenticated => associated)
    /\ timer = "authStart" => state = "wfscan" /\ ~authenticated
    /\ timer = "reassocStart" => state = "wfscan" /\ authenticated /\ ~associated
    /\ timer = "auth" /\ authenticated /\ ~associated => out # <<>> \/ resetPending

(* Only the own network is heard and proposed.                              *)
Own ==
    /\ heard \subseteq OwnSsid
    /\ proposed \in OwnSsid \cup {None}
    /\ \A answer \in answers : answer.kind # "probe"

(* Nothing but requests is queued, and once authenticated something is      *)
(* queued behind a request to authenticate.                                 *)
OutSound ==
    /\ \A i \in 1 .. Len(out) : out[i].kind # "probe"
    /\ authenticated => \A i \in 1 .. Len(out) : out[i].kind = "auth" => i < Len(out)

(* The radio is where the exchange goes on.                                 *)
Channel ==
    /\ Asking => apAddr = proposed /\ proposed \in Aps /\ channel = Home[proposed]
    /\ IsStationJoined /\ ~scanStarted => channel = Home[associatedAp] /\ bssAddr = associatedAp

(* NeverForgotten, which keeps itself only with TimerSound and OutSound.    *)
Remembered == ~IsStationJoined => timer # "none" \/ out # <<>> \/ resetPending

QuietInv == Flags /\ TimerSound /\ Own /\ OutSound /\ Channel /\ Remembered

IInv == Typed /\ AnswersListed /\ Served /\ Told /\ (Quiet => QuietInv)

(* It holds initially.                                                      *)
LEMMA InitIInv == Init => IInv
<1> SUFFICES ASSUME Init PROVE IInv
  OBVIOUS
<1>1. Typed
  <2>1. scanType \in {"disabled", "passive", "active"}
    BY DEF Init, ScanTypeOf
  <2>2. out \in Seq(Requests)
    BY DEF Init
  <2>3. timer \in Timers
    BY DEF Init, Timers
  <2> QED
    BY <2>1, <2>2, <2>3 DEF Init, Typed
<1>2. AnswersListed /\ Served /\ Told
  BY DEF Init, AnswersListed, Served, Told
<1>3. QuietInv
  BY DEF Init, QuietInv, Flags, TimerSound, Own, OutSound, Channel, Remembered,
         Asking, IsStationJoined
<1> QED
  BY <1>1, <1>2, <1>3 DEF IInv

(* What the station appends to or takes from its queue.                     *)
LEMMA RequestsQueue ==
    ASSUME Typed
    PROVE  /\ Tail(out) \in Seq(Requests) \/ out = <<>>
           /\ \A k \in {"auth", "assoc", "reassoc"}, a \in Aps \cup {None} :
                  /\ Request(k, a) \in Requests
                  /\ Append(out, Request(k, a)) \in Seq(Requests)
                  /\ Append(out, Request(k, a)) # <<>>
           /\ Append(out, Request("probe", None)) \in Seq(Requests)
           /\ Append(out, Request("probe", None)) # <<>>
<1>1. \A k \in {"auth", "assoc", "reassoc"}, a \in Aps \cup {None} : Request(k, a) \in Requests
  BY DEF Request, Requests
<1>2. Request("probe", None) \in Requests
  BY DEF Request, Requests
<1>3. out \in Seq(Requests)
  BY DEF Typed
<1> QED
  BY <1>1, <1>2, <1>3

(* MacDot11ManagementReset made at once, from whichever handler.            *)
LEMMA ResetNowStep ==
    ASSUME IInv, NEW live \in Timers, ResetNow(live),
           UNCHANGED <<scanType, air>>,
           sending' = FALSE, resetPending' \in BOOLEAN
    PROVE  IInv'
<1>1. Typed
  BY DEF IInv
<1>2. /\ authenticated' = FALSE /\ associated' = FALSE /\ apAddr' = None
      /\ UNCHANGED <<proposed, associatedAp, told, scanType, answers, listed>>
      /\ state' = "wfscan" /\ scanStarted' = TRUE /\ heard' = {}
      /\ UNCHANGED channel
  BY DEF ResetNow, StartJoin, ScanStart, air
<1>3. Quiet => timer' = "beaconWait" /\ out' = <<>>
  BY DEF ResetNow, StartJoin, ScanStart, ScanDisabled, ScanPassive, ScanActive, Quiet
<1>4. timer' \in Timers
  BY DEF ResetNow, StartJoin, ScanStart, ScanDisabled, ScanPassive, ScanActive, Timers
<1>5. out' \in Seq(Requests)
  <2>1. Append(<<>>, Request("probe", None)) \in Seq(Requests)
    <3>1. Request("probe", None) \in Requests
      BY DEF Request, Requests
    <3> QED
      BY <3>1
  <2>2. out' = <<>> \/ out' = Append(<<>>, Request("probe", None))
    BY DEF ResetNow, StartJoin, ScanStart, ScanDisabled, ScanPassive, ScanActive, EnqueueProbe
  <2>3. <<>> \in Seq(Requests)
    OBVIOUS
  <2>4. CASE out' = <<>>
    BY <2>3, <2>4
  <2>5. CASE out' = Append(<<>>, Request("probe", None))
    BY <2>1, <2>5
  <2> QED
    BY <2>2, <2>4, <2>5
<1>6. Typed'
  BY <1>1, <1>2, <1>4, <1>5 DEF Typed
<1>7. AnswersListed' /\ Served' /\ Told'
  BY <1>2 DEF IInv, AnswersListed, Served, Told
<1>8. ASSUME Quiet PROVE QuietInv'
  BY <1>2, <1>3, <1>8 DEF IInv, QuietInv, Flags, TimerSound, Own, OutSound, Channel,
         Remembered, Asking, IsStationJoined
<1> QED
  BY <1>2, <1>6, <1>7, <1>8 DEF IInv, Quiet

(* MacDot11ManagementReset put off.                                         *)
LEMMA ResetLaterStep ==
    ASSUME IInv, NEW live \in {timer, "none"}, ResetLater(live),
           UNCHANGED <<scanType, air>>,
           \/ out' = out /\ sending' = sending
           \/ out # <<>> /\ out' = Tail(out) /\ sending' = FALSE
    PROVE  IInv'
<1>1. Typed
  BY DEF IInv
<1>2. /\ UNCHANGED <<scanType, progress, scan, chosen, joined, air>>
      /\ resetPending' = TRUE /\ timer' \in {timer, "none"}
  BY DEF ResetLater
<1>3. out' \in Seq(Requests)
  BY <1>1, RequestsQueue DEF Typed
<1>4. Typed'
  <2>1. timer' \in Timers
    BY <1>1, <1>2 DEF Typed, Timers
  <2>2. sending' => out' # <<>>
    BY <1>1 DEF Typed
  <2>3. sending' \in BOOLEAN /\ resetPending' \in BOOLEAN
    BY <1>1, <1>2 DEF Typed
  <2> QED
    BY <2>1, <2>2, <2>3, <1>1, <1>2, <1>3 DEF Typed, progress, scan, chosen, joined, air, Timers
<1>5. AnswersListed' /\ Served' /\ Told'
  BY <1>2 DEF IInv, AnswersListed, Served, Told, progress, scan, chosen, joined, air, Quiet
<1>6. ASSUME Quiet PROVE QuietInv'
  <2>1. OutSound'
    <3>1. CASE out' = out
      BY <1>2, <1>6, <3>1 DEF IInv, QuietInv, OutSound, progress
    <3>2. CASE out # <<>> /\ out' = Tail(out)
      <4>1. Len(out') = Len(out) - 1 /\ Len(out) \in Nat
            /\ \A i \in 1 .. Len(out') : out'[i] = out[i + 1] /\ i + 1 \in 1 .. Len(out)
        BY <1>1, <3>2 DEF Typed
      <4> QED
        BY <1>2, <1>6, <4>1 DEF IInv, QuietInv, OutSound, progress
    <3> QED
      BY <3>1, <3>2
  <2>2. Flags' /\ TimerSound' /\ Own' /\ Channel' /\ Remembered'
    BY <1>2, <1>6 DEF IInv, QuietInv, Flags, TimerSound, Own, Channel, Remembered,
           Asking, IsStationJoined, progress, scan, chosen, joined, air
  <2> QED
    BY <2>1, <2>2 DEF QuietInv
<1> QED
  BY <1>2, <1>4, <1>5, <1>6 DEF IInv, Quiet

(* One lemma per action: each keeps the invariant.                          *)
LEMMA EnableStep == IInv /\ Enable => IInv'
<1> SUFFICES ASSUME IInv, Enable PROVE IInv'
  OBVIOUS
<1>1. Typed
  BY DEF IInv
<1>2. /\ timer = "enable"
      /\ UNCHANGED <<scanType, authenticated, associated, proposed, associatedAp,
                     told, sending, resetPending, answers, listed, channel>>
      /\ apAddr' = None /\ state' = "wfscan" /\ scanStarted' = TRUE /\ heard' = {}
  BY DEF Enable, Expires, StartJoin, ScanStart, air
<1>3. /\ timer' \in {"beaconWait", "none"}
      /\ out' \in {out, Append(out, Request("probe", None))}
      /\ Quiet => timer' = "beaconWait" /\ out' = out
  BY DEF Enable, StartJoin, ScanStart, ScanDisabled, ScanPassive, ScanActive,
         EnqueueProbe, Quiet
<1>4. out' \in Seq(Requests) /\ (sending' => out' # <<>>)
  BY <1>1, <1>2, <1>3, RequestsQueue DEF Typed
<1>5. Typed'
  BY <1>1, <1>2, <1>3, <1>4 DEF Typed, Timers
<1>6. AnswersListed' /\ Served' /\ Told'
  BY <1>2 DEF IInv, AnswersListed, Served, Told, Quiet
<1>7. ASSUME Quiet PROVE QuietInv'
  BY <1>2, <1>3, <1>7 DEF IInv, QuietInv, Flags, TimerSound, Own, OutSound, Channel,
         Remembered, Asking, IsStationJoined
<1> QED
  BY <1>2, <1>5, <1>6, <1>7 DEF IInv, Quiet

LEMMA HandoverScanStep == IInv /\ HandoverScan => IInv'
<1> SUFFICES ASSUME IInv, HandoverScan PROVE IInv'
  OBVIOUS
<1>1. Typed
  BY DEF IInv
<1>2. /\ authenticated /\ associated
      /\ UNCHANGED <<scanType, authenticated, associated, proposed, apAddr, associatedAp,
                     told, sending, resetPending, answers, listed, channel>>
      /\ state' = "wfscan" /\ scanStarted' = TRUE /\ heard' = {}
  BY DEF HandoverScan, StartJoin, ScanStart, air, chosen, IsStationJoined
<1>3. /\ timer' \in {"beaconWait", timer}
      /\ out' \in {out, Append(out, Request("probe", None))}
      /\ Quiet => timer' = "beaconWait" /\ out' = out
  BY DEF HandoverScan, StartJoin, ScanStart, ScanDisabled, ScanPassive, ScanActive,
         EnqueueProbe, Quiet
<1>4. out' \in Seq(Requests) /\ (sending' => out' # <<>>)
  BY <1>1, <1>2, <1>3, RequestsQueue DEF Typed
<1>5. Typed'
  BY <1>1, <1>2, <1>3, <1>4 DEF Typed, Timers
<1>6. AnswersListed' /\ Served' /\ Told'
  BY <1>2 DEF IInv, AnswersListed, Served, Told, Quiet
<1>7. ASSUME Quiet PROVE QuietInv'
  BY <1>2, <1>3, <1>7 DEF IInv, QuietInv, Flags, TimerSound, Own, OutSound, Channel,
         Remembered, Asking, IsStationJoined
<1> QED
  BY <1>2, <1>5, <1>6, <1>7 DEF IInv, Quiet

(* The next channel or the end of the scan; only a beacon wait is over      *)
(* without an active scan.                                                  *)
LEMMA ScanNextChannelStep ==
    ASSUME IInv, ScanNextChannel, timer = "beaconWait" \/ ~Quiet,
           UNCHANGED <<scanType, state, authenticated, heard, associatedAp, told,
                       sending, resetPending, air>>
    PROVE  IInv'
<1>1. Typed
  BY DEF IInv
<1>2. UNCHANGED <<scanType, state, authenticated, heard, associatedAp, told,
                  sending, resetPending, answers, listed>>
  BY DEF air
<1>3. CASE ChangeToNext
  <2>1. UNCHANGED <<associated, scanStarted, proposed, apAddr, bssAddr>>
    BY <1>3 DEF ChangeToNext, chosen
  <2>2. /\ timer' \in {"beaconWait", "none"}
        /\ out' \in {out, Append(out, Request("probe", None))}
        /\ Quiet => timer' = "beaconWait" /\ out' = out
    BY <1>3 DEF ChangeToNext, EnqueueProbe, Quiet
  <2>3. out' \in Seq(Requests) /\ (sending' => out' # <<>>)
    BY <1>1, <1>2, <2>2, RequestsQueue DEF Typed
  <2>4. Typed'
    BY <1>1, <1>2, <2>1, <2>2, <2>3 DEF Typed, Timers
  <2>5. AnswersListed' /\ Served' /\ Told'
    BY <1>2, <2>1 DEF IInv, AnswersListed, Served, Told, Quiet
  <2>6. ASSUME Quiet PROVE QuietInv'
    <3>1. /\ timer = "beaconWait" /\ timer' = "beaconWait" /\ out' = out
      BY <2>2, <2>6
    <3> QED
      BY <1>2, <2>1, <3>1, <2>6
      DEF IInv, QuietInv, Flags, TimerSound, Own, OutSound, Channel, Remembered,
          Asking, IsStationJoined
  <2> QED
    BY <1>2, <2>4, <2>5, <2>6 DEF IInv, Quiet
<1>4. CASE ScanCompleted
  <2>1. scanStarted' = FALSE /\ out' = out
    BY <1>4 DEF ScanCompleted
  <2>2. CASE NoApFound
    <3>1. associated' = FALSE /\ timer' = "scanStart"
          /\ UNCHANGED <<channel, proposed, apAddr, bssAddr>>
      BY <2>2 DEF NoApFound, chosen
    <3>2. Typed'
      <4>1. timer' \in Timers /\ associated' \in BOOLEAN
        BY <1>1, <3>1 DEF Typed, Timers
      <4>2. proposed' \in Aps \cup {None} /\ apAddr' \in Aps \cup {None}
        BY <1>1, <3>1 DEF Typed
      <4>3. out' \in Seq(Requests) /\ (sending' => out' # <<>>)
        BY <1>1, <1>2, <2>1 DEF Typed
      <4>4. scanStarted' \in BOOLEAN /\ sending' \in BOOLEAN
        BY <1>1, <1>2, <2>1 DEF Typed
      <4> QED
        BY <1>1, <1>2, <4>1, <4>2, <4>3, <4>4 DEF Typed
    <3>3. AnswersListed' /\ Served' /\ Told'
      BY <1>2, <3>1 DEF IInv, AnswersListed, Served, Told
    <3>4. ASSUME Quiet PROVE QuietInv'
      BY <1>2, <2>1, <3>1, <3>4
      DEF IInv, QuietInv, Flags, TimerSound, Own, OutSound, Channel, Remembered,
          Asking, IsStationJoined
    <3> QED
      BY <1>2, <3>2, <3>3, <3>4 DEF IInv, Quiet
  <2>3. ASSUME NEW best \in heard, ProposeFirst(best) \/ ProposeHandover(best)
        PROVE  IInv'
    <3>1. /\ associated' = FALSE /\ proposed' = best /\ apAddr' = best
          /\ channel' = Home[best] /\ UNCHANGED bssAddr
          /\ \/ timer' = "authStart" /\ ~associated
             \/ timer' = "reassocStart" /\ associated
      BY <2>3 DEF ProposeFirst, ProposeHandover, Propose, ChangeToChannel
    <3>2. Typed'
      <4>1. timer' \in Timers /\ associated' \in BOOLEAN
        BY <1>1, <3>1 DEF Typed, Timers
      <4>2. proposed' \in Aps \cup {None} /\ apAddr' \in Aps \cup {None}
        BY <1>1, <3>1 DEF Typed
      <4>3. out' \in Seq(Requests) /\ (sending' => out' # <<>>)
        BY <1>1, <1>2, <2>1 DEF Typed
      <4>4. scanStarted' \in BOOLEAN /\ sending' \in BOOLEAN
        BY <1>1, <1>2, <2>1 DEF Typed
      <4> QED
        BY <1>1, <1>2, <4>1, <4>2, <4>3, <4>4 DEF Typed
    <3>3. AnswersListed' /\ Served' /\ Told'
      BY <1>2, <3>1 DEF IInv, AnswersListed, Served, Told
    <3>4. ASSUME Quiet PROVE QuietInv'
      <4>1. timer = "beaconWait" /\ best \in OwnSsid /\ best \in Aps
        BY <1>1, <3>4 DEF IInv, QuietInv, Own, Typed
      <4> QED
        BY <1>2, <2>1, <3>1, <3>4, <4>1
        DEF IInv, QuietInv, Flags, TimerSound, Own, OutSound, Channel, Remembered,
            Asking, IsStationJoined
    <3> QED
      BY <1>2, <3>2, <3>3, <3>4 DEF IInv, Quiet
  <2>4. CASE KeepAp
    <3>1. /\ associated /\ channel' = Home[associatedAp] /\ bssAddr' = associatedAp
          /\ timer' = "none" /\ UNCHANGED <<associated, proposed, apAddr>>
      BY <2>4 DEF KeepAp, ChangeToChannel, chosen
    <3>2. Typed'
      <4>1. timer' \in Timers /\ associated' \in BOOLEAN
        BY <1>1, <3>1 DEF Typed, Timers
      <4>2. proposed' \in Aps \cup {None} /\ apAddr' \in Aps \cup {None}
        BY <1>1, <3>1 DEF Typed
      <4>3. out' \in Seq(Requests) /\ (sending' => out' # <<>>)
        BY <1>1, <1>2, <2>1 DEF Typed
      <4>4. scanStarted' \in BOOLEAN /\ sending' \in BOOLEAN
        BY <1>1, <1>2, <2>1 DEF Typed
      <4> QED
        BY <1>1, <1>2, <4>1, <4>2, <4>3, <4>4 DEF Typed
    <3>3. AnswersListed' /\ Served' /\ Told'
      BY <1>2, <3>1 DEF IInv, AnswersListed, Served, Told, Quiet
    <3>4. ASSUME Quiet PROVE QuietInv'
      BY <1>2, <2>1, <3>1, <3>4
      DEF IInv, QuietInv, Flags, TimerSound, Own, OutSound, Channel, Remembered,
          Asking, IsStationJoined
    <3> QED
      BY <1>2, <3>2, <3>3, <3>4 DEF IInv, Quiet
  <2> QED
    BY <1>4, <2>2, <2>3, <2>4 DEF ScanCompleted
<1> QED
  BY <1>3, <1>4 DEF ScanNextChannel

LEMMA WaitTimerStep == IInv /\ WaitTimerExpires => IInv'
<1> SUFFICES ASSUME IInv, WaitTimerExpires PROVE IInv'
  OBVIOUS
<1>1. timer = "beaconWait" \/ ~Quiet
  BY DEF WaitTimerExpires, Expires, IInv, QuietInv, TimerSound
<1> QED
  BY <1>1, ScanNextChannelStep DEF WaitTimerExpires

LEMMA ShortTimerStep == IInv /\ ShortTimerExpires => IInv'
<1> SUFFICES ASSUME IInv, ShortTimerExpires PROVE IInv'
  OBVIOUS
<1>1. ~Quiet
  BY DEF ShortTimerExpires, Expires, IInv, QuietInv, TimerSound
<1>2. CASE mayReceive
  <2>1. /\ timer' = "long"
        /\ UNCHANGED <<scan, associated, scanStarted, chosen, bssAddr, out, scanType,
                       state, authenticated, associatedAp, told, sending,
                       resetPending, air>>
    BY <1>2 DEF ShortTimerExpires
  <2> QED
    BY <1>1, <2>1
    DEF IInv, Typed, AnswersListed, Served, Told, Quiet, scan, chosen, air, Timers
<1>3. CASE ~mayReceive
  BY <1>1, <1>3, ScanNextChannelStep DEF ShortTimerExpires
<1> QED
  BY <1>2, <1>3

LEMMA AuthenticateStep == IInv /\ Authenticate => IInv'
<1> SUFFICES ASSUME IInv, Authenticate PROVE IInv'
  OBVIOUS
<1>1. Typed
  BY DEF IInv
<1>2. /\ timer = "authStart" /\ timer' = "none" /\ scanStarted' = FALSE /\ state' = "wfauth"
      /\ out' = Append(out, Request("auth", apAddr))
      /\ UNCHANGED <<scanType, authenticated, associated, channel, heard, proposed, apAddr,
                     associatedAp, bssAddr, told, sending, resetPending, answers, listed>>
  BY DEF Authenticate, Expires, scan, chosen, joined, air
<1>3. out' \in Seq(Requests) /\ out' # <<>>
  BY <1>1, <1>2, RequestsQueue DEF Typed
<1>4. Typed'
  BY <1>1, <1>2, <1>3 DEF Typed, Timers
<1>5. AnswersListed' /\ Served' /\ Told'
  BY <1>2 DEF IInv, AnswersListed, Served, Told, Quiet
<1>6. ASSUME Quiet PROVE QuietInv'
  <2>1. OutSound'
    <3>1. \A i \in 1 .. Len(out') :
            \/ i \in 1 .. Len(out) /\ out'[i] = out[i]
            \/ out'[i] = Request("auth", apAddr)
      BY <1>1, <1>2 DEF Typed
    <3>2. ~authenticated'
      BY <1>2, <1>6 DEF IInv, QuietInv, TimerSound
    <3> QED
      BY <3>1, <3>2, <1>6 DEF IInv, QuietInv, OutSound, Request
  <2> QED
    BY <1>2, <1>3, <1>6, <2>1
    DEF IInv, QuietInv, Flags, TimerSound, Own, Channel, Remembered, Asking, IsStationJoined
<1> QED
  BY <1>2, <1>4, <1>5, <1>6 DEF IInv, Quiet

LEMMA ReassociateRequestStep == IInv /\ ReassociateRequest => IInv'
<1> SUFFICES ASSUME IInv, ReassociateRequest PROVE IInv'
  OBVIOUS
<1>1. Typed
  BY DEF IInv
<1>2. /\ timer = "reassocStart" /\ timer' = "none" /\ state' = "wfreassoc"
      /\ out' = Append(out, Request("reassoc", apAddr))
      /\ UNCHANGED <<scanType, authenticated, associated, scanStarted, channel, heard,
                     proposed, apAddr, associatedAp, bssAddr, told, sending,
                     resetPending, answers, listed>>
  BY DEF ReassociateRequest, ReassociateRequestFrame, Expires, scan, chosen, joined, air
<1>3. out' \in Seq(Requests) /\ out' # <<>>
  BY <1>1, <1>2, RequestsQueue DEF Typed
<1>4. Typed'
  BY <1>1, <1>2, <1>3 DEF Typed, Timers
<1>5. AnswersListed' /\ Served' /\ Told'
  BY <1>2 DEF IInv, AnswersListed, Served, Told, Quiet
<1>6. ASSUME Quiet PROVE QuietInv'
  <2>1. OutSound'
    <3>1. Len(out') = Len(out) + 1 /\ Len(out) \in Nat
          /\ \A i \in 1 .. Len(out') :
            \/ i \in 1 .. Len(out) /\ out'[i] = out[i]
            \/ out'[i] = Request("reassoc", apAddr)
      BY <1>1, <1>2 DEF Typed
    <3> QED
      BY <3>1, <1>2, <1>6 DEF IInv, QuietInv, OutSound, Request
  <2> QED
    BY <1>2, <1>3, <1>6, <2>1
    DEF IInv, QuietInv, Flags, TimerSound, Own, Channel, Remembered, Asking, IsStationJoined
<1> QED
  BY <1>2, <1>4, <1>5, <1>6 DEF IInv, Quiet

(* Whatever the bound drops, no answer is made up.                          *)
LEMMA QueueBounds ==
    ASSUME NEW new, Queue(new)
    PROVE  answers' \subseteq answers \cup new
BY DEF Queue

(* An access point answers one request with one answer, and grants only     *)
(* what it has listed.                                                      *)
LEMMA ApAnswers ==
    ASSUME Typed, NEW request \in Requests, request.ap \in Aps, ApProcessFrame(request)
    PROVE  \E kind \in {"auth", "assoc", "reassoc"}, good \in BOOLEAN :
               /\ answers' \subseteq answers \cup {Answer(kind, request.ap, good)}
               /\ listed' \in {listed, [listed EXCEPT ![request.ap] = "listed"]}
               /\ good /\ kind # "auth"
                  => request.ap \in OwnSsid /\ listed'[request.ap] # "never"
<1> DEFINE a == request.ap
<1> DEFINE Result(kind, good) ==
        /\ answers' \subseteq answers \cup {Answer(kind, a, good)}
        /\ listed' \in {listed, [listed EXCEPT ![a] = "listed"]}
        /\ good /\ kind # "auth" => a \in OwnSsid /\ listed'[a] # "never"
<1>1. a \in Aps /\ listed \in [Aps -> {"never", "listed", "struck"}]
  BY DEF Typed
<1>2. [listed EXCEPT ![a] = "listed"][a] = "listed"
  BY <1>1
<1>3. ASSUME NEW kind \in {"assoc", "reassoc"}, NEW answered \in BOOLEAN,
             a \in OwnSsid, Lists(a, kind, answered)
      PROVE  Result(kind, TRUE) \/ Result(kind, FALSE)
  <2>1. CASE listed' = [listed EXCEPT ![a] = "listed"] /\ Queue({Answer(kind, a, TRUE)})
    <3>1. answers' \subseteq answers \cup {Answer(kind, a, TRUE)}
      BY <2>1, QueueBounds
    <3> QED
      BY <1>2, <1>3, <2>1, <3>1
  <2>2. CASE Queue({Answer(kind, a, FALSE)}) /\ UNCHANGED listed
    <3>1. answers' \subseteq answers \cup {Answer(kind, a, FALSE)}
      BY <2>2, QueueBounds
    <3> QED
      BY <2>2, <3>1
  <2>3. CASE UNCHANGED <<answers, listed>>
    BY <2>3
  <2> QED
    BY <1>3, <2>1, <2>2, <2>3 DEF Lists
<1>4. ASSUME NEW kind \in {"assoc", "reassoc"}, Refuses(a, kind)
      PROVE  Result(kind, FALSE)
  <2>1. answers' \subseteq answers \cup {Answer(kind, a, FALSE)} /\ UNCHANGED listed
    BY <1>4, QueueBounds DEF Refuses
  <2> QED
    BY <2>1
<1>5. ASSUME AuthenticateAnswer(a) PROVE Result("auth", TRUE)
  <2>1. answers' \subseteq answers \cup {Answer("auth", a, TRUE)} /\ UNCHANGED listed
    BY <1>5, QueueBounds DEF AuthenticateAnswer
  <2> QED
    BY <2>1
<1>6. ASSUME a \in OwnSsid, listed[a] = "listed", Queue({Answer("assoc", a, TRUE)}),
             UNCHANGED listed
      PROVE  Result("assoc", TRUE)
  <2>1. answers' \subseteq answers \cup {Answer("assoc", a, TRUE)}
    BY <1>6, QueueBounds
  <2> QED
    BY <1>6, <2>1
<1>7. ASSUME ProcessAssociateRequest(a)
      PROVE  Result("assoc", TRUE) \/ Result("assoc", FALSE)
  <2> HIDE DEF Result, a
  <2>1. \/ Lists(a, "assoc", FALSE) /\ a \in OwnSsid
        \/ Refuses(a, "assoc")
        \/ (a \in OwnSsid /\ listed[a] = "listed" /\ Queue({Answer("assoc", a, TRUE)})
            /\ UNCHANGED listed)
    BY <1>7 DEF ProcessAssociateRequest, EAssociateAnswer, EAddStation, AssociateAnswer
  <2> QED
    BY <1>3, <1>4, <1>6, <2>1
<1>8. ASSUME ProcessReassociateRequest(a)
      PROVE  Result("reassoc", TRUE) \/ Result("reassoc", FALSE)
  <2> HIDE DEF Result, a
  <2>1. \/ Lists(a, "reassoc", TRUE) /\ a \in OwnSsid
        \/ Refuses(a, "reassoc")
    BY <1>8 DEF ProcessReassociateRequest, EReassociateAnswer, EReaddStation, ReassociateAnswer
  <2> QED
    BY <1>3, <1>4, <2>1
<1>9. \E kind \in {"auth", "assoc", "reassoc"}, good \in BOOLEAN : Result(kind, good)
  <2> HIDE DEF Result
  <2> QED
    BY <1>5, <1>7, <1>8 DEF ApProcessFrame
<1> QED
  BY <1>9

(* A request handled by its access point keeps what is known of answers and *)
(* lists.                                                                   *)
LEMMA ApStep ==
    ASSUME Typed, AnswersListed, Served,
           NEW request \in Requests, request.ap \in Aps, ApProcessFrame(request)
    PROVE  /\ answers' \subseteq Answers
           /\ listed' \in [Aps -> {"never", "listed", "struck"}]
           /\ AnswersListed'
           /\ \A b \in Aps : listed[b] # "never" => listed'[b] # "never"
           /\ \A answer \in answers' : answer.kind = "probe" => answer \in answers
<1> DEFINE a == request.ap
<1>1. PICK kind \in {"auth", "assoc", "reassoc"}, good \in BOOLEAN :
          /\ answers' \subseteq answers \cup {Answer(kind, a, good)}
          /\ listed' \in {listed, [listed EXCEPT ![a] = "listed"]}
          /\ good /\ kind # "auth" => a \in OwnSsid /\ listed'[a] # "never"
  BY ApAnswers
<1> DEFINE new == Answer(kind, a, good)
<1>2. new \in Answers /\ new.kind = kind /\ new.ap = a /\ new.good = good
  BY DEF Answer, Answers
<1> HIDE DEF new
<1>3. a \in Aps /\ listed \in [Aps -> {"never", "listed", "struck"}] /\ answers \subseteq Answers
  BY DEF Typed
<1>4. listed' \in [Aps -> {"never", "listed", "struck"}]
      /\ \A b \in Aps : listed[b] # "never" => listed'[b] # "never"
  BY <1>1, <1>3
<1>5. answers' \subseteq answers \cup {new}
  BY <1>1 DEF new
<1>6. answers' \subseteq Answers
  BY <1>2, <1>3, <1>5
<1>7. AnswersListed'
  <2> SUFFICES ASSUME NEW answer \in answers',
                      answer.good, answer.kind \in {"assoc", "reassoc"}
               PROVE  answer.ap \in OwnSsid /\ listed'[answer.ap] # "never"
    BY DEF AnswersListed
  <2>1. CASE answer \in answers
    <3>1. answer.ap \in OwnSsid /\ listed[answer.ap] # "never" /\ answer.ap \in Aps
      BY <1>3, <2>1 DEF AnswersListed, Answers
    <3> QED
      BY <1>4, <3>1
  <2>2. CASE answer = new
    BY <1>1, <1>2, <2>2
  <2> QED
    BY <1>5, <2>1, <2>2
<1>8. \A answer \in answers' : answer.kind = "probe" => answer \in answers
  BY <1>2, <1>5
<1> QED
  BY <1>4, <1>6, <1>7, <1>8

LEMMA SendAckedStep == IInv /\ SendAcked => IInv'
<1> SUFFICES ASSUME IInv, SendAcked PROVE IInv'
  OBVIOUS
<1>1. Typed
  BY DEF IInv
<1>2. out # <<>> /\ Head(out) \in Requests /\ Head(out) = out[1]
      /\ Len(out) \in Nat /\ Len(out) >= 1
      /\ Tail(out) \in Seq(Requests) /\ Len(Tail(out)) = Len(out) - 1
      /\ \A i \in 1 .. Len(Tail(out)) : Tail(out)[i] = out[i + 1] /\ i + 1 \in 1 .. Len(out)
  BY <1>1 DEF SendAcked, Typed
<1>3. PICK request \in Requests : request = Head(out)
  BY <1>2
<1>4. /\ request.kind # "probe" /\ request.ap \in Aps /\ ApProcessFrame(request)
      /\ out' = Tail(out) /\ sending' = FALSE /\ timer' = request.kind
      /\ UNCHANGED <<scanType, state, authenticated, associated, scanStarted, channel,
                     heard, proposed, apAddr, associatedAp, bssAddr, told, resetPending>>
  BY <1>3 DEF SendAcked, Reaches, progress, scan, chosen, joined
<1>5. /\ answers' \subseteq Answers
      /\ listed' \in [Aps -> {"never", "listed", "struck"}]
      /\ AnswersListed'
      /\ \A b \in Aps : listed[b] # "never" => listed'[b] # "never"
      /\ \A answer \in answers' : answer.kind = "probe" => answer \in answers
  BY <1>1, <1>4, ApStep DEF IInv
<1>6. request.kind \in {"auth", "assoc", "reassoc"}
  BY <1>4 DEF Requests
<1>7. Typed'
  <2>1. timer' \in Timers
    BY <1>4, <1>6 DEF Timers
  <2>2. out' \in Seq(Requests) /\ sending' = FALSE
    BY <1>2, <1>4
  <2> QED
    BY <1>1, <1>4, <1>5, <2>1, <2>2 DEF Typed
<1>8. Served' /\ Told'
  BY <1>4, <1>5, JoinAssumption DEF IInv, Served, Told, Quiet, JoinAssumption
<1>9. ASSUME Quiet PROVE QuietInv'
  <2>1. OutSound'
    BY <1>2, <1>4, <1>9 DEF IInv, QuietInv, OutSound
  <2>2. Own'
    BY <1>4, <1>5, <1>9 DEF IInv, QuietInv, Own
  <2>3. Flags'
    BY <1>4, <1>6, <1>9 DEF IInv, QuietInv, Flags
  <2>4. TimerSound'
    <3>1. authenticated /\ request.kind = "auth" => Len(out) > 1
      BY <1>2, <1>3, <1>9 DEF IInv, QuietInv, OutSound
    <3>2. ASSUME authenticated, request.kind = "auth" PROVE out' # <<>>
      <4>1. Len(Tail(out)) > 0 /\ Len(<<>>) = 0
        BY <1>2, <3>1, <3>2
      <4> QED
        BY <1>4, <4>1
    <3>3. timer' \in {"auth", "assoc", "reassoc"}
      BY <1>4, <1>6
    <3>4. timer' = "auth" /\ authenticated' => out' # <<>>
      BY <1>4, <3>2
    <3> QED
      BY <3>3, <3>4 DEF TimerSound
  <2>5. Channel'
    BY <1>4, <1>6, <1>9 DEF IInv, QuietInv, Channel, Asking, IsStationJoined
  <2>6. Remembered'
    BY <1>4, <1>6 DEF Remembered
  <2> QED
    BY <2>1, <2>2, <2>3, <2>4, <2>5, <2>6 DEF QuietInv
<1> QED
  BY <1>4, <1>5, <1>7, <1>8, <1>9 DEF IInv, Quiet

LEMMA SendUnackedStep == IInv /\ SendUnacked => IInv'
<1> SUFFICES ASSUME IInv, SendUnacked PROVE IInv'
  OBVIOUS
<1>1. Typed
  BY DEF IInv
<1>2. out # <<>> /\ Head(out) \in Requests
  BY <1>1 DEF SendUnacked, Typed
<1>3. PICK request \in Requests : request = Head(out)
  BY <1>2
<1>4. /\ request.ap \in Aps /\ ApProcessFrame(request)
      /\ UNCHANGED <<scanType, timer, state, authenticated, associated, scanStarted, channel,
                     heard, proposed, apAddr, associatedAp, bssAddr, told, out, sending,
                     resetPending>>
  BY <1>3 DEF SendUnacked, Reaches, progress, scan, chosen, joined, mac
<1>5. /\ answers' \subseteq Answers
      /\ listed' \in [Aps -> {"never", "listed", "struck"}]
      /\ AnswersListed'
      /\ \A b \in Aps : listed[b] # "never" => listed'[b] # "never"
      /\ \A answer \in answers' : answer.kind = "probe" => answer \in answers
  BY <1>1, <1>4, ApStep DEF IInv
<1>6. Typed'
  BY <1>1, <1>4, <1>5 DEF Typed
<1>7. Served' /\ Told'
  BY <1>4, <1>5, JoinAssumption DEF IInv, Served, Told, Quiet, JoinAssumption
<1>8. ASSUME Quiet PROVE QuietInv'
  BY <1>4, <1>5, <1>8
  DEF IInv, QuietInv, Flags, TimerSound, Own, OutSound, Channel, Remembered,
      Asking, IsStationJoined
<1> QED
  BY <1>4, <1>5, <1>6, <1>7, <1>8 DEF IInv, Quiet

LEMMA SendProbeStep ==
    ASSUME IInv, NEW reached \in SUBSET {a \in Aps : Home[a] = channel}, SendProbe(reached)
    PROVE  IInv'
<1>1. Typed
  BY DEF IInv
<1>2. Len(out) \in Nat /\ Len(out) >= 1 /\ Head(out) = out[1] /\ Tail(out) \in Seq(Requests)
  BY <1>1 DEF SendProbe, Typed
<1>3. /\ out[1].kind = "probe"
      /\ out' = Tail(out) /\ sending' = FALSE /\ timer' = "short"
      /\ UNCHANGED <<scanType, state, authenticated, associated, scanStarted, channel,
                     heard, proposed, apAddr, associatedAp, bssAddr, told, resetPending,
                     listed>>
      /\ Queue({ProcessProbeRequest(a) : a \in reached})
  BY <1>2 DEF SendProbe, progress, scan, chosen, joined
<1>4. \A a \in reached :
          /\ ProcessProbeRequest(a) \in Answers
          /\ ProcessProbeRequest(a).kind = "probe"
  BY DEF ProcessProbeRequest, ProbeAnswer, EProbeAnswer, Answer, Answers
<1>5. answers' \subseteq answers \cup {ProcessProbeRequest(a) : a \in reached}
  BY <1>3, QueueBounds
<1>6. ~Quiet
  BY <1>2, <1>3 DEF IInv, QuietInv, OutSound
<1>7. Typed'
  <2>1. answers' \subseteq Answers
    BY <1>1, <1>4, <1>5 DEF Typed
  <2>2. timer' \in Timers /\ out' \in Seq(Requests) /\ sending' = FALSE
    BY <1>2, <1>3 DEF Timers
  <2> QED
    BY <1>1, <1>3, <2>1, <2>2 DEF Typed
<1>8. AnswersListed'
  BY <1>3, <1>4, <1>5 DEF IInv, AnswersListed
<1>9. Served' /\ Told'
  BY <1>3 DEF IInv, Served, Told, Quiet
<1> QED
  BY <1>3, <1>6, <1>7, <1>8, <1>9 DEF IInv, Quiet

LEMMA ResponseStep == IInv /\ (ResponseExpires \/ ScanStartExpires) => IInv'
<1> SUFFICES ASSUME IInv, ResponseExpires \/ ScanStartExpires PROVE IInv'
  OBVIOUS
<1>1. sending \in BOOLEAN /\ resetPending \in BOOLEAN
  BY DEF IInv, Typed
<1>2. UNCHANGED <<scanType, sending, air>>
  BY DEF ResponseExpires, ScanStartExpires
<1>3. CASE ~sending /\ ResetNow("none") /\ UNCHANGED resetPending
  <2>1. "none" \in Timers
    BY DEF Timers
  <2> QED
    BY <1>1, <1>2, <1>3, <2>1, ResetNowStep
<1>4. CASE ResetLater("none") /\ UNCHANGED out
  BY <1>2, <1>4, ResetLaterStep
<1> QED
  BY <1>3, <1>4 DEF ResponseExpires, ScanStartExpires

LEMMA DropRequestStep == IInv /\ DropRequest => IInv'
<1> SUFFICES ASSUME IInv, DropRequest PROVE IInv'
  OBVIOUS
<1>1. sending \in BOOLEAN /\ resetPending \in BOOLEAN /\ timer \in Timers /\ out # <<>>
  BY DEF IInv, Typed, DropRequest
<1>2. PICK live \in Timers : live = timer
  BY <1>1
<1>3. UNCHANGED <<scanType, air>> /\ sending' = FALSE
  BY DEF DropRequest
<1>4. CASE ResetNow(timer) /\ UNCHANGED resetPending
  <2>1. ResetNow(live)
    BY <1>2, <1>4
  <2> QED
    BY <1>1, <1>3, <1>4, <2>1, ResetNowStep
<1>5. CASE ResetLater(timer) /\ out' = Tail(out)
  <2>1. ResetLater(live) /\ live \in {timer, "none"}
    BY <1>2, <1>5
  <2> QED
    BY <1>1, <1>3, <1>5, <2>1, ResetLaterStep
<1> QED
  BY <1>4, <1>5 DEF DropRequest

LEMMA PendingResetStep == IInv /\ PendingReset => IInv'
<1> SUFFICES ASSUME IInv, PendingReset PROVE IInv'
  OBVIOUS
<1>1. sending \in BOOLEAN /\ timer \in Timers
  BY DEF IInv, Typed
<1>2. PICK live \in Timers : live = timer
  BY <1>1
<1>3. ResetNow(live)
  BY <1>2 DEF PendingReset
<1> QED
  BY <1>1, <1>3, ResetNowStep DEF PendingReset

LEMMA ResponseLateStep == IInv /\ ResponseExpiresLate => IInv'
<1> SUFFICES ASSUME IInv, ResponseExpiresLate PROVE IInv'
  OBVIOUS
<1>1. /\ timer' = "none"
      /\ \/ timer = "auth" /\ authenticated
         \/ timer \in {"assoc", "reassoc"} /\ associated
      /\ UNCHANGED <<scanType, state, authenticated, associated, scanStarted, channel,
                     heard, proposed, apAddr, associatedAp, bssAddr, told, out, sending,
                     resetPending, answers, listed>>
  BY DEF ResponseExpiresLate, Expires, progress, scan, chosen, joined, mac, air
<1>2. Typed' /\ AnswersListed' /\ Served' /\ Told'
  BY <1>1 DEF IInv, Typed, AnswersListed, Served, Told, Quiet, Timers
<1>3. ASSUME Quiet PROVE QuietInv'
  BY <1>1, <1>3
  DEF IInv, QuietInv, Flags, TimerSound, Own, OutSound, Channel, Remembered,
      Asking, IsStationJoined
<1> QED
  BY <1>1, <1>2, <1>3 DEF IInv, Quiet

LEMMA TakeRequestStep == IInv /\ TakeRequest => IInv'
<1> SUFFICES ASSUME IInv, TakeRequest PROVE IInv'
  OBVIOUS
<1>1. /\ sending' = TRUE /\ out # <<>>
      /\ UNCHANGED <<scanType, timer, state, authenticated, associated, scanStarted,
                     channel, heard, proposed, apAddr, associatedAp, bssAddr, told, out,
                     resetPending, answers, listed>>
  BY DEF TakeRequest, progress, scan, chosen, joined, air
<1>2. Typed' /\ AnswersListed' /\ Served' /\ Told'
  BY <1>1 DEF IInv, Typed, AnswersListed, Served, Told, Quiet
<1>3. ASSUME Quiet PROVE QuietInv'
  BY <1>1, <1>3
  DEF IInv, QuietInv, Flags, TimerSound, Own, OutSound, Channel, Remembered,
      Asking, IsStationJoined
<1> QED
  BY <1>1, <1>2, <1>3 DEF IInv, Quiet

LEMMA HearBeaconStep == ASSUME IInv, NEW a \in Aps, HearBeacon(a) PROVE IInv'
<1>1. /\ a \in OwnSsid /\ heard' = heard \cup {a}
      /\ UNCHANGED <<scanType, timer, state, authenticated, associated, scanStarted,
                     channel, proposed, apAddr, associatedAp, bssAddr, told, out,
                     sending, resetPending, answers, listed>>
  BY DEF HearBeacon, ProcessBeacon, BeaconMeasured, WithApInfo, progress, chosen,
         joined, mac, air
<1>2. Typed' /\ AnswersListed' /\ Served' /\ Told'
  BY <1>1 DEF IInv, Typed, AnswersListed, Served, Told, Quiet
<1>3. ASSUME Quiet PROVE QuietInv'
  BY <1>1, <1>3
  DEF IInv, QuietInv, Flags, TimerSound, Own, OutSound, Channel, Remembered,
      Asking, IsStationJoined
<1> QED
  BY <1>1, <1>2, <1>3 DEF IInv, Quiet

LEMMA StrikeInactiveStep == ASSUME IInv, NEW a \in Aps, StrikeInactive(a) PROVE IInv'
<1>1. /\ listed' = [listed EXCEPT ![a] = "struck"]
      /\ UNCHANGED <<scanType, timer, state, authenticated, associated, scanStarted,
                     channel, heard, proposed, apAddr, associatedAp, bssAddr, told, out,
                     sending, resetPending, answers>>
  BY DEF StrikeInactive, DeleteAssociationId, progress, scan, chosen, joined, mac
<1>2. Typed
  BY DEF IInv
<1>3. /\ listed' \in [Aps -> {"never", "listed", "struck"}]
      /\ \A b \in Aps : listed[b] # "never" => listed'[b] # "never"
  BY <1>1, <1>2 DEF Typed
<1>4. Typed'
  BY <1>1, <1>2, <1>3 DEF Typed
<1>5. AnswersListed' /\ Served' /\ Told'
  BY <1>1, <1>2, <1>3, JoinAssumption
  DEF IInv, Typed, Answers, AnswersListed, Served, Told, Quiet, JoinAssumption
<1>6. ASSUME Quiet PROVE QuietInv'
  BY <1>1, <1>6
  DEF IInv, QuietInv, Flags, TimerSound, Own, OutSound, Channel, Remembered,
      Asking, IsStationJoined
<1> QED
  BY <1>1, <1>4, <1>5, <1>6 DEF IInv, Quiet

LEMMA LoseAnswerStep == ASSUME IInv, NEW answer \in answers, LoseAnswer(answer) PROVE IInv'
<1>1. /\ answers' \subseteq answers
      /\ UNCHANGED <<scanType, timer, state, authenticated, associated, scanStarted,
                     channel, heard, proposed, apAddr, associatedAp, bssAddr, told, out,
                     sending, resetPending, listed>>
  BY DEF LoseAnswer, progress, scan, chosen, joined, mac
<1>2. Typed' /\ AnswersListed' /\ Served' /\ Told'
  BY <1>1 DEF IInv, Typed, AnswersListed, Served, Told, Quiet
<1>3. ASSUME Quiet PROVE QuietInv'
  BY <1>1, <1>3
  DEF IInv, QuietInv, Flags, TimerSound, Own, OutSound, Channel, Remembered,
      Asking, IsStationJoined
<1> QED
  BY <1>1, <1>2, <1>3 DEF IInv, Quiet

LEMMA SenseBusyStep == IInv /\ SenseBusy => IInv'
<1> SUFFICES ASSUME IInv, SenseBusy PROVE IInv'
  OBVIOUS
<1>1. UNCHANGED <<scanType, timer, state, authenticated, associated, scanStarted,
                  channel, heard, proposed, apAddr, associatedAp, bssAddr, told, out,
                  sending, resetPending, answers, listed>>
  BY DEF SenseBusy, progress, chosen, joined, mac, air
<1>2. Typed' /\ AnswersListed' /\ Served' /\ Told'
  BY <1>1 DEF IInv, Typed, AnswersListed, Served, Told, Quiet
<1>3. ASSUME Quiet PROVE QuietInv'
  BY <1>1, <1>3
  DEF IInv, QuietInv, Flags, TimerSound, Own, OutSound, Channel, Remembered,
      Asking, IsStationJoined
<1> QED
  BY <1>1, <1>2, <1>3 DEF IInv, Quiet

(* The answers: probe, authentication, refusal and grant.                   *)
LEMMA HearAnswerStep == ASSUME IInv, NEW answer \in answers, HearAnswer(answer) PROVE IInv'
<1>1. Typed /\ answer \in Answers
  BY DEF IInv, Typed
<1>2. /\ channel = Home[answer.ap] /\ answers' \subseteq answers
      /\ UNCHANGED <<scanType, timer, channel, proposed, apAddr, sending, resetPending, listed>>
  BY DEF HearAnswer, chosen
<1>3. AnswersListed'
  BY <1>2 DEF IInv, AnswersListed
<1>4. CASE answer.kind = "probe" /\ ProcessProbeResponse(answer)
  <2>1. /\ heard' = heard \cup {answer.ap}
        /\ UNCHANGED <<state, authenticated, associated, scanStarted, associatedAp, bssAddr,
                       told, out>>
    BY <1>4 DEF ProcessProbeResponse, ProbeMeasured, WithApInfo, progress, joined
  <2>2. ~Quiet
    BY <1>4 DEF IInv, QuietInv, Own
  <2>3. Typed'
    BY <1>1, <1>2, <2>1 DEF Typed, Answers
  <2>4. Served' /\ Told'
    BY <1>2, <2>1 DEF IInv, Served, Told, Quiet
  <2> QED
    BY <1>2, <1>3, <2>2, <2>3, <2>4 DEF IInv, Quiet
<1>5. CASE state = "wfauth" /\ ProcessAuthenticate
  <2>1. /\ authenticated' = TRUE
        /\ UNCHANGED <<associated, associatedAp, bssAddr, told, heard, scanStarted>>
    BY <1>5 DEF ProcessAuthenticate, AuthenticationCompleted, joined
  <2>2. CASE associated
    <3>1. state' = "authFinished" /\ out' = out
      BY <1>5, <2>2 DEF ProcessAuthenticate, AuthenticationCompleted
    <3>2. ~Quiet
      BY <1>5, <2>2 DEF IInv, QuietInv, Flags
    <3>3. Typed' /\ Served' /\ Told'
      BY <1>1, <1>2, <2>1, <3>1, <3>2 DEF IInv, Typed, Served, Told, Quiet
    <3> QED
      BY <1>2, <1>3, <3>2, <3>3 DEF IInv, Quiet
  <2>3. CASE ~associated
    <3>1. state' = "wfassoc" /\ out' = Append(out, Request("assoc", apAddr))
      BY <1>5, <2>3 DEF ProcessAuthenticate, AuthenticationCompleted, AssociateRequest,
                        AssociateRequestFrame
    <3>2. out' \in Seq(Requests) /\ out' # <<>>
      BY <1>1, <3>1, RequestsQueue DEF Typed
    <3>3. Typed'
      BY <1>1, <1>2, <2>1, <3>1, <3>2 DEF Typed
    <3>4. Served' /\ Told'
      BY <1>2, <2>1, <2>3 DEF IInv, Served, Told
    <3>5. ASSUME Quiet PROVE QuietInv'
      <4>1. OutSound'
        <5>1. Len(out') = Len(out) + 1 /\ Len(out) \in Nat
              /\ \A i \in 1 .. Len(out') :
            \/ i \in 1 .. Len(out) /\ out'[i] = out[i]
            \/ out'[i] = Request("assoc", apAddr)
          BY <1>1, <3>1 DEF Typed
        <5> QED
          BY <5>1, <3>5 DEF IInv, QuietInv, OutSound, Request
      <4> QED
        BY <1>2, <1>5, <2>1, <2>3, <3>1, <3>2, <3>5, <4>1
        DEF IInv, QuietInv, Flags, TimerSound, Own, Channel, Remembered, Asking,
            IsStationJoined
    <3> QED
      BY <1>2, <1>3, <3>3, <3>4, <3>5 DEF IInv, Quiet
  <2> QED
    BY <2>2, <2>3
<1>6. CASE AssociationRefused /\ UNCHANGED <<heard, scanStarted>>
  <2>1. UNCHANGED <<state, authenticated, associated, associatedAp, bssAddr, told, out, heard,
                    scanStarted>>
    BY <1>6 DEF AssociationRefused, joined
  <2>2. Typed'
    BY <1>1, <1>2, <2>1 DEF Typed
  <2>3. Served' /\ Told'
    BY <1>2, <2>1 DEF IInv, Served, Told, Quiet
  <2>4. ASSUME Quiet PROVE QuietInv'
    BY <1>2, <2>1, <2>4
    DEF IInv, QuietInv, Flags, TimerSound, Own, OutSound, Channel, Remembered,
        Asking, IsStationJoined
  <2> QED
    BY <1>2, <1>3, <2>2, <2>3, <2>4 DEF IInv, Quiet
<1>7. CASE /\ answer.kind \in {"assoc", "reassoc"} /\ answer.good
           /\ state \in {"wfassoc", "wfreassoc"}
           /\ AssociationCompleted /\ UNCHANGED <<heard, scanStarted>>
  <2>1. associated' = TRUE /\ UNCHANGED <<authenticated, out>>
    BY <1>7 DEF AssociationCompleted
  <2>2. answer.ap \in OwnSsid /\ listed'[answer.ap] # "never"
    BY <1>2, <1>7 DEF IInv, AnswersListed
  <2>3. CASE authenticated
    <3>1. associatedAp' = proposed /\ bssAddr' = proposed /\ told' = proposed
          /\ state' = "joined"
      BY <1>7, <2>3 DEF AssociationCompleted, JoinCompleted
    <3>2. Typed'
      BY <1>1, <1>2, <1>7, <2>1, <3>1 DEF Typed
    <3>3. Told'
      BY <3>1 DEF Told
    <3>4. Quiet => channel = Home[proposed] /\ proposed \in OwnSsid
      BY <1>7, JoinAssumption DEF IInv, QuietInv, Channel, Own, Asking, JoinAssumption
    <3>5. Served'
      BY <1>2, <2>2, <3>1, <3>4 DEF Served, Quiet
    <3>6. ASSUME Quiet PROVE QuietInv'
      BY <1>2, <1>7, <2>1, <2>3, <3>1, <3>4, <3>6
      DEF IInv, QuietInv, Flags, TimerSound, Own, OutSound, Channel, Remembered,
          Asking, IsStationJoined
    <3> QED
      BY <1>2, <1>3, <3>2, <3>3, <3>5, <3>6 DEF IInv, Quiet
  <2>4. CASE ~authenticated
    <3>1. state' = "error" /\ UNCHANGED <<associatedAp, bssAddr, told>>
      BY <1>7, <2>4 DEF AssociationCompleted, joined
    <3>2. ~Quiet
      BY <1>7, <2>4 DEF IInv, QuietInv, Flags
    <3>3. Typed' /\ Told'
      BY <1>1, <1>2, <1>7, <2>1, <3>1 DEF IInv, Typed, Told
    <3>4. Served'
      BY <1>2, <2>2, <3>2 DEF Served, Quiet
    <3> QED
      BY <1>2, <1>3, <3>2, <3>3, <3>4 DEF IInv, Quiet
  <2> QED
    BY <2>3, <2>4
<1> QED
  BY <1>4, <1>5, <1>6, <1>7 DEF HearAnswer, ProcessFrame, Awaited, ProcessAssociateResponse,
                                ProcessReassociateResponse

LEMMA StutterStep == IInv /\ UNCHANGED vars => IInv'
<1> SUFFICES ASSUME IInv, UNCHANGED vars PROVE IInv'
  OBVIOUS
<1>1. UNCHANGED <<scanType, timer, state, authenticated, associated, scanStarted,
                  channel, heard, proposed, apAddr, associatedAp, bssAddr, told, out,
                  sending, resetPending, answers, listed>>
  BY DEF vars, progress, scan, chosen, joined, mac, air
<1>2. Typed' /\ AnswersListed' /\ Served' /\ Told'
  BY <1>1 DEF IInv, Typed, AnswersListed, Served, Told, Quiet
<1>3. ASSUME Quiet PROVE QuietInv'
  BY <1>1, <1>3
  DEF IInv, QuietInv, Flags, TimerSound, Own, OutSound, Channel, Remembered,
      Asking, IsStationJoined
<1> QED
  BY <1>1, <1>2, <1>3 DEF IInv, Quiet

(* Every step keeps it.                                                     *)
LEMMA NextStep == IInv /\ [Next]_vars => IInv'
<1> SUFFICES ASSUME IInv, [Next]_vars PROVE IInv'
  OBVIOUS
<1>1. CASE Station
  BY <1>1, EnableStep, ShortTimerStep, WaitTimerStep, AuthenticateStep,
     ReassociateRequestStep, ResponseStep, ResponseLateStep DEF Station
<1>2. CASE Environment
  BY <1>2, TakeRequestStep, SendAckedStep, SendUnackedStep, DropRequestStep,
     PendingResetStep, SendProbeStep, HearBeaconStep, StrikeInactiveStep, HearAnswerStep,
     LoseAnswerStep, SenseBusyStep, HandoverScanStep DEF Environment
<1> QED
  BY <1>1, <1>2, StutterStep DEF Next

(* The inductive invariant of the exchange holds in every reachable state:  *)
(* it is what the answers, timers and resets of mac_dot11-mgmt.cpp keep     *)
(* among them.                                                              *)
THEOREM JoinInvariant == Spec => []IInv
<1>1. Init => IInv
  BY InitIInv
<1>2. IInv /\ [Next]_vars => IInv'
  BY NextStep
<1> QED
  BY <1>1, <1>2, PTL DEF Spec

(* Without an active scan no answer, however late or repeated, completes a  *)
(* join without authentication: the check of                                *)
(* MacDot11ManagementJoinCompleted never fails.                             *)
THEOREM NoRefusedJoinAlways == Spec => []NoRefusedJoin
<1>1. IInv => NoRefusedJoin
  BY DEF IInv, QuietInv, Flags, Quiet, NoRefusedJoin
<1> QED
  BY <1>1, JoinInvariant, PTL

(* A joined station has been listed by an access point of its network,      *)
(* without an active scan by one on the channel of the one it calls its     *)
(* own.                                                                     *)
THEOREM ServedWhenJoinedAlways == Spec => []ServedWhenJoined
<1>1. IInv => ServedWhenJoined
  BY DEF IInv, Served, Quiet, IsStationJoined, ServedWhenJoined
<1> QED
  BY <1>1, JoinInvariant, PTL

(* The access point a station calls its own has had it in its list.         *)
ServedByItsAp ==
    Quiet /\ IsStationJoined => listed[associatedAp] # "never"

(* Where the access points of the network use distinct channels, that one   *)
(* is the one the station calls its own, although the source of an answer   *)
(* is never compared.                                                       *)
THEOREM OwnChannelsServed ==
    ASSUME \A a, b \in OwnSsid : Home[a] = Home[b] => a = b
    PROVE  Spec => []ServedByItsAp
<1>1. IInv => ServedByItsAp
  <2> SUFFICES ASSUME IInv, Quiet, IsStationJoined PROVE listed[associatedAp] # "never"
    BY DEF ServedByItsAp
  <2>1. associated /\ associatedAp \in OwnSsid
    BY DEF IsStationJoined, IInv, QuietInv, Flags
  <2>2. PICK a \in OwnSsid : listed[a] # "never" /\ Home[a] = Home[associatedAp]
    BY <2>1 DEF IInv, Served
  <2> QED
    BY <2>1, <2>2
<1> QED
  BY <1>1, JoinInvariant, PTL

(* Without an active scan the radio is on the channel of the access point   *)
(* that is asked and, once a scan is over, of the one that is joined.       *)
THEOREM OnItsChannelAlways == Spec => []OnItsChannel
<1>1. IInv => OnItsChannel
  BY DEF IInv, QuietInv, Channel, Asking, Quiet, OnItsChannel
<1> QED
  BY <1>1, JoinInvariant, PTL

(* Without an active scan a station that is not joined has a timer, a       *)
(* request or a put-off reset to wake it, whatever the queue and the timers *)
(* did.                                                                     *)
THEOREM NeverForgottenAlways == Spec => []NeverForgotten
<1>1. IInv => NeverForgotten
  BY DEF IInv, QuietInv, Remembered, Quiet, NeverForgotten
<1> QED
  BY <1>1, JoinInvariant, PTL

(* The address that the UP client daemon was told is the one the MAC is     *)
(* joined to, and without an active scan the one it filters on.             *)
THEOREM DaemonKnowsApAlways == Spec => []DaemonKnowsAp
<1>1. IInv => DaemonKnowsAp
  BY DEF IInv, Told, QuietInv, Channel, Quiet, DaemonKnowsAp
<1> QED
  BY <1>1, JoinInvariant, PTL

(* Without an active scan only access points of the own network are         *)
(* proposed.                                                                *)
THEOREM PassiveAsksOwnNetworkAlways == Spec => []PassiveAsksOwnNetwork
<1>1. IInv => PassiveAsksOwnNetwork
  BY DEF IInv, QuietInv, Own, Quiet, PassiveAsksOwnNetwork
<1> QED
  BY <1>1, JoinInvariant, PTL

-----------------------------------------------------------------------------
(* The inductive invariant: the scan.                                      *)

(* The channel j steps of one after start.                                  *)
From(start, j) == (start + j) % NChannels

(* The scan began on start, stands on the last channel counted, and has     *)
(* listened to every channel so far that can be listened to.                *)
ListenedFrom(start) ==
    /\ channel = From(start, numResults - 1)
    /\ visited = {From(start, j) : j \in 0 .. numResults - 1} \cap Listenable


(* The types of what a scan changes.                                        *)
Ranges ==
    /\ channel \in Listenable /\ visited \subseteq Listenable
    /\ numResults \in 0 .. NChannels
    /\ state # "idle" => numResults >= 1
    /\ mayReceive \in BOOLEAN /\ bssAddr \in Aps \cup {"self"}

(* Before the station is enabled nothing is queued, and only then is the    *)
(* enable timer alive.                                                      *)
Unstarted ==
    /\ state = "idle" => timer = "enable" /\ out = <<>> /\ ~resetPending
    /\ timer = "enable" => state = "idle" /\ ~authenticated /\ ~associated

(* Whoever is asked, or joined, is an access point: also with an active     *)
(* scan.                                                                    *)
Chosen ==
    /\ \/ timer \in {"authStart", "reassocStart"}
       \/ state \in {"wfauth", "authFinished", "wfassoc", "wfreassoc"}
       => proposed \in Aps
    /\ associated /\ state # "error" => associatedAp \in Aps

(* A scan has come so far, or the last one listened to everything.          *)
Listened ==
    scanType # "disabled" /\ state # "idle" =>
        visited = Listenable \/ \E start \in 0 .. NChannels - 1 : ListenedFrom(start)

ScanSound == Ranges /\ Unstarted /\ Chosen /\ Listened /\ ScanCovers

(* Remainders of small numbers.                                             *)
LEMMA ModSmall ==
    ASSUME NEW n \in Nat \ {0}, NEW x \in 0 .. 2 * n - 1
    PROVE  /\ x < n => x % n = x
           /\ x >= n => x % n = x - n
OBVIOUS

(* Steps add up, round the last channel.                                    *)
LEMMA ModSteps ==
    ASSUME NEW n \in Nat \ {0}, NEW s \in 0 .. n - 1, NEW i \in Nat, NEW k \in Nat, i + k < n
    PROVE  (((s + i) % n) + k) % n = (s + (i + k)) % n
<1>1. PICK x \in 0 .. 2 * n - 1 : x = s + i
  OBVIOUS
<1>2. PICK c \in 0 .. n - 1 : c = x % n /\ (x < n => c = x) /\ (x >= n => c = x - n)
  <2>1. (x < n => x % n = x) /\ (x >= n => x % n = x - n)
    BY ModSmall
  <2> QED
    BY <2>1
<1>3. PICK y \in 0 .. 2 * n - 1 : y = c + k
  OBVIOUS
<1>4. PICK z \in 0 .. 2 * n - 1 : z = s + (i + k)
  OBVIOUS
<1>5. (y < n => y % n = y) /\ (y >= n => y % n = y - n)
  BY ModSmall
<1>6. (z < n => z % n = z) /\ (z >= n => z % n = z - n)
  BY ModSmall
<1>7. y % n = z % n
  BY <1>1, <1>2, <1>3, <1>4, <1>5, <1>6
<1> QED
  BY <1>1, <1>2, <1>3, <1>4, <1>7

(* Every channel is some steps away.                                        *)
LEMMA ModOnto ==
    ASSUME NEW n \in Nat \ {0}, NEW s \in 0 .. n - 1, NEW c \in 0 .. n - 1
    PROVE  \E j \in 0 .. n - 1 : c = (s + j) % n
<1>1. CASE s <= c
  <2>1. c - s \in 0 .. n - 1 /\ s + (c - s) = c
    BY <1>1
  <2>2. c % n = c
    BY ModSmall
  <2> QED
    BY <2>1, <2>2
<1>2. CASE c < s
  <2>1. c - s + n \in 0 .. n - 1 /\ s + (c - s + n) = c + n
    BY <1>2
  <2>2. (c + n) % n = c
    BY ModSmall
  <2> QED
    BY <2>1, <2>2
<1> QED
  BY <1>1, <1>2

(* The least number of a set, which both CHOOSE take.                       *)
LEMMA Least ==
    ASSUME NEW T \in SUBSET Nat, T # {}
    PROVE  \E x \in T : \A y \in T : x <= y
<1>1. IsWellFoundedOn(OpToRel(<, Nat), Nat)
  BY NatLessThanWellFounded
<1>2. PICK x \in T : \A y \in T : ~ (<<y, x>> \in OpToRel(<, Nat))
  BY <1>1, WFMin
<1>3. \A y \in T : ~(y < x)
  BY <1>2 DEF OpToRel
<1> QED
  BY <1>3

(* The same two for channels.                                               *)
LEMMA FromSteps ==
    ASSUME NEW start \in 0 .. NChannels - 1, NEW i \in Nat, NEW k \in Nat, i + k < NChannels
    PROVE  (From(start, i) + k) % NChannels = From(start, i + k)
BY ModSteps, JoinAssumption DEF JoinAssumption, From

LEMMA FromOnto ==
    ASSUME NEW start \in 0 .. NChannels - 1, NEW c \in 0 .. NChannels - 1
    PROVE  \E j \in 0 .. NChannels - 1 : c = From(start, j)
BY ModOnto, JoinAssumption DEF JoinAssumption, From

(* NextDistance is what its CHOOSE asks for: round the ring there is the    *)
(* present channel at the latest.                                           *)
LEMMA NextDistanceIs ==
    ASSUME channel \in Listenable
    PROVE  /\ NextDistance \in 1 .. NChannels
           /\ (channel + NextDistance) % NChannels \in Listenable
           /\ \A j \in 1 .. NextDistance - 1 : (channel + j) % NChannels \notin Listenable
<1>1. NChannels \in Nat \ {0} /\ channel \in 0 .. NChannels - 1
  BY JoinAssumption DEF JoinAssumption
<1> DEFINE T == {k \in 1 .. NChannels : (channel + k) % NChannels \in Listenable}
<1>2. NChannels \in T
  <2>1. (channel + NChannels) % NChannels = channel
    BY <1>1, ModSmall
  <2> QED
    BY <1>1, <2>1
<1>3. \A k : k \in T <=> k \in 1 .. NChannels /\ (channel + k) % NChannels \in Listenable
  OBVIOUS
<1> HIDE DEF T
<1>4. T \in SUBSET Nat /\ T # {}
  BY <1>1, <1>2, <1>3
<1>5. PICK k \in T : \A y \in T : k <= y
  BY <1>4, Least
<1>6. k \in 1 .. NChannels /\ (channel + k) % NChannels \in Listenable
  BY <1>3, <1>5
<1>7. ASSUME NEW j \in 1 .. k - 1 PROVE (channel + j) % NChannels \notin Listenable
  <2>1. j \in 1 .. NChannels /\ ~(k <= j)
    BY <1>1, <1>6
  <2> QED
    BY <1>3, <1>5, <2>1
<1>8. \E d \in 1 .. NChannels :
          /\ (channel + d) % NChannels \in Listenable
          /\ \A j \in 1 .. d - 1 : (channel + j) % NChannels \notin Listenable
  BY <1>6, <1>7
<1> QED
  BY <1>8 DEF NextDistance

(* When the count says that the scan is over, it has listened to every      *)
(* channel: those that the last skip passes cannot be listened to.          *)
LEMMA AllCovered ==
    ASSUME Ranges, Listened, scanType # "disabled", state # "idle",
           \/ NChannels <= numResults
           \/ NChannels <= numResults + NextDistance - 1
    PROVE  visited = Listenable
<1>1. CASE visited = Listenable
  BY <1>1
<1>2. CASE \E start \in 0 .. NChannels - 1 : ListenedFrom(start)
  <2>1. PICK start \in 0 .. NChannels - 1 : ListenedFrom(start)
    BY <1>2
  <2>2. /\ NChannels \in Nat \ {0} /\ numResults \in 1 .. NChannels
        /\ NextDistance \in 1 .. NChannels
        /\ \A j \in 1 .. NextDistance - 1 : (channel + j) % NChannels \notin Listenable
    BY NextDistanceIs, JoinAssumption DEF Ranges, JoinAssumption
  <2>3. SUFFICES ASSUME NEW c \in Listenable PROVE c \in visited
    BY DEF Ranges
  <2>4. c \in 0 .. NChannels - 1
    BY JoinAssumption DEF JoinAssumption
  <2>5. PICK j \in 0 .. NChannels - 1 : c = From(start, j)
    BY <2>4, FromOnto
  <2>6. CASE j <= numResults - 1
    BY <2>1, <2>2, <2>5, <2>6 DEF ListenedFrom
  <2>7. CASE j > numResults - 1
    <3>1. PICK i \in Nat, k \in Nat : i = numResults - 1 /\ k = j - i
      BY <2>2, <2>7
    <3>2. i + k = j /\ k \in 1 .. NextDistance - 1
      BY <2>2, <2>7, <3>1
    <3>3. (From(start, i) + k) % NChannels = From(start, i + k)
      <4>1. i + k < NChannels
        BY <2>2, <3>2
      <4> QED
        BY <4>1, FromSteps
    <3>4. channel = From(start, i)
      BY <2>1, <3>1 DEF ListenedFrom
    <3> QED
      BY <2>2, <2>5, <3>2, <3>3, <3>4
  <2> QED
    BY <2>2, <2>6, <2>7
<1> QED
  BY <1>1, <1>2 DEF Listened

(* A step to the next channel keeps the account of the scan.                *)
LEMMA NextListened ==
    ASSUME Ranges, Listened, state # "idle", scanType # "disabled", ChangeToNext,
           UNCHANGED <<scanType, state>>, ~(NChannels <= numResults + NextDistance - 1)
    PROVE  Listened' /\ channel' \in Listenable /\ visited' \subseteq Listenable
           /\ numResults' \in 1 .. NChannels
<1>1. /\ NChannels \in Nat \ {0} /\ numResults \in 1 .. NChannels
      /\ NextDistance \in 1 .. NChannels
      /\ (channel + NextDistance) % NChannels \in Listenable
      /\ \A j \in 1 .. NextDistance - 1 : (channel + j) % NChannels \notin Listenable
      /\ visited \subseteq Listenable
  BY NextDistanceIs, JoinAssumption DEF Ranges, JoinAssumption
<1>2. PICK d \in 1 .. NChannels : d = NextDistance
  BY <1>1
<1>8. \A j \in 1 .. d - 1 : (channel + j) % NChannels \notin Listenable
  BY <1>1, <1>2
<1>3. /\ channel' = (channel + d) % NChannels
      /\ visited' = visited \cup {channel'}
      /\ numResults' = numResults + d
      /\ numResults + d <= NChannels
  BY <1>1, <1>2 DEF ChangeToNext, ChangeToChannel
<1>4. channel' \in Listenable /\ visited' \subseteq Listenable /\ numResults' \in 1 .. NChannels
  BY <1>1, <1>2, <1>3
<1>5. CASE visited = Listenable
  BY <1>3, <1>4, <1>5 DEF Listened
<1>6. ASSUME NEW start \in 0 .. NChannels - 1, ListenedFrom(start)
      PROVE  ListenedFrom(start)'
  <2>1. PICK i \in Nat, r \in Nat : i = numResults - 1 /\ r = numResults + d - 1
    BY <1>1
  <2>2. channel = From(start, i) /\ i + d = r /\ r < NChannels
    BY <1>1, <1>3, <1>6, <2>1 DEF ListenedFrom
  <2>3. \A k \in Nat : i + k < NChannels => (channel + k) % NChannels = From(start, i + k)
    BY <2>2, FromSteps
  <2>4. channel' = From(start, r)
    BY <1>3, <2>2, <2>3
  <2>5. ASSUME NEW j \in 0 .. r, From(start, j) \in Listenable
        PROVE  j <= i \/ j = r
    <3> SUFFICES ASSUME j > i, j < r PROVE FALSE
      OBVIOUS
    <3>1. PICK k \in Nat : i + k = j /\ k \in 1 .. d - 1
      <4>1. j - i \in Nat /\ i + (j - i) = j /\ j - i \in 1 .. d - 1
        BY <2>2
      <4> QED
        BY <4>1
    <3>2. (channel + k) % NChannels = From(start, j)
      <4>1. i + k < NChannels
        BY <2>2, <3>1, <1>1
      <4>2. (channel + k) % NChannels = From(start, i + k)
        BY <2>3, <4>1
      <4> QED
        BY <3>1, <4>2
    <3> QED
      BY <1>8, <2>5, <3>1, <3>2
  <2>6. visited' = {From(start, j) : j \in 0 .. r} \cap Listenable
    <3>1. visited = {From(start, j) : j \in 0 .. i} \cap Listenable
      BY <1>6, <2>1 DEF ListenedFrom
    <3>2. \A j \in 0 .. i : j \in 0 .. r
      BY <2>2
    <3>3. r \in 0 .. r
      OBVIOUS
    <3>4. \A j \in 0 .. r : From(start, j) \in Listenable => j \in 0 .. i \/ j = r
      BY <2>5
    <3> QED
      BY <1>3, <1>4, <2>4, <3>1, <3>2, <3>3, <3>4
  <2>7. numResults' - 1 = r
    BY <1>1, <1>2, <1>3, <2>1
  <2> QED
    BY <2>4, <2>6, <2>7 DEF ListenedFrom
<1>7. CASE \E start \in 0 .. NChannels - 1 : ListenedFrom(start)
  <2>1. PICK start \in 0 .. NChannels - 1 : ListenedFrom(start)
    BY <1>7
  <2>2. ListenedFrom(start)'
    BY <1>6, <2>1
  <2> QED
    BY <1>4, <2>2 DEF Listened
<1> QED
  BY <1>4, <1>5, <1>7 DEF Listened

(* A scan starts its account with the present channel.                      *)
LEMMA StartListened ==
    ASSUME Ranges, UNCHANGED <<scanType, channel, mayReceive>>,
           numResults' = 1, visited' = {channel}, state' = "wfscan", scanStarted' = TRUE,
           bssAddr' \in {bssAddr, "self"}, timer' # "enable"
    PROVE  Ranges' /\ Unstarted' /\ Listened' /\ ScanCovers'
<1>1. /\ NChannels \in Nat \ {0} /\ channel \in 0 .. NChannels - 1 /\ channel \in Listenable
  BY JoinAssumption DEF Ranges, JoinAssumption
<1>2. From(channel, 0) = channel
  <2>1. channel % NChannels = channel
    BY <1>1, ModSmall
  <2> QED
    BY <1>1, <2>1 DEF From
<1>3. Ranges'
  BY <1>1 DEF Ranges
<1>4. PICK start \in 0 .. NChannels - 1 : start = channel
  BY <1>1
<1>5. ListenedFrom(start)'
  <2>1. numResults' - 1 = 0 /\ channel' = From(start, 0)
    BY <1>2, <1>4
  <2>2. {From(start, j) : j \in 0 .. 0} = {channel}
    BY <1>2, <1>4
  <2> QED
    BY <1>1, <2>1, <2>2 DEF ListenedFrom
<1>6. Listened'
  BY <1>5 DEF Listened
<1> QED
  BY <1>3, <1>6 DEF Unstarted, ScanCovers

(* A step that leaves the scan alone keeps its account.                     *)
LEMMA KeptListened ==
    ASSUME ScanSound, UNCHANGED <<scanType, channel, numResults, visited>>,
           state # "idle", state' # "idle",
           \/ timer' = timer /\ scanStarted' = scanStarted
           \/ timer' \notin {"enable", "authStart", "reassocStart", "scanStart"},
           mayReceive' \in BOOLEAN, bssAddr' \in Aps \cup {"self"}, Chosen'
    PROVE  ScanSound'
<1>1. Ranges' /\ Unstarted'
  BY DEF ScanSound, Ranges, Unstarted
<1>2. Listened'
  BY DEF ScanSound, Listened, ListenedFrom
<1>3. ScanCovers'
  BY DEF ScanSound, ScanCovers
<1> QED
  BY <1>1, <1>2, <1>3 DEF ScanSound

(* The start channel is one the interface can listen to.                    *)
LEMMA InitScanSound == Init => ScanSound
<1> SUFFICES ASSUME Init PROVE ScanSound
  OBVIOUS
<1>1. \A S \in SUBSET Listenable : S # {} =>
          (CHOOSE c \in S : \A d \in S : c <= d) \in Listenable
  <2> SUFFICES ASSUME NEW S \in SUBSET Listenable, S # {}
               PROVE  (CHOOSE c \in S : \A d \in S : c <= d) \in Listenable
    OBVIOUS
  <2>1. S \in SUBSET Nat
    BY JoinAssumption DEF JoinAssumption
  <2>2. \E c \in S : \A d \in S : c <= d
    BY <2>1, Least
  <2> QED
    BY <2>2
<1>2. \A listening \in SUBSET Listenable : FirstListening(listening) \in Listenable
  BY <1>1, JoinAssumption DEF FirstListening, JoinAssumption
<1>3. channel \in Listenable
  <2>1. PICK sta \in Listenable \cup {NChannels}, listening \in SUBSET Listenable :
            channel = StartChannel(sta, listening)
    BY DEF Init
  <2>2. sta < NChannels => sta \in Listenable
    BY JoinAssumption DEF JoinAssumption
  <2>3. CASE sta < NChannels
    BY <2>1, <2>2, <2>3 DEF StartChannel
  <2>4. CASE ~(sta < NChannels)
    BY <1>2, <2>1, <2>4 DEF StartChannel
  <2> QED
    BY <2>3, <2>4
<1>4. Ranges
  <2>1. /\ visited = {} /\ numResults = 0 /\ state = "idle"
        /\ mayReceive = FALSE /\ bssAddr = "self"
    BY DEF Init
  <2>2. 0 \in 0 .. NChannels
    BY JoinAssumption DEF JoinAssumption
  <2> QED
    BY <1>3, <2>1, <2>2 DEF Ranges
<1>5. Unstarted /\ Chosen /\ Listened /\ ScanCovers
  BY DEF Init, Unstarted, Chosen, Listened, ScanCovers
<1> QED
  BY <1>4, <1>5 DEF ScanSound

(* One lemma per action or group of actions: each keeps the account.        *)
LEMMA EnableScan == IInv /\ ScanSound /\ Enable => ScanSound'
<1> SUFFICES ASSUME IInv, ScanSound, Enable PROVE ScanSound'
  OBVIOUS
<1>1. /\ UNCHANGED <<scanType, channel, mayReceive>>
      /\ numResults' = 1 /\ visited' = {channel} /\ state' = "wfscan" /\ scanStarted' = TRUE
      /\ bssAddr' \in {bssAddr, "self"}
  BY DEF Enable, StartJoin, ScanStart, ScanDisabled, ScanPassive, ScanActive
<1>2. /\ timer' \in {"beaconWait", "none"} /\ timer = "enable"
      /\ UNCHANGED <<associated, associatedAp>>
  BY DEF Enable, Expires, StartJoin, ScanStart, ScanDisabled, ScanPassive, ScanActive
<1>3. ~associated
  BY <1>2 DEF ScanSound, Unstarted
<1> QED
  BY <1>1, <1>2, <1>3, StartListened DEF ScanSound, Chosen

LEMMA ResetNowScan ==
    ASSUME ScanSound, NEW live \in {timer, "none"}, ResetNow(live), UNCHANGED scanType,
           state # "idle"
    PROVE  ScanSound'
<1>1. /\ UNCHANGED <<scanType, channel, mayReceive>>
      /\ numResults' = 1 /\ visited' = {channel} /\ state' = "wfscan" /\ scanStarted' = TRUE
      /\ bssAddr' \in {bssAddr, "self"}
  BY DEF ResetNow, StartJoin, ScanStart, ScanDisabled, ScanPassive, ScanActive
<1>2. /\ timer' \in {"beaconWait", "none", timer}
      /\ associated' = FALSE /\ UNCHANGED proposed
  BY DEF ResetNow, StartJoin, ScanStart, ScanDisabled, ScanPassive, ScanActive
<1>3. timer' # "enable"
  BY <1>2 DEF ScanSound, Unstarted
<1> QED
  BY <1>1, <1>2, <1>3, StartListened DEF ScanSound, Chosen

LEMMA HandoverScanScan == state # "error" /\ ScanSound /\ HandoverScan => ScanSound'
<1> SUFFICES ASSUME state # "error", ScanSound, HandoverScan PROVE ScanSound'
  OBVIOUS
<1>1. /\ UNCHANGED <<scanType, channel, mayReceive>>
      /\ numResults' = 1 /\ visited' = {channel} /\ state' = "wfscan" /\ scanStarted' = TRUE
      /\ bssAddr' \in {bssAddr, "self"}
  BY DEF HandoverScan, StartJoin, ScanStart, ScanDisabled, ScanPassive, ScanActive
<1>2. /\ timer' \in {"beaconWait", timer}
      /\ UNCHANGED <<associated, associatedAp, proposed>>
  BY DEF HandoverScan, StartJoin, ScanStart, ScanDisabled, ScanPassive, ScanActive, chosen
<1>3. timer' # "enable"
  BY <1>2 DEF HandoverScan, IsStationJoined, ScanSound, Unstarted
<1> QED
  BY <1>1, <1>2, <1>3, StartListened DEF ScanSound, Chosen

LEMMA ResetLaterScan ==
    ASSUME ScanSound, NEW live \in {timer, "none"}, ResetLater(live), UNCHANGED scanType,
           state # "idle"
    PROVE  ScanSound'
<1>1. /\ UNCHANGED <<state, associated, scanStarted, channel, numResults, visited, mayReceive,
                     proposed, associatedAp, bssAddr>>
      /\ timer' \in {timer, "none"}
  BY DEF ResetLater, progress, scan, chosen, joined
<1>2. Chosen'
  BY <1>1 DEF ScanSound, Chosen
<1>3. mayReceive' \in BOOLEAN /\ bssAddr' \in Aps \cup {"self"}
  BY <1>1 DEF ScanSound, Ranges
<1> QED
  BY <1>1, <1>2, <1>3, KeptListened

LEMMA ScanNextChannelScan ==
    ASSUME IInv, ScanSound, ScanNextChannel, state \notin {"error", "idle"},
           UNCHANGED <<scanType, state, associatedAp>>
    PROVE  ScanSound'
<1>1. NChannels \in Nat \ {0} /\ numResults \in 1 .. NChannels /\ NextDistance \in 1 .. NChannels
  BY NextDistanceIs, JoinAssumption DEF ScanSound, Ranges, JoinAssumption
<1>2. CASE ScanCompleted /\ (NumChannels <= numResults
                             \/ NumChannels <= numResults + NextDistance - 1)
  <2>1. scanType # "disabled" => visited = Listenable
    BY <1>2, AllCovered DEF ScanSound, NumChannels
  <2>2. /\ scanStarted' = FALSE /\ numResults' = 1 /\ UNCHANGED <<visited, mayReceive>>
    BY <1>2 DEF ScanCompleted
  <2>3. (scanType # "disabled" => visited' = Listenable) /\ UNCHANGED scanType
    BY <2>1, <2>2
  <2>4. Listened' /\ ScanCovers'
    BY <2>3 DEF Listened, ScanCovers
  <2>5. CASE NoApFound
    <3>1. /\ associated' = FALSE /\ timer' = "scanStart"
          /\ UNCHANGED <<channel, proposed, apAddr, bssAddr>>
      BY <2>5 DEF NoApFound, chosen
    <3>2. Ranges' /\ Chosen' /\ Unstarted'
      BY <1>1, <2>2, <3>1 DEF ScanSound, Ranges, Chosen, Unstarted
    <3> QED
      BY <2>4, <3>2 DEF ScanSound
  <2>6. ASSUME NEW best \in heard, ProposeFirst(best) \/ ProposeHandover(best)
        PROVE  ScanSound'
    <3>1. /\ associated' = FALSE /\ proposed' = best /\ channel' = Home[best]
          /\ timer' \in {"authStart", "reassocStart"} /\ UNCHANGED bssAddr
      BY <2>6 DEF ProposeFirst, ProposeHandover, Propose, ChangeToChannel
    <3>2. best \in Aps /\ Home[best] \in Listenable
      BY JoinAssumption DEF IInv, Typed, JoinAssumption
    <3>3. Ranges' /\ Chosen' /\ Unstarted'
      BY <1>1, <2>2, <3>1, <3>2 DEF ScanSound, Ranges, Chosen, Unstarted
    <3> QED
      BY <2>4, <3>3 DEF ScanSound
  <2>7. CASE KeepAp
    <3>1. /\ associated /\ channel' = Home[associatedAp] /\ bssAddr' = associatedAp
          /\ timer' = "none" /\ UNCHANGED <<associated, proposed, apAddr>>
      BY <2>7 DEF KeepAp, ChangeToChannel, chosen
    <3>2. associatedAp \in Aps /\ Home[associatedAp] \in Listenable
      BY <3>1, JoinAssumption DEF ScanSound, Chosen, JoinAssumption
    <3>3. Ranges' /\ Chosen' /\ Unstarted'
      BY <1>1, <2>2, <3>1, <3>2 DEF ScanSound, Ranges, Chosen, Unstarted
    <3> QED
      BY <2>4, <3>3 DEF ScanSound
  <2> QED
    BY <1>2, <2>5, <2>6, <2>7 DEF ScanCompleted
<1>3. CASE ChangeToNext /\ ~(NumChannels <= numResults
                             \/ NumChannels <= numResults + NextDistance - 1)
  <2>1. scanType # "disabled" /\ ~(NChannels <= numResults + NextDistance - 1)
    BY <1>1, <1>3 DEF NumChannels
  <2>2. /\ Listened' /\ channel' \in Listenable /\ visited' \subseteq Listenable
        /\ numResults' \in 1 .. NChannels
    BY <1>3, <2>1, NextListened DEF ScanSound
  <2>3. /\ timer' \in {"beaconWait", "none"} /\ mayReceive' \in {FALSE, mayReceive}
        /\ UNCHANGED <<associated, proposed, bssAddr>>
    BY <1>3 DEF ChangeToNext, chosen
  <2>4. Ranges'
    <3>1. numResults' \in 0 .. NChannels /\ numResults' >= 1
      BY <1>1, <2>2
    <3>2. mayReceive' \in BOOLEAN /\ bssAddr' \in Aps \cup {"self"}
      BY <2>3 DEF ScanSound, Ranges
    <3> QED
      BY <2>2, <3>1, <3>2 DEF Ranges
  <2>5. Chosen' /\ Unstarted'
    BY <2>3 DEF ScanSound, Chosen, Unstarted
  <2>6. ScanCovers'
    BY <2>3 DEF ScanCovers
  <2> QED
    BY <2>2, <2>4, <2>5, <2>6 DEF ScanSound
<1> QED
  BY <1>2, <1>3 DEF ScanNextChannel

LEMMA ScanTimersScan ==
    IInv /\ ScanSound /\ state # "error" /\ (ShortTimerExpires \/ WaitTimerExpires)
    => ScanSound'
<1> SUFFICES ASSUME IInv, ScanSound, state # "error", ShortTimerExpires \/ WaitTimerExpires
             PROVE  ScanSound'
  OBVIOUS
<1>1. state # "idle"
  BY DEF ShortTimerExpires, WaitTimerExpires, Expires, ScanSound, Unstarted
<1>2. CASE ScanNextChannel
  <2>1. UNCHANGED <<scanType, state, associatedAp>>
    BY DEF ShortTimerExpires, WaitTimerExpires
  <2> QED
    BY <1>1, <1>2, <2>1, ScanNextChannelScan
<1>3. CASE ShortTimerExpires /\ mayReceive
  <2>1. /\ timer' = "long"
        /\ UNCHANGED <<scanType, state, associated, scanStarted, channel, numResults, visited,
                       mayReceive, proposed, associatedAp, bssAddr>>
    BY <1>3 DEF ShortTimerExpires, scan, chosen
  <2>2. Chosen' /\ mayReceive' \in BOOLEAN /\ bssAddr' \in Aps \cup {"self"}
    BY <2>1 DEF ScanSound, Chosen, Ranges
  <2> QED
    BY <1>1, <2>1, <2>2, KeptListened
<1> QED
  BY <1>2, <1>3 DEF ShortTimerExpires, WaitTimerExpires

LEMMA RequestTimersScan ==
    /\ ScanSound /\ state # "error"
    /\ Authenticate \/ ReassociateRequest \/ ResponseExpiresLate
    => ScanSound'
<1> SUFFICES ASSUME ScanSound, state # "error",
                    Authenticate \/ ReassociateRequest \/ ResponseExpiresLate
             PROVE  ScanSound'
  OBVIOUS
<1>1. state # "idle"
  BY DEF Authenticate, ReassociateRequest, ResponseExpiresLate, Expires, ScanSound, Unstarted
<1>2. /\ timer' = "none"
      /\ UNCHANGED <<scanType, associated, channel, numResults, visited, mayReceive, proposed,
                     associatedAp, bssAddr>>
  BY DEF Authenticate, ReassociateRequest, ResponseExpiresLate, progress, scan, chosen, joined
<1>3. \/ state' = state
      \/ state' \in {"wfauth", "wfreassoc"} /\ timer \in {"authStart", "reassocStart"}
  BY DEF Authenticate, ReassociateRequest, ResponseExpiresLate, Expires, progress
<1>4. Chosen' /\ state' # "idle"
  BY <1>1, <1>2, <1>3 DEF ScanSound, Chosen
<1>5. mayReceive' \in BOOLEAN /\ bssAddr' \in Aps \cup {"self"}
  BY <1>2 DEF ScanSound, Ranges
<1> QED
  BY <1>1, <1>2, <1>4, <1>5, KeptListened

LEMMA ResetsScan ==
    IInv /\ ScanSound /\ (ResponseExpires \/ ScanStartExpires \/ DropRequest \/ PendingReset)
    => ScanSound'
<1> SUFFICES ASSUME IInv, ScanSound,
                    ResponseExpires \/ ScanStartExpires \/ DropRequest \/ PendingReset
             PROVE  ScanSound'
  OBVIOUS
<1>1. state # "idle"
  <2>1. sending => out # <<>>
    BY DEF IInv, Typed
  <2> QED
    BY <2>1 DEF ResponseExpires, ScanStartExpires, DropRequest, PendingReset, Expires,
                ScanSound, Unstarted
<1>2. PICK live \in {timer, "none"} : ResetNow(live) \/ ResetLater(live)
  <2>1. \/ ResetNow(timer) \/ ResetLater(timer)
        \/ ResetNow("none") \/ ResetLater("none")
    BY DEF ResponseExpires, ScanStartExpires, DropRequest, PendingReset
  <2> QED
    BY <2>1
<1>3. UNCHANGED scanType
  BY DEF ResponseExpires, ScanStartExpires, DropRequest, PendingReset
<1> QED
  BY <1>1, <1>2, <1>3, ResetNowScan, ResetLaterScan

LEMMA SendingScan ==
    ASSUME IInv, ScanSound,
           \/ TakeRequest \/ SendAcked \/ SendUnacked
           \/ \E reached \in SUBSET {a \in Aps : Home[a] = channel} : SendProbe(reached)
    PROVE  ScanSound'
<1>1. state # "idle"
  <2>1. sending => out # <<>>
    BY DEF IInv, Typed
  <2> QED
    BY <2>1 DEF TakeRequest, SendAcked, SendUnacked, SendProbe, ScanSound, Unstarted
<1>2. UNCHANGED <<scanType, state, associated, scanStarted, channel, numResults, visited,
                  mayReceive, proposed, associatedAp, bssAddr>>
  BY DEF TakeRequest, SendAcked, SendUnacked, SendProbe, progress, scan, chosen, joined
<1>3. timer' = timer \/ timer' \in {"short", "auth", "assoc", "reassoc"}
  <2>1. CASE SendAcked
    <3>1. Head(out) \in Requests
      BY <2>1 DEF IInv, Typed, SendAcked
    <3> QED
      BY <2>1, <3>1 DEF SendAcked, Requests
  <2> QED
    BY <2>1 DEF TakeRequest, SendUnacked, SendProbe
<1>4. Chosen' /\ mayReceive' \in BOOLEAN /\ bssAddr' \in Aps \cup {"self"}
  BY <1>2, <1>3 DEF ScanSound, Chosen, Ranges
<1> QED
  BY <1>1, <1>2, <1>3, <1>4, KeptListened

(* What happens in the air alone.                                           *)
LEMMA AirScan ==
    ASSUME ScanSound,
           UNCHANGED <<scanType, state, timer, authenticated, associated, scanStarted, channel,
                       numResults, visited, mayReceive, proposed, associatedAp, bssAddr, out,
                       resetPending>>
    PROVE  ScanSound'
<1>1. Ranges' /\ Unstarted' /\ Chosen' /\ ScanCovers'
  BY DEF ScanSound, Ranges, Unstarted, Chosen, ScanCovers
<1>2. Listened'
  BY DEF ScanSound, Listened, ListenedFrom
<1> QED
  BY <1>1, <1>2 DEF ScanSound

LEMMA SenseBusyScan == ScanSound /\ SenseBusy => ScanSound'
<1> SUFFICES ASSUME ScanSound, SenseBusy PROVE ScanSound'
  OBVIOUS
<1>1. /\ timer = "short" /\ mayReceive' = TRUE
      /\ UNCHANGED <<scanType, state, timer, associated, scanStarted, channel, numResults,
                     visited, proposed, associatedAp, bssAddr>>
  BY DEF SenseBusy, progress, chosen, joined
<1>2. state # "idle" /\ Chosen' /\ bssAddr' \in Aps \cup {"self"}
  BY <1>1 DEF ScanSound, Unstarted, Chosen, Ranges
<1> QED
  BY <1>1, <1>2, KeptListened

LEMMA HearAnswerScan ==
    ASSUME ScanSound, NEW answer \in answers, HearAnswer(answer)
    PROVE  ScanSound'
<1>1. UNCHANGED <<scanType, timer, channel, numResults, visited, mayReceive, proposed,
                  resetPending>>
  BY DEF HearAnswer, chosen
<1>2. CASE UNCHANGED <<state, authenticated, associated, scanStarted, associatedAp, bssAddr, out>>
  BY <1>1, <1>2, AirScan
<1>3. CASE state = "wfauth" /\ ProcessAuthenticate
  <2>1. /\ state' \in {"wfassoc", "authFinished"}
        /\ UNCHANGED <<associated, scanStarted, associatedAp, bssAddr>>
    BY <1>3 DEF ProcessAuthenticate, AuthenticationCompleted, AssociateRequest, joined
  <2>2. Chosen' /\ mayReceive' \in BOOLEAN /\ bssAddr' \in Aps \cup {"self"}
    BY <1>1, <1>3, <2>1 DEF ScanSound, Chosen, Ranges
  <2> QED
    BY <1>1, <1>3, <2>1, <2>2, KeptListened
<1>4. CASE /\ state \in {"wfassoc", "wfreassoc"}
           /\ AssociationCompleted /\ UNCHANGED <<heard, scanStarted>>
  <2>1. \/ state' = "joined" /\ associatedAp' = proposed /\ bssAddr' = proposed
        \/ state' = "error" /\ UNCHANGED <<associatedAp, bssAddr>>
    BY <1>4 DEF AssociationCompleted, JoinCompleted, joined
  <2>2. Chosen' /\ mayReceive' \in BOOLEAN /\ bssAddr' \in Aps \cup {"self"}
    BY <1>1, <1>4, <2>1 DEF ScanSound, Chosen, Ranges
  <2> QED
    BY <1>1, <1>4, <2>1, <2>2, KeptListened
<1> QED
  BY <1>2, <1>3, <1>4
  DEF HearAnswer, ProcessFrame, Awaited, ProcessProbeResponse, ProcessAssociateResponse,
      ProcessReassociateResponse, AssociationRefused, progress, joined

(* Every step keeps it.                                                     *)
LEMMA ScanStep == IInv /\ ScanSound /\ [Next]_vars => ScanSound'
<1> SUFFICES ASSUME IInv, ScanSound, [Next]_vars PROVE ScanSound'
  OBVIOUS
<1>1. CASE UNCHANGED vars
  <2>1. UNCHANGED <<scanType, state, timer, authenticated, associated, scanStarted, channel,
                    numResults, visited, mayReceive, proposed, associatedAp, bssAddr, out,
                    resetPending>>
    BY <1>1 DEF vars, progress, scan, chosen, joined, mac
  <2> QED
    BY <2>1, AirScan
<1>2. CASE state # "error" /\ Station
  BY <1>2, EnableScan, ScanTimersScan, RequestTimersScan, ResetsScan DEF Station
<1>3. CASE state # "error" /\ Environment
  <2>1. ASSUME NEW a \in Aps, HearBeacon(a) \/ StrikeInactive(a) PROVE ScanSound'
    <3>1. UNCHANGED <<scanType, state, timer, authenticated, associated, scanStarted, channel,
                      numResults, visited, mayReceive, proposed, associatedAp, bssAddr, out,
                      resetPending>>
      BY <2>1 DEF HearBeacon, ProcessBeacon, BeaconMeasured, StrikeInactive, progress, scan,
                  chosen, joined, mac
    <3> QED
      BY <3>1, AirScan
  <2>2. ASSUME NEW answer \in answers, LoseAnswer(answer) PROVE ScanSound'
    <3>1. UNCHANGED <<scanType, state, timer, authenticated, associated, scanStarted, channel,
                      numResults, visited, mayReceive, proposed, associatedAp, bssAddr, out,
                      resetPending>>
      BY <2>2 DEF LoseAnswer, progress, scan, chosen, joined, mac
    <3> QED
      BY <3>1, AirScan
  <2> QED
    BY <1>3, <2>1, <2>2, SendingScan, ResetsScan, SenseBusyScan, HandoverScanScan,
       HearAnswerScan DEF Environment
<1> QED
  BY <1>1, <1>2, <1>3 DEF Next

(* The account of the scan holds in every reachable state, with every kind  *)
(* of scan.                                                                 *)
THEOREM ScanInvariant == Spec => [](IInv /\ ScanSound)
<1>1. Init => IInv /\ ScanSound
  BY InitIInv, InitScanSound
<1>2. (IInv /\ ScanSound) /\ [Next]_vars => (IInv /\ ScanSound)'
  BY NextStep, ScanStep
<1> QED
  BY <1>1, <1>2, PTL DEF Spec

(* A scan that is over has listened to every channel the interface can      *)
(* listen to, with every kind of scan, number of channels and start.        *)
THEOREM ScanCoversAlways == Spec => []ScanCovers
<1>1. ScanSound => ScanCovers
  BY DEF ScanSound
<1> QED
  BY <1>1, ScanInvariant, PTL

(* Every variable has its type; in particular the radio is only ever sent   *)
(* to a channel it can listen to.                                           *)
THEOREM JoinTypeCorrect == Spec => []TypeOK
<1>1. IInv /\ ScanSound => TypeOK
  <2> SUFFICES ASSUME IInv, ScanSound PROVE TypeOK
    OBVIOUS
  <2>1. told \in Aps \cup {None}
    BY DEF IInv, Told, Typed
  <2> QED
    BY <2>1 DEF IInv, ScanSound, Typed, Ranges, Requests, Answers, TypeOK
<1> QED
  BY <1>1, ScanInvariant, PTL
============================================================================
