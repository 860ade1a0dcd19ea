----------------------------- MODULE UpTransfer -----------------------------
(***************************************************************************)
(* How data chunks pass from data sites to the node they send them to, as  *)
(* a rule a mobile data collector (MDC): the UP client daemon in the role  *)
(* of a data site, its client sessions (AppLayerUpClient) and the server   *)
(* sessions at the other end (AppLayerUpServer), all in app_up.cpp.  TCP   *)
(* and the radio are external: a connection opens or fails, passes the     *)
(* bytes of its one item in order, cut anywhere behind the header, and may *)
(* break at either end at any time.                                        *)
(*                                                                         *)
(* Session i of a site is the client whose uniqueId is the i-th, the       *)
(* connection it opens and the server session that accepts it: identifiers *)
(* are unique, so the first record that matches one is the only one.       *)
(***************************************************************************)
EXTENDS Integers, Sequences, FiniteSets

CONSTANTS Sites,       \* nodes whose daemon is APP_UP_NODE_DATA_SITE
          Chunks,      \* identifiers of data chunks
          Owner,       \* the site whose data file names each chunk
          Priority,    \* its priority
          Size,        \* its size in bytes, header not counted
          HeaderSize,  \* sizeof(AppUpMessageHeader) + 2
          ServerTypes, \* what the server's node may be: "MDC", "CLOUD"
          ConnMax,     \* APP_UP_OPEN_CONN_ATTEMPT_MAX
          MaxJoins     \* bound: joins per site

ASSUME TransferAssumption ==
    /\ Owner \in [Chunks -> Sites]
    /\ Priority \in [Chunks -> Int]
    /\ Size \in [Chunks -> Nat \ {0}]
    /\ HeaderSize \in Nat \ {0}
    /\ ServerTypes \subseteq {"MDC", "CLOUD"}
    /\ ConnMax \in Nat /\ MaxJoins \in Nat

VARIABLES
    nodeType,  \* of every server session: has its node a daemon?
    dirty,     \* the bits of each chunk in its site's list: 1 and 2
    sending,   \* clientDaemonPtr->sending
    attempts,  \* clientDaemonPtr->connAttempted
    joins,     \* joins so far
    reports,   \* messages on their way from client sessions to the daemon
    session,   \* per site, the sequence of its sessions
    heard      \* what the MDC's daemon is sent of each chunk, in order

siteVars == <<dirty, sending, attempts, joins>>
vars == <<nodeType, siteVars, reports, session, heard>>

(* A client session (chunk, closed: sessionIsClosed), its connection (tcp,   *)
(* left: the bytes handed to TCP that the server has not got) and its server *)
(* session (server, and its itemData: expected, received).                   *)
NewUpClient(c) ==
    [chunk |-> c, closed |-> TRUE, tcp |-> "opening", left |-> 0,
     server |-> "none", expected |-> -1, received |-> 0]
NewUpServer(this) == [this EXCEPT !.server = "open", !.expected = -1, !.received = 0]

(* AppUpClientInit: a new client opens its connection.                       *)
ClientInit(s, c) == session' = [session EXCEPT ![s] = Append(@, NewUpClient(c))]

SessionsOf(s) == 1 .. Len(session[s])

Init ==
    /\ nodeType \in ServerTypes
    /\ dirty = [c \in Chunks |-> {}]
    /\ sending = [s \in Sites |-> 0] /\ attempts = [s \in Sites |-> 0]
    /\ joins = [s \in Sites |-> 0]
    /\ reports = [s \in Sites |-> <<>>] /\ session = [s \in Sites |-> <<>>]
    /\ heard = [c \in Chunks |-> <<>>]

-----------------------------------------------------------------------------
(* The daemon of a data site. *)

(* AppUpClientDaemonGNDCEverything; which of equal priorities is left open.  *)
GetNext(s, bits) ==
    LET clean == {c \in Chunks : Owner[c] = s /\ bits[c] = {}}
    IN  {c \in clean : \A d \in clean : Priority[d] <= Priority[c]}

(* AppUpClientDaemonSendNextDataChunk, from what the handler has made of the *)
(* bits and the counter.                                                     *)
SendNext(s, bits, count) ==
    \/ \E c \in GetNext(s, bits) :
        /\ dirty' = [bits EXCEPT ![c] = @ \cup {"work"}]
        /\ sending' = [sending EXCEPT ![s] = count + 1]
        /\ ClientInit(s, c)
    \/ /\ GetNext(s, bits) = {}
       /\ dirty' = bits
       /\ sending' = [sending EXCEPT ![s] = count]
       /\ UNCHANGED session

(* MSG_APP_UP_FromMacJoinCompleted *)
JoinCompleted(s) ==
    /\ joins[s] < MaxJoins
    /\ joins' = [joins EXCEPT ![s] = @ + 1]
    /\ attempts' = [attempts EXCEPT ![s] = 0]
    /\ IF sending[s] > 0
       THEN UNCHANGED <<dirty, sending, session>>
       ELSE SendNext(s, dirty, sending[s])
    /\ UNCHANGED <<nodeType, reports, heard>>

TakeReport(s, kind) ==
    /\ reports[s] # <<>> /\ Head(reports[s]).kind = kind
    /\ reports' = [reports EXCEPT ![s] = Tail(@)]

(* MSG_APP_UP_DataChunkDelivered *)
SlipDelivered(s) ==
    /\ TakeReport(s, "delivered")
    /\ attempts' = [attempts EXCEPT ![s] = 0]
    /\ LET c == Head(reports[s]).chunk
       IN  SendNext(s, [dirty EXCEPT ![c] = @ \cup {"finish"}], sending[s])
    /\ UNCHANGED <<nodeType, joins, heard>>
Delivered(s) ==
    /\ TakeReport(s, "delivered")
    /\ attempts' = [attempts EXCEPT ![s] = 0]
    /\ LET c == Head(reports[s]).chunk
       IN  SendNext(s, [dirty EXCEPT ![c] = @ \cup {"finish"}], sending[s] - 1)
    /\ UNCHANGED <<nodeType, joins, heard>>

(* MSG_APP_UP_TransportConnectionFailed; when all attempts are used up, a    *)
(* data site does nothing, and the chunk keeps its work bit.                 *)
SlipConnectionFailed(s) ==
    /\ TakeReport(s, "failed")
    /\ IF attempts[s] <= ConnMax
       THEN /\ attempts' = [attempts EXCEPT ![s] = @ + 1]
            /\ LET c == Head(reports[s]).chunk
               IN  SendNext(s, [dirty EXCEPT ![c] = @ \ {"work"}], sending[s] - 1)
       ELSE /\ sending' = [sending EXCEPT ![s] = @ - 1]
            /\ UNCHANGED <<attempts, dirty, session>>
    /\ UNCHANGED <<nodeType, joins, heard>>
ConnectionFailed(s) ==
    /\ TakeReport(s, "failed")
    /\ IF attempts[s] < ConnMax
       THEN /\ attempts' = [attempts EXCEPT ![s] = @ + 1]
            /\ LET c == Head(reports[s]).chunk
               IN  SendNext(s, [dirty EXCEPT ![c] = @ \ {"work"}], sending[s] - 1)
       ELSE /\ sending' = [sending EXCEPT ![s] = @ - 1]
            /\ UNCHANGED <<attempts, dirty, session>>
    /\ UNCHANGED <<nodeType, joins, heard>>

-----------------------------------------------------------------------------
(* The client session. *)

(* The record with a connection or a unique id: AppUpClientGetUpClient,       *)
(* AppUpClientGetClientPtr, AppUpServerGetUpServer.                          *)
Of(s, i) == session[s][i]

Set(s, i, new) == session' = [session EXCEPT ![s][i] = new]

TellDaemon(s, kind, c) ==
    reports' = [reports EXCEPT ![s] = Append(@, [kind |-> kind, chunk |-> c])]

UpdateUpClient(client) == [client EXCEPT !.tcp = "up", !.closed = FALSE]

(* AppUpClientNewVirtualDataItem and AppUpClientSendVirtualItem: header and  *)
(* item at once, after which the session counts as closed.                   *)
VirtualItem(c) == HeaderSize + Size[c]
SendVirtualItem(client) ==
    IF client.closed THEN client
    ELSE [client EXCEPT !.left = VirtualItem(client.chunk), !.closed = TRUE]

(* MSG_APP_FromTransOpenResult with a connection. *)
OpenOk(s, i) ==
    /\ Of(s, i).tcp = "opening"
    /\ Set(s, i, SendVirtualItem(UpdateUpClient(Of(s, i))))
    /\ UNCHANGED <<nodeType, siteVars, reports, heard>>

(* MSG_APP_FromTransOpenResult without one. *)
OpenFailed(s, i) ==
    /\ Of(s, i).tcp = "opening"
    /\ Set(s, i, [Of(s, i) EXCEPT !.tcp = "refused"])
    /\ TellDaemon(s, "failed", Of(s, i).chunk)
    /\ UNCHANGED <<nodeType, siteVars, heard>>

(* MSG_APP_FromTransDataSent, once for the one item: the connection is       *)
(* closed, and the chunk reported as delivered.                              *)
DataSent(s, i) ==
    /\ Of(s, i).tcp = "up"
    /\ Of(s, i).closed
    /\ Set(s, i, [Of(s, i) EXCEPT !.tcp = "closing"])
    /\ TellDaemon(s, "delivered", Of(s, i).chunk)
    /\ UNCHANGED <<nodeType, siteVars, heard>>

(* MSG_APP_FromTransCloseResult: the daemon is told nothing.  The connection *)
(* was closed from here ("gone"), or broke before or after DataSent.         *)
SlipClientCloseResult(s, i) ==
    /\ Of(s, i).tcp = "up"
    /\ Set(s, i, [Of(s, i) EXCEPT !.tcp = "lost", !.closed = TRUE])
    /\ TellDaemon(s, "failed", Of(s, i).chunk)
    /\ UNCHANGED <<nodeType, siteVars, heard>>
ClientCloseResult(s, i) ==
    /\ \/ /\ Of(s, i).tcp = "up"
          /\ Set(s, i, [Of(s, i) EXCEPT !.tcp = "lost", !.closed = TRUE])
       \/ /\ Of(s, i).tcp = "closing"
          /\ \E how \in {"gone", "broken"} :
              /\ how = "gone" => Of(s, i).server \in {"closed", "broken"}
              /\ Set(s, i, [Of(s, i) EXCEPT !.tcp = how, !.closed = TRUE])
    /\ UNCHANGED <<nodeType, siteVars, reports, heard>>

-----------------------------------------------------------------------------
(* The server session. *)

TellMdc(kind, c) ==
    heard' = IF nodeType = "MDC" THEN [heard EXCEPT ![c] = Append(@, kind)] ELSE heard

(* MSG_APP_FromTransOpenResult, passive: AppUpServerNewUpServer. *)
Accept(s, i) ==
    /\ Of(s, i).server = "none" /\ Of(s, i).tcp \in {"up", "closing"}
    /\ Set(s, i, NewUpServer(Of(s, i)))
    /\ UNCHANGED <<nodeType, siteVars, reports, heard>>

(* MSG_APP_FromTransDataReceived: k bytes.  Only the first segment has real  *)
(* bytes, and it holds the whole header: TCP's segments are longer.          *)
SlipHeaderReceived(s, i, k) ==
    LET c == Of(s, i).chunk
    IN  /\ Of(s, i).left = VirtualItem(c) /\ k >= HeaderSize
        /\ Set(s, i, [Of(s, i) EXCEPT !.left = @ - k, !.expected = Size[c],
                                       !.received = @ + k])
        /\ TellMdc("header", c)
HeaderReceived(s, i, k) ==
    LET c == Of(s, i).chunk
    IN  /\ Of(s, i).left = VirtualItem(c) /\ k >= HeaderSize
        /\ Set(s, i, [Of(s, i) EXCEPT !.left = @ - k, !.expected = Size[c],
                                       !.received = @ + k - HeaderSize])
        /\ TellMdc("header", c)

SlipRestReceived(s, i, k) ==
    /\ Of(s, i).left < VirtualItem(Of(s, i).chunk)
    /\ Set(s, i, [Of(s, i) EXCEPT !.left = @ - k, !.received = k])
    /\ UNCHANGED heard
RestReceived(s, i, k) ==
    /\ Of(s, i).left < VirtualItem(Of(s, i).chunk)
    /\ Set(s, i, [Of(s, i) EXCEPT !.left = @ - k, !.received = @ + k])
    /\ UNCHANGED heard

DataReceived(s, i) ==
    /\ Of(s, i).server = "open"
    /\ \E k \in 1 .. Of(s, i).left : HeaderReceived(s, i, k) \/ RestReceived(s, i, k)
    /\ UNCHANGED <<nodeType, siteVars, reports>>

(* MSG_APP_FromTransCloseResult, passive: in order, after all the bytes, or  *)
(* because the connection broke; the server session cannot tell which.       *)
SlipServerClose(s, i, how) ==
    /\ Of(s, i).server = "open"
    /\ Set(s, i, [Of(s, i) EXCEPT !.server = how])
    /\ TellMdc("whole", Of(s, i).chunk)
    /\ UNCHANGED <<nodeType, siteVars, reports>>
ServerClose(s, i, how) ==
    /\ Of(s, i).server = "open"
    /\ Set(s, i, [Of(s, i) EXCEPT !.server = how])
    /\ IF Of(s, i).received = Of(s, i).expected
       THEN TellMdc("whole", Of(s, i).chunk)
       ELSE UNCHANGED heard
    /\ UNCHANGED <<nodeType, siteVars, reports>>

ServerCloseResult(s, i) ==
    \/ /\ Of(s, i).left = 0 /\ Of(s, i).tcp \in {"closing", "gone"}
       /\ ServerClose(s, i, "closed")
    \/ ServerClose(s, i, "broken")

-----------------------------------------------------------------------------
Daemon(s) == JoinCompleted(s) \/ Delivered(s) \/ ConnectionFailed(s)

Client(s, i) ==
    OpenOk(s, i) \/ OpenFailed(s, i) \/ DataSent(s, i) \/ ClientCloseResult(s, i)

Server(s, i) == Accept(s, i) \/ DataReceived(s, i) \/ ServerCloseResult(s, i)

Next ==
    \E s \in Sites :
        Daemon(s) \/ \E i \in SessionsOf(s) : Client(s, i) \/ Server(s, i)

Spec == Init /\ [][Next]_vars

(* Reports are handled.  TCP answers every open; it sends what it is given,  *)
(* passes it on and ends, or breaks at an end.                               *)
Fairness ==
    \A s \in Sites :
        /\ WF_vars(Delivered(s) \/ ConnectionFailed(s))
        /\ WF_vars(\E i \in SessionsOf(s) : Client(s, i))
        /\ WF_vars(\E i \in SessionsOf(s) : Server(s, i))

FairSpec == Spec /\ Fairness

-----------------------------------------------------------------------------
Session ==
    [chunk : Chunks, closed : BOOLEAN,
     tcp : {"opening", "refused", "up", "closing", "lost", "gone", "broken"},
     left : Nat, server : {"none", "open", "closed", "broken"},
     expected : Int, received : Nat]

TypeOK ==
    /\ nodeType \in ServerTypes
    /\ dirty \in [Chunks -> SUBSET {"work", "finish"}]
    /\ sending \in [Sites -> Nat] /\ attempts \in [Sites -> 0 .. ConnMax]
    /\ joins \in [Sites -> 0 .. MaxJoins]
    /\ reports \in [Sites -> Seq([kind : {"delivered", "failed"}, chunk : Chunks])]
    /\ session \in [Sites -> Seq(Session)]
    /\ \A s \in Sites : \A i \in SessionsOf(s) : Owner[session[s][i].chunk] = s
    /\ heard \in [Chunks -> Seq({"header", "whole"})]

(* The MDC's daemon is told of a chunk at most once, and of its header first *)
(* and of the whole of it then, through every retry, lost session and second *)
(* offer: what UpDaemon assumes of the receptions it reacts to.              *)
HeaderThenWhole ==
    \A c \in Chunks : heard[c] \in {<<>>, <<"header">>, <<"header", "whole">>}

(* A connection closed in order has brought the item, whatever the segments: *)
(* the server session has counted exactly the size the header named, and its *)
(* daemon has been told.  A broken one is reported only if nothing is        *)
(* missing.                                                                  *)
CloseIsWhole ==
    \A s \in Sites : \A i \in SessionsOf(s) :
        LET this == session[s][i]
            whole == this.left = 0 /\ this.received = Size[this.chunk]
        IN  /\ this.server = "closed" =>
                /\ whole
                /\ nodeType = "MDC" => heard[this.chunk] = <<"header", "whole">>
            /\ heard[this.chunk] = <<"header", "whole">> =>
                \E j \in SessionsOf(s) :
                    /\ session[s][j].chunk = this.chunk
                    /\ session[s][j].left = 0
                    /\ session[s][j].received = Size[this.chunk]

(* The counter a data site goes by is the number of its sessions that are    *)
(* opening, sending or lost without a report, and of reports under way: at   *)
(* most one at a time.  Hence a lost session keeps the site from ever        *)
(* sending again.                                                            *)
Unreported(s) == {i \in SessionsOf(s) : session[s][i].tcp \in {"opening", "up", "lost"}}

SendingCounts ==
    \A s \in Sites :
        /\ sending[s] = Cardinality(Unreported(s)) + Len(reports[s])
        /\ sending[s] <= 1

(* Sites and collector together hand chunks over as UpHandoff says. *)
Handoff == INSTANCE UpHandoff WITH
    at <- [c \in Chunks |-> IF "finish" \in dirty[c] THEN "claimed"
                            ELSE IF "work" \in dirty[c] THEN "offered" ELSE "kept"],
    got <- heard
HandoffSpec == Handoff!Spec

(* What a site takes for delivered arrives at the MDC, unless the connection *)
(* breaks after TCP has reported it sent.                                    *)
Arrived(c) ==
    \/ heard[c] = <<"header", "whole">>
    \/ \E i \in SessionsOf(Owner[c]) :
        /\ session[Owner[c]][i].chunk = c
        /\ session[Owner[c]][i].tcp = "broken" \/ session[Owner[c]][i].server = "broken"
DeliveredArrives ==
    nodeType = "MDC" => \A c \in Chunks : "finish" \in dirty[c] ~> Arrived(c)
=============================================================================
