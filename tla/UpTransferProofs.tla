-------------------------- MODULE UpTransferProofs --------------------------
(***************************************************************************)
(* Theorems about UpTransfer, for all sites, chunks, sizes and limits:     *)
(* what a site counts, what a collector is told, and that both together    *)
(* hand chunks over as UpHandoff says.                                     *)
(***************************************************************************)
EXTENDS UpTransfer, FiniteSetTheorems, SequenceTheorems, TLAPS

-----------------------------------------------------------------------------
(* The inductive invariant.                                                *)

Reported == {"refused", "closing", "gone", "broken"}

\* What the collector's daemon has been told through a session.
Said(this) ==
  IF nodeType # "MDC" \/ this.expected = -1 THEN <<>>
  ELSE IF this.server \in {"closed", "broken"} /\ this.received = this.expected
       THEN <<"header", "whole">> ELSE <<"header">>

\* The bytes of a connection are at the client, on their way or counted.
NotBegun(this) == this.expected = -1 /\ this.received = 0
Counted(this) ==
  LET c == this.chunk
  IN  IF this.tcp \in {"opening", "refused"}
      THEN this.left = 0 /\ this.server = "none" /\ NotBegun(this)
      ELSE /\ this.closed
           /\ \/ /\ this.left = VirtualItem(c) /\ NotBegun(this)
                 /\ this.server \in {"none", "open", "broken"}
              \/ /\ this.left <= Size[c] /\ this.left + this.received = Size[c]
                 /\ this.expected = Size[c]
                 /\ this.server \in {"open", "closed", "broken"}
           /\ this.server = "closed" => this.left = 0 /\ this.expected = Size[c]

\* A session that got through is the last one of its chunk, whose work bit stays
\* set, and the only one the collector hears of the chunk through.
SessionSound(s, i) ==
  LET this == session[s][i]
  IN  /\ Owner[this.chunk] = s
      /\ Counted(this)
      /\ this.tcp # "refused" =>
           /\ "work" \in dirty[this.chunk]
           /\ heard[this.chunk] = Said(this)
           /\ \A j \in SessionsOf(s) : session[s][j].chunk = this.chunk => j <= i

ReportOf(this) ==
  [kind |-> IF this.tcp = "refused" THEN "failed" ELSE "delivered", chunk |-> this.chunk]

LastOf(s) == session[s][Len(session[s])]
AllReported(s) == \A i \in SessionsOf(s) : session[s][i].tcp \in Reported

\* A site does nothing, waits for its last session's report, or has it.
Resting(s) == sending[s] = 0 /\ reports[s] = <<>> /\ AllReported(s)
Waiting(s) ==
  /\ sending[s] = 1 /\ reports[s] = <<>>
  /\ session[s] # <<>> /\ dirty[LastOf(s).chunk] = {"work"}
  /\ \A i \in SessionsOf(s) : session[s][i].tcp \in Reported <=> i < Len(session[s])
Answered(s) ==
  /\ sending[s] = 1
  /\ session[s] # <<>> /\ dirty[LastOf(s).chunk] = {"work"}
  /\ AllReported(s)
  /\ reports[s] = <<ReportOf(LastOf(s))>>

SiteSound(s) ==
  /\ \A i \in SessionsOf(s) : SessionSound(s, i)
  /\ Resting(s) \/ Waiting(s) \/ Answered(s)

ChunkSound(c) ==
  heard[c] # <<>> =>
    \E i \in SessionsOf(Owner[c]) :
      session[Owner[c]][i].chunk = c /\ session[Owner[c]][i].tcp # "refused"

IInv ==
  /\ TypeOK
  /\ \A s \in Sites : SiteSound(s)
  /\ \A c \in Chunks : ChunkSound(c)

-----------------------------------------------------------------------------
(* Facts about types.                                                      *)

LEMMA ConstantFacts ==
  /\ \A c \in Chunks : Owner[c] \in Sites /\ Size[c] \in Nat /\ Size[c] > 0
  /\ HeaderSize \in Nat /\ HeaderSize > 0
  /\ ConnMax \in Nat /\ MaxJoins \in Nat
BY TransferAssumption DEF TransferAssumption

LEMMA SessionFields ==
  ASSUME NEW r \in Session
  PROVE  /\ r.chunk \in Chunks /\ r.closed \in BOOLEAN /\ r.left \in Nat
         /\ r.tcp \in {"opening", "refused", "up", "closing", "lost", "gone", "broken"}
         /\ r.server \in {"none", "open", "closed", "broken"}
         /\ r.expected \in Int /\ r.received \in Nat
         /\ VirtualItem(r.chunk) = HeaderSize + Size[r.chunk]
         /\ VirtualItem(r.chunk) \in Nat
BY ConstantFacts DEF Session, VirtualItem

LEMMA TypeFacts ==
  ASSUME TypeOK, NEW s \in Sites
  PROVE  /\ session[s] \in Seq(Session) /\ Len(session[s]) \in Nat
         /\ SessionsOf(s) = 1 .. Len(session[s])
         /\ \A i \in SessionsOf(s) : session[s][i] \in Session
BY DEF TypeOK, SessionsOf

LEMMA AppendToOne ==
  ASSUME NEW S, NEW a \in S, NEW b \in S
  PROVE  Append(<<a>>, b) = <<a, b>>
<1> DEFINE q == Append(<<a>>, b)
<1>1. <<a>> \in Seq(S) /\ Len(<<a>>) = 1 /\ <<a>>[1] = a
  OBVIOUS
<1>2. q \in Seq(S) /\ Len(q) = 2 /\ q[1] = a /\ q[2] = b
  BY <1>1
<1>3. <<a, b>> \in Seq(S) /\ Len(<<a, b>>) = 2 /\ <<a, b>>[1] = a /\ <<a, b>>[2] = b
  OBVIOUS
<1> HIDE DEF q
<1>4. \A j \in 1 .. 2 : q[j] = <<a, b>>[j]
  BY <1>2, <1>3
<1>5. q = <<a, b>>
  BY <1>2, <1>3, <1>4, SeqEqual
<1> QED
  BY <1>5 DEF q

LEMMA WordsType ==
  /\ <<>> \in Seq({"header", "whole"}) /\ <<"header">> \in Seq({"header", "whole"})
  /\ <<"header", "whole">> \in Seq({"header", "whole"})
OBVIOUS

-----------------------------------------------------------------------------
(* What the handlers of a session make of its record.                      *)

\* A step of a session that changes neither its chunk nor whether it is refused or
\* reported.
Follows(old, new) ==
  /\ new \in Session /\ Counted(new)
  /\ new.chunk = old.chunk
  /\ old.tcp # "refused" /\ new.tcp # "refused"
  /\ new.tcp \in Reported <=> old.tcp \in Reported

LEMMA OpenedRecord ==
  ASSUME NEW r \in Session, Counted(r), r.tcp = "opening"
  PROVE  /\ Follows(r, SendVirtualItem(UpdateUpClient(r)))
         /\ Said(SendVirtualItem(UpdateUpClient(r))) = Said(r)
<1> DEFINE u == UpdateUpClient(r)
           v == [u EXCEPT !.left = VirtualItem(r.chunk), !.closed = TRUE]
<1>1. /\ u \in Session /\ u.tcp = "up" /\ ~u.closed /\ u.chunk = r.chunk
      /\ u.server = r.server /\ u.expected = r.expected /\ u.received = r.received
  BY SessionFields DEF UpdateUpClient, Session
<1> HIDE DEF u
<1>2. SendVirtualItem(u) = v
  BY <1>1 DEF SendVirtualItem
<1>3. /\ v \in Session /\ v.tcp = "up" /\ v.closed /\ v.chunk = r.chunk
      /\ v.left = VirtualItem(r.chunk)
      /\ v.server = r.server /\ v.expected = r.expected /\ v.received = r.received
  BY <1>1, SessionFields DEF Session
<1> HIDE DEF v
<1>4. r.server = "none" /\ r.expected = -1 /\ r.received = 0
  BY DEF Counted, NotBegun
<1>5. Counted(v)
  BY <1>3, <1>4 DEF Counted, NotBegun
<1>6. Follows(r, v) /\ Said(v) = Said(r)
  BY <1>3, <1>4, <1>5 DEF Follows, Said, Reported
<1> QED
  BY <1>2, <1>6 DEF u

\* Only the connection's state at the client changes.
LEMMA ClosedRecord ==
  ASSUME NEW r \in Session, Counted(r), NEW how \in {"lost", "gone", "broken"},
         (r.tcp = "up" /\ how = "lost") \/ (r.tcp = "closing" /\ how # "lost")
  PROVE  /\ Follows(r, [r EXCEPT !.tcp = how, !.closed = TRUE])
         /\ Said([r EXCEPT !.tcp = how, !.closed = TRUE]) = Said(r)
<1> DEFINE v == [r EXCEPT !.tcp = how, !.closed = TRUE]
<1>1. /\ v \in Session /\ v.tcp = how /\ v.closed /\ v.chunk = r.chunk /\ v.left = r.left
      /\ v.server = r.server /\ v.expected = r.expected /\ v.received = r.received
  BY SessionFields DEF Session
<1> HIDE DEF v
<1>2. Counted(v)
  BY <1>1 DEF Counted, NotBegun
<1>3. Follows(r, v) /\ Said(v) = Said(r)
  BY <1>1, <1>2 DEF Follows, Said, Reported
<1> QED
  BY <1>3 DEF v

LEMMA AcceptedRecord ==
  ASSUME NEW r \in Session, Counted(r), r.server = "none", r.tcp \in {"up", "closing"}
  PROVE  Follows(r, NewUpServer(r)) /\ Said(NewUpServer(r)) = Said(r)
<1> DEFINE v == NewUpServer(r)
<1>1. /\ v \in Session /\ v.tcp = r.tcp /\ v.closed = r.closed /\ v.chunk = r.chunk
      /\ v.left = r.left /\ v.server = "open" /\ v.expected = -1 /\ v.received = 0
  <2> DEFINE none == -1
  <2>1. v = [r EXCEPT !.server = "open", !.expected = none, !.received = 0]
    BY DEF NewUpServer
  <2>2. none \in Int
    OBVIOUS
  <2> HIDE DEF none, v
  <2>3. /\ v \in Session /\ v.tcp = r.tcp /\ v.closed = r.closed /\ v.chunk = r.chunk
        /\ v.left = r.left /\ v.server = "open" /\ v.expected = none /\ v.received = 0
    BY <2>1, <2>2, SessionFields DEF Session
  <2> QED
    BY <2>3 DEF none
<1> HIDE DEF v
<1>2. r.left = VirtualItem(r.chunk) /\ NotBegun(r) /\ r.closed
  BY DEF Counted
<1>3. Counted(v)
  BY <1>1, <1>2 DEF Counted, NotBegun
<1>4. Follows(r, v) /\ Said(v) = Said(r)
  BY <1>1, <1>2, <1>3 DEF Follows, Said, Reported, NotBegun
<1> QED
  BY <1>4 DEF v

\* A segment: its bytes move from the connection to the counter.
LEMMA HeaderRecord ==
  ASSUME NEW r \in Session, Counted(r), r.server = "open", NEW k \in 1 .. r.left,
         r.left = VirtualItem(r.chunk), k >= HeaderSize
  PROVE  LET new == [r EXCEPT !.left = @ - k, !.expected = Size[r.chunk],
                              !.received = @ + k - HeaderSize]
         IN  /\ Follows(r, new) /\ Said(r) = <<>>
             /\ Said(new) = IF nodeType = "MDC" THEN <<"header">> ELSE <<>>
<1> DEFINE v == [r EXCEPT !.left = @ - k, !.expected = Size[r.chunk],
                          !.received = @ + k - HeaderSize]
<1>1. r.tcp \notin {"opening", "refused"} /\ NotBegun(r) /\ r.closed
  BY SessionFields, ConstantFacts DEF Counted
<1>2. /\ r.left - k \in Nat /\ r.received + k - HeaderSize \in Nat
      /\ r.left - k <= Size[r.chunk]
      /\ r.left - k + (r.received + k - HeaderSize) = Size[r.chunk]
  BY <1>1, SessionFields, ConstantFacts DEF NotBegun
<1>3. /\ v \in Session /\ v.tcp = r.tcp /\ v.closed /\ v.chunk = r.chunk
      /\ v.left = r.left - k /\ v.server = "open" /\ v.expected = Size[r.chunk]
      /\ v.received = r.received + k - HeaderSize
  <2> DEFINE size == Size[r.chunk]
             rest == r.left - k
             total == r.received + k - HeaderSize
  <2>1. size \in Int /\ rest \in Nat /\ total \in Nat
    BY <1>2, SessionFields, ConstantFacts
  <2>2. v = [r EXCEPT !.left = rest, !.expected = size, !.received = total]
    OBVIOUS
  <2> HIDE DEF size, rest, total, v
  <2>3. /\ v \in Session /\ v.tcp = r.tcp /\ v.closed /\ v.chunk = r.chunk
        /\ v.left = rest /\ v.server = "open" /\ v.expected = size /\ v.received = total
    BY <1>1, <2>1, <2>2, SessionFields DEF Session
  <2> QED
    BY <2>3 DEF size, rest, total
<1> HIDE DEF v
<1>4. Counted(v)
  BY <1>1, <1>2, <1>3 DEF Counted
<1>5. /\ Follows(r, v) /\ Said(r) = <<>>
      /\ Said(v) = IF nodeType = "MDC" THEN <<"header">> ELSE <<>>
  BY <1>1, <1>3, <1>4, ConstantFacts, SessionFields DEF Follows, Said, NotBegun
<1> QED
  BY <1>5 DEF v

LEMMA RestRecord ==
  ASSUME NEW r \in Session, Counted(r), r.server = "open", NEW k \in 1 .. r.left,
         r.left < VirtualItem(r.chunk)
  PROVE  LET new == [r EXCEPT !.left = @ - k, !.received = @ + k]
         IN  Follows(r, new) /\ Said(new) = Said(r)
<1> DEFINE v == [r EXCEPT !.left = @ - k, !.received = @ + k]
<1>1. r.tcp \notin {"opening", "refused"} /\ r.closed
  BY DEF Counted
<1>2. r.left <= Size[r.chunk] /\ r.left + r.received = Size[r.chunk] /\ r.expected = Size[r.chunk]
  BY <1>1, SessionFields, ConstantFacts DEF Counted
<1>3. r.left - k \in Nat /\ r.received + k \in Nat /\ r.left - k <= Size[r.chunk]
      /\ r.left - k + (r.received + k) = Size[r.chunk]
  BY <1>2, SessionFields, ConstantFacts
<1>4. /\ v \in Session /\ v.tcp = r.tcp /\ v.closed /\ v.chunk = r.chunk
      /\ v.left = r.left - k /\ v.server = "open" /\ v.expected = r.expected
      /\ v.received = r.received + k
  BY <1>1, <1>3, SessionFields DEF Session
<1> HIDE DEF v
<1>5. Counted(v)
  BY <1>1, <1>2, <1>3, <1>4 DEF Counted
<1>6. Follows(r, v) /\ Said(v) = Said(r)
  BY <1>1, <1>4, <1>5 DEF Follows, Said
<1> QED
  BY <1>6 DEF v

\* A close at the server, in order only when nothing is left.
LEMMA ServerClosedRecord ==
  ASSUME NEW r \in Session, Counted(r), r.server = "open", NEW how \in {"closed", "broken"},
         how = "closed" => r.left = 0
  PROVE  LET new == [r EXCEPT !.server = how]
         IN  /\ Follows(r, new)
             /\ IF nodeType = "MDC" /\ r.received = r.expected
                THEN Said(r) = <<"header">> /\ Said(new) = <<"header", "whole">>
                ELSE Said(new) = Said(r)
<1> DEFINE v == [r EXCEPT !.server = how]
<1>1. r.tcp \notin {"opening", "refused"} /\ r.closed
  BY DEF Counted
<1>2. /\ v \in Session /\ v.tcp = r.tcp /\ v.closed /\ v.chunk = r.chunk /\ v.left = r.left
      /\ v.server = how /\ v.expected = r.expected /\ v.received = r.received
  BY <1>1, SessionFields DEF Session
<1> HIDE DEF v
<1>3. /\ how = "closed" => r.expected = Size[r.chunk]
      /\ r.expected = Size[r.chunk] \/ NotBegun(r)
  BY <1>1, SessionFields, ConstantFacts DEF Counted
<1>4. Counted(v)
  BY <1>1, <1>2, <1>3, SessionFields, ConstantFacts DEF Counted, NotBegun
<1>5. r.received = r.expected => r.expected # -1
  BY SessionFields
<1>6. /\ Follows(r, v)
      /\ IF nodeType = "MDC" /\ r.received = r.expected
         THEN Said(r) = <<"header">> /\ Said(v) = <<"header", "whole">>
         ELSE Said(v) = Said(r)
  BY <1>1, <1>2, <1>4, <1>5 DEF Follows, Said
<1> QED
  BY <1>6 DEF v

-----------------------------------------------------------------------------
(* Three kinds of steps: a session that goes on, a session that reports, and *)
(* a daemon that is free to send.                                            *)

\* Session i of site s becomes new.
Becomes(s, i, new) ==
  session' = [session EXCEPT ![s] = [session[s] EXCEPT ![i] = new]]

LEMMA SetBecomes ==
  ASSUME NEW s, NEW i, NEW new, Set(s, i, new)
  PROVE  Becomes(s, i, new)
BY DEF Set, Becomes

LEMMA BecomesFacts ==
  ASSUME TypeOK, NEW s \in Sites, NEW i \in SessionsOf(s), NEW new \in Session,
         Becomes(s, i, new), new.chunk = session[s][i].chunk
  PROVE  /\ session' \in [Sites -> Seq(Session)]
         /\ \A t \in Sites : SessionsOf(t)' = SessionsOf(t)
         /\ \A t \in Sites : Len(session'[t]) = Len(session[t])
         /\ \A t \in Sites \ {s} : session'[t] = session[t]
         /\ session'[s][i] = new
         /\ \A j \in SessionsOf(s) \ {i} : session'[s][j] = session[s][j]
         /\ \A j \in SessionsOf(s) : session'[s][j].chunk = session[s][j].chunk
<1>1. session \in [Sites -> Seq(Session)] /\ session[s] \in Seq(Session)
  BY DEF TypeOK
<1> DEFINE q == [session[s] EXCEPT ![i] = new]
<1>2. i \in 1 .. Len(session[s])
  BY DEF SessionsOf
<1>3. /\ q \in Seq(Session) /\ Len(q) = Len(session[s])
      /\ q[i] = new /\ \A j \in 1 .. Len(session[s]) : j # i => q[j] = session[s][j]
  BY <1>1, <1>2
<1> HIDE DEF q
<1>4. session' = [session EXCEPT ![s] = q]
  BY DEF Becomes, q
<1>5. session'[s] = q /\ \A t \in Sites \ {s} : session'[t] = session[t]
  BY <1>1, <1>4
<1>6. session' \in [Sites -> Seq(Session)]
  BY <1>1, <1>3, <1>4
<1> QED
  BY <1>3, <1>5, <1>6 DEF SessionsOf

SessionGoesOn(s, i, new) ==
  /\ Becomes(s, i, new) /\ Follows(session[s][i], new)
  /\ heard' = [heard EXCEPT ![session[s][i].chunk] = Said(new)]
  /\ UNCHANGED <<nodeType, siteVars, reports>>

SessionReports(s, i, new, kind) ==
  /\ Becomes(s, i, new)
  /\ new \in Session /\ Counted(new) /\ new.chunk = session[s][i].chunk
  /\ session[s][i].tcp \notin Reported
  /\ \/ kind = "failed" /\ new.tcp = "refused" /\ Said(session[s][i]) = <<>>
     \/ /\ kind = "delivered" /\ new.tcp \in Reported \ {"refused"}
        /\ Said(new) = Said(session[s][i])
  /\ reports' = [reports EXCEPT ![s] = Append(@, [kind |-> kind, chunk |-> new.chunk])]
  /\ UNCHANGED <<nodeType, siteVars, heard>>

LEMMA GoesOnKeeps ==
  ASSUME IInv, NEW s \in Sites, NEW i \in SessionsOf(s), NEW new, SessionGoesOn(s, i, new)
  PROVE  IInv'
<1> DEFINE old == session[s][i]
           c == old.chunk
<1>1. /\ TypeOK /\ new \in Session /\ Counted(new) /\ new.chunk = c
      /\ old.tcp # "refused" /\ new.tcp # "refused"
      /\ new.tcp \in Reported <=> old.tcp \in Reported
      /\ heard' = [heard EXCEPT ![c] = Said(new)]
      /\ nodeType' = nodeType /\ dirty' = dirty /\ sending' = sending
      /\ attempts' = attempts /\ joins' = joins /\ reports' = reports
      /\ Becomes(s, i, new)
  BY Zenon DEF IInv, SessionGoesOn, Follows, siteVars
<1>2. old \in Session /\ c \in Chunks /\ Owner[c] = s
  BY <1>1, TypeFacts, SessionFields DEF IInv, SiteSound, SessionSound
<1>3. /\ session' \in [Sites -> Seq(Session)]
      /\ \A t \in Sites : SessionsOf(t)' = SessionsOf(t)
      /\ \A t \in Sites : Len(session'[t]) = Len(session[t])
      /\ \A t \in Sites \ {s} : session'[t] = session[t]
      /\ session'[s][i] = new
      /\ \A j \in SessionsOf(s) \ {i} : session'[s][j] = session[s][j]
      /\ \A j \in SessionsOf(s) : session'[s][j].chunk = session[s][j].chunk
  BY <1>1, BecomesFacts
<1> HIDE DEF c, old
<1>4. Said(new)' = Said(new) /\ \A r \in Session : Said(r)' = Said(r)
  BY <1>1 DEF Said
<1>5. Said(new) \in Seq({"header", "whole"})
  BY WordsType DEF Said
<1>6. /\ heard' \in [Chunks -> Seq({"header", "whole"})]
      /\ heard'[c] = Said(new) /\ \A d \in Chunks \ {c} : heard'[d] = heard[d]
  BY <1>1, <1>2, <1>5 DEF TypeOK
<1>7. \A t \in Sites : \A j \in SessionsOf(t) : Owner[session[t][j].chunk] = t
  BY DEF IInv, SiteSound, SessionSound
<1>8. TypeOK'
  <2>1. (\A t \in Sites : \A j \in SessionsOf(t) : Owner[session[t][j].chunk] = t)'
    <3> SUFFICES ASSUME NEW t \in Sites, NEW j \in SessionsOf(t)'
                 PROVE  Owner[session'[t][j].chunk] = t
      OBVIOUS
    <3>1. j \in SessionsOf(t) /\ session'[t][j].chunk = session[t][j].chunk
      BY <1>3
    <3> QED
      BY <1>7, <3>1
  <2> QED
    BY <1>1, <1>3, <1>6, <2>1 DEF TypeOK
<1>9. ASSUME NEW t \in Sites, NEW j \in SessionsOf(t)' PROVE SessionSound(t, j)'
  <2>1. j \in SessionsOf(t) /\ SessionSound(t, j) /\ session[t][j] \in Session
    BY <1>1, <1>3, TypeFacts DEF IInv, SiteSound
  <2>2. \A k \in SessionsOf(t) : session'[t][k].chunk = session[t][k].chunk
    BY <1>3
  <2>3. CASE t = s /\ j = i
    BY <1>1, <1>2, <1>3, <1>4, <1>6, <2>1, <2>2, <2>3 DEF SessionSound, old, c
  <2>4. CASE ~(t = s /\ j = i)
    <3>1. session'[t][j] = session[t][j]
      BY <1>3, <2>1, <2>4
    <3>2. ASSUME session[t][j].tcp # "refused" PROVE session[t][j].chunk # c
      <4>1. CASE t = s
        <5>1. session[s][j].chunk = session[s][i].chunk => i <= j /\ j <= i
          BY <2>1, <3>2, <4>1, <1>1 DEF SessionSound, old, IInv, SiteSound
        <5>2. i \in Nat /\ j \in Nat
          BY <1>1, <2>1, <4>1, TypeFacts
        <5> QED
          BY <2>4, <4>1, <5>1, <5>2 DEF c, old
      <4>2. CASE t # s
        BY <1>2, <2>1, <4>2 DEF SessionSound
      <4> QED
        BY <4>1, <4>2
    <3>3. session[t][j].chunk \in Chunks
      BY <2>1, SessionFields
    <3>4. session[t][j].tcp # "refused" => heard'[session[t][j].chunk] = heard[session[t][j].chunk]
      BY <1>6, <3>2, <3>3
    <3> QED
      BY <1>1, <1>3, <1>4, <2>1, <2>2, <3>1, <3>4 DEF SessionSound
  <2> QED
    BY <2>3, <2>4
<1>10. ASSUME NEW t \in Sites PROVE (Resting(t) \/ Waiting(t) \/ Answered(t))'
  <2>1. \A j \in SessionsOf(t) :
          /\ session'[t][j].tcp \in Reported <=> session[t][j].tcp \in Reported
          /\ session'[t][j].tcp = "refused" <=> session[t][j].tcp = "refused"
          /\ session'[t][j].chunk = session[t][j].chunk
    BY <1>1, <1>3 DEF old
  <2>2. session[t] # <<>> <=> session'[t] # <<>>
    BY <1>1, <1>3, TypeFacts DEF TypeOK
  <2>3. session[t] # <<>> => Len(session[t]) \in SessionsOf(t) /\ Len(session'[t]) = Len(session[t])
    BY <1>1, <1>3, TypeFacts
  <2>4. Resting(t) \/ Waiting(t) \/ Answered(t)
    BY DEF IInv, SiteSound
  <2>5. CASE Resting(t)
    BY <1>1, <1>3, <2>1, <2>5 DEF Resting, AllReported
  <2>6. CASE Waiting(t)
    BY <1>1, <1>3, <2>1, <2>2, <2>3, <2>6 DEF Waiting, LastOf
  <2>7. CASE Answered(t)
    <3>1. ReportOf(LastOf(t))' = ReportOf(LastOf(t))
      BY <2>1, <2>3, <2>7 DEF Answered, LastOf, ReportOf
    <3>2. LastOf(t)'.chunk = LastOf(t).chunk
      BY <2>1, <2>3, <2>7 DEF Answered, LastOf
    <3> QED
      BY <1>1, <1>3, <2>1, <2>2, <2>7, <3>1, <3>2 DEF Answered, AllReported
  <2> QED
    BY <2>4, <2>5, <2>6, <2>7
<1>11. ASSUME NEW d \in Chunks PROVE ChunkSound(d)'
  <2>1. Owner[d] \in Sites
    BY ConstantFacts
  <2>2. CASE d = c
    BY <1>1, <1>2, <1>3, <2>2 DEF ChunkSound
  <2>3. CASE d # c
    <3>1. ChunkSound(d) /\ heard'[d] = heard[d]
      BY <1>6, <2>3 DEF IInv
    <3>2. \A j \in SessionsOf(Owner[d]) :
            session[Owner[d]][j].chunk = d => session'[Owner[d]][j] = session[Owner[d]][j]
      BY <1>3, <2>1, <2>3 DEF c, old
    <3> QED
      BY <1>3, <2>1, <3>1, <3>2 DEF ChunkSound
  <2> QED
    BY <2>2, <2>3
<1> QED
  BY <1>8, <1>9, <1>10, <1>11 DEF IInv, SiteSound

LEMMA ReportKeeps ==
  ASSUME IInv, NEW s \in Sites, NEW i \in SessionsOf(s), NEW new, NEW kind,
         SessionReports(s, i, new, kind)
  PROVE  IInv'
<1> DEFINE old == session[s][i]
           c == old.chunk
<1>1. /\ TypeOK /\ new \in Session /\ Counted(new) /\ new.chunk = c
      /\ old.tcp \notin Reported
      /\ nodeType' = nodeType /\ dirty' = dirty /\ sending' = sending
      /\ attempts' = attempts /\ joins' = joins /\ heard' = heard
      /\ Becomes(s, i, new)
  BY Zenon DEF IInv, SessionReports, siteVars
<1>2. old \in Session /\ c \in Chunks /\ Owner[c] = s /\ SessionSound(s, i)
  BY <1>1, TypeFacts, SessionFields DEF IInv, SiteSound, SessionSound
<1>3. /\ session' \in [Sites -> Seq(Session)]
      /\ \A t \in Sites : SessionsOf(t)' = SessionsOf(t)
      /\ \A t \in Sites : Len(session'[t]) = Len(session[t])
      /\ \A t \in Sites \ {s} : session'[t] = session[t]
      /\ session'[s][i] = new
      /\ \A j \in SessionsOf(s) \ {i} : session'[s][j] = session[s][j]
      /\ \A j \in SessionsOf(s) : session'[s][j].chunk = session[s][j].chunk
  BY <1>1, BecomesFacts
<1>4. /\ old.tcp # "refused" /\ heard[c] = Said(old) /\ "work" \in dirty[c]
      /\ new.tcp # "refused" => Said(new) = Said(old)
      /\ new.tcp = "refused" => Said(old) = <<>>
      /\ kind = IF new.tcp = "refused" THEN "failed" ELSE "delivered"
      /\ new.tcp \in Reported
  BY <1>1, <1>2 DEF SessionReports, SessionSound, Reported
<1>5. reports' = [reports EXCEPT ![s] = Append(@, ReportOf(new))]
  BY <1>4 DEF SessionReports, ReportOf
<1>6. Waiting(s)
  <2>1. ~Resting(s) /\ ~Answered(s)
    BY <1>1 DEF Resting, Answered, AllReported
  <2> QED
    BY <2>1 DEF IInv, SiteSound
<1>7. i = Len(session[s]) /\ reports[s] = <<>> /\ sending[s] = 1 /\ dirty[c] = {"work"}
  <2>1. i \in 1 .. Len(session[s]) /\ Len(session[s]) \in Nat
    BY <1>1, TypeFacts
  <2>2. i = Len(session[s])
    BY <1>1, <1>6, <2>1 DEF Waiting
  <2> QED
    BY <1>6, <2>2 DEF Waiting, LastOf
<1>8. /\ reports' \in [Sites -> Seq([kind : {"delivered", "failed"}, chunk : Chunks])]
      /\ reports'[s] = <<ReportOf(new)>>
      /\ \A t \in Sites \ {s} : reports'[t] = reports[t]
  <2> DEFINE Rep == [kind : {"delivered", "failed"}, chunk : Chunks]
  <2>1. ReportOf(new) \in Rep
    BY <1>1, <1>2 DEF ReportOf
  <2>2. reports \in [Sites -> Seq(Rep)]
    BY <1>1 DEF TypeOK
  <2> HIDE DEF Rep
  <2>3. Append(<<>>, ReportOf(new)) = <<ReportOf(new)>> /\ <<ReportOf(new)>> \in Seq(Rep)
    BY <2>1
  <2>4. reports' = [reports EXCEPT ![s] = <<ReportOf(new)>>]
    BY <1>5, <1>7, <2>2, <2>3
  <2>5. /\ reports' \in [Sites -> Seq(Rep)]
        /\ reports'[s] = <<ReportOf(new)>>
        /\ \A t \in Sites \ {s} : reports'[t] = reports[t]
    BY <2>2, <2>3, <2>4
  <2> QED
    BY <2>5 DEF Rep
<1> HIDE DEF c, old
<1>9. \A r \in Session : Said(r)' = Said(r)
  BY <1>1 DEF Said
<1>10. TypeOK'
  <2>1. (\A t \in Sites : \A j \in SessionsOf(t) : Owner[session[t][j].chunk] = t)'
    <3> SUFFICES ASSUME NEW t \in Sites, NEW j \in SessionsOf(t)'
                 PROVE  Owner[session'[t][j].chunk] = t
      OBVIOUS
    <3>1. j \in SessionsOf(t) /\ session'[t][j].chunk = session[t][j].chunk
      BY <1>3
    <3> QED
      BY <3>1 DEF IInv, SiteSound, SessionSound
  <2> QED
    BY <1>1, <1>3, <1>8, <2>1 DEF TypeOK
<1>11. ASSUME NEW t \in Sites, NEW j \in SessionsOf(t)' PROVE SessionSound(t, j)'
  <2>1. j \in SessionsOf(t) /\ SessionSound(t, j) /\ session[t][j] \in Session
    BY <1>1, <1>3, TypeFacts DEF IInv, SiteSound
  <2>2. \A k \in SessionsOf(t) : session'[t][k].chunk = session[t][k].chunk
    BY <1>3
  <2>3. CASE t = s /\ j = i
    BY <1>1, <1>2, <1>3, <1>4, <1>9, <2>1, <2>2, <2>3 DEF SessionSound, old, c
  <2>4. CASE ~(t = s /\ j = i)
    BY <1>1, <1>3, <1>9, <2>1, <2>2, <2>4 DEF SessionSound
  <2> QED
    BY <2>3, <2>4
<1>12. ASSUME NEW t \in Sites PROVE (Resting(t) \/ Waiting(t) \/ Answered(t))'
  <2>1. CASE t = s
    <3>1. session'[s] # <<>> /\ LastOf(s)' = new
      <4>1. i \in 1 .. Len(session[s]) /\ Len(session[s]) \in Nat
        BY <1>1, TypeFacts
      <4>2. session'[s] \in Seq(Session) /\ Len(session'[s]) = i /\ i > 0
        BY <1>3, <1>7, <4>1
      <4>3. session'[s] # <<>>
        BY <4>2
      <4> QED
        BY <1>3, <4>2, <4>3 DEF LastOf
    <3>2. AllReported(s)'
      <4> SUFFICES ASSUME NEW j \in SessionsOf(s)' PROVE session'[s][j].tcp \in Reported
        BY DEF AllReported
      <4>1. CASE j = i
        BY <1>3, <1>4, <4>1
      <4>2. CASE j # i
        <5>1. j < Len(session[s])
          BY <1>1, <1>3, <1>7, <4>2, TypeFacts
        <5> QED
          BY <1>3, <1>6, <4>2, <5>1 DEF Waiting
      <4> QED
        BY <4>1, <4>2
    <3>3. Answered(s)'
      BY <1>1, <1>7, <1>8, <3>1, <3>2 DEF Answered, c
    <3> QED
      BY <2>1, <3>3
  <2>2. CASE t # s
    <3>1. session'[t] = session[t] /\ reports'[t] = reports[t] /\ sending' = sending /\ dirty' = dirty
      BY <1>1, <1>3, <1>8, <2>2
    <3>2. SessionsOf(t)' = SessionsOf(t)
      BY <1>3
    <3> QED
      BY <3>1, <3>2 DEF IInv, SiteSound, Resting, Waiting, Answered, AllReported, LastOf
  <2> QED
    BY <2>1, <2>2
<1>13. ASSUME NEW d \in Chunks PROVE ChunkSound(d)'
  <2>1. Owner[d] \in Sites /\ ChunkSound(d) /\ heard' = heard
    BY <1>1, ConstantFacts DEF IInv
  <2>2. CASE d = c /\ new.tcp = "refused"
    BY <1>1, <1>4, <2>2 DEF ChunkSound
  <2>3. CASE ~(d = c /\ new.tcp = "refused")
    <3>1. ASSUME NEW j \in SessionsOf(Owner[d]), session[Owner[d]][j].chunk = d,
                 session[Owner[d]][j].tcp # "refused"
          PROVE  session'[Owner[d]][j].chunk = d /\ session'[Owner[d]][j].tcp # "refused"
      BY <1>1, <1>2, <1>3, <2>1, <2>3, <3>1 DEF c, old
    <3> QED
      BY <1>3, <2>1, <3>1 DEF ChunkSound
  <2> QED
    BY <2>2, <2>3
<1> QED
  BY <1>10, <1>11, <1>12, <1>13 DEF IInv, SiteSound

\* The daemon of s has no session that has not reported, no other report, and in
\* bits what it makes of the bits of its chunks.
FreeToSend(s, bits) ==
  /\ AllReported(s)
  /\ bits \in [Chunks -> SUBSET {"work", "finish"}]
  /\ \A c \in Chunks : Owner[c] # s => bits[c] = dirty[c]
  /\ \A i \in SessionsOf(s) :
       session[s][i].tcp # "refused" => "work" \in bits[session[s][i].chunk]
  /\ reports' = [reports EXCEPT ![s] = <<>>]
  /\ attempts' \in [Sites -> 0 .. ConnMax] /\ joins' \in [Sites -> 0 .. MaxJoins]
  /\ UNCHANGED <<nodeType, heard>>

LEMMA NewRecord ==
  ASSUME NEW c \in Chunks
  PROVE  /\ NewUpClient(c) \in Session /\ Counted(NewUpClient(c))
         /\ NewUpClient(c).chunk = c /\ NewUpClient(c).tcp = "opening"
         /\ Said(NewUpClient(c)) = <<>>
<1> DEFINE none == -1
           r == [chunk |-> c, closed |-> TRUE, tcp |-> "opening", left |-> 0,
                 server |-> "none", expected |-> none, received |-> 0]
<1>1. none \in Int /\ none = -1
  OBVIOUS
<1> HIDE DEF none
<1>2. r \in Session /\ r.chunk = c /\ r.tcp = "opening" /\ r.left = 0 /\ r.server = "none"
      /\ r.expected = none /\ r.received = 0
  BY <1>1 DEF Session
<1>3. NewUpClient(c) = r
  BY DEF NewUpClient, none
<1> HIDE DEF r
<1> QED
  BY <1>1, <1>2, <1>3 DEF Counted, NotBegun, Said

\* What every step of a free daemon keeps.
LEMMA FreeFacts ==
  ASSUME IInv, NEW s \in Sites, NEW bits, FreeToSend(s, bits)
  PROVE  /\ TypeOK /\ nodeType' = nodeType /\ heard' = heard
         /\ attempts' \in [Sites -> 0 .. ConnMax] /\ joins' \in [Sites -> 0 .. MaxJoins]
         /\ bits \in [Chunks -> SUBSET {"work", "finish"}]
         /\ AllReported(s)
         /\ \A c \in Chunks : Owner[c] # s => bits[c] = dirty[c]
         /\ \A i \in SessionsOf(s) :
              session[s][i].tcp # "refused" => "work" \in bits[session[s][i].chunk]
         /\ reports' \in [Sites -> Seq([kind : {"delivered", "failed"}, chunk : Chunks])]
         /\ reports'[s] = <<>> /\ \A t \in Sites \ {s} : reports'[t] = reports[t]
         /\ \A t \in Sites : \A j \in SessionsOf(t) : Owner[session[t][j].chunk] = t
<1>1. /\ TypeOK /\ nodeType' = nodeType /\ heard' = heard
      /\ attempts' \in [Sites -> 0 .. ConnMax] /\ joins' \in [Sites -> 0 .. MaxJoins]
      /\ bits \in [Chunks -> SUBSET {"work", "finish"}]
      /\ AllReported(s)
      /\ \A c \in Chunks : Owner[c] # s => bits[c] = dirty[c]
      /\ \A i \in SessionsOf(s) :
           session[s][i].tcp # "refused" => "work" \in bits[session[s][i].chunk]
      /\ reports' = [reports EXCEPT ![s] = <<>>]
  BY Zenon DEF IInv, FreeToSend
<1> DEFINE Rep == [kind : {"delivered", "failed"}, chunk : Chunks]
<1>2. reports \in [Sites -> Seq(Rep)]
  BY <1>1 DEF TypeOK
<1>3. \A t \in Sites : \A j \in SessionsOf(t) : Owner[session[t][j].chunk] = t
  BY DEF IInv, SiteSound, SessionSound
<1> HIDE DEF Rep
<1>4. /\ reports' \in [Sites -> Seq(Rep)]
      /\ reports'[s] = <<>> /\ \A t \in Sites \ {s} : reports'[t] = reports[t]
  BY <1>1, <1>2
<1> QED
  BY <1>1, <1>3, <1>4 DEF Rep

\* Another site's daemon and sessions are not disturbed.
LEMMA OthersKeep ==
  ASSUME IInv, NEW s \in Sites, NEW bits, FreeToSend(s, bits),
         NEW t \in Sites, t # s, session'[t] = session[t], sending'[t] = sending[t],
         \A c \in Chunks : Owner[c] = t => dirty'[c] = dirty[c]
  PROVE  SiteSound(t)'
<1>1. /\ TypeOK /\ nodeType' = nodeType /\ heard' = heard /\ reports'[t] = reports[t]
  BY FreeFacts
<1>2. SessionsOf(t)' = SessionsOf(t) /\ LastOf(t)' = LastOf(t)
  BY DEF SessionsOf, LastOf
<1>3. ASSUME NEW j \in SessionsOf(t) PROVE SessionSound(t, j)'
  <2>1. SessionSound(t, j) /\ session[t][j] \in Session /\ session[t][j].chunk \in Chunks
    BY <1>1, TypeFacts, SessionFields DEF IInv, SiteSound
  <2>2. dirty'[session[t][j].chunk] = dirty[session[t][j].chunk]
    BY <2>1 DEF SessionSound
  <2> QED
    BY <1>1, <1>2, <2>1, <2>2 DEF SessionSound, Said
<1>4. Resting(t) \/ Waiting(t) \/ Answered(t)
  BY DEF IInv, SiteSound
<1>5. session[t] # <<>> => dirty'[LastOf(t).chunk] = dirty[LastOf(t).chunk]
  <2> SUFFICES ASSUME session[t] # <<>> PROVE dirty'[LastOf(t).chunk] = dirty[LastOf(t).chunk]
    OBVIOUS
  <2>1. Len(session[t]) \in SessionsOf(t) /\ LastOf(t) \in Session
    BY <1>1, TypeFacts DEF LastOf
  <2> QED
    BY <2>1, SessionFields DEF IInv, SiteSound, SessionSound, LastOf
<1>6. (Resting(t) \/ Waiting(t) \/ Answered(t))'
  BY <1>1, <1>2, <1>4, <1>5 DEF Resting, Waiting, Answered, AllReported
<1> QED
  BY <1>2, <1>3, <1>6 DEF SiteSound

LEMMA RestKeeps ==
  ASSUME IInv, NEW s \in Sites, NEW bits, FreeToSend(s, bits),
         dirty' = bits, sending' = [sending EXCEPT ![s] = 0], UNCHANGED session
  PROVE  IInv'
<1>1. /\ TypeOK /\ nodeType' = nodeType /\ heard' = heard /\ session' = session
      /\ attempts' \in [Sites -> 0 .. ConnMax] /\ joins' \in [Sites -> 0 .. MaxJoins]
      /\ bits \in [Chunks -> SUBSET {"work", "finish"}] /\ dirty' = bits
      /\ AllReported(s)
      /\ \A c \in Chunks : Owner[c] # s => bits[c] = dirty[c]
      /\ \A i \in SessionsOf(s) :
           session[s][i].tcp # "refused" => "work" \in bits[session[s][i].chunk]
      /\ reports' \in [Sites -> Seq([kind : {"delivered", "failed"}, chunk : Chunks])]
      /\ reports'[s] = <<>>
      /\ \A t \in Sites : \A j \in SessionsOf(t) : Owner[session[t][j].chunk] = t
  BY FreeFacts
<1>2. \A t \in Sites : SessionsOf(t)' = SessionsOf(t)
  BY <1>1 DEF SessionsOf
<1>3. /\ sending' \in [Sites -> Nat]
      /\ sending'[s] = 0 /\ \A t \in Sites \ {s} : sending'[t] = sending[t]
  BY <1>1 DEF TypeOK
<1>4. TypeOK'
  <2>1. (\A t \in Sites : \A j \in SessionsOf(t) : Owner[session[t][j].chunk] = t)'
    BY <1>1, <1>2
  <2> QED
    BY <1>1, <1>3, <2>1 DEF TypeOK
<1>5. ASSUME NEW j \in SessionsOf(s) PROVE SessionSound(s, j)'
  <2>1. SessionSound(s, j)
    BY DEF IInv, SiteSound
  <2> QED
    BY <1>1, <1>2, <2>1 DEF SessionSound, Said
<1>6. Resting(s)'
  BY <1>1, <1>2, <1>3 DEF Resting, AllReported
<1>7. ASSUME NEW t \in Sites, t # s PROVE SiteSound(t)'
  BY <1>1, <1>3, <1>7, OthersKeep
<1>8. ASSUME NEW d \in Chunks PROVE ChunkSound(d)'
  <2>1. ChunkSound(d) /\ Owner[d] \in Sites
    BY ConstantFacts DEF IInv
  <2> QED
    BY <1>1, <1>2, <2>1 DEF ChunkSound
<1>9. SiteSound(s)'
  BY <1>2, <1>5, <1>6 DEF SiteSound
<1> QED
  BY <1>4, <1>7, <1>8, <1>9 DEF IInv

LEMMA OfferKeeps ==
  ASSUME IInv, NEW s \in Sites, NEW bits, FreeToSend(s, bits), NEW c \in GetNext(s, bits),
         dirty' = [bits EXCEPT ![c] = @ \cup {"work"}],
         sending' = [sending EXCEPT ![s] = 1], ClientInit(s, c)
  PROVE  IInv'
<1> DEFINE new == NewUpClient(c)
           n == Len(session[s]) + 1
<1>1. /\ TypeOK /\ nodeType' = nodeType /\ heard' = heard
      /\ attempts' \in [Sites -> 0 .. ConnMax] /\ joins' \in [Sites -> 0 .. MaxJoins]
      /\ bits \in [Chunks -> SUBSET {"work", "finish"}]
      /\ AllReported(s)
      /\ \A d \in Chunks : Owner[d] # s => bits[d] = dirty[d]
      /\ \A i \in SessionsOf(s) :
           session[s][i].tcp # "refused" => "work" \in bits[session[s][i].chunk]
      /\ reports' \in [Sites -> Seq([kind : {"delivered", "failed"}, chunk : Chunks])]
      /\ reports'[s] = <<>>
      /\ \A t \in Sites : \A j \in SessionsOf(t) : Owner[session[t][j].chunk] = t
  BY FreeFacts
<1>2. c \in Chunks /\ Owner[c] = s /\ bits[c] = {}
  BY DEF GetNext
<1>3. /\ new \in Session /\ Counted(new) /\ new.chunk = c /\ new.tcp = "opening"
      /\ Said(new) = <<>>
  BY <1>2, NewRecord
<1> HIDE DEF new
<1>4. session' = [session EXCEPT ![s] = Append(@, new)]
  BY DEF ClientInit, new
<1>5. /\ session' \in [Sites -> Seq(Session)]
      /\ session'[s] = Append(session[s], new)
      /\ \A t \in Sites \ {s} : session'[t] = session[t]
  <2>1. session \in [Sites -> Seq(Session)]
    BY <1>1 DEF TypeOK
  <2> QED
    BY <1>3, <1>4, <2>1
<1>6. /\ n \in Nat /\ n > 0 /\ SessionsOf(s) = 1 .. n - 1 /\ SessionsOf(s)' = 1 .. n
      /\ Len(session'[s]) = n /\ session'[s] # <<>>
      /\ session'[s][n] = new /\ \A j \in SessionsOf(s) : session'[s][j] = session[s][j]
  <2>1. session[s] \in Seq(Session)
    BY <1>1, TypeFacts
  <2>2. /\ Len(session'[s]) = n /\ session'[s][n] = new /\ n \in Nat /\ n > 0
        /\ \A j \in 1 .. Len(session[s]) : session'[s][j] = session[s][j]
    BY <1>5, <2>1
  <2>3. session'[s] # <<>>
    BY <1>5, <2>2
  <2> QED
    BY <2>2, <2>3 DEF SessionsOf
<1> HIDE DEF n
<1>7. \A t \in Sites \ {s} : SessionsOf(t)' = SessionsOf(t)
  BY <1>5 DEF SessionsOf
<1>8. /\ dirty' \in [Chunks -> SUBSET {"work", "finish"}]
      /\ dirty'[c] = {"work"} /\ \A d \in Chunks \ {c} : dirty'[d] = bits[d]
  BY <1>1, <1>2
<1>9. /\ sending' \in [Sites -> Nat]
      /\ sending'[s] = 1 /\ \A t \in Sites \ {s} : sending'[t] = sending[t]
  BY <1>1 DEF TypeOK
<1>10. \A i \in SessionsOf(s) : session[s][i].chunk = c => session[s][i].tcp = "refused"
  BY <1>1, <1>2
<1>11. heard[c] = <<>>
  BY <1>2, <1>10 DEF IInv, ChunkSound
<1>12. TypeOK'
  <2>1. (\A t \in Sites : \A j \in SessionsOf(t) : Owner[session[t][j].chunk] = t)'
    <3> SUFFICES ASSUME NEW t \in Sites, NEW j \in SessionsOf(t)'
                 PROVE  Owner[session'[t][j].chunk] = t
      OBVIOUS
    <3>1. CASE t # s
      <4>1. session'[t] = session[t] /\ j \in SessionsOf(t)
        BY <1>5, <1>7, <3>1
      <4>2. session'[t][j] = session[t][j]
        BY <4>1
      <4> QED
        BY <1>1, <4>1, <4>2
    <3>2. CASE t = s /\ j = n
      BY <1>2, <1>3, <1>6, <3>2
    <3>3. CASE t = s /\ j # n
      <4>1. j \in SessionsOf(s)
        BY <1>6, <3>3
      <4> QED
        BY <1>1, <1>6, <3>3, <4>1
    <3> QED
      BY <3>1, <3>2, <3>3
  <2> QED
    BY <1>1, <1>5, <1>8, <1>9, <2>1 DEF TypeOK
<1>13. ASSUME NEW j \in SessionsOf(s)' PROVE SessionSound(s, j)'
  <2>1. CASE j = n
    <3>1. \A k \in SessionsOf(s)' : k <= j
      BY <1>6, <2>1
    <3>2. Said(new)' = <<>>
      BY <1>1, <1>3 DEF Said
    <3> QED
      BY <1>1, <1>2, <1>3, <1>6, <1>8, <1>11, <2>1, <3>1, <3>2 DEF SessionSound
  <2>2. CASE j # n
    <3>1. /\ j \in SessionsOf(s) /\ session'[s][j] = session[s][j] /\ SessionSound(s, j)
          /\ session[s][j] \in Session /\ session[s][j].chunk \in Chunks
      <4>1. j \in SessionsOf(s) /\ session'[s][j] = session[s][j]
        BY <1>6, <2>2
      <4>2. SessionSound(s, j)
        BY <4>1 DEF IInv, SiteSound
      <4>3. session[s][j] \in Session
        BY <1>1, <4>1, TypeFacts
      <4> QED
        BY <4>1, <4>2, <4>3, SessionFields
    <3>2. ASSUME session[s][j].tcp # "refused"
          PROVE  /\ session[s][j].chunk # c
                 /\ "work" \in dirty'[session[s][j].chunk]
                 /\ \A k \in SessionsOf(s)' :
                      session'[s][k].chunk = session[s][j].chunk => k <= j
      <4>1. session[s][j].chunk # c
        BY <1>10, <3>1, <3>2
      <4>2. "work" \in dirty'[session[s][j].chunk]
        BY <1>1, <1>8, <3>1, <3>2, <4>1
      <4>3. ASSUME NEW k \in SessionsOf(s)', session'[s][k].chunk = session[s][j].chunk
            PROVE  k <= j
        <5>1. k \in SessionsOf(s) /\ session'[s][k] = session[s][k]
          BY <1>3, <1>6, <4>1, <4>3
        <5> QED
          BY <3>1, <3>2, <4>3, <5>1 DEF SessionSound
      <4> QED
        BY <4>1, <4>2, <4>3
    <3> QED
      BY <1>1, <3>1, <3>2 DEF SessionSound, Said
  <2> QED
    BY <2>1, <2>2
<1>14. Waiting(s)'
  <2>1. LastOf(s)' = new
    BY <1>6 DEF LastOf
  <2>2. \A j \in SessionsOf(s)' : session'[s][j].tcp \in Reported <=> j < n
    <3> SUFFICES ASSUME NEW j \in SessionsOf(s)'
                 PROVE  session'[s][j].tcp \in Reported <=> j < n
      OBVIOUS
    <3>1. CASE j = n
      BY <1>3, <1>6, <3>1 DEF Reported
    <3>2. CASE j # n
      <4>1. j \in SessionsOf(s) /\ j < n
        BY <1>6, <3>2
      <4> QED
        BY <1>1, <1>6, <4>1 DEF AllReported
    <3> QED
      BY <3>1, <3>2
  <2> QED
    BY <1>1, <1>3, <1>6, <1>8, <1>9, <2>1, <2>2 DEF Waiting
<1>15. ASSUME NEW t \in Sites, t # s PROVE SiteSound(t)'
  <2>1. \A d \in Chunks : Owner[d] = t => dirty'[d] = dirty[d]
    BY <1>1, <1>2, <1>8, <1>15
  <2>2. session'[t] = session[t] /\ sending'[t] = sending[t]
    BY <1>5, <1>9, <1>15
  <2> QED
    BY <1>15, <2>1, <2>2, OthersKeep
<1>16. ASSUME NEW d \in Chunks PROVE ChunkSound(d)'
  <2>1. ChunkSound(d) /\ Owner[d] \in Sites
    BY ConstantFacts DEF IInv
  <2>2. CASE Owner[d] = s
    <3>1. \A j \in SessionsOf(s) : j \in SessionsOf(s)' /\ session'[s][j] = session[s][j]
      BY <1>6
    <3> QED
      BY <1>1, <2>1, <2>2, <3>1 DEF ChunkSound
  <2>3. CASE Owner[d] # s
    BY <1>1, <1>5, <1>7, <2>1, <2>3 DEF ChunkSound
  <2> QED
    BY <2>2, <2>3
<1>17. SiteSound(s)'
  BY <1>13, <1>14 DEF SiteSound
<1> QED
  BY <1>12, <1>15, <1>16, <1>17 DEF IInv

LEMMA SendNextKeeps ==
  ASSUME IInv, NEW s \in Sites, NEW bits, FreeToSend(s, bits), NEW count, count = 0,
         SendNext(s, bits, count)
  PROVE  IInv'
<1>1. CASE \E c \in GetNext(s, bits) :
             /\ dirty' = [bits EXCEPT ![c] = @ \cup {"work"}]
             /\ sending' = [sending EXCEPT ![s] = count + 1]
             /\ ClientInit(s, c)
  <2>1. PICK c \in GetNext(s, bits) :
             /\ dirty' = [bits EXCEPT ![c] = @ \cup {"work"}]
             /\ sending' = [sending EXCEPT ![s] = count + 1]
             /\ ClientInit(s, c)
    BY <1>1
  <2>2. count + 1 = 1
    OBVIOUS
  <2>3. sending' = [sending EXCEPT ![s] = 1]
    BY <2>1, <2>2
  <2> QED
    BY <2>1, <2>3, OfferKeeps
<1>2. CASE dirty' = bits /\ sending' = [sending EXCEPT ![s] = count] /\ UNCHANGED session
  <2>1. sending' = [sending EXCEPT ![s] = 0]
    BY <1>2
  <2> QED
    BY <1>2, <2>1, RestKeeps
<1> QED
  BY <1>1, <1>2 DEF SendNext

-----------------------------------------------------------------------------
(* The handlers of the daemon.                                             *)

LEMMA SiteCases ==
  ASSUME IInv, NEW s \in Sites
  PROVE  /\ TypeOK /\ (Resting(s) \/ Waiting(s) \/ Answered(s))
         /\ \A i \in SessionsOf(s) : SessionSound(s, i)
         /\ sending[s] = 0 => Resting(s)
         /\ reports[s] # <<>> => Answered(s)
         /\ sending[s] \in Nat
         /\ reports \in [Sites -> Seq([kind : {"delivered", "failed"}, chunk : Chunks])]
         /\ dirty \in [Chunks -> SUBSET {"work", "finish"}]
         /\ attempts \in [Sites -> 0 .. ConnMax] /\ joins \in [Sites -> 0 .. MaxJoins]
<1>1. TypeOK /\ SiteSound(s)
  BY DEF IInv
<1>2. /\ Resting(s) \/ Waiting(s) \/ Answered(s)
      /\ \A i \in SessionsOf(s) : SessionSound(s, i)
  BY <1>1 DEF SiteSound
<1>3. /\ Resting(s) => reports[s] = <<>>
      /\ Waiting(s) => sending[s] = 1 /\ reports[s] = <<>>
      /\ Answered(s) => sending[s] = 1
  BY Zenon DEF Resting, Waiting, Answered
<1>4. /\ sending[s] = 0 => Resting(s)
      /\ reports[s] # <<>> => Answered(s)
  BY <1>2, <1>3
<1> QED
  BY <1>1, <1>2, <1>4 DEF TypeOK

\* What is left as it is does no harm to the invariant.
LEMMA CountersKeep ==
  ASSUME IInv, UNCHANGED <<nodeType, dirty, sending, reports, session, heard>>,
         attempts' \in [Sites -> 0 .. ConnMax], joins' \in [Sites -> 0 .. MaxJoins]
  PROVE  IInv'
<1>1. /\ nodeType' = nodeType /\ dirty' = dirty /\ sending' = sending
      /\ reports' = reports /\ session' = session /\ heard' = heard
  OBVIOUS
<1>2. TypeOK'
  BY <1>1 DEF IInv, TypeOK, SessionsOf
<1>3. ASSUME NEW s \in Sites PROVE SiteSound(s)'
  <2>1. SiteSound(s)
    BY DEF IInv
  <2> QED
    BY <1>1, <2>1 DEF SiteSound, SessionSound, Said, Resting, Waiting, Answered,
                      AllReported, LastOf, SessionsOf
<1>4. ASSUME NEW c \in Chunks PROVE ChunkSound(c)'
  BY <1>1 DEF IInv, ChunkSound, SessionsOf
<1> QED
  BY <1>2, <1>3, <1>4 DEF IInv

LEMMA JoinCompletedKeeps ==
  ASSUME IInv, NEW s \in Sites, JoinCompleted(s)
  PROVE  IInv'
<1>1. /\ joins[s] < MaxJoins /\ joins' = [joins EXCEPT ![s] = @ + 1]
      /\ attempts' = [attempts EXCEPT ![s] = 0]
      /\ IF sending[s] > 0
         THEN UNCHANGED <<dirty, sending, session>>
         ELSE SendNext(s, dirty, sending[s])
      /\ nodeType' = nodeType /\ reports' = reports /\ heard' = heard
  BY Zenon DEF JoinCompleted
<1>2. joins' \in [Sites -> 0 .. MaxJoins] /\ attempts' \in [Sites -> 0 .. ConnMax]
  BY <1>1, SiteCases, ConstantFacts
<1>3. CASE sending[s] > 0
  BY <1>1, <1>2, <1>3, CountersKeep
<1>4. CASE ~(sending[s] > 0)
  <2>1. sending[s] = 0 /\ Resting(s)
    BY <1>4, SiteCases
  <2>2. reports' = [reports EXCEPT ![s] = <<>>]
    BY <1>1, <2>1, SiteCases DEF Resting
  <2>3. \A i \in SessionsOf(s) :
          session[s][i].tcp # "refused" => "work" \in dirty[session[s][i].chunk]
    BY SiteCases DEF SessionSound
  <2>4. FreeToSend(s, dirty)
    BY <1>1, <1>2, <2>1, <2>2, <2>3, SiteCases DEF FreeToSend, Resting
  <2>5. SendNext(s, dirty, sending[s])
    BY <1>1, <1>4
  <2> QED
    BY <2>1, <2>4, <2>5, SendNextKeeps
<1> QED
  BY <1>3, <1>4

\* The report that the daemon takes is that of its last session, and the only one.
LEMMA ReportTaken ==
  ASSUME IInv, NEW s \in Sites, NEW kind, TakeReport(s, kind)
  PROVE  /\ Answered(s) /\ LastOf(s) \in Session
         /\ LastOf(s) = session[s][Len(session[s])] /\ Len(session[s]) \in SessionsOf(s)
         /\ Head(reports[s]).chunk = LastOf(s).chunk
         /\ LastOf(s).chunk \in Chunks /\ Owner[LastOf(s).chunk] = s
         /\ kind = IF LastOf(s).tcp = "refused" THEN "failed" ELSE "delivered"
         /\ reports' = [reports EXCEPT ![s] = <<>>]
         /\ sending[s] - 1 = 0 /\ dirty[LastOf(s).chunk] = {"work"}
<1>1. /\ reports[s] # <<>> /\ Head(reports[s]).kind = kind
      /\ reports' = [reports EXCEPT ![s] = Tail(@)]
  BY DEF TakeReport
<1>2. /\ Answered(s) /\ session[s] # <<>> /\ reports[s] = <<ReportOf(LastOf(s))>>
      /\ sending[s] = 1 /\ dirty[LastOf(s).chunk] = {"work"}
  BY <1>1, SiteCases DEF Answered
<1>3. Head(reports[s]) = ReportOf(LastOf(s)) /\ Tail(reports[s]) = <<>>
  BY <1>2
<1>4. /\ ReportOf(LastOf(s)).chunk = LastOf(s).chunk
      /\ ReportOf(LastOf(s)).kind = IF LastOf(s).tcp = "refused" THEN "failed" ELSE "delivered"
  BY DEF ReportOf
<1>5. Len(session[s]) \in SessionsOf(s) /\ LastOf(s) \in Session
  BY <1>2, SiteCases, TypeFacts DEF LastOf
<1>6. LastOf(s).chunk \in Chunks /\ Owner[LastOf(s).chunk] = s
  BY <1>5, SiteCases, SessionFields DEF SessionSound, LastOf
<1>7. reports' = [reports EXCEPT ![s] = <<>>]
  BY <1>1, <1>3, SiteCases
<1> QED
  BY <1>1, <1>2, <1>3, <1>4, <1>5, <1>6, <1>7 DEF LastOf

LEMMA DeliveredFree ==
  ASSUME IInv, NEW s \in Sites, TakeReport(s, "delivered"),
         attempts' = [attempts EXCEPT ![s] = 0], UNCHANGED <<nodeType, joins, heard>>
  PROVE  FreeToSend(s, [dirty EXCEPT ![Head(reports[s]).chunk] = @ \cup {"finish"}])
<1> DEFINE c == LastOf(s).chunk
           bits == [dirty EXCEPT ![c] = @ \cup {"finish"}]
<1>1. /\ Answered(s) /\ Head(reports[s]).chunk = c /\ c \in Chunks /\ Owner[c] = s
      /\ reports' = [reports EXCEPT ![s] = <<>>] /\ dirty[c] = {"work"}
  BY ReportTaken
<1> HIDE DEF c
<1>2. /\ bits \in [Chunks -> SUBSET {"work", "finish"}]
      /\ \A d \in Chunks : d # c => bits[d] = dirty[d]
      /\ \A d \in Chunks : "work" \in dirty[d] => "work" \in bits[d]
  BY <1>1, SiteCases
<1> HIDE DEF bits
<1>3. \A i \in SessionsOf(s) :
        session[s][i].tcp # "refused" => "work" \in bits[session[s][i].chunk]
  BY <1>2, SiteCases, TypeFacts, SessionFields DEF SessionSound
<1>4. attempts' \in [Sites -> 0 .. ConnMax] /\ joins' \in [Sites -> 0 .. MaxJoins]
  BY SiteCases, ConstantFacts
<1>5. AllReported(s) /\ nodeType' = nodeType /\ heard' = heard
  BY <1>1 DEF Answered
<1>6. FreeToSend(s, bits)
  BY <1>1, <1>2, <1>3, <1>4, <1>5 DEF FreeToSend
<1> QED
  BY <1>1, <1>6 DEF bits

LEMMA DeliveredKeeps ==
  ASSUME IInv, NEW s \in Sites, Delivered(s)
  PROVE  IInv'
<1> DEFINE bits == [dirty EXCEPT ![Head(reports[s]).chunk] = @ \cup {"finish"}]
<1>1. /\ TakeReport(s, "delivered") /\ attempts' = [attempts EXCEPT ![s] = 0]
      /\ SendNext(s, bits, sending[s] - 1)
      /\ UNCHANGED <<nodeType, joins, heard>>
  BY Zenon DEF Delivered
<1>2. FreeToSend(s, bits) /\ sending[s] - 1 = 0
  BY <1>1, DeliveredFree, ReportTaken
<1> HIDE DEF bits
<1> QED
  BY <1>1, <1>2, SendNextKeeps

\* A connection that failed was the last one of its chunk, and every one before it
\* had failed too.
LEMMA FailedFree ==
  ASSUME IInv, NEW s \in Sites, TakeReport(s, "failed"),
         attempts' \in [Sites -> 0 .. ConnMax], UNCHANGED <<nodeType, joins, heard>>,
         NEW bits, bits = dirty \/ bits = [dirty EXCEPT ![Head(reports[s]).chunk] = @ \ {"work"}]
  PROVE  FreeToSend(s, bits)
<1> DEFINE c == LastOf(s).chunk
           n == Len(session[s])
<1>1. /\ Answered(s) /\ Head(reports[s]).chunk = c /\ c \in Chunks /\ Owner[c] = s
      /\ reports' = [reports EXCEPT ![s] = <<>>]
      /\ session[s][n].chunk = c /\ session[s][n].tcp = "refused" /\ n \in SessionsOf(s)
  BY ReportTaken DEF LastOf
<1>2. SessionsOf(s) = 1 .. n /\ n \in Nat
  BY SiteCases, TypeFacts
<1> HIDE DEF c, n
<1>3. /\ bits \in [Chunks -> SUBSET {"work", "finish"}]
      /\ \A d \in Chunks : d # c => bits[d] = dirty[d]
  BY <1>1, SiteCases
<1>4. ASSUME NEW i \in SessionsOf(s), session[s][i].tcp # "refused"
      PROVE  session[s][i].chunk # c /\ "work" \in bits[session[s][i].chunk]
  <2>1. /\ "work" \in dirty[session[s][i].chunk] /\ session[s][i].chunk \in Chunks
        /\ \A j \in SessionsOf(s) : session[s][j].chunk = session[s][i].chunk => j <= i
    BY <1>4, SiteCases, TypeFacts, SessionFields DEF SessionSound
  <2>2. session[s][i].chunk # c
    <3> SUFFICES ASSUME session[s][i].chunk = c PROVE FALSE
      OBVIOUS
    <3>1. n <= i
      BY <1>1, <2>1
    <3>2. i = n
      BY <1>2, <3>1
    <3> QED
      BY <1>1, <1>4, <3>2
  <2> QED
    BY <1>3, <2>1, <2>2
<1>5. joins' \in [Sites -> 0 .. MaxJoins]
  BY SiteCases
<1>6. AllReported(s) /\ nodeType' = nodeType /\ heard' = heard
  BY <1>1 DEF Answered
<1> QED
  BY <1>1, <1>3, <1>4, <1>5, <1>6 DEF FreeToSend

LEMMA ConnectionFailedKeeps ==
  ASSUME IInv, NEW s \in Sites, ConnectionFailed(s)
  PROVE  IInv'
<1> DEFINE bits == [dirty EXCEPT ![Head(reports[s]).chunk] = @ \ {"work"}]
<1>1. /\ TakeReport(s, "failed") /\ UNCHANGED <<nodeType, joins, heard>>
      /\ \/ /\ attempts[s] < ConnMax /\ attempts' = [attempts EXCEPT ![s] = @ + 1]
            /\ SendNext(s, bits, sending[s] - 1)
         \/ /\ sending' = [sending EXCEPT ![s] = @ - 1]
            /\ UNCHANGED <<attempts, dirty, session>>
  BY Zenon DEF ConnectionFailed
<1>2. sending[s] - 1 = 0
  BY <1>1, ReportTaken
<1>3. CASE /\ attempts[s] < ConnMax /\ attempts' = [attempts EXCEPT ![s] = @ + 1]
           /\ SendNext(s, bits, sending[s] - 1)
  <2>1. attempts' \in [Sites -> 0 .. ConnMax]
    BY <1>3, SiteCases, ConstantFacts
  <2>2. FreeToSend(s, bits)
    BY <1>1, <2>1, FailedFree
  <2> HIDE DEF bits
  <2> QED
    BY <1>2, <1>3, <2>2, SendNextKeeps
<1>4. CASE /\ sending' = [sending EXCEPT ![s] = @ - 1]
           /\ UNCHANGED <<attempts, dirty, session>>
  <2>1. attempts' \in [Sites -> 0 .. ConnMax]
    BY <1>4, SiteCases
  <2>2. FreeToSend(s, dirty)
    BY <1>1, <2>1, FailedFree
  <2>3. sending' = [sending EXCEPT ![s] = 0]
    <3>1. sending \in [Sites -> Nat]
      BY DEF IInv, TypeOK
    <3> QED
      BY <1>2, <1>4, <3>1
  <2> QED
    BY <1>4, <2>2, <2>3, RestKeeps
<1> QED
  BY <1>1, <1>3, <1>4

-----------------------------------------------------------------------------
(* The handlers of the sessions.                                           *)

LEMMA SessionCases ==
  ASSUME IInv, NEW s \in Sites, NEW i \in SessionsOf(s)
  PROVE  /\ TypeOK /\ Of(s, i) = session[s][i] /\ session[s][i] \in Session
         /\ Counted(session[s][i]) /\ session[s][i].chunk \in Chunks
         /\ session[s][i].tcp # "refused" => heard[session[s][i].chunk] = Said(session[s][i])
BY TypeFacts, SessionFields DEF IInv, SiteSound, SessionSound, Of

\* What a session's step tells the collector is what it now has said.
LEMMA GoesOn ==
  ASSUME IInv, NEW s \in Sites, NEW i \in SessionsOf(s), NEW new,
         Set(s, i, new), Follows(session[s][i], new),
         UNCHANGED <<nodeType, siteVars, reports>>,
         \/ Said(new) = Said(session[s][i]) /\ heard' = heard
         \/ heard' = [heard EXCEPT ![session[s][i].chunk] = Said(new)]
  PROVE  SessionGoesOn(s, i, new) /\ IInv'
<1>1. session[s][i].tcp # "refused"
  BY DEF Follows
<1>2. heard[session[s][i].chunk] = Said(session[s][i]) /\ session[s][i].chunk \in Chunks
  BY <1>1, SessionCases
<1>3. heard' = [heard EXCEPT ![session[s][i].chunk] = Said(new)]
  <2>1. heard \in [Chunks -> Seq({"header", "whole"})]
    BY DEF IInv, TypeOK
  <2> QED
    BY <1>2, <2>1
<1>4. SessionGoesOn(s, i, new)
  BY <1>3, SetBecomes DEF SessionGoesOn
<1> QED
  BY <1>4, GoesOnKeeps

LEMMA OpenOkKeeps ==
  ASSUME IInv, NEW s \in Sites, NEW i \in SessionsOf(s), OpenOk(s, i)
  PROVE  IInv'
<1>1. /\ session[s][i].tcp = "opening"
      /\ Set(s, i, SendVirtualItem(UpdateUpClient(session[s][i])))
      /\ UNCHANGED <<nodeType, siteVars, reports>> /\ heard' = heard
  BY Zenon, SessionCases DEF OpenOk, Of
<1>2. /\ Follows(session[s][i], SendVirtualItem(UpdateUpClient(session[s][i])))
      /\ Said(SendVirtualItem(UpdateUpClient(session[s][i]))) = Said(session[s][i])
  BY <1>1, SessionCases, OpenedRecord
<1> QED
  BY <1>1, <1>2, GoesOn

LEMMA RefusedRecord ==
  ASSUME NEW r \in Session, Counted(r), r.tcp = "opening"
  PROVE  LET new == [r EXCEPT !.tcp = "refused"]
         IN  /\ new \in Session /\ Counted(new) /\ new.chunk = r.chunk
             /\ new.tcp = "refused" /\ Said(r) = <<>>
<1> DEFINE v == [r EXCEPT !.tcp = "refused"]
<1>1. /\ v \in Session /\ v.tcp = "refused" /\ v.chunk = r.chunk /\ v.left = r.left
      /\ v.server = r.server /\ v.expected = r.expected /\ v.received = r.received
  BY SessionFields DEF Session
<1> HIDE DEF v
<1>2. r.left = 0 /\ r.server = "none" /\ NotBegun(r)
  BY DEF Counted
<1>3. Counted(v) /\ Said(r) = <<>>
  BY <1>1, <1>2 DEF Counted, NotBegun, Said
<1> QED
  BY <1>1, <1>3 DEF v

LEMMA ClosingRecord ==
  ASSUME NEW r \in Session, Counted(r), r.tcp = "up"
  PROVE  LET new == [r EXCEPT !.tcp = "closing"]
         IN  /\ new \in Session /\ Counted(new) /\ new.chunk = r.chunk
             /\ new.tcp = "closing" /\ Said(new) = Said(r)
<1> DEFINE v == [r EXCEPT !.tcp = "closing"]
<1>1. /\ v \in Session /\ v.tcp = "closing" /\ v.chunk = r.chunk /\ v.left = r.left
      /\ v.closed = r.closed
      /\ v.server = r.server /\ v.expected = r.expected /\ v.received = r.received
  BY SessionFields DEF Session
<1> HIDE DEF v
<1>2. Counted(v) /\ Said(v) = Said(r)
  BY <1>1 DEF Counted, NotBegun, Said
<1> QED
  BY <1>1, <1>2 DEF v

LEMMA OpenFailedKeeps ==
  ASSUME IInv, NEW s \in Sites, NEW i \in SessionsOf(s), OpenFailed(s, i)
  PROVE  IInv'
<1> DEFINE new == [session[s][i] EXCEPT !.tcp = "refused"]
<1>1. /\ session[s][i].tcp = "opening" /\ Set(s, i, new)
      /\ reports' = [reports EXCEPT ![s] =
                       Append(@, [kind |-> "failed", chunk |-> session[s][i].chunk])]
      /\ UNCHANGED <<nodeType, siteVars, heard>>
  BY Zenon, SessionCases DEF OpenFailed, TellDaemon, Of
<1>2. /\ new \in Session /\ Counted(new) /\ new.chunk = session[s][i].chunk
      /\ new.tcp = "refused" /\ Said(session[s][i]) = <<>>
  BY <1>1, SessionCases, RefusedRecord
<1> HIDE DEF new
<1>3. SessionReports(s, i, new, "failed")
  BY <1>1, <1>2, SetBecomes DEF SessionReports, Reported
<1> QED
  BY <1>3, ReportKeeps

LEMMA DataSentKeeps ==
  ASSUME IInv, NEW s \in Sites, NEW i \in SessionsOf(s), DataSent(s, i)
  PROVE  IInv'
<1> DEFINE new == [session[s][i] EXCEPT !.tcp = "closing"]
<1>1. /\ session[s][i].tcp = "up" /\ Set(s, i, new)
      /\ reports' = [reports EXCEPT ![s] =
                       Append(@, [kind |-> "delivered", chunk |-> session[s][i].chunk])]
      /\ UNCHANGED <<nodeType, siteVars, heard>>
  BY Zenon, SessionCases DEF DataSent, TellDaemon, Of
<1>2. /\ new \in Session /\ Counted(new) /\ new.chunk = session[s][i].chunk
      /\ new.tcp = "closing" /\ Said(new) = Said(session[s][i])
  BY <1>1, SessionCases, ClosingRecord
<1> HIDE DEF new
<1>3. SessionReports(s, i, new, "delivered")
  BY <1>1, <1>2, SetBecomes DEF SessionReports, Reported
<1> QED
  BY <1>3, ReportKeeps

LEMMA ClientCloseResultKeeps ==
  ASSUME IInv, NEW s \in Sites, NEW i \in SessionsOf(s), ClientCloseResult(s, i)
  PROVE  IInv'
<1> DEFINE new(how) == [session[s][i] EXCEPT !.tcp = how, !.closed = TRUE]
<1>1. /\ \/ session[s][i].tcp = "up" /\ Set(s, i, new("lost"))
         \/ session[s][i].tcp = "closing" /\ \E how \in {"gone", "broken"} : Set(s, i, new(how))
      /\ UNCHANGED <<nodeType, siteVars, reports>> /\ heard' = heard
  BY Zenon, SessionCases DEF ClientCloseResult, Of
<1>2. ASSUME NEW how \in {"lost", "gone", "broken"}, Set(s, i, new(how)),
             \/ session[s][i].tcp = "up" /\ how = "lost"
             \/ session[s][i].tcp = "closing" /\ how # "lost"
      PROVE  IInv'
  <2>1. Follows(session[s][i], new(how)) /\ Said(new(how)) = Said(session[s][i])
    BY <1>2, SessionCases, ClosedRecord
  <2> HIDE DEF new
  <2> QED
    BY <1>1, <1>2, <2>1, GoesOn
<1> HIDE DEF new
<1>3. CASE session[s][i].tcp = "up" /\ Set(s, i, new("lost"))
  <2>1. PICK how \in {"lost", "gone", "broken"} : how = "lost"
    OBVIOUS
  <2>2. Set(s, i, new(how)) /\ session[s][i].tcp = "up"
    BY <1>3, <2>1
  <2> QED
    BY <1>2, <2>1, <2>2
<1>4. CASE session[s][i].tcp = "closing" /\ \E how \in {"gone", "broken"} : Set(s, i, new(how))
  BY <1>2, <1>4
<1> QED
  BY <1>1, <1>3, <1>4

LEMMA AcceptKeeps ==
  ASSUME IInv, NEW s \in Sites, NEW i \in SessionsOf(s), Accept(s, i)
  PROVE  IInv'
<1>1. /\ session[s][i].server = "none" /\ session[s][i].tcp \in {"up", "closing"}
      /\ Set(s, i, NewUpServer(session[s][i]))
      /\ UNCHANGED <<nodeType, siteVars, reports>> /\ heard' = heard
  BY Zenon, SessionCases DEF Accept, Of
<1>2. /\ Follows(session[s][i], NewUpServer(session[s][i]))
      /\ Said(NewUpServer(session[s][i])) = Said(session[s][i])
  BY <1>1, SessionCases, AcceptedRecord
<1> QED
  BY <1>1, <1>2, GoesOn

\* What TellMdc adds is what the session has said more.
LEMMA ToldMore ==
  ASSUME IInv, NEW s \in Sites, NEW i \in SessionsOf(s), session[s][i].tcp # "refused",
         NEW kind, NEW said, TellMdc(kind, session[s][i].chunk),
         said = Append(Said(session[s][i]), kind)
  PROVE  IF nodeType = "MDC" THEN heard' = [heard EXCEPT ![session[s][i].chunk] = said]
         ELSE heard' = heard
<1>1. heard[session[s][i].chunk] = Said(session[s][i]) /\ session[s][i].chunk \in Chunks
  BY SessionCases
<1>2. heard \in [Chunks -> Seq({"header", "whole"})]
  BY DEF IInv, TypeOK
<1> QED
  BY <1>1, <1>2 DEF TellMdc

LEMMA DataReceivedKeeps ==
  ASSUME IInv, NEW s \in Sites, NEW i \in SessionsOf(s), DataReceived(s, i)
  PROVE  IInv'
<1> DEFINE r == session[s][i]
           c == r.chunk
<1>1. PICK k \in 1 .. r.left : HeaderReceived(s, i, k) \/ RestReceived(s, i, k)
  BY DEF DataReceived, Of
<1>2. r.server = "open" /\ UNCHANGED <<nodeType, siteVars, reports>>
  BY DEF DataReceived, Of
<1>3. /\ r \in Session /\ Counted(r) /\ c \in Chunks /\ r.tcp # "refused"
  BY <1>2, SessionCases DEF Counted
<1>4. CASE HeaderReceived(s, i, k)
  <2> DEFINE new == [r EXCEPT !.left = @ - k, !.expected = Size[c],
                              !.received = @ + k - HeaderSize]
  <2>1. r.left = VirtualItem(c) /\ k >= HeaderSize /\ Set(s, i, new) /\ TellMdc("header", c)
    BY <1>4 DEF HeaderReceived, Of
  <2>2. /\ Follows(r, new) /\ Said(r) = <<>>
        /\ Said(new) = IF nodeType = "MDC" THEN <<"header">> ELSE <<>>
    BY <1>2, <1>3, <2>1, HeaderRecord
  <2> HIDE DEF new
  <2>3. <<"header">> = Append(Said(r), "header")
    BY <2>2
  <2>4. IF nodeType = "MDC" THEN heard' = [heard EXCEPT ![c] = <<"header">>]
        ELSE heard' = heard
    <3>1. TellMdc("header", session[s][i].chunk) /\ session[s][i].tcp # "refused"
      BY <1>3, <2>1
    <3> QED
      <4>1. PICK kind \in {"header"} : kind = "header"
        OBVIOUS
      <4>2. PICK said \in {<<"header">>} : said = <<"header">>
        OBVIOUS
      <4>3. TellMdc(kind, session[s][i].chunk) /\ said = Append(Said(session[s][i]), kind)
        BY <2>3, <3>1, <4>1, <4>2
      <4>4. IF nodeType = "MDC" THEN heard' = [heard EXCEPT ![session[s][i].chunk] = said]
            ELSE heard' = heard
        BY <3>1, <4>3, ToldMore
      <4> QED
        BY <4>2, <4>4
  <2>5. \/ Said(new) = Said(r) /\ heard' = heard
        \/ heard' = [heard EXCEPT ![c] = Said(new)]
    BY <2>2, <2>4
  <2> QED
    BY <1>2, <2>1, <2>2, <2>5, GoesOn
<1>5. CASE RestReceived(s, i, k)
  <2> DEFINE new == [r EXCEPT !.left = @ - k, !.received = @ + k]
  <2>1. r.left < VirtualItem(c) /\ Set(s, i, new) /\ heard' = heard
    BY <1>5 DEF RestReceived, Of
  <2>2. Follows(r, new) /\ Said(new) = Said(r)
    BY <1>2, <1>3, <2>1, RestRecord
  <2> HIDE DEF new
  <2> QED
    BY <1>2, <2>1, <2>2, GoesOn
<1> QED
  BY <1>1, <1>4, <1>5

LEMMA ServerCloseKeeps ==
  ASSUME IInv, NEW s \in Sites, NEW i \in SessionsOf(s), NEW how \in {"closed", "broken"},
         how = "closed" => session[s][i].left = 0, ServerClose(s, i, how)
  PROVE  IInv'
<1> DEFINE r == session[s][i]
           c == r.chunk
           new == [r EXCEPT !.server = how]
<1>1. /\ r.server = "open" /\ Set(s, i, new)
      /\ IF r.received = r.expected THEN TellMdc("whole", c) ELSE heard' = heard
      /\ UNCHANGED <<nodeType, siteVars, reports>>
  BY Zenon DEF ServerClose, Of
<1>2. /\ r \in Session /\ Counted(r) /\ c \in Chunks /\ r.tcp # "refused"
  BY <1>1, SessionCases DEF Counted
<1>3. /\ Follows(r, new)
      /\ IF nodeType = "MDC" /\ r.received = r.expected
         THEN Said(r) = <<"header">> /\ Said(new) = <<"header", "whole">>
         ELSE Said(new) = Said(r)
  BY <1>1, <1>2, ServerClosedRecord
<1> HIDE DEF new
<1>4. \/ Said(new) = Said(r) /\ heard' = heard
      \/ heard' = [heard EXCEPT ![c] = Said(new)]
  <2>1. CASE nodeType = "MDC" /\ r.received = r.expected
    <3>1. "header" \in {"header", "whole"} /\ "whole" \in {"header", "whole"}
      OBVIOUS
    <3>2. <<"header", "whole">> = Append(Said(r), "whole")
      BY <1>3, <2>1, <3>1, AppendToOne
    <3>3. heard' = [heard EXCEPT ![c] = <<"header", "whole">>]
      BY <1>1, <1>2, <2>1, <3>2, ToldMore
    <3> QED
      BY <1>3, <2>1, <3>3
  <2>3. CASE nodeType # "MDC"
    BY <1>1, <1>3, <2>3 DEF TellMdc
  <2>2. CASE r.received # r.expected
    BY <1>1, <1>3, <2>2
  <2> QED
    BY <2>1, <2>2, <2>3
<1> QED
  BY <1>1, <1>3, <1>4, GoesOn

LEMMA InitSound == Init => IInv
<1> SUFFICES ASSUME Init PROVE IInv
  OBVIOUS
<1>1. /\ nodeType \in ServerTypes /\ dirty = [c \in Chunks |-> {}]
      /\ sending = [s \in Sites |-> 0] /\ attempts = [s \in Sites |-> 0]
      /\ joins = [s \in Sites |-> 0]
      /\ reports = [s \in Sites |-> <<>>] /\ session = [s \in Sites |-> <<>>]
      /\ heard = [c \in Chunks |-> <<>>]
  BY DEF Init
<1>2. \A s \in Sites : SessionsOf(s) = {}
  BY <1>1 DEF SessionsOf
<1>3. TypeOK
  BY <1>1, <1>2, ConstantFacts DEF TypeOK
<1>4. \A s \in Sites : SiteSound(s)
  BY <1>1, <1>2 DEF SiteSound, Resting, AllReported
<1>5. \A c \in Chunks : ChunkSound(c)
  BY <1>1 DEF ChunkSound
<1> QED
  BY <1>3, <1>4, <1>5 DEF IInv

LEMMA NextSound == IInv /\ [Next]_vars => IInv'
<1> SUFFICES ASSUME IInv, [Next]_vars PROVE IInv'
  OBVIOUS
<1>1. CASE Next
  <2>1. PICK s \in Sites : Daemon(s) \/ \E i \in SessionsOf(s) : Client(s, i) \/ Server(s, i)
    BY <1>1 DEF Next
  <2>2. CASE Daemon(s)
    BY <2>2, JoinCompletedKeeps, DeliveredKeeps, ConnectionFailedKeeps DEF Daemon
  <2>3. ASSUME NEW i \in SessionsOf(s), Client(s, i) PROVE IInv'
    BY <2>3, OpenOkKeeps, OpenFailedKeeps, DataSentKeeps, ClientCloseResultKeeps DEF Client
  <2>4. ASSUME NEW i \in SessionsOf(s), Server(s, i) PROVE IInv'
    <3>1. CASE ServerCloseResult(s, i)
      <4>1. CASE Of(s, i).left = 0 /\ ServerClose(s, i, "closed")
        BY <4>1, ServerCloseKeeps DEF Of
      <4>2. CASE ServerClose(s, i, "broken")
        BY <4>2, ServerCloseKeeps
      <4> QED
        BY <3>1, <4>1, <4>2 DEF ServerCloseResult
    <3> QED
      BY <2>4, <3>1, AcceptKeeps, DataReceivedKeeps DEF Server
  <2> QED
    BY <2>1, <2>2, <2>3, <2>4
<1>2. CASE UNCHANGED vars
  <2>1. /\ UNCHANGED <<nodeType, dirty, sending, reports, session, heard>>
        /\ attempts' = attempts /\ joins' = joins
    BY <1>2 DEF vars, siteVars
  <2>2. attempts \in [Sites -> 0 .. ConnMax] /\ joins \in [Sites -> 0 .. MaxJoins]
    BY DEF IInv, TypeOK
  <2> QED
    BY <2>1, <2>2, CountersKeep
<1> QED
  BY <1>1, <1>2

-----------------------------------------------------------------------------
(* The invariants.                                                         *)

\* What sites, sessions and the collector keep about each other: a session that got through
\* is the last of its chunk and the only one the collector heard of it, and a site rests,
\* waits for its last session or has its report.
THEOREM TransferInvariant == Spec => []IInv
<1> QED
  BY InitSound, NextSound, PTL DEF Spec

\* Every variable keeps its type: no counter falls below zero, no site tries to connect
\* more often than it may, no session counts more bytes than there are, and a session
\* is always about a chunk of its own site.
THEOREM TransferTypeCorrect == Spec => []TypeOK
<1>1. IInv => TypeOK
  BY DEF IInv
<1> QED
  BY <1>1, TransferInvariant, PTL

LEMMA NotReported ==
  ASSUME NEW r \in Session
  PROVE  r.tcp \in {"opening", "up", "lost"} <=> r.tcp \notin Reported
BY SessionFields DEF Reported

\* The counter a data site goes by is the number of its sessions without a report and of
\* its reports under way, and never more than one, through every order of joins, failures,
\* deliveries and lost connections.
THEOREM SendingCountsAlways == Spec => []SendingCounts
<1>1. ASSUME IInv, NEW s \in Sites
      PROVE  sending[s] = Cardinality(Unreported(s)) + Len(reports[s]) /\ sending[s] <= 1
  <2>1. /\ TypeOK /\ (Resting(s) \/ Waiting(s) \/ Answered(s))
        /\ SessionsOf(s) = 1 .. Len(session[s]) /\ Len(session[s]) \in Nat
        /\ \A i \in SessionsOf(s) : session[s][i] \in Session
    BY <1>1, SiteCases, TypeFacts
  <2>2. Unreported(s) = {i \in SessionsOf(s) : session[s][i].tcp \notin Reported}
    BY <2>1, NotReported DEF Unreported
  <2>3. Cardinality({}) = 0 /\ \A x : Cardinality({x}) = 1
    BY FS_EmptySet, FS_Singleton
  <2>4. CASE Resting(s)
    <3>1. Unreported(s) = {}
      BY <2>2, <2>4 DEF Resting, AllReported
    <3> QED
      BY <2>3, <2>4, <3>1 DEF Resting
  <2>5. CASE Waiting(s)
    <3>1. Len(session[s]) \in 1 .. Len(session[s])
      <4>1. session[s] \in Seq(Session) /\ session[s] # <<>>
        BY <2>1, <2>5, TypeFacts DEF Waiting
      <4> QED
        BY <4>1
    <3>2. \A i \in SessionsOf(s) : session[s][i].tcp \notin Reported <=> i = Len(session[s])
      BY <2>1, <2>5, <3>1 DEF Waiting
    <3>3. Unreported(s) = {Len(session[s])}
      BY <2>1, <2>2, <3>1, <3>2
    <3> QED
      <4>1. Cardinality(Unreported(s)) = 1 /\ reports[s] = <<>> /\ sending[s] = 1
        BY <2>3, <2>5, <3>3 DEF Waiting
      <4> QED
        BY <4>1
  <2>6. CASE Answered(s)
    <3>1. Unreported(s) = {}
      BY <2>2, <2>6 DEF Answered, AllReported
    <3>2. Len(reports[s]) = 1 /\ sending[s] = 1
      BY <2>6 DEF Answered
    <3> QED
      BY <2>3, <3>1, <3>2
  <2> QED
    BY <2>1, <2>4, <2>5, <2>6
<1>2. IInv => SendingCounts
  BY <1>1 DEF SendingCounts
<1> QED
  BY <1>2, TransferInvariant, PTL

\* What the collector has been told of a chunk it was told through one session.
LEMMA ToldThrough ==
  ASSUME IInv, NEW c \in Chunks, heard[c] # <<>>
  PROVE  \E i \in SessionsOf(Owner[c]) :
           LET this == session[Owner[c]][i]
           IN  /\ this \in Session /\ this.chunk = c /\ Counted(this) /\ heard[c] = Said(this)
               /\ this.tcp # "refused"
<1>1. Owner[c] \in Sites
  BY ConstantFacts
<1>2. PICK i \in SessionsOf(Owner[c]) :
        session[Owner[c]][i].chunk = c /\ session[Owner[c]][i].tcp # "refused"
  BY DEF IInv, ChunkSound
<1> QED
  BY <1>1, <1>2, SessionCases

\* The daemon of the collector is told of a chunk at most once, of its header first and of
\* the whole of it then, however often the site offers the chunk and whatever connections
\* break.
THEOREM HeaderThenWholeAlways == Spec => []HeaderThenWhole
<1>1. ASSUME IInv, NEW c \in Chunks
      PROVE  heard[c] \in {<<>>, <<"header">>, <<"header", "whole">>}
  BY <1>1, ToldThrough DEF Said
<1>2. IInv => HeaderThenWhole
  BY <1>1 DEF HeaderThenWhole
<1> QED
  BY <1>2, TransferInvariant, PTL

\* A connection closed in order has brought the whole item, cut into segments anywhere, and
\* has been reported; a broken one is reported only if nothing is missing.
THEOREM CloseIsWholeAlways == Spec => []CloseIsWhole
<1>1. ASSUME IInv, NEW s \in Sites, NEW i \in SessionsOf(s), session[s][i].server = "closed"
      PROVE  /\ session[s][i].left = 0
             /\ session[s][i].received = Size[session[s][i].chunk]
             /\ nodeType = "MDC" => heard[session[s][i].chunk] = <<"header", "whole">>
  <2> DEFINE r == session[s][i]
  <2>1. /\ r \in Session /\ Counted(r) /\ r.chunk \in Chunks
        /\ r.tcp # "refused" => heard[r.chunk] = Said(r)
    BY <1>1, SessionCases
  <2> HIDE DEF r
  <2>2. /\ r.tcp \notin {"opening", "refused"} /\ r.left = 0 /\ r.expected = Size[r.chunk]
    BY <1>1, <2>1 DEF Counted, r
  <2>3. r.received = Size[r.chunk]
    BY <2>1, <2>2, SessionFields, ConstantFacts DEF Counted
  <2>4. r.expected # -1
    BY <2>1, <2>2, ConstantFacts
  <2>5. nodeType = "MDC" => Said(r) = <<"header", "whole">>
    BY <1>1, <2>2, <2>3, <2>4 DEF Said, r
  <2> QED
    BY <2>1, <2>2, <2>3, <2>5 DEF r
<1>2. ASSUME IInv, NEW c \in Chunks, heard[c] = <<"header", "whole">>
      PROVE  \E j \in SessionsOf(Owner[c]) :
               /\ session[Owner[c]][j].chunk = c
               /\ session[Owner[c]][j].left = 0
               /\ session[Owner[c]][j].received = Size[c]
  <2> DEFINE r(j) == session[Owner[c]][j]
  <2>1. heard[c] # <<>>
    BY <1>2
  <2>2. PICK j \in SessionsOf(Owner[c]) :
          /\ r(j) \in Session /\ r(j).chunk = c /\ Counted(r(j)) /\ heard[c] = Said(r(j))
          /\ r(j).tcp # "refused"
    BY <1>2, <2>1, ToldThrough
  <2> HIDE DEF r
  <2>3. r(j).expected # -1 /\ r(j).received = r(j).expected
    BY <1>2, <2>2 DEF Said
  <2>4. r(j).expected = Size[c] /\ r(j).left + r(j).received = Size[c]
    BY <2>2, <2>3 DEF Counted, NotBegun
  <2>5. r(j).left = 0 /\ r(j).received = Size[c]
    BY <2>2, <2>3, <2>4, SessionFields, ConstantFacts
  <2> QED
    BY <2>2, <2>5 DEF r
<1>3. ASSUME IInv, NEW s \in Sites, NEW i \in SessionsOf(s),
             heard[session[s][i].chunk] = <<"header", "whole">>
      PROVE  \E j \in SessionsOf(s) :
               /\ session[s][j].chunk = session[s][i].chunk
               /\ session[s][j].left = 0
               /\ session[s][j].received = Size[session[s][i].chunk]
  <2>1. session[s][i].chunk \in Chunks /\ Owner[session[s][i].chunk] = s
    BY <1>3, SessionCases DEF IInv, SiteSound, SessionSound
  <2> QED
    BY <1>2, <1>3, <2>1
<1>4. IInv => CloseIsWhole
  BY <1>1, <1>3 DEF CloseIsWhole
<1> QED
  BY <1>4, TransferInvariant, PTL

-----------------------------------------------------------------------------
(* Sites and collector together implement UpHandoff.                       *)

At(c) == IF "finish" \in dirty[c] THEN "claimed"
         ELSE IF "work" \in dirty[c] THEN "offered" ELSE "kept"
Places == [c \in Chunks |-> IF "finish" \in dirty[c] THEN "claimed"
                            ELSE IF "work" \in dirty[c] THEN "offered" ELSE "kept"]

HandoffMoves ==
  \/ heard' = heard /\ Places' = Places
  \/ heard' = heard /\ \E c \in Chunks :
       \/ Places[c] = "kept" /\ Places' = [Places EXCEPT ![c] = "offered"]
       \/ Places[c] = "offered" /\ heard[c] = <<>> /\ Places' = [Places EXCEPT ![c] = "kept"]
       \/ Places[c] = "offered" /\ Places' = [Places EXCEPT ![c] = "claimed"]
  \/ heard' = heard /\ \E c, d \in Chunks :
       \/ /\ Places[c] = "offered" /\ heard[c] = <<>> /\ Places[d] = "kept"
          /\ Places' = [Places EXCEPT ![c] = "kept", ![d] = "offered"]
       \/ /\ Places[c] = "offered" /\ Places[d] = "kept"
          /\ Places' = [Places EXCEPT ![c] = "claimed", ![d] = "offered"]
  \/ Places' = Places /\ \E c \in Chunks :
       \/ /\ Places[c] # "kept" /\ heard[c] = <<>>
          /\ heard' = [heard EXCEPT ![c] = <<"header">>]
       \/ /\ heard[c] = <<"header">>
          /\ heard' = [heard EXCEPT ![c] = <<"header", "whole">>]

LEMMA MovesAreHandoff ==
  ASSUME HandoffMoves
  PROVE  [Handoff!Next]_<<Places, heard>>
BY Zenon DEF HandoffMoves, Handoff!Next, Handoff!Offer, Handoff!TakeBack, Handoff!Swap,
             Handoff!Claim, Handoff!ClaimNext, Handoff!Announce, Handoff!Receive, Places

LEMMA PlacesAt ==
  /\ \A c \in Chunks : Places[c] = At(c)
  /\ Places' = [c \in Chunks |-> At(c)']
BY DEF Places, At

\* A session's step moves no chunk, and tells what is new of its own.
LEMMA SessionMoves ==
  ASSUME IInv, NEW s \in Sites, NEW i \in SessionsOf(s), Client(s, i) \/ Server(s, i)
  PROVE  HandoffMoves
<1> DEFINE r == session[s][i]
           c == r.chunk
<1>1. dirty' = dirty
  BY Zenon DEF Client, OpenOk, OpenFailed, DataSent, ClientCloseResult,
               Server, Accept, DataReceived, ServerCloseResult, ServerClose, siteVars
<1>2. Places' = Places
  BY <1>1 DEF Places
<1>3. /\ r \in Session /\ Counted(r) /\ c \in Chunks
      /\ r.tcp # "refused" => heard[c] = Said(r) /\ Places[c] # "kept"
  <2>1. r.tcp # "refused" => "work" \in dirty[c]
    BY DEF IInv, SiteSound, SessionSound
  <2> QED
    BY <2>1, SessionCases DEF Places
<1>4. heard \in [Chunks -> Seq({"header", "whole"})]
  BY DEF IInv, TypeOK
<1>5. ASSUME DataReceived(s, i) PROVE HandoffMoves
  <2>1. PICK k \in 1 .. r.left : HeaderReceived(s, i, k) \/ RestReceived(s, i, k)
    BY <1>5 DEF DataReceived, Of
  <2>2. r.server = "open" /\ r.tcp # "refused"
    BY <1>3, <1>5 DEF DataReceived, Of, Counted
  <2>3. CASE HeaderReceived(s, i, k)
    <3>1. r.left = VirtualItem(c) /\ k >= HeaderSize /\ TellMdc("header", c)
      BY <2>3 DEF HeaderReceived, Of
    <3>2. Said(r) = <<>>
      BY <1>3, <2>2, <3>1, HeaderRecord
    <3>3. heard' = heard \/ heard' = [heard EXCEPT ![c] = Append(@, "header")]
      BY <3>1 DEF TellMdc
    <3>4. Append(heard[c], "header") = <<"header">>
      <4>1. heard[c] = <<>>
        BY <1>3, <2>2, <3>2
      <4> QED
        BY <4>1
    <3>5. heard' = heard \/ heard' = [heard EXCEPT ![c] = <<"header">>]
      BY <3>3, <3>4
    <3> QED
      BY <1>2, <1>3, <2>2, <3>2, <3>5 DEF HandoffMoves
  <2>4. CASE RestReceived(s, i, k)
    BY <1>2, <2>4 DEF RestReceived, HandoffMoves
  <2> QED
    BY <2>1, <2>3, <2>4
<1>6. ASSUME NEW how \in {"closed", "broken"}, how = "closed" => r.left = 0,
             ServerClose(s, i, how)
      PROVE  HandoffMoves
  <2>1. /\ r.server = "open"
        /\ IF r.received = r.expected THEN TellMdc("whole", c) ELSE heard' = heard
    BY <1>6, Zenon DEF ServerClose, Of
  <2>2. CASE heard' = heard
    BY <1>2, <2>2 DEF HandoffMoves
  <2>3. CASE heard' # heard
    <3>1. /\ nodeType = "MDC" /\ r.received = r.expected
          /\ heard' = [heard EXCEPT ![c] = Append(@, "whole")]
      BY <2>1, <2>3 DEF TellMdc
    <3>2. Said(r) = <<"header">>
      BY <1>3, <1>6, <2>1, <3>1, ServerClosedRecord
    <3>3. heard[c] = <<"header">>
      BY <1>3, <2>1, <3>2 DEF Counted
    <3>4. Append(<<"header">>, "whole") = <<"header", "whole">>
      <4>1. "header" \in {"header", "whole"} /\ "whole" \in {"header", "whole"}
        OBVIOUS
      <4> QED
        BY <4>1, AppendToOne
    <3>5. heard' = [heard EXCEPT ![c] = <<"header", "whole">>]
      BY <3>1, <3>3, <3>4
    <3> QED
      BY <1>2, <1>3, <3>3, <3>5 DEF HandoffMoves
  <2> QED
    BY <2>2, <2>3
<1>7. ASSUME heard' = heard PROVE HandoffMoves
  BY <1>2, <1>7 DEF HandoffMoves
<1>8. CASE Client(s, i)
  BY <1>7, <1>8, Zenon DEF Client, OpenOk, OpenFailed, DataSent, ClientCloseResult
<1>9. CASE Server(s, i)
  <2>1. Accept(s, i) => heard' = heard
    BY Zenon DEF Accept
  <2>2. CASE ServerCloseResult(s, i)
    <3>1. CASE r.left = 0 /\ ServerClose(s, i, "closed")
      BY <1>6, <3>1
    <3>2. CASE ServerClose(s, i, "broken")
      BY <1>6, <3>2
    <3> QED
      BY <2>2, <3>1, <3>2 DEF ServerCloseResult, Of
  <2> QED
    BY <1>5, <1>7, <1>9, <2>1, <2>2 DEF Server
<1> QED
  BY <1>8, <1>9

\* What SendNext makes of the places: those of bits, and one more offered.
LEMMA SendNextMoves ==
  ASSUME NEW s \in Sites, NEW bits \in [Chunks -> SUBSET {"work", "finish"}], NEW count,
         SendNext(s, bits, count)
  PROVE  \/ dirty' = bits
         \/ \E d \in Chunks : bits[d] = {} /\ dirty' = [bits EXCEPT ![d] = {"work"}]
<1>1. CASE \E d \in GetNext(s, bits) : dirty' = [bits EXCEPT ![d] = @ \cup {"work"}]
  <2>1. PICK d \in GetNext(s, bits) : dirty' = [bits EXCEPT ![d] = @ \cup {"work"}]
    BY <1>1
  <2>2. d \in Chunks /\ bits[d] = {}
    BY DEF GetNext
  <2> QED
    BY <2>1, <2>2
<1> QED
  BY <1>1 DEF SendNext

LEMMA JoinMoves ==
  ASSUME IInv, NEW s \in Sites, JoinCompleted(s)
  PROVE  HandoffMoves
<1>1. /\ heard' = heard
      /\ dirty' = dirty \/ SendNext(s, dirty, sending[s])
  BY Zenon DEF JoinCompleted
<1>2. dirty \in [Chunks -> SUBSET {"work", "finish"}]
  BY SiteCases
<1>3. CASE dirty' = dirty
  BY <1>1, <1>3 DEF HandoffMoves, Places
<1>4. CASE \E d \in Chunks : dirty[d] = {} /\ dirty' = [dirty EXCEPT ![d] = {"work"}]
  <2>1. PICK d \in Chunks : dirty[d] = {} /\ dirty' = [dirty EXCEPT ![d] = {"work"}]
    BY <1>4
  <2>2. At(d) = "kept" /\ At(d)' = "offered" /\ \A e \in Chunks \ {d} : At(e)' = At(e)
    BY <1>2, <2>1 DEF At
  <2>3. Places' = [Places EXCEPT ![d] = "offered"] /\ Places[d] = "kept"
    BY <2>2, PlacesAt DEF Places
  <2> QED
    BY <1>1, <2>3 DEF HandoffMoves
<1> QED
  BY <1>1, <1>2, <1>3, <1>4, SendNextMoves

LEMMA DeliveredMoves ==
  ASSUME IInv, NEW s \in Sites, Delivered(s)
  PROVE  HandoffMoves
<1> DEFINE bits == [dirty EXCEPT ![Head(reports[s]).chunk] = @ \cup {"finish"}]
<1>1. /\ TakeReport(s, "delivered") /\ SendNext(s, bits, sending[s] - 1) /\ heard' = heard
  BY Zenon DEF Delivered
<1>2. PICK c \in Chunks : Head(reports[s]).chunk = c /\ dirty[c] = {"work"}
  BY <1>1, ReportTaken
<1>3. dirty \in [Chunks -> SUBSET {"work", "finish"}]
  BY SiteCases
<1>4. /\ bits \in [Chunks -> SUBSET {"work", "finish"}] /\ bits[c] = {"work", "finish"}
      /\ \A e \in Chunks \ {c} : bits[e] = dirty[e]
  BY <1>2, <1>3
<1>5. At(c) = "offered"
  BY <1>2 DEF At
<1>6. CASE dirty' = bits
  <2>1. At(c)' = "claimed" /\ \A e \in Chunks \ {c} : At(e)' = At(e)
    BY <1>2, <1>4, <1>6 DEF At
  <2>2. Places' = [Places EXCEPT ![c] = "claimed"] /\ Places[c] = "offered"
    BY <1>2, <1>5, <2>1, PlacesAt DEF Places
  <2> QED
    BY <1>1, <1>2, <2>2 DEF HandoffMoves
<1>7. CASE \E d \in Chunks : bits[d] = {} /\ dirty' = [bits EXCEPT ![d] = {"work"}]
  <2>1. PICK d \in Chunks : bits[d] = {} /\ dirty' = [bits EXCEPT ![d] = {"work"}]
    BY <1>7
  <2>2. d # c /\ dirty[d] = {}
    BY <1>4, <2>1
  <2>3. /\ At(d) = "kept" /\ At(d)' = "offered" /\ At(c)' = "claimed"
        /\ \A e \in Chunks \ {c, d} : At(e)' = At(e)
    BY <1>2, <1>4, <2>1, <2>2 DEF At
  <2>4. /\ Places' = [Places EXCEPT ![c] = "claimed", ![d] = "offered"]
        /\ Places[c] = "offered" /\ Places[d] = "kept"
    BY <1>2, <1>5, <2>2, <2>3, PlacesAt DEF Places
  <2> QED
    BY <1>1, <1>2, <2>4 DEF HandoffMoves
<1> QED
  BY <1>1, <1>4, <1>6, <1>7, SendNextMoves

LEMMA FailedMoves ==
  ASSUME IInv, NEW s \in Sites, ConnectionFailed(s)
  PROVE  HandoffMoves
<1> DEFINE bits == [dirty EXCEPT ![Head(reports[s]).chunk] = @ \ {"work"}]
<1>1. /\ TakeReport(s, "failed") /\ heard' = heard
      /\ \/ /\ attempts[s] < ConnMax /\ attempts' = [attempts EXCEPT ![s] = @ + 1]
            /\ SendNext(s, bits, sending[s] - 1)
         \/ dirty' = dirty
      /\ UNCHANGED <<nodeType, joins, heard>>
  BY Zenon DEF ConnectionFailed
<1>2. PICK c \in Chunks :
        Head(reports[s]).chunk = c /\ dirty[c] = {"work"} /\ Owner[c] = s
  BY <1>1, ReportTaken
<1>3. dirty \in [Chunks -> SUBSET {"work", "finish"}] /\ attempts \in [Sites -> 0 .. ConnMax]
  BY SiteCases
<1>4. CASE dirty' = dirty
  BY <1>1, <1>4 DEF HandoffMoves, Places
<1>5. CASE /\ attempts[s] < ConnMax /\ attempts' = [attempts EXCEPT ![s] = @ + 1]
           /\ SendNext(s, bits, sending[s] - 1)
  <2>1. attempts' \in [Sites -> 0 .. ConnMax]
    BY <1>3, <1>5, ConstantFacts
  <2>2. FreeToSend(s, bits)
    BY <1>1, <2>1, FailedFree
  <2>3. /\ bits \in [Chunks -> SUBSET {"work", "finish"}] /\ bits[c] = {}
        /\ \A e \in Chunks \ {c} : bits[e] = dirty[e]
    BY <1>2, <1>3
  <2>4. heard[c] = <<>>
    <3>1. \A i \in SessionsOf(s) : session[s][i].chunk = c => session[s][i].tcp = "refused"
      BY <2>2, <2>3 DEF FreeToSend
    <3> QED
      BY <1>2, <3>1 DEF IInv, ChunkSound
  <2>5. At(c) = "offered"
    BY <1>2 DEF At
  <2>6. CASE dirty' = bits
    <3>1. At(c)' = "kept" /\ \A e \in Chunks \ {c} : At(e)' = At(e)
      BY <1>2, <2>3, <2>6 DEF At
    <3>2. Places' = [Places EXCEPT ![c] = "kept"] /\ Places[c] = "offered"
      BY <1>2, <2>5, <3>1, PlacesAt DEF Places
    <3> QED
      BY <1>1, <1>2, <2>4, <3>2 DEF HandoffMoves
  <2>7. CASE \E d \in Chunks : bits[d] = {} /\ dirty' = [bits EXCEPT ![d] = {"work"}]
    <3>1. PICK d \in Chunks : bits[d] = {} /\ dirty' = [bits EXCEPT ![d] = {"work"}]
      BY <2>7
    <3>2. CASE d = c
      <4>1. \A e \in Chunks : At(e)' = At(e)
        BY <1>2, <2>3, <3>1, <3>2 DEF At
      <4>2. Places' = Places
        BY <4>1, PlacesAt DEF Places, At
      <4> QED
        BY <1>1, <4>2 DEF HandoffMoves
    <3>3. CASE d # c
      <4>1. dirty[d] = {}
        BY <2>3, <3>1, <3>3
      <4>2. /\ At(d) = "kept" /\ At(d)' = "offered" /\ At(c)' = "kept"
            /\ \A e \in Chunks \ {c, d} : At(e)' = At(e)
        BY <1>2, <2>3, <3>1, <3>3, <4>1 DEF At
      <4>3. /\ Places' = [Places EXCEPT ![c] = "kept", ![d] = "offered"]
            /\ Places[c] = "offered" /\ Places[d] = "kept"
        BY <1>2, <2>5, <3>3, <4>2, PlacesAt DEF Places
      <4> QED
        BY <1>1, <1>2, <2>4, <4>3 DEF HandoffMoves
    <3> QED
      BY <3>2, <3>3
  <2> QED
    BY <1>5, <2>3, <2>6, <2>7, SendNextMoves
<1> QED
  BY <1>1, <1>4, <1>5

\* Every behaviour of the sites and the collector is one of UpHandoff: an offer is taken
\* back only while nothing of the chunk has got through, a claim is made only of what was
\* offered and only once, and the collector announces a chunk before it has it whole.
THEOREM TransferIsHandoff == Spec => HandoffSpec
<1>1. ASSUME Init PROVE Handoff!Init
  <2>1. dirty = [c \in Chunks |-> {}] /\ heard = [c \in Chunks |-> <<>>]
    BY <1>1 DEF Init
  <2> QED
    BY <2>1 DEF Handoff!Init
<1>2. ASSUME IInv, [Next]_vars PROVE HandoffMoves
  <2>1. CASE Next
    BY <1>2, <2>1, JoinMoves, DeliveredMoves, FailedMoves, SessionMoves DEF Next, Daemon
  <2>2. CASE UNCHANGED vars
    BY <2>2 DEF vars, siteVars, HandoffMoves, Places
  <2> QED
    BY <1>2, <2>1, <2>2
<1>3. ASSUME HandoffMoves
      PROVE  [Handoff!Next]_<<[c \in Chunks |-> IF "finish" \in dirty[c] THEN "claimed"
                               ELSE IF "work" \in dirty[c] THEN "offered" ELSE "kept"], heard>>
  BY <1>3, MovesAreHandoff DEF Places
<1> QED
  BY <1>1, <1>2, <1>3, TransferInvariant, PTL DEF Spec, HandoffSpec, Handoff!Spec
=============================================================================
