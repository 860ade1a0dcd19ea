---------------------------- MODULE MessagePool ----------------------------
(***************************************************************************)
(* Messages of the simulation kernel (main/message.cpp): how payloads and  *)
(* info fields are stored and recycled, how packets are fragmented,        *)
(* reassembled, packed and duplicated, and the list based MessageQueue.    *)
(*                                                                         *)
(* Protocols own FLOWS.  A flow is one packet that its owner allocates,    *)
(* gives info fields and headers, cuts into pieces, queues, joins again,   *)
(* sends and frees.  The owners act in any order and share the storage of  *)
(* their partition.  A byte of a packet is a number that tells its flow    *)
(* and its place; virtual bytes are only counted.  A message is a record:  *)
(* Message::initialize resets an object from the list of free messages to  *)
(* what a new object is, so that objects have no identity here, while the  *)
(* storage they point to has one.                                          *)
(***************************************************************************)
EXTENDS Integers, Sequences, FiniteSets, SequencesExt

CONSTANTS
  Flows,          \* the packets in flight
  Workers,        \* bound: flows whose owner changes the packet; the others
                  \* are copies, and it is the copies that are sent
  MsgCap,         \* bound: messages that exist at a time
  InfoListMax, PayloadListMax,   \* MSG_..._LIST_MAX
  SmallInfo,      \* SMALL_INFO_SPACE_SIZE
  CachedPayload,  \* MAX_CACHED_PAYLOAD_SIZE
  HeaderRoom,     \* MSG_MAX_HDR_SIZE
  SerialSize,     \* size of one message inside a packed one
  InfoTypes, Default,       \* Default = INFO_TYPE_DEFAULT
  Asked,          \* bound: the info fields <<type, size>> callers ask for
  Reals, Virtuals, FragUnits,    \* bound: the sizes callers use
  Never,          \* CLOCKTYPE_MAX
  Dues,           \* bound: the event times of the messages of a chain
  Threads         \* bound: values of isMT that callers pass

ASSUME MessageSizes ==
  /\ {MsgCap, InfoListMax, PayloadListMax} \subseteq Nat
  /\ {SmallInfo, CachedPayload, SerialSize, Never} \subseteq Nat /\ HeaderRoom \in Nat \ {0}
  /\ Asked \subseteq InfoTypes \X (Nat \ {0}) /\ FragUnits \subseteq Nat \ {0}
  /\ Workers \subseteq Flows /\ Dues \subseteq Seq(0..Never)
  /\ Flows \cup Reals \cup Virtuals \subseteq Nat
  /\ Default \in InfoTypes /\ Threads \subseteq BOOLEAN

Null == 0
Proto == -1                           \* a header, and its one byte

VARIABLES
  pool,      \* kind: what each block in use was allocated as; the two recycling lists
  hold,      \* hold[f]: the messages the owner of f holds, in order
  buffer,    \* buffer[f]: the messages of f that were serialized into a string
  queue,     \* MessageQueue: [m, f, time] from head to tail
  earliest,  \* m_earliestEvent
  whole      \* what the owner of f put in, for the properties

vars == <<pool, hold, buffer, queue, earliest, whole>>

\* MESSAGE_Alloc and Message::initialize
Alloc(isMT) ==
  [payload |-> Null, size |-> 0, packet |-> <<>>, inside |-> <<>>, actual |-> 0,
   virt |-> 0, headers |-> <<>>, infos |-> <<>>, mt |-> isMT, sent |-> FALSE]

-----------------------------------------------------------------------------
\* Storage of info fields and payloads.  w is the pool, s = [w, m] the pool
\* and the message that an operation works on.

\* A block the heap has not given away; which one means nothing, and so does
\* which block of a list comes first.
Malloc(w) == CHOOSE b \in 1..(1 + Cardinality(DOMAIN w.kind)) : b \notin DOMAIN w.kind
One(blocks) == CHOOSE b \in blocks : TRUE
Allocated(w, b, k) ==
  [w EXCEPT !.kind = [c \in DOMAIN w.kind \cup {b} |-> IF c = b THEN k ELSE w.kind[c]]]
Freed(w, b) == [w EXCEPT !.kind = [c \in DOMAIN w.kind \ {b} |-> w.kind[c]]]

\* MESSAGE_InfoFieldAlloc: a cell of the list, a new cell, or just the bytes.
InfoFrom(w, size, isMT) ==
  IF size > SmallInfo \/ isMT \/ w.infoList = {} THEN Malloc(w) ELSE One(w.infoList)
InfoFieldAlloc(w, b, size, isMT) ==
  Allocated([w EXCEPT !.infoList = @ \ {b}], b,
            IF size > SmallInfo \/ isMT THEN "exact" ELSE "infoCell")

\* A small default field lies in the smallInfoSpace of its message.
InMessage(type, size) == type = Default /\ size <= SmallInfo

\* MESSAGE_InfoFieldFree
InfoFieldFree(w, info, wasMT) ==
  IF /\ info.type # Default /\ info.size <= SmallInfo /\ ~wasMT
     /\ Cardinality(w.infoList) < InfoListMax
  THEN [w EXCEPT !.infoList = @ \cup {info.at}]
  ELSE IF InMessage(info.type, info.size) THEN w
       ELSE Freed(w, info.at)

\* MESSAGE_PayloadAlloc
PayloadFrom(w, size, isMT) ==
  IF size > CachedPayload \/ isMT \/ w.payloadList = {}
  THEN Malloc(w) ELSE One(w.payloadList)
PayloadAlloc(s, size) ==
  LET b == PayloadFrom(s.w, size, FALSE)
  IN [w |-> Allocated([s.w EXCEPT !.payloadList = @ \ {b}], b,
                      IF size > CachedPayload THEN "exact" ELSE "payloadCell"),
      m |-> [s.m EXCEPT !.payload = b, !.size = size]]

\* MESSAGE_PayloadFree
PayloadFree(w, b, size, wasMT) ==
  IF size <= CachedPayload /\ ~wasMT /\ Cardinality(w.payloadList) < PayloadListMax
  THEN [w EXCEPT !.payloadList = @ \cup {b}]
  ELSE Freed(w, b)

\* MESSAGE_Free with MESSAGE_FreeContents: the pool afterwards.
Free(w, m) ==
  FoldLeft(LAMBDA v, info : InfoFieldFree(v, info, m.mt),
           IF m.size > 0 THEN PayloadFree(w, m.payload, m.size, m.mt) ELSE w, m.infos)

\* MESSAGE_FreeList
FreeList(w, chain) == FoldLeft(Free, w, chain)

-----------------------------------------------------------------------------
\* Info fields.

\* A field of this type and size becomes entry i of infoArray.
StoreInfo(s, i, type, size, isMT) ==
  LET b == IF InMessage(type, size) THEN Null ELSE InfoFrom(s.w, size, isMT)
      entry == [type |-> type, size |-> size, at |-> b]
  IN [w |-> IF b = Null THEN s.w ELSE InfoFieldAlloc(s.w, b, size, isMT),
      m |-> [s.m EXCEPT !.infos = IF i > Len(@) THEN Append(@, entry) ELSE [@ EXCEPT ![i] = entry]]]

InfoIndex(m, type) == SelectInSeq(m.infos, LAMBDA info : info.type = type)   \* 0: none

\* MESSAGE_AddInfo.  A field that exists is replaced only if it must grow out
\* of its storage; one that grows inside a cell keeps its old infoSize.
AddInfo(s, type, size) ==
  LET i == InfoIndex(s.m, type)
      old == s.m.infos[i]
      replaced == StoreInfo([s EXCEPT !.w = InfoFieldFree(s.w, old, s.m.mt)], i, type, size, s.m.mt)
  IN IF i = 0 THEN StoreInfo(s, Len(s.m.infos) + 1, type, size, s.m.mt)
     ELSE IF type = Default
     THEN IF size <= SmallInfo \/ size > old.size THEN replaced
          ELSE [s EXCEPT !.m.infos[i].size = size]
     ELSE IF old.size < size /\ (old.size > SmallInfo \/ size > SmallInfo) THEN replaced
     ELSE s

\* MESSAGE_RemoveInfo: always as if the message was not of a thread.
RemoveInfo(s, type) ==
  LET i == InfoIndex(s.m, type)
  IN IF i = 0 THEN s
     ELSE [w |-> InfoFieldFree(s.w, s.m.infos[i], FALSE),
           m |-> [s.m EXCEPT !.infos = RemoveAt(@, i)]]

\* Fault: the entries that are there are overwritten, their storage is not freed
\* and the small info is shared with the source.
SlipCopyInfo(s, src) ==
  [s EXCEPT !.m.infos = src.infos]

\* MESSAGE_CopyInfo to s.m: entry by entry, over those that are there.
CopyInfo(s, src) ==
  FoldLeftDomain(LAMBDA t, i :
      StoreInfo(IF i <= Len(t.m.infos)
                THEN [t EXCEPT !.w = InfoFieldFree(t.w, t.m.infos[i], FALSE)] ELSE t,
                i, src.infos[i].type, src.infos[i].size, t.m.mt),
    s, src.infos)

\* MESSAGE_AppendInfo: a second default field is not stored.
AppendInfo(s, type, size) ==
  IF type = Default /\ InfoIndex(s.m, Default) # 0 THEN s
  ELSE StoreInfo(s, Len(s.m.infos) + 1, type, size, s.m.mt)

\* A field is added for each of infos, but for those of the types in no.
StoreAll(s, infos, no, isMT) ==
  FoldLeft(LAMBDA t, info : IF info.type \in no THEN t
                            ELSE StoreInfo(t, Len(t.m.infos) + 1, info.type, info.size, isMT),
           s, infos)

\* MESSAGE_AppendInfo of all the fields of a message, or of an infoArray: no
\* default field if there was one before.
AppendInfos(s, infos) ==
  StoreAll(s, infos, IF InfoIndex(s.m, Default) # 0 THEN {Default} ELSE {}, s.m.mt)

-----------------------------------------------------------------------------
\* Packets.

\* MESSAGE_PacketAlloc.  The protocol is the first header.
PacketAlloc(s, packet) ==
  [PayloadAlloc(s, Len(packet) + HeaderRoom) EXCEPT !.m.packet = packet, !.m.headers = <<Proto>>]

\* MESSAGE_Duplicate and Message::operator=: mtWasMT stays as Alloc set it,
\* and the storage is never allocated as a thread's.
Duplicate(w, m, isMT) ==
  LET s == [w |-> w, m |-> [m EXCEPT !.mt = isMT, !.sent = FALSE, !.infos = <<>>]]
  IN StoreAll(IF m.size = 0 THEN s ELSE PayloadAlloc(s, m.size), m.infos, {}, FALSE)

\* The next fragment of what is left: real bytes first, then virtual ones.
Cut(rest, unit) ==
  LET r == Min({Len(rest.real), unit})
      v == IF Len(rest.real) >= unit THEN 0 ELSE Min({rest.virt, unit - r})
  IN [real |-> SubSeq(rest.real, 1, r), virt |-> v,
      rest |-> [real |-> SubSeq(rest.real, r + 1, Len(rest.real)), virt |-> rest.virt - v]]

Content(m) == [real |-> m.packet, virt |-> m.virt]
PacketSize(m) == Len(m.packet) + m.virt
Pieces(m, unit) == (PacketSize(m) + unit - 1) \div unit

\* A new message with the infos of m and this part of its packet.
Fragment(w, m, part) ==
  [PacketAlloc(CopyInfo([w |-> w, m |-> Alloc(FALSE)], m), part.real) EXCEPT !.m.virt = part.virt]

\* MESSAGE_FragmentPacket into a list: one more fragment, all of them, and the
\* pool and the list after it.
OneMore(s, m, unit) ==
  LET part == Cut(s.rest, unit)
      new == Fragment(s.w, m, part)
  IN [w |-> new.w, rest |-> part.rest, list |-> Append(s.list, new.m)]
Fragments(w, m, unit) ==
  FoldLeft(LAMBDA s, i : OneMore(s, m, unit), [w |-> w, list |-> <<>>, rest |-> Content(m)],
           [i \in 1..Pieces(m, unit) |-> i])
FragmentPacket(w, m, unit) ==
  LET all == Fragments(w, m, unit)
  IN IF PacketSize(m) <= unit THEN [w |-> w, list |-> <<m>>]
     ELSE [w |-> Free(all.w, m), list |-> [all.list EXCEPT ![1].headers = m.headers]]

\* MESSAGE_ShrinkPacket by n bytes; virtual bytes are the caller's matter.
ShrinkPacket(m, n) == [m EXCEPT !.packet = SubSeq(@, n + 1, Len(@))]

\* MESSAGE_FragmentPacket in two: a fragment and what remains, which is the
\* original, shrunk, if the caller gives it up.
SplitPacket(w, m, unit, freeOriginal) ==
  LET part == Cut(Content(m), unit)
      one == Fragment(w, m, part)
      two == IF freeOriginal
             THEN [w |-> one.w, m |-> ShrinkPacket([m EXCEPT !.virt = part.rest.virt],
                                                   Len(part.real))]
             ELSE Fragment(one.w, m, part.rest)
  IN [w |-> two.w, list |-> <<[one.m EXCEPT !.headers = m.headers],
                              [two.m EXCEPT !.headers = m.headers]>>]

\* The packets of a list, one after the other.
Joined(list) ==
  FoldLeft(LAMBDA c, m : [real |-> c.real \o m.packet, virt |-> c.virt + m.virt],
           [real |-> <<>>, virt |-> 0], list)

\* Fault: the virtual bytes of the first piece only.
SlipReassemble(w, list) ==
  LET s == PacketAlloc([w |-> w, m |-> Alloc(FALSE)], Joined(list).real)
  IN [CopyInfo(s, list[1]) EXCEPT !.m.headers = list[1].headers, !.m.virt = list[1].virt]

\* What both forms of MESSAGE_ReassemblePacket build from at least two pieces.
Reassemble(w, list) ==
  LET s == PacketAlloc([w |-> w, m |-> Alloc(FALSE)], Joined(list).real)
  IN [CopyInfo(s, list[1]) EXCEPT !.m.headers = list[1].headers, !.m.virt = Joined(list).virt]

\* MESSAGE_Serialize and MESSAGE_Unserialize of one message.
Serialize(m) ==
  [packet |-> m.packet, virt |-> m.virt, headers |-> m.headers, size |-> m.size,
   infos |-> [i \in DOMAIN m.infos |-> [type |-> m.infos[i].type, size |-> m.infos[i].size]]]
Unserialize(w, item) ==
  FoldLeft(LAMBDA s, info : AppendInfo(s, info.type, info.size),
           [PayloadAlloc([w |-> w, m |-> Alloc(FALSE)], item.size) EXCEPT
              !.m.packet = item.packet, !.m.virt = item.virt, !.m.headers = item.headers],
           item.infos)

\* MESSAGE_SerializeMsgList, which frees the list, and the way back.
SerializeMsgList(list) == [i \in DOMAIN list |-> Serialize(list[i])]
Unserialized(s, item) ==
  LET new == Unserialize(s.w, item) IN [w |-> new.w, list |-> Append(s.list, new.m)]
UnserializeMsgList(w, items) == FoldLeft(Unserialized, [w |-> w, list |-> <<>>], items)

\* MESSAGE_PackMessage: one message that carries the list.
PackMessage(w, list) ==
  [PayloadAlloc([w |-> FreeList(w, list), m |-> Alloc(FALSE)],
                Len(list) * SerialSize + HeaderRoom) EXCEPT
     !.m.headers = <<Proto>>,
     !.m.inside = SerializeMsgList(list),
     !.m.actual = Len(Joined(list).real) + Joined(list).virt]

\* MESSAGE_UnpackMessage, which then frees the packed message.
UnpackMessage(w, m) ==
  LET all == UnserializeMsgList(w, m.inside)
  IN [w |-> Free(all.w, m), list |-> all.list]

-----------------------------------------------------------------------------
NoPacket == [real |-> <<>>, virt |-> 0, headers |-> <<>>, infos |-> [t \in InfoTypes |-> 0]]

Init ==
  /\ pool = [kind |-> <<>>, infoList |-> {}, payloadList |-> {}]
  /\ hold = [f \in Flows |-> <<>>] /\ buffer = [f \in Flows |-> <<>>]
  /\ queue = <<>> /\ earliest = Never
  /\ whole = [f \in Flows |-> NoPacket]

\* The messages of f in the queue.
Queued(f) == FoldLeft(LAMBDA s, e : IF e.f = f THEN Append(s, e.m) ELSE s, <<>>, queue)
Fits(n) == FoldSet(LAMBDA f, k : k + Len(hold[f]), Len(queue), Flows) + n <= MsgCap

\* The owner of f has all of it at hand: its one message, or its pieces.
Ready(f) == hold[f] # <<>> /\ Queued(f) = <<>> /\ ~hold[f][1].sent
Single(f) == Ready(f) /\ Len(hold[f]) = 1
Packed(m) == m.inside # <<>>
Plain(f) == Single(f) /\ ~Packed(hold[f][1])
IsFree(f) == hold[f] = <<>> /\ buffer[f] = <<>> /\ Queued(f) = <<>>

\* A step of the owner of f that leaves the queue and the others alone.
Holds(f, w, list) ==
  pool' = w /\ hold' = [hold EXCEPT ![f] = list] /\ UNCHANGED <<queue, earliest>>
Changes(f, s) == Holds(f, s.w, <<s.m>>)
Mine(f) == [w |-> pool, m |-> hold[f][1]]

\* MESSAGE_Alloc, MESSAGE_PacketAlloc and MESSAGE_AddVirtualPayload.
NewPacket(f, r, v, isMT) ==
  /\ IsFree(f) /\ Fits(1)
  /\ LET bytes == [i \in 1..r |-> 10 * f + i]
     IN /\ Changes(f, [PacketAlloc([w |-> pool, m |-> Alloc(isMT)], bytes) EXCEPT !.m.virt = v])
        /\ whole' = [whole EXCEPT ![f] = [NoPacket EXCEPT !.real = bytes, !.virt = v,
                                                          !.headers = <<Proto>>]]

SetInfo(f, type, size) ==
  /\ Plain(f)
  /\ Changes(f, AddInfo(Mine(f), type, size))
  /\ whole' = [whole EXCEPT ![f].infos[type] = size]

DropInfo(f, type) ==
  /\ Plain(f) /\ whole[f].infos[type] # 0
  /\ Changes(f, RemoveInfo(Mine(f), type))
  /\ whole' = [whole EXCEPT ![f].infos[type] = 0]

\* The copy f takes over the info fields of g; a second field of a type that is
\* not the default one could never be found.
TakeInfos(f, g) ==
  /\ Plain(f) /\ Plain(g)
  /\ \A i \in DOMAIN hold[g][1].infos :
        LET type == hold[g][1].infos[i].type
        IN type # Default => InfoIndex(hold[f][1], type) = 0
  /\ Changes(f, AppendInfos(Mine(f), hold[g][1].infos))
  /\ whole' = [whole EXCEPT ![f].infos =
                  [t \in InfoTypes |-> IF @[t] # 0 THEN @[t] ELSE whole[g].infos[t]]]

\* MESSAGE_AddHeader with a header of one byte; more than HeaderRoom of them
\* end the program.
AddHeader(f) ==
  /\ Plain(f) /\ Len(whole[f].headers) <= HeaderRoom
  /\ Changes(f, [Mine(f) EXCEPT !.m.packet = <<Proto>> \o @, !.m.headers = Append(@, Proto)])
  /\ whole' = [whole EXCEPT ![f].real = <<Proto>> \o @, ![f].headers = Append(@, Proto)]

\* MESSAGE_RemoveHeader, by the owner that added it.
RemoveHeader(f) ==
  /\ Plain(f) /\ Len(whole[f].headers) > 1
  /\ LET m == [hold[f][1] EXCEPT !.headers = Front(@)]
     IN Changes(f, [w |-> pool, m |-> ShrinkPacket(m, 1)])
  /\ whole' = [whole EXCEPT ![f].real = Tail(@), ![f].headers = Front(@)]

Cutting(f, unit) ==
  /\ Plain(f) /\ Fits(Pieces(hold[f][1], unit))
  /\ LET cut == FragmentPacket(pool, hold[f][1], unit) IN Holds(f, cut.w, cut.list)
  /\ UNCHANGED whole

\* The last piece is split; an original that is kept is freed by its owner.
Splitting(f, unit, freeOriginal) ==
  /\ Ready(f) /\ Fits(2)
  /\ LET m == Last(hold[f])
         cut == SplitPacket(pool, m, unit, freeOriginal)
     IN /\ ~Packed(m) /\ PacketSize(m) > unit
        /\ Holds(f, IF freeOriginal THEN cut.w ELSE Free(cut.w, m), Front(hold[f]) \o cut.list)
  /\ UNCHANGED whole

\* MESSAGE_ReassemblePacket of a list: a single piece is the packet.
JoinAll(f) ==
  /\ Ready(f) /\ Len(hold[f]) > 1 /\ Fits(1)
  /\ LET new == Reassemble(pool, hold[f]) IN Holds(f, FreeList(new.w, hold[f]), <<new.m>>)
  /\ UNCHANGED whole

\* MESSAGE_ReassemblePacket of two pieces, which stay with their owner, who
\* frees them.
JoinTwo(f) ==
  /\ Ready(f) /\ Len(hold[f]) > 1 /\ Fits(1)
  /\ LET two == SubSeq(hold[f], 1, 2)
         new == Reassemble(pool, two)
     IN Holds(f, FreeList(new.w, two), <<new.m>> \o SubSeq(hold[f], 3, Len(hold[f])))
  /\ UNCHANGED whole

\* The copy becomes a flow of its own.
Copying(f, g, isMT) ==
  /\ Single(f) /\ IsFree(g) /\ Fits(1)
  /\ Changes(g, Duplicate(pool, hold[f][1], isMT))
  /\ whole' = [whole EXCEPT ![g] = whole[f]]

Packing(f) ==
  /\ Ready(f) /\ ~Packed(hold[f][1]) /\ Fits(1)
  /\ Changes(f, PackMessage(pool, hold[f]))
  /\ UNCHANGED whole

Unpacking(f) ==
  /\ Single(f) /\ Packed(hold[f][1]) /\ Fits(Len(hold[f][1].inside))
  /\ LET out == UnpackMessage(pool, hold[f][1]) IN Holds(f, out.w, out.list)
  /\ UNCHANGED whole

\* The owner keeps its messages as a string for a while.
Storing(f) ==
  /\ Ready(f) /\ ~Packed(hold[f][1])
  /\ buffer' = [buffer EXCEPT ![f] = SerializeMsgList(hold[f])]
  /\ Holds(f, FreeList(pool, hold[f]), <<>>)
  /\ UNCHANGED whole

Restoring(f) ==
  /\ buffer[f] # <<>> /\ Fits(Len(buffer[f]))
  /\ buffer' = [buffer EXCEPT ![f] = <<>>]
  /\ LET out == UnserializeMsgList(pool, buffer[f]) IN Holds(f, out.w, out.list)
  /\ UNCHANGED whole

\* MESSAGE_Send, and the kernel that hands the event over.
Send(f) ==
  /\ Single(f)
  /\ Changes(f, [Mine(f) EXCEPT !.m.sent = TRUE])
  /\ UNCHANGED whole
Arrive(f) ==
  /\ Len(hold[f]) = 1 /\ hold[f][1].sent
  /\ Changes(f, [Mine(f) EXCEPT !.m.sent = FALSE])
  /\ UNCHANGED whole

FreeFlow(f) ==
  /\ Ready(f)
  /\ Holds(f, FreeList(pool, hold[f]), <<>>)
  /\ whole' = [whole EXCEPT ![f] = NoPacket]

TimesOf(q) == {q[i].time : i \in DOMAIN q}

\* MessageQueue::enqueue of a whole chain.
Enqueue(f, due) ==
  /\ Ready(f) /\ Len(hold[f]) <= Len(due)
  /\ hold' = [hold EXCEPT ![f] = <<>>]
  /\ queue' = queue \o [i \in DOMAIN hold[f] |-> [m |-> hold[f][i], f |-> f, time |-> due[i]]]
  /\ earliest' = Min({earliest} \cup {due[i] : i \in DOMAIN hold[f]})
  /\ UNCHANGED <<pool, whole>>

\* Fault: the earliest time is searched only when the queue was drained.
SlipDequeue ==
  /\ queue # <<>>
  /\ LET e == Head(queue)
     IN /\ hold' = [hold EXCEPT ![e.f] = Append(@, e.m)]
        /\ queue' = Tail(queue)
        /\ earliest' = IF Tail(queue) = <<>> THEN Never ELSE earliest
  /\ UNCHANGED <<pool, whole>>

\* MessageQueue::dequeue: the earliest time is searched again only if it may
\* have gone.
Dequeue ==
  /\ queue # <<>>
  /\ LET e == Head(queue)
     IN /\ hold' = [hold EXCEPT ![e.f] = Append(@, e.m)]
        /\ queue' = Tail(queue)
        /\ earliest' = IF Tail(queue) = <<>> THEN Never
                       ELSE IF e.time = earliest THEN Min(TimesOf(Tail(queue)))
                       ELSE earliest
  /\ UNCHANGED <<pool, whole>>

\* MessageQueue::dequeueAll: the chain, which its taker hands out in order.
DequeueAll ==
  /\ queue # <<>>
  /\ hold' = [f \in Flows |-> hold[f] \o Queued(f)]
  /\ queue' = <<>>
  /\ earliest' = Never
  /\ UNCHANGED <<pool, whole>>

WorkerStep(f) ==
  \/ \E r \in Reals, v \in Virtuals, isMT \in Threads : NewPacket(f, r, v, isMT)
  \/ \E ask \in Asked : SetInfo(f, ask[1], ask[2])
  \/ \E t \in InfoTypes : DropInfo(f, t)
  \/ AddHeader(f)
  \/ RemoveHeader(f)
  \/ \E u \in FragUnits : Cutting(f, u)
  \/ \E u \in FragUnits, free \in BOOLEAN : Splitting(f, u, free)
  \/ JoinAll(f)
  \/ JoinTwo(f)
  \/ Packing(f)
  \/ Unpacking(f)

CopyStep(f) ==
  \/ \E g \in Workers, isMT \in Threads : Copying(g, f, isMT)
  \/ \E g \in Workers : TakeInfos(f, g)
  \/ Send(f)
  \/ Arrive(f)

FlowStep(f) ==
  \/ FreeFlow(f)
  \/ \E due \in Dues : Enqueue(f, due)

Next ==
  \/ \E f \in Workers : Storing(f) \/ Restoring(f)
  \/ /\ UNCHANGED buffer
     /\ \/ \E f \in Workers : WorkerStep(f)
        \/ \E f \in Flows \ Workers : CopyStep(f)
        \/ \E f \in Flows : FlowStep(f)
        \/ Dequeue
        \/ DequeueAll

Spec == Init /\ [][Next]_vars

-----------------------------------------------------------------------------
\* The chains of messages there are; the queue is one.
Queue == -1
Chains == [c \in Flows \cup {Queue} |->
             IF c = Queue THEN [i \in DOMAIN queue |-> queue[i].m] ELSE hold[c]]

\* Field k of a message: its payload, or an entry of infoArray.
At(m, k) == IF k = 0 THEN m.payload ELSE m.infos[k].at
Fields == UNION {UNION {{<<c, i, k>> : k \in 0..Len(Chains[c][i].infos)} :
                          i \in DOMAIN Chains[c]} : c \in DOMAIN Chains}
Block(x) == At(Chains[x[1]][x[2]], x[3])

\* Every block of storage has exactly one owner: a field of one message in
\* use, a recycling list, or the heap.  Fields of two messages, or a field and
\* a list, never share one, none is lost, and what lies in a list can hold
\* whatever is stored in a cell of that list (MESSAGE_InfoFieldFree,
\* MESSAGE_PayloadFree, Message::operator=).
OneOwner ==
  LET owning == {x \in Fields : Block(x) # Null}
      used == {Block(x) : x \in owning}
  IN /\ \A x, y \in owning : x # y => Block(x) # Block(y)
     /\ used \cap (pool.infoList \cup pool.payloadList) = {}
     /\ used \cup pool.infoList \cup pool.payloadList = DOMAIN pool.kind
     /\ \A b \in pool.infoList : pool.kind[b] = "infoCell"
     /\ \A b \in pool.payloadList : pool.kind[b] = "payloadCell"

\* However a packet was cut, queued, packed, copied and joined, its pieces in
\* order hold the bytes, virtual bytes, headers and info fields its owner put
\* in (MESSAGE_FragmentPacket, MESSAGE_ReassemblePacket, MESSAGE_PackMessage,
\* MESSAGE_Duplicate, MessageQueue).
HasInfos(infos, wanted) ==
  \A t \in InfoTypes : wanted[t] # 0 =>
    \E i \in DOMAIN infos : infos[i].type = t /\ infos[i].size >= wanted[t]
Parts(f) ==
  LET ms == hold[f] \o Queued(f)
  IN FlattenSeq([i \in DOMAIN ms |-> IF Packed(ms[i]) THEN ms[i].inside ELSE <<Serialize(ms[i])>>])
       \o buffer[f]
Whole ==
  \A f \in Flows :
    LET parts == Parts(f)
    IN /\ FlattenSeq([i \in DOMAIN parts |-> parts[i].packet]) = whole[f].real
       /\ FoldLeft(LAMBDA n, p : n + p.virt, 0, parts) = whole[f].virt
       /\ parts # <<>> => parts[1].headers = whole[f].headers
       /\ \A i \in DOMAIN parts : HasInfos(parts[i].infos, whole[f].infos)
       /\ Single(f) /\ Packed(hold[f][1]) =>
            hold[f][1].actual = Len(whole[f].real) + whole[f].virt

\* The queue knows the time of its earliest event without searching for it
\* (MessageQueue::dequeue searches only when that event may have left).
EarliestIsLeast == earliest = Min({Never} \cup TimesOf(queue))

=============================================================================
