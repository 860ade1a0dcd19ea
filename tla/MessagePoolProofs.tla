--------------------------- MODULE MessagePoolProofs ---------------------------
(***************************************************************************)
(* Every block of storage has one owner, whatever the packets' owners do,  *)
(* and the queue knows its earliest event: theorems about MessagePool for  *)
(* any number of packets, messages, fields, sizes and limits.              *)
(***************************************************************************)
EXTENDS MessagePool, FiniteSetTheorems, WellFoundedInduction, TLAPS

Heap == Nat \ {Null}
Kinds == {"infoCell", "payloadCell", "exact"}
Entries == [type : InfoTypes, size : Nat \ {0}, at : Nat]
Written == [type : InfoTypes, size : Nat \ {0}]
Items == [packet : Seq(Int), virt : Int, headers : Seq(Int), size : Nat \ {0},
          infos : Seq(Written)]
Msgs == [payload : Nat, size : Nat, packet : Seq(Int), inside : Seq(Items),
         actual : Int, virt : Int, headers : Seq(Int), infos : Seq(Entries),
         mt : BOOLEAN, sent : BOOLEAN]
Pools ==
  {w \in [kind : UNION {[D -> Kinds] : D \in SUBSET Heap},
          infoList : SUBSET Nat, payloadList : SUBSET Nat] :
     IsFiniteSet(DOMAIN w.kind)}

-----------------------------------------------------------------------------
(* The pool.  A block is used if it is neither the heap's nor in a list.    *)

Used(w, b) == b \in DOMAIN w.kind /\ b \notin w.infoList \cup w.payloadList

(* What lies in a list can hold what is stored in its cells.                *)
ListsSound(w) ==
  /\ \A b \in w.infoList : b \in DOMAIN w.kind /\ w.kind[b] = "infoCell"
  /\ \A b \in w.payloadList : b \in DOMAIN w.kind /\ w.kind[b] = "payloadCell"

PoolSound(w) == w \in Pools /\ ListsSound(w)

(* v is w with nothing changed but block c.                                 *)
OnlyAt(w, v, b) ==
  /\ PoolSound(v)
  /\ \A c : c # b => /\ Used(v, c) <=> Used(w, c)
                     /\ Used(w, c) => v.kind[c] = w.kind[c]

Gives(w, v, b, kind) ==
  b \in Heap /\ ~Used(w, b) /\ Used(v, b) /\ v.kind[b] = kind /\ OnlyAt(w, v, b)
Takes(w, v, b) == Used(w, b) /\ ~Used(v, b) /\ OnlyAt(w, v, b)

(* A pool is a record of its three parts.                                   *)
LEMMA PoolFacts ==
  ASSUME NEW w \in Pools
  PROVE  /\ w = [kind |-> w.kind, infoList |-> w.infoList, payloadList |-> w.payloadList]
         /\ DOMAIN w.kind \subseteq Heap /\ IsFiniteSet(DOMAIN w.kind)
         /\ w.kind \in [DOMAIN w.kind -> Kinds]
         /\ w.infoList \subseteq Nat /\ w.payloadList \subseteq Nat
<1>1. /\ w \in [kind : UNION {[D -> Kinds] : D \in SUBSET Heap},
                infoList : SUBSET Nat, payloadList : SUBSET Nat]
      /\ IsFiniteSet(DOMAIN w.kind)
  BY DEF Pools
<1>2. w.kind \in UNION {[D -> Kinds] : D \in SUBSET Heap}
  BY <1>1
<1>3. PICK D \in SUBSET Heap : w.kind \in [D -> Kinds]
  BY <1>2
<1>4. DOMAIN w.kind = D
  BY <1>3
<1> QED
  BY <1>1, <1>3, <1>4

LEMMA PoolMade ==
  ASSUME NEW D \in SUBSET Heap, IsFiniteSet(D), NEW k \in [D -> Kinds],
         NEW i \in SUBSET Nat, NEW p \in SUBSET Nat
  PROVE  [kind |-> k, infoList |-> i, payloadList |-> p] \in Pools
<1>1. k \in UNION {[E -> Kinds] : E \in SUBSET Heap}
  OBVIOUS
<1>2. DOMAIN k = D
  OBVIOUS
<1> QED
  BY <1>1, <1>2 DEF Pools

(* A block more, or less, in use.                                           *)
LEMMA AllocatedIs ==
  ASSUME NEW ww \in Pools, NEW bb \in Heap, NEW kk \in Kinds, NEW vv, vv = Allocated(ww, bb, kk)
  PROVE  /\ vv \in Pools
         /\ DOMAIN vv.kind = DOMAIN ww.kind \cup {bb}
         /\ vv.kind[bb] = kk
         /\ \A c \in DOMAIN ww.kind : c # bb => vv.kind[c] = ww.kind[c]
         /\ vv.infoList = ww.infoList /\ vv.payloadList = ww.payloadList
<1> DEFINE D == DOMAIN ww.kind \cup {bb}
           K == [c \in D |-> IF c = bb THEN kk ELSE ww.kind[c]]
<1>1. Allocated(ww, bb, kk) = [kind |-> K, infoList |-> ww.infoList, payloadList |-> ww.payloadList]
  BY PoolFacts DEF Allocated
<1>2. D \in SUBSET Heap /\ IsFiniteSet(D)
  BY PoolFacts, FS_AddElement
<1>3. K \in [D -> Kinds]
  BY PoolFacts
<1>4. ww.infoList \in SUBSET Nat /\ ww.payloadList \in SUBSET Nat
  BY PoolFacts
<1> HIDE DEF K, D
<1>5. [kind |-> K, infoList |-> ww.infoList, payloadList |-> ww.payloadList] \in Pools
  BY <1>2, <1>3, <1>4, PoolMade
<1> QED
  BY <1>1, <1>5 DEF K, D

LEMMA FreedIs ==
  ASSUME NEW ww \in Pools, NEW bb, NEW vv, vv = Freed(ww, bb)
  PROVE  /\ vv \in Pools
         /\ DOMAIN vv.kind = DOMAIN ww.kind \ {bb}
         /\ \A c \in DOMAIN ww.kind : c # bb => vv.kind[c] = ww.kind[c]
         /\ vv.infoList = ww.infoList /\ vv.payloadList = ww.payloadList
<1> DEFINE D == DOMAIN ww.kind \ {bb}
           K == [c \in D |-> ww.kind[c]]
<1>1. Freed(ww, bb) = [kind |-> K, infoList |-> ww.infoList, payloadList |-> ww.payloadList]
  BY PoolFacts DEF Freed
<1>2. D \in SUBSET Heap /\ IsFiniteSet(D)
  BY PoolFacts, FS_RemoveElement
<1>3. K \in [D -> Kinds]
  BY PoolFacts
<1>4. ww.infoList \in SUBSET Nat /\ ww.payloadList \in SUBSET Nat
  BY PoolFacts
<1> HIDE DEF K, D
<1>5. [kind |-> K, infoList |-> ww.infoList, payloadList |-> ww.payloadList] \in Pools
  BY <1>2, <1>3, <1>4, PoolMade
<1> QED
  BY <1>1, <1>5 DEF K, D

(* The heap always has another block.                                       *)
LEMMA MallocNew ==
  ASSUME NEW w \in Pools
  PROVE  Malloc(w) \in Heap /\ Malloc(w) \notin DOMAIN w.kind
<1> DEFINE D == DOMAIN w.kind
           n == Cardinality(D)
<1>1. IsFiniteSet(D) /\ n \in Nat
  BY PoolFacts, FS_CardinalityType
<1>2. \E b \in 1 .. (1 + n) : b \notin D
  <2>1. SUFFICES ASSUME \A b \in 1 .. (1 + n) : b \in D
                 PROVE  FALSE
    OBVIOUS
  <2>2. 1 .. (1 + n) \subseteq D
    BY <2>1
  <2>3. Cardinality(1 .. (1 + n)) <= n
    BY <1>1, <2>2, FS_Subset
  <2>4. 1 + n \in Int /\ 1 <= 1 + n
    BY <1>1
  <2>5. Cardinality(1 .. (1 + n)) = 1 + n
    BY <1>1, <2>4, FS_Interval
  <2> QED
    BY <1>1, <2>3, <2>5
<1>3. Malloc(w) \in 1 .. (1 + n) /\ Malloc(w) \notin D
  BY <1>2, Zenon DEF Malloc
<1> QED
  BY <1>1, <1>3 DEF Heap, Null

(* A block that was not used and is allocated now is given away.            *)
LEMMA Given ==
  ASSUME NEW w, PoolSound(w), NEW b \in Heap, NEW k \in Kinds, ~Used(w, b),
         NEW u \in Pools, u.kind = w.kind,
         u.infoList = w.infoList \ {b}, u.payloadList = w.payloadList \ {b},
         NEW v, v = Allocated(u, b, k)
  PROVE  Gives(w, v, b, k)
<1>1. /\ v \in Pools
      /\ DOMAIN v.kind = DOMAIN w.kind \cup {b}
      /\ v.kind[b] = k
      /\ \A c \in DOMAIN w.kind : c # b => v.kind[c] = w.kind[c]
      /\ v.infoList = w.infoList \ {b} /\ v.payloadList = w.payloadList \ {b}
  BY AllocatedIs
<1>2. Used(v, b)
  BY <1>1 DEF Used
<1>3. ListsSound(v)
  BY <1>1 DEF PoolSound, ListsSound
<1>4. OnlyAt(w, v, b)
  BY <1>1, <1>3 DEF OnlyAt, PoolSound, Used
<1> QED
  BY <1>1, <1>2, <1>4 DEF Gives

(* A block taken off one list.                                              *)
LEMMA Shortened ==
  ASSUME NEW w \in Pools, NEW b
  PROVE  /\ b \notin w.payloadList =>
              LET u == [w EXCEPT !.infoList = @ \ {b}]
              IN /\ u \in Pools /\ u.kind = w.kind
                 /\ u.infoList = w.infoList \ {b} /\ u.payloadList = w.payloadList \ {b}
         /\ b \notin w.infoList =>
              LET u == [w EXCEPT !.payloadList = @ \ {b}]
              IN /\ u \in Pools /\ u.kind = w.kind
                 /\ u.infoList = w.infoList \ {b} /\ u.payloadList = w.payloadList \ {b}
<1> DEFINE I == w.infoList \ {b}
           P == w.payloadList \ {b}
<1>1. w = [kind |-> w.kind, infoList |-> w.infoList, payloadList |-> w.payloadList]
  BY PoolFacts
<1>2. /\ DOMAIN w.kind \in SUBSET Heap /\ IsFiniteSet(DOMAIN w.kind)
      /\ w.kind \in [DOMAIN w.kind -> Kinds]
      /\ w.infoList \in SUBSET Nat /\ w.payloadList \in SUBSET Nat
      /\ I \in SUBSET Nat /\ P \in SUBSET Nat
  BY PoolFacts
<1>3. b \notin w.payloadList => P = w.payloadList
  OBVIOUS
<1>4. b \notin w.infoList => I = w.infoList
  OBVIOUS
<1> HIDE DEF I, P
<1>5. /\ [w EXCEPT !.infoList = I] =
           [kind |-> w.kind, infoList |-> I, payloadList |-> w.payloadList]
      /\ [w EXCEPT !.payloadList = P] =
           [kind |-> w.kind, infoList |-> w.infoList, payloadList |-> P]
  BY <1>1
<1>6. /\ [kind |-> w.kind, infoList |-> I, payloadList |-> w.payloadList] \in Pools
      /\ [kind |-> w.kind, infoList |-> w.infoList, payloadList |-> P] \in Pools
  BY <1>2, PoolMade
<1> QED
  BY <1>3, <1>4, <1>5, <1>6 DEF I, P

(* What MESSAGE_InfoFieldAlloc and MESSAGE_PayloadAlloc give away.          *)
LEMMA InfoTaken ==
  ASSUME NEW w, PoolSound(w), NEW size \in Nat, NEW b, b = InfoFrom(w, size, FALSE)
  PROVE  Gives(w, InfoFieldAlloc(w, b, size, FALSE), b,
               IF size > SmallInfo THEN "exact" ELSE "infoCell")
<1>0. w \in Pools /\ ListsSound(w)
  BY DEF PoolSound
<1>1. \/ b \in Heap /\ b \notin DOMAIN w.kind
      \/ b \in w.infoList
  BY <1>0, MallocNew, Zenon DEF InfoFrom, One
<1>2. b \in Heap /\ b \notin w.payloadList /\ ~Used(w, b)
  BY <1>0, <1>1, PoolFacts DEF ListsSound, Used
<1>3. \A k \in Kinds : Gives(w, Allocated([w EXCEPT !.infoList = @ \ {b}], b, k), b, k)
  BY <1>0, <1>2, Shortened, Given
<1> QED
  BY <1>3, Zenon DEF InfoFieldAlloc, Kinds

LEMMA PayloadTaken ==
  ASSUME NEW s, PoolSound(s.w), NEW size \in Nat,
         NEW b, b = PayloadFrom(s.w, size, FALSE)
  PROVE  /\ Gives(s.w, PayloadAlloc(s, size).w, b,
                  IF size > CachedPayload THEN "exact" ELSE "payloadCell")
         /\ PayloadAlloc(s, size).m = [s.m EXCEPT !.payload = b, !.size = size]
<1>0. s.w \in Pools /\ ListsSound(s.w)
  BY DEF PoolSound
<1>1. \/ b \in Heap /\ b \notin DOMAIN s.w.kind
      \/ b \in s.w.payloadList
  BY <1>0, MallocNew, Zenon DEF PayloadFrom, One
<1>2. b \in Heap /\ b \notin s.w.infoList /\ ~Used(s.w, b)
  BY <1>0, <1>1, PoolFacts DEF ListsSound, Used
<1>3. \A k \in Kinds : Gives(s.w, Allocated([s.w EXCEPT !.payloadList = @ \ {b}], b, k), b, k)
  BY <1>0, <1>2, Shortened, Given
<1> DEFINE k == IF size > CachedPayload THEN "exact" ELSE "payloadCell"
<1>4. k \in Kinds
  BY DEF Kinds
<1>5. /\ PayloadAlloc(s, size).w = Allocated([s.w EXCEPT !.payloadList = @ \ {b}], b, k)
      /\ PayloadAlloc(s, size).m = [s.m EXCEPT !.payload = b, !.size = size]
  BY DEF PayloadAlloc
<1> HIDE DEF k
<1>6. Gives(s.w, PayloadAlloc(s, size).w, b, k)
  BY <1>3, <1>4, <1>5, Zenon
<1> QED
  BY <1>5, <1>6 DEF k

(* What MESSAGE_InfoFieldFree and MESSAGE_PayloadFree take back.            *)
LEMMA InfoGivenBack ==
  ASSUME NEW w, PoolSound(w), NEW info \in Entries, Used(w, info.at),
         ~InMessage(info.type, info.size),
         w.kind[info.at] = IF info.size > SmallInfo THEN "exact" ELSE "infoCell"
  PROVE  Takes(w, InfoFieldFree(w, info, FALSE), info.at)
<1> DEFINE b == info.at
           v == InfoFieldFree(w, info, FALSE)
<1>0. w \in Pools /\ ListsSound(w) /\ b \in Heap /\ b \in Nat
  BY PoolFacts DEF PoolSound, Used, Heap
<1>1. CASE info.type # Default /\ info.size <= SmallInfo /\ Cardinality(w.infoList) < InfoListMax
  <2>1. v = [w EXCEPT !.infoList = @ \cup {b}]
    BY <1>1 DEF InfoFieldFree
  <2>2. v = [kind |-> w.kind, infoList |-> w.infoList \cup {b}, payloadList |-> w.payloadList]
    BY <1>0, <2>1, PoolFacts
  <2>3. /\ DOMAIN w.kind \in SUBSET Heap /\ IsFiniteSet(DOMAIN w.kind)
        /\ w.kind \in [DOMAIN w.kind -> Kinds]
        /\ w.infoList \cup {b} \in SUBSET Nat /\ w.payloadList \in SUBSET Nat
    BY <1>0, PoolFacts
  <2>4. v \in Pools
    BY <2>2, <2>3, PoolMade
  <2>5. w.kind[b] = "infoCell"
    BY <1>1, MessageSizes DEF Entries, MessageSizes
  <2> HIDE DEF v, b
  <2>6. ListsSound(v)
    BY <1>0, <2>2, <2>5 DEF ListsSound, Used, b
  <2>7. v.kind = w.kind /\ v.infoList = w.infoList \cup {b} /\ v.payloadList = w.payloadList
    BY <2>2
  <2>8. OnlyAt(w, v, b)
    BY <2>4, <2>6, <2>7 DEF OnlyAt, PoolSound, Used
  <2>9. Used(w, b) /\ ~Used(v, b)
    BY <2>7 DEF Used, b
  <2> QED
    BY <2>8, <2>9 DEF Takes, v, b
<1>2. CASE ~(info.type # Default /\ info.size <= SmallInfo /\ Cardinality(w.infoList) < InfoListMax)
  <2>1. v = Freed(w, b)
    BY <1>2 DEF InfoFieldFree
  <2> HIDE DEF v, b
  <2>2. /\ v \in Pools
        /\ DOMAIN v.kind = DOMAIN w.kind \ {b}
        /\ \A c \in DOMAIN w.kind : c # b => v.kind[c] = w.kind[c]
        /\ v.infoList = w.infoList /\ v.payloadList = w.payloadList
    BY <1>0, <2>1, FreedIs
  <2>3. ListsSound(v)
    BY <1>0, <2>2 DEF ListsSound, Used, b
  <2> QED
    BY <2>2, <2>3 DEF Takes, OnlyAt, PoolSound, Used, v, b
<1> QED
  BY <1>1, <1>2

LEMMA PayloadGivenBack ==
  ASSUME NEW w, PoolSound(w), NEW b, Used(w, b), NEW size \in Nat,
         w.kind[b] = IF size > CachedPayload THEN "exact" ELSE "payloadCell"
  PROVE  Takes(w, PayloadFree(w, b, size, FALSE), b)
<1> DEFINE v == PayloadFree(w, b, size, FALSE)
<1>0. w \in Pools /\ ListsSound(w) /\ b \in Heap /\ b \in Nat
  BY PoolFacts DEF PoolSound, Used, Heap
<1>1. CASE size <= CachedPayload /\ Cardinality(w.payloadList) < PayloadListMax
  <2>1. v = [w EXCEPT !.payloadList = @ \cup {b}]
    BY <1>1 DEF PayloadFree
  <2>2. v = [kind |-> w.kind, infoList |-> w.infoList, payloadList |-> w.payloadList \cup {b}]
    BY <1>0, <2>1, PoolFacts
  <2>3. /\ DOMAIN w.kind \in SUBSET Heap /\ IsFiniteSet(DOMAIN w.kind)
        /\ w.kind \in [DOMAIN w.kind -> Kinds]
        /\ w.infoList \in SUBSET Nat /\ w.payloadList \cup {b} \in SUBSET Nat
    BY <1>0, PoolFacts
  <2>4. v \in Pools
    BY <2>2, <2>3, PoolMade
  <2>5. w.kind[b] = "payloadCell"
    BY <1>1, MessageSizes DEF MessageSizes
  <2> HIDE DEF v
  <2>6. ListsSound(v)
    BY <1>0, <2>2, <2>5 DEF ListsSound, Used
  <2>7. v.kind = w.kind /\ v.infoList = w.infoList /\ v.payloadList = w.payloadList \cup {b}
    BY <2>2
  <2>8. OnlyAt(w, v, b)
    BY <2>4, <2>6, <2>7 DEF OnlyAt, PoolSound, Used
  <2>9. Used(w, b) /\ ~Used(v, b)
    BY <2>7 DEF Used
  <2> QED
    BY <2>8, <2>9 DEF Takes, v
<1>2. CASE ~(size <= CachedPayload /\ Cardinality(w.payloadList) < PayloadListMax)
  <2>1. v = Freed(w, b)
    BY <1>2 DEF PayloadFree
  <2> HIDE DEF v
  <2>2. /\ v \in Pools
        /\ DOMAIN v.kind = DOMAIN w.kind \ {b}
        /\ \A c \in DOMAIN w.kind : c # b => v.kind[c] = w.kind[c]
        /\ v.infoList = w.infoList /\ v.payloadList = w.payloadList
    BY <1>0, <2>1, FreedIs
  <2>3. ListsSound(v)
    BY <1>0, <2>2 DEF ListsSound, Used
  <2> QED
    BY <2>2, <2>3 DEF Takes, OnlyAt, PoolSound, Used, v
<1> QED
  BY <1>1, <1>2

-----------------------------------------------------------------------------
(* One message and the pool.  The rest of the used blocks, with what they   *)
(* were allocated as, is K; the fields in H do not count: they were freed   *)
(* or have yet to be stored.                                                *)

Places(m) == 0 .. Len(m.infos)
InPlace(m, k) == k # 0 /\ InMessage(m.infos[k].type, m.infos[k].size)
KindOf(m, k) ==
  IF k = 0 THEN IF m.size > CachedPayload THEN "exact" ELSE "payloadCell"
  ELSE IF m.infos[k].size > SmallInfo THEN "exact" ELSE "infoCell"

(* The field has the storage it needs.                                      *)
Fit(w, m, k) ==
  IF InPlace(m, k) THEN At(m, k) = Null
  ELSE Used(w, At(m, k)) /\ w.kind[At(m, k)] = KindOf(m, k) /\ (k = 0 => m.size > 0)

Good(w, m, K, H) ==
  /\ PoolSound(w) /\ m \in Msgs /\ ~m.mt /\ H \subseteq Places(m)
  /\ \A k \in Places(m) \ H : Fit(w, m, k) /\ At(m, k) \notin DOMAIN K
  /\ \A k, l \in Places(m) \ H : k # l /\ At(m, k) # Null => At(m, k) # At(m, l)
  /\ \A b \in DOMAIN K : Used(w, b) /\ w.kind[b] = K[b]
  /\ \A b : Used(w, b) => b \in DOMAIN K \/ \E k \in Places(m) \ H : At(m, k) = b

(* Field k of n is as it is in m.                                           *)
Alike(m, n, k) ==
  /\ At(n, k) = At(m, k) /\ (InPlace(n, k) <=> InPlace(m, k))
  /\ KindOf(n, k) = KindOf(m, k) /\ (k = 0 => n.size = m.size)

LEMMA NotNull ==
  ASSUME NEW w, PoolSound(w), NEW b, Used(w, b)
  PROVE  b \in Heap /\ b # Null
<1>1. b \in DOMAIN w.kind /\ w \in Pools
  BY DEF Used, PoolSound
<1>2. b \in Heap
  BY <1>1, PoolFacts
<1> QED
  BY <1>2 DEF Heap

(* A message with other fields that are alike in what they own is good.     *)
LEMMA GoodAlike ==
  ASSUME NEW w, NEW m, NEW K, NEW H, Good(w, m, K, H), NEW n \in Msgs, ~n.mt,
         NEW G \in SUBSET Places(n), Places(n) \ G = Places(m) \ H,
         \A k \in Places(m) \ H : Alike(m, n, k)
  PROVE  Good(w, n, K, G)
<1>1. \A k \in Places(m) \ H : Fit(w, n, k)
  BY DEF Good, Fit, Alike
<1> QED
  BY <1>1 DEF Good, Alike

(* A field whose block is given back becomes a hole.                        *)
LEMMA GoodTakes ==
  ASSUME NEW w, NEW m, NEW K, NEW H, Good(w, m, K, H), NEW k \in Places(m) \ H,
         NEW v, Takes(w, v, At(m, k))
  PROVE  Good(v, m, K, H \cup {k})
<1> DEFINE P == Places(m) \ (H \cup {k})
           b == At(m, k)
<1>1. Used(w, b) /\ ~Used(v, b) /\ OnlyAt(w, v, b) /\ PoolSound(w)
  BY DEF Takes, Good
<1>2. b # Null
  BY <1>1, NotNull
<1>3. \A l \in P : At(m, l) # b
  BY <1>2 DEF Good
<1>4. \A l \in P : Fit(v, m, l) /\ At(m, l) \notin DOMAIN K
  BY <1>1, <1>3 DEF Good, Fit, OnlyAt
<1>5. b \notin DOMAIN K
  BY DEF Good
<1>6. \A c \in DOMAIN K : Used(v, c) /\ v.kind[c] = K[c]
  BY <1>1, <1>5 DEF Good, OnlyAt
<1>7. ASSUME NEW c, Used(v, c), c \notin DOMAIN K
      PROVE  \E l \in P : At(m, l) = c
  <2>1. c # b /\ Used(w, c)
    BY <1>1, <1>7 DEF OnlyAt
  <2>2. PICK l \in Places(m) \ H : At(m, l) = c
    BY <1>7, <2>1 DEF Good
  <2> QED
    BY <2>1, <2>2
<1>8. PoolSound(v) /\ H \cup {k} \subseteq Places(m)
  BY <1>1 DEF OnlyAt, Good
<1> QED
  BY <1>4, <1>6, <1>7, <1>8 DEF Good

(* A hole that is given a block becomes a field.                            *)
LEMMA GoodGives ==
  ASSUME NEW w, NEW m, NEW K, NEW H, Good(w, m, K, H),
         NEW n \in Msgs, ~n.mt, NEW G \in SUBSET Places(n), NEW k \in Places(n) \ G,
         Places(n) \ (G \cup {k}) = Places(m) \ H,
         \A j \in Places(m) \ H : Alike(m, n, j),
         NEW v, Gives(w, v, At(n, k), KindOf(n, k)), ~InPlace(n, k), k = 0 => n.size > 0
  PROVE  Good(v, n, K, G)
<1> DEFINE P == Places(m) \ H
           b == At(n, k)
<1>1. ~Used(w, b) /\ Used(v, b) /\ v.kind[b] = KindOf(n, k) /\ OnlyAt(w, v, b) /\ b # Null
  BY DEF Gives, Heap
<1>2. \A l \in P : At(n, l) = At(m, l) /\ At(n, l) # b
  BY <1>1 DEF Good, Fit, Alike
<1>3. b \notin DOMAIN K
  BY <1>1 DEF Good
<1>4. Fit(v, n, k)
  BY <1>1 DEF Fit
<1>5. \A l \in P : Fit(v, n, l) /\ At(n, l) \notin DOMAIN K
  BY <1>1, <1>2 DEF Good, Fit, Alike, OnlyAt
<1>6. Places(n) \ G = P \cup {k}
  OBVIOUS
<1>7. \A c \in DOMAIN K : Used(v, c) /\ v.kind[c] = K[c]
  BY <1>1, <1>3 DEF Good, OnlyAt
<1>8. ASSUME NEW c, Used(v, c), c \notin DOMAIN K
      PROVE  \E l \in P \cup {k} : At(n, l) = c
  <2>1. CASE c = b
    BY <2>1
  <2>2. CASE c # b
    <3>1. Used(w, c)
      BY <1>1, <1>8, <2>2 DEF OnlyAt
    <3>2. PICK l \in P : At(m, l) = c
      BY <1>8, <3>1 DEF Good
    <3> QED
      BY <1>2, <3>2
  <2> QED
    BY <2>1, <2>2
<1>9. \A j, l \in P \cup {k} : j # l /\ At(n, j) # Null => At(n, j) # At(n, l)
  BY <1>1, <1>2 DEF Good
<1>10. PoolSound(v)
  BY <1>1 DEF OnlyAt
<1>11. \A l \in P \cup {k} : Fit(v, n, l) /\ At(n, l) \notin DOMAIN K
  BY <1>3, <1>4, <1>5
<1> HIDE DEF P
<1> QED
  BY <1>6, <1>7, <1>8, <1>9, <1>10, <1>11 DEF Good

(* A hole that needs no block becomes a field.                              *)
LEMMA GoodNull ==
  ASSUME NEW w, NEW m, NEW K, NEW H, Good(w, m, K, H),
         NEW n \in Msgs, ~n.mt, NEW G \in SUBSET Places(n), NEW k \in Places(n) \ G,
         Places(n) \ (G \cup {k}) = Places(m) \ H,
         \A j \in Places(m) \ H : Alike(m, n, j),
         InPlace(n, k), At(n, k) = Null
  PROVE  Good(w, n, K, G)
<1> DEFINE P == Places(m) \ H
<1>1. Places(n) \ G = P \cup {k}
  OBVIOUS
<1>2. Null \notin DOMAIN K
  BY NotNull DEF Good
<1>3. \A l \in P \cup {k} : Fit(w, n, l) /\ At(n, l) \notin DOMAIN K
  BY <1>2 DEF Good, Fit, Alike
<1>4. \A j, l \in P \cup {k} : j # l /\ At(n, j) # Null => At(n, j) # At(n, l)
  BY DEF Good, Alike
<1>5. ASSUME NEW c, Used(w, c), c \notin DOMAIN K
      PROVE  \E l \in P \cup {k} : At(n, l) = c
  <2>1. PICK l \in P : At(m, l) = c
    BY <1>5 DEF Good
  <2> QED
    BY <2>1 DEF Alike
<1> HIDE DEF P
<1> QED
  BY <1>1, <1>3, <1>4, <1>5 DEF Good

(* A field that lies in its message has no block to give back.              *)
LEMMA GoodHole ==
  ASSUME NEW w, NEW m, NEW K, NEW H, Good(w, m, K, H), NEW k \in Places(m) \ H,
         At(m, k) = Null
  PROVE  Good(w, m, K, H \cup {k})
<1>1. ASSUME NEW c, Used(w, c), c \notin DOMAIN K
      PROVE  \E l \in Places(m) \ (H \cup {k}) : At(m, l) = c
  <2>1. PICK l \in Places(m) \ H : At(m, l) = c
    BY <1>1 DEF Good
  <2>2. c # Null
    BY <1>1, NotNull DEF Good
  <2> QED
    BY <2>1, <2>2
<1> QED
  BY <1>1 DEF Good

(* One field of a message is freed.                                         *)
LEMMA InfoFreed ==
  ASSUME NEW w, NEW m, NEW K, NEW H, Good(w, m, K, H), NEW i \in 1 .. Len(m.infos), i \notin H
  PROVE  Good(InfoFieldFree(w, m.infos[i], FALSE), m, K, H \cup {i})
<1> DEFINE e == m.infos[i]
<1>1. i \in Places(m) \ H /\ i # 0
  BY DEF Places
<1>2. e \in Entries /\ At(m, i) = e.at /\ PoolSound(w)
  BY <1>1 DEF Good, Msgs, At
<1>3. Fit(w, m, i)
  BY <1>1 DEF Good
<1>4. CASE InPlace(m, i)
  <2>1. InMessage(e.type, e.size) /\ At(m, i) = Null
    BY <1>3, <1>4 DEF Fit, InPlace
  <2>2. InfoFieldFree(w, e, FALSE) = w
    BY <2>1 DEF InfoFieldFree, InMessage
  <2> QED
    BY <1>1, <2>1, <2>2, GoodHole
<1>5. CASE ~InPlace(m, i)
  <2>1. ~InMessage(e.type, e.size)
    BY <1>1, <1>5 DEF InPlace
  <2>2. Used(w, e.at) /\ w.kind[e.at] = IF e.size > SmallInfo THEN "exact" ELSE "infoCell"
    BY <1>1, <1>2, <1>3, <1>5 DEF Fit, KindOf
  <2>3. Takes(w, InfoFieldFree(w, e, FALSE), At(m, i))
    BY <1>2, <2>1, <2>2, InfoGivenBack
  <2> HIDE DEF e
  <2>4. Good(InfoFieldFree(w, e, FALSE), m, K, H \cup {i})
    BY <1>1, <2>3, GoodTakes
  <2> QED
    BY <2>4 DEF e
<1> QED
  BY <1>4, <1>5

LEMMA PayloadFreed ==
  ASSUME NEW w, NEW m, NEW K, NEW H, Good(w, m, K, H), 0 \notin H
  PROVE  m.size > 0 /\ Good(PayloadFree(w, m.payload, m.size, FALSE), m, K, H \cup {0})
<1>1. 0 \in Places(m) \ H /\ PoolSound(w) /\ m.size \in Nat
  BY DEF Places, Good, Msgs
<1>2. Fit(w, m, 0) /\ At(m, 0) = m.payload /\ ~InPlace(m, 0)
  BY <1>1 DEF Good, At, InPlace
<1>3. /\ Used(w, m.payload) /\ m.size > 0
      /\ w.kind[m.payload] = IF m.size > CachedPayload THEN "exact" ELSE "payloadCell"
  BY <1>2 DEF Fit, KindOf
<1>4. Takes(w, PayloadFree(w, m.payload, m.size, FALSE), At(m, 0))
  BY <1>1, <1>2, <1>3, PayloadGivenBack
<1> QED
  BY <1>1, <1>3, <1>4, GoodTakes


-----------------------------------------------------------------------------
(* Operations on one message.                                               *)

Pairs == [w : Pools, m : Msgs]

(* The fields of a message.                                                 *)
LEMMA MsgFields ==
  ASSUME NEW m \in Msgs
  PROVE  /\ m.payload \in Nat /\ m.size \in Nat /\ m.packet \in Seq(Int)
         /\ m.inside \in Seq(Items) /\ m.actual \in Int /\ m.virt \in Int
         /\ m.headers \in Seq(Int) /\ m.infos \in Seq(Entries)
         /\ m.mt \in BOOLEAN /\ m.sent \in BOOLEAN
  BY DEF Msgs

(* A pool and a message.                                                    *)
LEMMA PairMade ==
  ASSUME NEW w, NEW m, NEW K, NEW H, Good(w, m, K, H)
  PROVE  [w |-> w, m |-> m] \in Pairs
  BY DEF Good, PoolSound, Pairs

LEMMA PairIs ==
  ASSUME NEW v, NEW n, NEW t, t = [w |-> v, m |-> n]
  PROVE  t.w = v /\ t.m = n
  OBVIOUS

(* Two sequences, one after the other.                                      *)
LEMMA Joining ==
  ASSUME NEW S, NEW A \in Seq(S), NEW B \in Seq(S)
  PROVE  /\ A \o B \in Seq(S) /\ Len(A \o B) = Len(A) + Len(B)
         /\ \A k \in 1 .. Len(A) + Len(B) :
              (A \o B)[k] = IF k <= Len(A) THEN A[k] ELSE B[k - Len(A)]
  OBVIOUS

(* A message with another infoArray.                                        *)
LEMMA InfosSet ==
  ASSUME NEW m \in Msgs, NEW J \in Seq(Entries), NEW n, n = [m EXCEPT !.infos = J]
  PROVE  /\ n \in Msgs /\ n.infos = J /\ n.payload = m.payload /\ n.size = m.size
         /\ n.mt = m.mt
  BY DEF Msgs

(* The new message of a pool where everything in use is accounted for.      *)
LEMMA AllocIs ==
  /\ Alloc(FALSE) \in Msgs /\ Alloc(FALSE).infos = <<>> /\ ~Alloc(FALSE).mt
  /\ Places(Alloc(FALSE)) = {0}
<1>1. <<>> \in Seq(Int) /\ <<>> \in Seq(Items) /\ <<>> \in Seq(Entries)
  OBVIOUS
<1>2. Alloc(FALSE) \in Msgs
  BY <1>1 DEF Alloc, Msgs, Null
<1>3. Alloc(FALSE).infos = <<>> /\ ~Alloc(FALSE).mt
  BY DEF Alloc
<1>4. 0 .. 0 = {0}
  OBVIOUS
<1>5. Len(<<>>) = 0
  OBVIOUS
<1> QED
  BY <1>2, <1>3, <1>4, <1>5, Zenon DEF Places

(* What the operations take and return.                                     *)
Fine(t, K, H) == t \in Pairs /\ Good(t.w, t.m, K, H)

LEMMA FineMade ==
  ASSUME NEW w, NEW m, NEW K, NEW H, Good(w, m, K, H), NEW t, t = [w |-> w, m |-> m]
  PROVE  Fine(t, K, H) /\ t.w = w /\ t.m = m
<1>1. t \in Pairs
  BY PairMade
<1>2. t.w = w /\ t.m = m
  BY PairIs
<1> QED
  BY <1>1, <1>2 DEF Fine

LEMMA FineIs ==
  ASSUME NEW t, NEW K, NEW H, Fine(t, K, H)
  PROVE  /\ t = [w |-> t.w, m |-> t.m] /\ t \in Pairs /\ Good(t.w, t.m, K, H)
         /\ PoolSound(t.w) /\ t.m \in Msgs /\ t.m.mt = FALSE
<1>1. t \in Pairs /\ Good(t.w, t.m, K, H)
  BY DEF Fine
<1>2. t = [w |-> t.w, m |-> t.m]
  BY <1>1 DEF Pairs
<1>3. PoolSound(t.w) /\ t.m \in Msgs /\ ~t.m.mt
  BY <1>1 DEF Good
<1> QED
  BY <1>1, <1>2, <1>3, MsgFields

(* StoreInfo: at the end, or over an entry that was freed.                  *)
Put(s, i, type, size) == StoreInfo(s, i, type, size, FALSE)

(* Storing a field fills a hole, or makes a place that is filled.           *)
LEMMA Stored ==
  ASSUME NEW s, NEW K, NEW H, Fine(s, K, H),
         NEW i \in Nat \ {0}, i <= Len(s.m.infos) => i \in H,
         NEW type \in InfoTypes, NEW size \in Nat \ {0}, NEW t, t = Put(s, i, type, size)
  PROVE  Fine(t, K, H \ {i})
<1>0. PICK w, m : w = s.w /\ m = s.m /\ Good(w, m, K, H) /\ (i <= Len(m.infos) => i \in H)
  BY FineIs
<1> USE <1>0
<1> DEFINE b == IF InMessage(type, size) THEN Null ELSE InfoFrom(w, size, FALSE)
           entry == [type |-> type, size |-> size, at |-> b]
           J == IF i > Len(m.infos) THEN Append(m.infos, entry)
                ELSE [m.infos EXCEPT ![i] = entry]
           v == IF b = Null THEN w ELSE InfoFieldAlloc(w, b, size, FALSE)
           n == [m EXCEPT !.infos = J]
           j == IF i > Len(m.infos) THEN Len(m.infos) + 1 ELSE i
           G == H \ {i}
<1>1. t = [w |-> v, m |-> n]
  BY DEF Put, StoreInfo
<1>2. PoolSound(w) /\ m \in Msgs /\ ~m.mt /\ H \subseteq Places(m) /\ m.infos \in Seq(Entries)
  BY MsgFields DEF Good
<1>3. ~InMessage(type, size) =>
        Gives(w, v, b, IF size > SmallInfo THEN "exact" ELSE "infoCell") /\ b \in Heap
  <2> SUFFICES ASSUME ~InMessage(type, size)
               PROVE  Gives(w, v, b, IF size > SmallInfo THEN "exact" ELSE "infoCell") /\ b \in Heap
    OBVIOUS
  <2>1. b = InfoFrom(w, size, FALSE)
    OBVIOUS
  <2> HIDE DEF b
  <2>2. Gives(w, InfoFieldAlloc(w, b, size, FALSE), b,
              IF size > SmallInfo THEN "exact" ELSE "infoCell")
    BY <1>2, <2>1, InfoTaken
  <2>3. b \in Heap /\ b # Null
    BY <2>2 DEF Gives, Heap
  <2> QED
    BY <2>2, <2>3
<1>4. b \in Nat /\ entry \in Entries /\ (InMessage(type, size) => b = Null)
  <2>1. InMessage(type, size) => b = Null
    OBVIOUS
  <2>2. b \in Nat
    BY <1>3, <2>1 DEF Heap, Null
  <2> QED
    BY <2>1, <2>2 DEF Entries
<1> HIDE DEF b
<1>5. entry.type = type /\ entry.size = size /\ entry.at = b
  OBVIOUS
<1> HIDE DEF entry, v
<1>6. /\ J \in Seq(Entries) /\ j \in 1 .. Len(J) /\ J[j] = entry
      /\ 1 .. Len(J) = (1 .. Len(m.infos)) \cup {j} /\ Len(J) \in Nat
      /\ \A k \in 1 .. Len(m.infos) : k # j => J[k] = m.infos[k]
  <2>1. CASE i > Len(m.infos)
    <3>1. J = Append(m.infos, entry) /\ j = Len(m.infos) + 1
      BY <2>1
    <3> QED
      BY <1>2, <1>4, <3>1
  <2>2. CASE ~(i > Len(m.infos))
    <3>1. J = [m.infos EXCEPT ![i] = entry] /\ j = i /\ i \in 1 .. Len(m.infos)
      BY <1>2, <2>2
    <3>2. J \in Seq(Entries) /\ Len(J) = Len(m.infos)
      BY <1>2, <1>4, <3>1
    <3> QED
      BY <1>2, <3>1, <3>2
  <2> QED
    BY <2>1, <2>2
<1>7. /\ j \notin Places(m) \ H /\ j \notin G /\ j # 0
      /\ Places(m) \cup {j} = (0 .. Len(J)) /\ G \subseteq 0 .. Len(J)
      /\ (0 .. Len(J)) \ (G \cup {j}) = Places(m) \ H
  <2>1. CASE i > Len(m.infos)
    <3>1. J = Append(m.infos, entry) /\ j = Len(m.infos) + 1 /\ Len(m.infos) \in Nat
      BY <1>2, <2>1
    <3>2. Len(J) = Len(m.infos) + 1
      BY <1>2, <1>4, <3>1
    <3>3. i \notin H
      BY <1>2, <2>1, <3>1 DEF Places
    <3> HIDE DEF J, j
    <3> QED
      BY <1>2, <3>1, <3>2, <3>3 DEF Places
  <2>2. CASE ~(i > Len(m.infos))
    <3>1. J = [m.infos EXCEPT ![i] = entry] /\ j = i /\ i \in 1 .. Len(m.infos) /\ i \in H
      BY <1>2, <2>2
    <3>2. Len(J) = Len(m.infos) /\ Len(m.infos) \in Nat
      BY <1>2, <1>4, <3>1
    <3> HIDE DEF J, j
    <3> QED
      BY <1>2, <3>1, <3>2 DEF Places
  <2> QED
    BY <2>1, <2>2
<1> HIDE DEF J, j, G
<1>8. n \in Msgs /\ n.infos = J /\ n.payload = m.payload /\ n.size = m.size /\ n.mt = m.mt
  BY <1>2, <1>6, InfosSet
<1> HIDE DEF n
<1>9. Places(n) = 0 .. Len(J)
  BY <1>8 DEF Places
<1>10. \A k \in Places(m) \ H : Alike(m, n, k)
  <2> TAKE k \in Places(m) \ H
  <2>1. k # j
    BY <1>7
  <2>2. k # 0 => n.infos[k] = m.infos[k]
    BY <1>6, <1>8, <2>1 DEF Places
  <2>3. CASE k = 0
    BY <1>8, <2>3 DEF Alike, At, InPlace, KindOf
  <2>4. CASE k # 0
    BY <2>2, <2>4 DEF Alike, At, InPlace, KindOf
  <2> QED
    BY <2>3, <2>4
<1>11. /\ At(n, j) = b /\ (InPlace(n, j) <=> InMessage(type, size))
       /\ KindOf(n, j) = IF size > SmallInfo THEN "exact" ELSE "infoCell"
  BY <1>5, <1>6, <1>7, <1>8 DEF At, InPlace, KindOf
<1>12. ~n.mt /\ G \in SUBSET Places(n) /\ j \in Places(n) \ G
       /\ Places(n) \ (G \cup {j}) = Places(m) \ H
  BY <1>2, <1>7, <1>8, <1>9
<1>13. Good(v, n, K, G)
  <2>1. CASE InMessage(type, size)
    <3>1. v = w
      BY <1>4, <2>1 DEF v
    <3> QED
      BY <1>4, <1>8, <1>10, <1>11, <1>12, <2>1, <3>1, GoodNull
  <2>2. CASE ~InMessage(type, size)
    <3>1. Gives(w, v, At(n, j), KindOf(n, j))
      BY <1>3, <1>11, <2>2
    <3> QED
      BY <1>7, <1>8, <1>10, <1>11, <1>12, <2>2, <3>1, GoodGives
  <2> QED
    BY <2>1, <2>2
<1>14. G = H \ {i}
  BY DEF G
<1> QED
  BY <1>1, <1>13, <1>14, FineMade

(* Storing a payload fills the first place.                                 *)
LEMMA PayloadStored ==
  ASSUME NEW s, NEW K, NEW H, Fine(s, K, H), 0 \in H, NEW size \in Nat \ {0},
         NEW t, t = PayloadAlloc(s, size)
  PROVE  Fine(t, K, H \ {0}) /\ t.m.infos = s.m.infos
<1>0. PICK w, m : w = s.w /\ m = s.m /\ Good(w, m, K, H)
  BY FineIs
<1> USE <1>0
<1> DEFINE b == PayloadFrom(w, size, FALSE)
<1>1. PoolSound(w) /\ m \in Msgs /\ ~m.mt /\ H \subseteq Places(m)
  BY DEF Good
<1>2. t = [w |-> t.w, m |-> t.m]
  BY DEF PayloadAlloc
<1>3. /\ Gives(w, t.w, b, IF size > CachedPayload THEN "exact" ELSE "payloadCell")
      /\ t.m = [m EXCEPT !.payload = b, !.size = size]
  <2>1. PoolSound(s.w) /\ b = PayloadFrom(s.w, size, FALSE) /\ t = PayloadAlloc(s, size)
    BY <1>1
  <2> HIDE DEF b
  <2>2. /\ Gives(s.w, PayloadAlloc(s, size).w, b,
                 IF size > CachedPayload THEN "exact" ELSE "payloadCell")
        /\ PayloadAlloc(s, size).m = [s.m EXCEPT !.payload = b, !.size = size]
    BY <2>1, PayloadTaken
  <2> QED
    BY <1>1, <2>1, <2>2
<1>4. b \in Nat
  BY <1>3 DEF Gives, Heap
<1> HIDE DEF b
<1> DEFINE n == t.m
<1> HIDE DEF n
<1>5. n \in Msgs /\ n.infos = m.infos /\ n.payload = b /\ n.size = size /\ n.mt = m.mt
  <2>1. n = [m EXCEPT !.payload = b, !.size = size] /\ m \in Msgs /\ size \in Nat
    BY <1>1, <1>3 DEF n
  <2> QED
    BY <1>4, <2>1 DEF Msgs
<1>6. Places(n) = Places(m) /\ 0 \in Places(m)
  BY <1>1, <1>5, MsgFields DEF Places
<1>7. \A k \in Places(m) \ H : Alike(m, n, k)
  BY <1>5 DEF Alike, At, InPlace, KindOf
<1>8. /\ ~n.mt /\ (H \ {0}) \in SUBSET Places(n) /\ 0 \in Places(n) \ (H \ {0})
      /\ Places(n) \ ((H \ {0}) \cup {0}) = Places(m) \ H
  BY <1>1, <1>5, <1>6
<1>9. At(n, 0) = b /\ ~InPlace(n, 0) /\ n.size > 0
      /\ KindOf(n, 0) = IF size > CachedPayload THEN "exact" ELSE "payloadCell"
  BY <1>5 DEF At, InPlace, KindOf
<1>10. Gives(w, t.w, At(n, 0), KindOf(n, 0))
  BY <1>3, <1>9
<1>11. Good(t.w, n, K, H \ {0})
  BY <1>5, <1>7, <1>8, <1>9, <1>10, GoodGives
<1>12. Fine(t, K, H \ {0})
  BY <1>2, <1>11, FineMade DEF n
<1> QED
  BY <1>5, <1>12 DEF n

(* An entry that was freed leaves infoArray.                                *)
LEMMA EntryGone ==
  ASSUME NEW w, NEW m, NEW K, NEW i \in 1 .. Len(m.infos), Good(w, m, K, {i}),
         NEW n, n = [m EXCEPT !.infos = RemoveAt(@, i)]
  PROVE  Good(w, n, K, {})
<1> DEFINE J == RemoveAt(m.infos, i)
           up(k) == IF k < i THEN k ELSE k + 1
<1>1. m \in Msgs /\ ~m.mt /\ m.infos \in Seq(Entries) /\ PoolSound(w)
  BY MsgFields DEF Good
<1>2. /\ J \in Seq(Entries) /\ Len(J) = Len(m.infos) - 1
      /\ \A k \in 1 .. Len(J) : J[k] = m.infos[up(k)]
  <2>1. J = SubSeq(m.infos, 1, i - 1) \o SubSeq(m.infos, i + 1, Len(m.infos))
    BY DEF RemoveAt
  <2> DEFINE A == SubSeq(m.infos, 1, i - 1)
             B == SubSeq(m.infos, i + 1, Len(m.infos))
  <2>2. A \in Seq(Entries) /\ Len(A) = i - 1 /\ \A k \in 1 .. (i - 1) : A[k] = m.infos[k]
    BY <1>1
  <2>3. /\ B \in Seq(Entries) /\ Len(B) = Len(m.infos) - i
        /\ \A k \in 1 .. (Len(m.infos) - i) : B[k] = m.infos[k + i]
    BY <1>1
  <2>0. Len(m.infos) \in Nat /\ i \in Int /\ 1 <= i /\ i <= Len(m.infos)
    BY <1>1
  <2> HIDE DEF A, B
  <2>6. A \o B \in Seq(Entries) /\ Len(A \o B) = Len(A) + Len(B)
        /\ \A k \in 1 .. Len(A) + Len(B) :
             (A \o B)[k] = IF k <= Len(A) THEN A[k] ELSE B[k - Len(A)]
    BY <2>2, <2>3, Joining
  <2>4. A \o B \in Seq(Entries) /\ Len(A \o B) = Len(m.infos) - 1
    BY <2>0, <2>2, <2>3, <2>6
  <2>5. ASSUME NEW k \in 1 .. (Len(m.infos) - 1)
        PROVE  (A \o B)[k] = m.infos[up(k)]
    <3>0. k \in 1 .. Len(A) + Len(B)
      BY <2>0, <2>2, <2>3
    <3>1. CASE k < i
      <4>1. (A \o B)[k] = A[k]
        BY <2>0, <2>2, <2>6, <3>0, <3>1
      <4>2. k \in 1 .. (i - 1)
        BY <2>0, <3>1
      <4> QED
        BY <2>2, <3>1, <4>1, <4>2
    <3>2. CASE ~(k < i)
      <4> DEFINE j == k - Len(A)
      <4>1. (A \o B)[k] = B[j]
        BY <2>0, <2>2, <2>6, <3>0, <3>2
      <4>2. j \in 1 .. (Len(m.infos) - i) /\ j + i = k + 1
        BY <2>0, <2>2, <3>2
      <4> HIDE DEF j
      <4>3. B[j] = m.infos[k + 1]
        BY <2>3, <4>2
      <4> QED
        BY <3>2, <4>1, <4>3
    <3> QED
      BY <3>1, <3>2
  <2> QED
    BY <2>1, <2>4, <2>5 DEF A, B
<1>3. n \in Msgs /\ n.infos = J /\ n.payload = m.payload /\ n.size = m.size /\ n.mt = m.mt
  <2>1. n = [m EXCEPT !.infos = J]
    OBVIOUS
  <2> HIDE DEF J
  <2> QED
    BY <1>1, <1>2, <2>1, InfosSet
<1> HIDE DEF J
<1>4. /\ \A k \in Places(n) : up(k) \in Places(m) \ {i}
      /\ \A k, l \in Places(n) : k # l => up(k) # up(l)
      /\ \A l \in Places(m) \ {i} : \E k \in Places(n) : up(k) = l
  <2>1. Places(n) = 0 .. (Len(m.infos) - 1) /\ Places(m) = 0 .. Len(m.infos) /\ Len(m.infos) \in Nat
    BY <1>1, <1>2, <1>3 DEF Places
  <2>2. ASSUME NEW l \in Places(m) \ {i}
        PROVE  \E k \in Places(n) : up(k) = l
    <3>1. CASE l < i
      <4>1. l \in Places(n) /\ up(l) = l
        BY <2>1, <3>1
      <4> QED
        BY <4>1
    <3>2. CASE l > i
      <4>1. l - 1 \in Places(n) /\ up(l - 1) = l
        BY <2>1, <3>2
      <4> QED
        BY <4>1
    <3> QED
      BY <2>1, <3>1, <3>2
  <2> QED
    BY <2>1, <2>2
<1>5. \A k \in Places(n) : At(n, k) = At(m, up(k)) /\ (Fit(w, m, up(k)) => Fit(w, n, k))
  <2> TAKE k \in Places(n)
  <2>1. CASE k = 0
    <3>1. up(k) = k
      BY <2>1
    <3> QED
      BY <1>3, <2>1, <3>1 DEF At, Fit, InPlace, KindOf
  <2>2. CASE k # 0
    <3>1. k \in 1 .. Len(J) /\ up(k) # 0
      BY <1>2, <1>3, <2>2 DEF Places
    <3>2. n.infos[k] = m.infos[up(k)]
      BY <1>2, <1>3, <3>1
    <3> HIDE DEF up
    <3> QED
      BY <2>2, <3>1, <3>2 DEF At, Fit, InPlace, KindOf
  <2> QED
    BY <2>1, <2>2
<1> HIDE DEF up
<1>6. \A k \in Places(n) : Fit(w, n, k) /\ At(n, k) \notin DOMAIN K
  BY <1>4, <1>5 DEF Good
<1>7. \A k, l \in Places(n) : k # l /\ At(n, k) # Null => At(n, k) # At(n, l)
  BY <1>4, <1>5 DEF Good
<1>8. \A b : Used(w, b) => b \in DOMAIN K \/ \E k \in Places(n) : At(n, k) = b
  <2> SUFFICES ASSUME NEW b, Used(w, b), b \notin DOMAIN K
               PROVE  \E k \in Places(n) : At(n, k) = b
    OBVIOUS
  <2>1. PICK l \in Places(m) \ {i} : At(m, l) = b
    BY DEF Good
  <2> QED
    BY <1>4, <1>5, <2>1
<1>9. \A k : k \in Places(n) \ {} <=> k \in Places(n)
  OBVIOUS
<1>10. ~n.mt /\ \A b \in DOMAIN K : Used(w, b) /\ w.kind[b] = K[b]
  BY <1>1, <1>3 DEF Good
<1> QED
  BY <1>1, <1>3, <1>6, <1>7, <1>8, <1>9, <1>10 DEF Good

-----------------------------------------------------------------------------
(* Folds.                                                                   *)

(* A set of natural numbers has a least one, a bounded one has a greatest. *)
LEMMA Least ==
  ASSUME NEW T \in SUBSET Nat, T # {}
  PROVE  \E x \in T : \A y \in T : x <= y
<1>1. IsWellFoundedOn(OpToRel(<, Nat), Nat)
  BY NatLessThanWellFounded
<1>2. PICK x \in T : \A y \in T : ~ (<<y, x>> \in OpToRel(<, Nat))
  BY <1>1, WFMin
<1>3. \A y \in T : ~(y < x)
  BY <1>2 DEF OpToRel
<1> QED
  BY <1>3

(* The largest of some numbers.                                             *)
LEMMA Greatest ==
  ASSUME NEW n \in Nat, NEW s \in SUBSET (1 .. n), s # {}
  PROVE  Max(s) \in s /\ \A x \in s : x <= Max(s)
<1> DEFINE T == {n - x : x \in s}
<1>1. T \in SUBSET Nat /\ T # {}
  <2>1. \A x \in s : n - x \in Nat
    OBVIOUS
  <2>2. PICK x \in s : TRUE
    OBVIOUS
  <2>3. n - x \in T
    OBVIOUS
  <2> QED
    BY <2>1, <2>3, Zenon
<1>2. PICK t \in T : \A y \in T : t <= y
  BY <1>1, Least
<1>3. PICK m \in s : t = n - m
  OBVIOUS
<1>4. \A x \in s : m >= x
  <2> TAKE x \in s
  <2>1. n - m <= n - x
    BY <1>2, <1>3
  <2> QED
    BY <2>1
<1>5. Max(s) \in s /\ \A x \in s : Max(s) >= x
  BY <1>4 DEF Max
<1> QED
  BY <1>5

LEMMA GreatestTo ==
  ASSUME NEW n \in Nat, NEW k \in 1 .. n
  PROVE  Max(1 .. k) = k /\ (1 .. k) \ {k} = 1 .. (k - 1)
<1>1. 1 .. k \in SUBSET (1 .. n) /\ 1 .. k # {}
  OBVIOUS
<1>2. Max(1 .. k) \in 1 .. k /\ \A x \in 1 .. k : x <= Max(1 .. k)
  BY <1>1, Greatest, Zenon
<1>4. k \in 1 .. k
  OBVIOUS
<1>3. (1 .. k) \ {k} = 1 .. (k - 1)
  <2>1. \A x : x \in (1 .. k) \ {k} <=> x \in 1 .. (k - 1)
    OBVIOUS
  <2> QED
    BY <2>1, Zenon
<1>5. Max(1 .. k) = k
  BY <1>2, <1>4
<1> QED
  BY <1>3, <1>5

(* There is a function like the one MapThenFoldSet is defined by.           *)
Folds(g, k, base, step) ==
  g = [s \in SUBSET (1 .. k) |->
         IF s = {} THEN base ELSE step[Max(s)][g[s \ {Max(s)}]]]

(* The function that a fold computes, on all subsets, exists.               *)
LEMMA FoldExists ==
  ASSUME NEW n \in Nat, NEW V, NEW base \in V, NEW step \in [1 .. n -> [V -> V]]
  PROVE  \E g \in [SUBSET (1 .. n) -> V] : Folds(g, n, base, step)
<1> DEFINE P(k) == \E g \in [SUBSET (1 .. k) -> V] : Folds(g, k, base, step)
           T == {k \in 0 .. n : ~P(k)}
<1>1. P(0)
  <2> DEFINE g == [s \in SUBSET (1 .. 0) |-> base]
  <2>1. \A s \in SUBSET (1 .. 0) : s = {}
    OBVIOUS
  <2>2. g \in [SUBSET (1 .. 0) -> V]
    OBVIOUS
  <2>3. g = [s \in SUBSET (1 .. 0) |->
               IF s = {} THEN base ELSE step[Max(s)][g[s \ {Max(s)}]]]
    BY <2>1
  <2> QED
    BY <2>2, <2>3 DEF Folds
<1>2. ASSUME NEW k \in 1 .. n, P(k - 1)
      PROVE  P(k)
  <2>1. PICK g \in [SUBSET (1 .. (k - 1)) -> V] : Folds(g, k - 1, base, step)
    BY <1>2
  <2> DEFINE Step(s) == IF s = {} THEN base ELSE step[Max(s)][g[s \ {Max(s)}]]
             h == [s \in SUBSET (1 .. k) |-> Step(s)]
  <2>2. ASSUME NEW s \in SUBSET (1 .. k), s # {}
        PROVE  /\ Max(s) \in 1 .. n
               /\ s \ {Max(s)} \in SUBSET (1 .. (k - 1))
    <3>0. k \in Nat
      OBVIOUS
    <3>1. Max(s) \in s /\ \A x \in s : x <= Max(s)
      BY <2>2, <3>0, Greatest, Zenon
    <3> DEFINE m == Max(s)
    <3>2. m \in s /\ \A x \in s : x <= m
      BY <3>1
    <3> HIDE DEF m
    <3>3. \A x \in s \ {m} : x \in 1 .. (k - 1)
      BY <3>2
    <3>4. m \in 1 .. n
      BY <3>2
    <3> QED
      BY <3>3, <3>4, Zenon DEF m
  <2>3. \A s \in SUBSET (1 .. k) : Step(s) \in V
    <3> TAKE s \in SUBSET (1 .. k)
    <3>1. CASE s = {}
      BY <3>1
    <3>2. CASE s # {}
      <4>1. g[s \ {Max(s)}] \in V
        BY <2>2, <3>2
      <4>2. step[Max(s)] \in [V -> V]
        BY <2>2, <3>2
      <4> QED
        BY <3>2, <4>1, <4>2
    <3> QED
      BY <3>1, <3>2
  <2>4. h \in [SUBSET (1 .. k) -> V]
    BY <2>3
  <2>5. \A s \in SUBSET (1 .. (k - 1)) : s \in SUBSET (1 .. k) /\ h[s] = g[s]
    <3> TAKE s \in SUBSET (1 .. (k - 1))
    <3>1. s \in SUBSET (1 .. k)
      OBVIOUS
    <3>2. g[s] = Step(s)
      BY <2>1 DEF Folds
    <3> QED
      BY <3>1, <3>2
  <2>6. \A s \in SUBSET (1 .. k) :
          h[s] = IF s = {} THEN base ELSE step[Max(s)][h[s \ {Max(s)}]]
    <3> TAKE s \in SUBSET (1 .. k)
    <3>1. CASE s = {}
      BY <3>1
    <3>2. CASE s # {}
      <4>1. h[s \ {Max(s)}] = g[s \ {Max(s)}]
        BY <2>2, <2>5, <3>2
      <4>2. h[s] = step[Max(s)][g[s \ {Max(s)}]]
        BY <3>2
      <4> QED
        BY <3>2, <4>1, <4>2
    <3> QED
      BY <3>1, <3>2
  <2> HIDE DEF h
  <2>7. h = [s \in SUBSET (1 .. k) |->
               IF s = {} THEN base ELSE step[Max(s)][h[s \ {Max(s)}]]]
    BY <2>4, <2>6
  <2> QED
    BY <2>4, <2>7 DEF Folds
<1> HIDE DEF P
<1>3. ASSUME T # {}
      PROVE  FALSE
  <2>0. T \in SUBSET Nat
    OBVIOUS
  <2>1. PICK k \in T : \A y \in T : k <= y
    BY <1>3, <2>0, Least, Zenon
  <2>2. k # 0
    BY <1>1
  <2>3. P(k - 1)
    BY <2>1, <2>2
  <2> QED
    BY <1>2, <2>1, <2>2, <2>3
<1>4. P(n)
  BY <1>3
<1> QED
  BY <1>4 DEF P

(* Induction over the prefixes of a list.                                   *)
LEMMA UpTo ==
  ASSUME NEW n \in Nat, NEW B \in SUBSET (0 .. n), 0 \in B,
         \A i \in 1 .. n : i - 1 \in B => i \in B
  PROVE  n \in B
<1> DEFINE T == (0 .. n) \ B
<1>1. T \in SUBSET Nat
  OBVIOUS
<1>2. ASSUME T # {}
      PROVE  FALSE
  <2>1. PICK k \in T : \A y \in T : k <= y
    BY <1>1, <1>2, Least, Zenon
  <2>2. k \in 1 .. n /\ k - 1 \in 0 .. n /\ ~(k <= k - 1)
    OBVIOUS
  <2>3. k - 1 \in B
    BY <2>1, <2>2
  <2> QED
    BY <2>2, <2>3
<1>3. n \in 0 .. n
  OBVIOUS
<1> QED
  BY <1>2, <1>3

(* A solution of the equation of MapThenFoldSet, seen as a loop over 1 .. n. *)
Runs(best, n, V, base, step, end) ==
  /\ best \in [0 .. n -> V] /\ best[0] = base
  /\ \A k \in 1 .. n : best[k] = step[k][best[k - 1]]
  /\ best[n] = end

(* A fold is the last of the values of a run.                               *)
LEMMA FoldRuns ==
  ASSUME NEW n \in Nat, NEW V, NEW base \in V, NEW step \in [1 .. n -> [V -> V]],
         NEW it, it[{}] = base,
         \A s \in SUBSET (1 .. n) : s # {} /\ it[s \ {Max(s)}] \in V =>
           it[s] = step[Max(s)][it[s \ {Max(s)}]]
  PROVE  \E best : Runs(best, n, V, base, step, it[1 .. n])
<1> DEFINE B == {k \in 0 .. n : it[1 .. k] \in V}
           best == [k \in 0 .. n |-> it[1 .. k]]
<1>1. ASSUME NEW k \in 1 .. n, it[1 .. (k - 1)] \in V
      PROVE  it[1 .. k] = step[k][it[1 .. (k - 1)]] /\ it[1 .. k] \in V
  <2>1. 1 .. k \in SUBSET (1 .. n) /\ 1 .. k # {}
    <3>1. k \in 1 .. k /\ \A x \in 1 .. k : x \in 1 .. n
      OBVIOUS
    <3> QED
      BY <3>1, Zenon
  <2>2. Max(1 .. k) = k /\ (1 .. k) \ {k} = 1 .. (k - 1)
    BY GreatestTo
  <2>3. it[1 .. k] = step[k][it[1 .. (k - 1)]]
    BY <1>1, <2>1, <2>2, Zenon
  <2>4. step[k] \in [V -> V]
    OBVIOUS
  <2>5. step[k][it[1 .. (k - 1)]] \in V
    BY <1>1, <2>4, Zenon
  <2> QED
    BY <2>3, <2>5, Zenon
<1>2. 1 .. 0 = {}
  OBVIOUS
<1>3. \A k \in 0 .. n : it[1 .. k] \in V
  <2> SUFFICES ASSUME NEW m \in 0 .. n
               PROVE  it[1 .. m] \in V
    OBVIOUS
  <2> DEFINE A == {k \in 0 .. m : it[1 .. k] \in V}
  <2>1. m \in Nat /\ A \in SUBSET (0 .. m)
    OBVIOUS
  <2>2. 0 \in A
    <3>1. 0 \in 0 .. m /\ it[1 .. 0] \in V
      BY <1>2
    <3> QED
      BY <3>1, Zenon
  <2>3. \A i \in 1 .. m : i - 1 \in A => i \in A
    <3> TAKE i \in 1 .. m
    <3>1. i \in 1 .. n /\ i \in 0 .. m
      OBVIOUS
    <3> QED
      BY <1>1, <3>1
  <2> HIDE DEF A
  <2>4. m \in A
    BY <2>1, <2>2, <2>3, UpTo
  <2> QED
    BY <2>4 DEF A
<1>4. best \in [0 .. n -> V]
  BY <1>3
<1>5. best[0] = base
  <2>1. 0 \in 0 .. n
    OBVIOUS
  <2> QED
    BY <1>2, <2>1, Zenon
<1>6. ASSUME NEW k \in 1 .. n
      PROVE  best[k] = step[k][best[k - 1]]
  <2>1. k \in 0 .. n /\ k - 1 \in 0 .. n
    OBVIOUS
  <2>2. it[1 .. (k - 1)] \in V
    BY <1>3, <2>1, Zenon
  <2> QED
    BY <1>1, <2>1, <2>2, Zenon
<1>7. best[n] = it[1 .. n]
  <2>1. n \in 0 .. n
    OBVIOUS
  <2> QED
    BY <2>1, Zenon
<1> HIDE DEF best
<1> QED
  BY <1>4, <1>5, <1>6, <1>7, Zenon DEF Runs

(* MESSAGE_FreeContents: the payload and then each field.                   *)
PaidBack(w, m) == IF m.size > 0 THEN PayloadFree(w, m.payload, m.size, m.mt) ELSE w

FreeRun(best, w, m, n, V) ==
  /\ best \in [0 .. n -> V] /\ best[0] = PaidBack(w, m)
  /\ \A k \in 1 .. n : best[k] = InfoFieldFree(best[k - 1], m.infos[k], m.mt)
  /\ Free(w, m) = best[n]

(* The folds of the model are such runs.  Each lemma says that what the     *)
(* loop yields stays in a set that its start is in and its steps keep.      *)
LEMMA FreeLoop ==
  ASSUME NEW w, NEW m, NEW n \in Nat, DOMAIN m.infos = 1 .. n,
         NEW V, PaidBack(w, m) \in V, \A k \in 1 .. n, v \in V : InfoFieldFree(v, m.infos[k], m.mt) \in V
  PROVE  \E best : FreeRun(best, w, m, n, V)
<1> DEFINE Step(v, x) == InfoFieldFree(v, x, m.mt)
           base == PaidBack(w, m)
           step == [k \in 1 .. n |-> [v \in V |-> Step(v, m.infos[k])]]
           Is(g) == g = [r \in SUBSET DOMAIN m.infos |->
                           IF r = {} THEN base
                           ELSE Step(g[r \ {Max(r)}], m.infos[Max(r)])]
           it == CHOOSE g : Is(g)
<1>1. Free(w, m) = it[DOMAIN m.infos]
  BY Zenon DEF Free, PaidBack, FoldLeft, MapThenFoldSet
<1>2. base \in V /\ \A k \in 1 .. n, v \in V : Step(v, m.infos[k]) \in V
  OBVIOUS
<1> HIDE DEF Step, base
<1>3. step \in [1 .. n -> [V -> V]]
  BY <1>2
<1>4. ASSUME NEW k \in 1 .. n, NEW v \in V
      PROVE  step[k][v] = Step(v, m.infos[k])
  OBVIOUS
<1> HIDE DEF step
<1>5. PICK g \in [SUBSET (1 .. n) -> V] : Folds(g, n, base, step)
  BY <1>2, <1>3, FoldExists, Zenon
<1>6. ASSUME NEW r \in SUBSET (1 .. n), r # {}
      PROVE  Max(r) \in 1 .. n
  BY <1>6, Greatest, Zenon
<1>7. Is(g)
  <2>1. g = [r \in SUBSET (1 .. n) |->
               IF r = {} THEN base ELSE step[Max(r)][g[r \ {Max(r)}]]]
    BY <1>5, Zenon DEF Folds
  <2>2. \A r \in SUBSET (1 .. n) :
          r # {} => step[Max(r)][g[r \ {Max(r)}]] = Step(g[r \ {Max(r)}], m.infos[Max(r)])
    BY <1>4, <1>5, <1>6, Zenon
  <2>3. g = [r \in SUBSET (1 .. n) |->
               IF r = {} THEN base ELSE Step(g[r \ {Max(r)}], m.infos[Max(r)])]
    BY <1>5, <2>1, <2>2, Zenon
  <2> QED
    BY <2>3, Zenon
<1>8. Is(it)
  BY <1>7, Zenon
<1> HIDE DEF it
<1>9. it[{}] = base
  BY <1>8, Zenon
<1>10. \A r \in SUBSET (1 .. n) : r # {} /\ it[r \ {Max(r)}] \in V =>
          it[r] = step[Max(r)][it[r \ {Max(r)}]]
  <2> SUFFICES ASSUME NEW r \in SUBSET (1 .. n), r # {}, it[r \ {Max(r)}] \in V
               PROVE  it[r] = step[Max(r)][it[r \ {Max(r)}]]
    OBVIOUS
  <2>1. it[r] = Step(it[r \ {Max(r)}], m.infos[Max(r)])
    BY <1>8, Zenon
  <2>2. Max(r) \in 1 .. n
    BY <1>6
  <2> QED
    BY <1>4, <2>1, <2>2, Zenon
<1>11. PICK best : Runs(best, n, V, base, step, it[1 .. n])
  BY <1>2, <1>3, <1>9, <1>10, FoldRuns, Zenon
<1>12. \A k \in 1 .. n : best[k] = Step(best[k - 1], m.infos[k])
  <2> TAKE k \in 1 .. n
  <2>1. k - 1 \in 0 .. n
    OBVIOUS
  <2>2. best[k - 1] \in V /\ best[k] = step[k][best[k - 1]]
    BY <1>11, <2>1, Zenon DEF Runs
  <2> QED
    BY <1>4, <2>2, Zenon
<1> QED
  BY <1>1, <1>11, <1>12, Zenon DEF Runs, Step, base, FreeRun

(* MESSAGE_FreeList.                                                        *)
FreeListRun(best, w, chain, n, V) ==
  /\ best \in [0 .. n -> V] /\ best[0] = w
  /\ \A k \in 1 .. n : best[k] = Free(best[k - 1], chain[k])
  /\ FreeList(w, chain) = best[n]

LEMMA FreeListLoop ==
  ASSUME NEW w, NEW chain, NEW n \in Nat, DOMAIN chain = 1 .. n,
         NEW V, w \in V, \A k \in 1 .. n, v \in V : Free(v, chain[k]) \in V
  PROVE  \E best : FreeListRun(best, w, chain, n, V)
<1> DEFINE Step(v, x) == Free(v, x)
           base == w
           step == [k \in 1 .. n |-> [v \in V |-> Step(v, chain[k])]]
           Is(g) == g = [r \in SUBSET DOMAIN chain |->
                           IF r = {} THEN base
                           ELSE Step(g[r \ {Max(r)}], chain[Max(r)])]
           it == CHOOSE g : Is(g)
<1>1. FreeList(w, chain) = it[DOMAIN chain]
  BY Zenon DEF FreeList, FoldLeft, MapThenFoldSet
<1>2. base \in V /\ \A k \in 1 .. n, v \in V : Step(v, chain[k]) \in V
  OBVIOUS
<1> HIDE DEF Step, base
<1>3. step \in [1 .. n -> [V -> V]]
  BY <1>2
<1>4. ASSUME NEW k \in 1 .. n, NEW v \in V
      PROVE  step[k][v] = Step(v, chain[k])
  OBVIOUS
<1> HIDE DEF step
<1>5. PICK g \in [SUBSET (1 .. n) -> V] : Folds(g, n, base, step)
  BY <1>2, <1>3, FoldExists, Zenon
<1>6. ASSUME NEW r \in SUBSET (1 .. n), r # {}
      PROVE  Max(r) \in 1 .. n
  BY <1>6, Greatest, Zenon
<1>7. Is(g)
  <2>1. g = [r \in SUBSET (1 .. n) |->
               IF r = {} THEN base ELSE step[Max(r)][g[r \ {Max(r)}]]]
    BY <1>5, Zenon DEF Folds
  <2>2. \A r \in SUBSET (1 .. n) :
          r # {} => step[Max(r)][g[r \ {Max(r)}]] = Step(g[r \ {Max(r)}], chain[Max(r)])
    BY <1>4, <1>5, <1>6, Zenon
  <2>3. g = [r \in SUBSET (1 .. n) |->
               IF r = {} THEN base ELSE Step(g[r \ {Max(r)}], chain[Max(r)])]
    BY <1>5, <2>1, <2>2, Zenon
  <2> QED
    BY <2>3, Zenon
<1>8. Is(it)
  BY <1>7, Zenon
<1> HIDE DEF it
<1>9. it[{}] = base
  BY <1>8, Zenon
<1>10. \A r \in SUBSET (1 .. n) : r # {} /\ it[r \ {Max(r)}] \in V =>
          it[r] = step[Max(r)][it[r \ {Max(r)}]]
  <2> SUFFICES ASSUME NEW r \in SUBSET (1 .. n), r # {}, it[r \ {Max(r)}] \in V
               PROVE  it[r] = step[Max(r)][it[r \ {Max(r)}]]
    OBVIOUS
  <2>1. it[r] = Step(it[r \ {Max(r)}], chain[Max(r)])
    BY <1>8, Zenon
  <2>2. Max(r) \in 1 .. n
    BY <1>6
  <2> QED
    BY <1>4, <2>1, <2>2, Zenon
<1>11. PICK best : Runs(best, n, V, base, step, it[1 .. n])
  BY <1>2, <1>3, <1>9, <1>10, FoldRuns, Zenon
<1>12. \A k \in 1 .. n : best[k] = Step(best[k - 1], chain[k])
  <2> TAKE k \in 1 .. n
  <2>1. k - 1 \in 0 .. n
    OBVIOUS
  <2>2. best[k - 1] \in V /\ best[k] = step[k][best[k - 1]]
    BY <1>11, <2>1, Zenon DEF Runs
  <2> QED
    BY <1>4, <2>2, Zenon
<1> QED
  BY <1>1, <1>11, <1>12, Zenon DEF Runs, Step, base, FreeListRun

(* MESSAGE_CopyInfo: entry i.                                               *)
Copied(t, src, i) ==
  StoreInfo(IF i <= Len(t.m.infos)
            THEN [t EXCEPT !.w = InfoFieldFree(t.w, t.m.infos[i], FALSE)] ELSE t,
            i, src.infos[i].type, src.infos[i].size, t.m.mt)

LEMMA CopyInfoLoop ==
  ASSUME NEW s, NEW src, NEW n \in Nat, DOMAIN src.infos = 1 .. n,
         NEW V, s \in V, \A k \in 1 .. n, v \in V : Copied(v, src, k) \in V
  PROVE  CopyInfo(s, src) \in V
<1> DEFINE ls == [i \in DOMAIN src.infos |-> i]
           Step(v, x) == Copied(v, src, x)
           base == s
           step == [k \in 1 .. n |-> [v \in V |-> Step(v, ls[k])]]
           Is(g) == g = [r \in SUBSET DOMAIN ls |->
                           IF r = {} THEN base
                           ELSE Step(g[r \ {Max(r)}], ls[Max(r)])]
           it == CHOOSE g : Is(g)
<1>1. CopyInfo(s, src) = it[DOMAIN ls]
  BY Zenon DEF CopyInfo, FoldLeftDomain, Copied, FoldLeft, MapThenFoldSet
<1>0. DOMAIN ls = 1 .. n /\ \A k \in 1 .. n : ls[k] = k
  OBVIOUS
<1> HIDE DEF ls
<1>2. base \in V /\ \A k \in 1 .. n, v \in V : Step(v, ls[k]) \in V
  BY <1>0
<1> HIDE DEF Step, base
<1>3. step \in [1 .. n -> [V -> V]]
  BY <1>2
<1>4. ASSUME NEW k \in 1 .. n, NEW v \in V
      PROVE  step[k][v] = Step(v, ls[k])
  OBVIOUS
<1> HIDE DEF step
<1>5. PICK g \in [SUBSET (1 .. n) -> V] : Folds(g, n, base, step)
  BY <1>2, <1>3, FoldExists, Zenon
<1>6. ASSUME NEW r \in SUBSET (1 .. n), r # {}
      PROVE  Max(r) \in 1 .. n
  BY <1>6, Greatest, Zenon
<1>7. Is(g)
  <2>1. g = [r \in SUBSET (1 .. n) |->
               IF r = {} THEN base ELSE step[Max(r)][g[r \ {Max(r)}]]]
    BY <1>5, Zenon DEF Folds
  <2>2. \A r \in SUBSET (1 .. n) :
          r # {} => step[Max(r)][g[r \ {Max(r)}]] = Step(g[r \ {Max(r)}], ls[Max(r)])
    BY <1>4, <1>5, <1>6, Zenon
  <2>3. g = [r \in SUBSET (1 .. n) |->
               IF r = {} THEN base ELSE Step(g[r \ {Max(r)}], ls[Max(r)])]
    BY <1>5, <1>0, <2>1, <2>2, Zenon
  <2> QED
    BY <1>0, <2>3, Zenon
<1>8. Is(it)
  BY <1>7, Zenon
<1> HIDE DEF it
<1>9. it[{}] = base
  BY <1>8, <1>0, Zenon
<1>10. \A r \in SUBSET (1 .. n) : r # {} /\ it[r \ {Max(r)}] \in V =>
          it[r] = step[Max(r)][it[r \ {Max(r)}]]
  <2> SUFFICES ASSUME NEW r \in SUBSET (1 .. n), r # {}, it[r \ {Max(r)}] \in V
               PROVE  it[r] = step[Max(r)][it[r \ {Max(r)}]]
    OBVIOUS
  <2>1. it[r] = Step(it[r \ {Max(r)}], ls[Max(r)])
    BY <1>8, <1>0, Zenon
  <2>2. Max(r) \in 1 .. n
    BY <1>6
  <2> QED
    BY <1>4, <2>1, <2>2, Zenon
<1>11. PICK best : Runs(best, n, V, base, step, it[1 .. n])
  BY <1>2, <1>3, <1>9, <1>10, FoldRuns, Zenon
<1> QED
  <2>1. n \in 0 .. n
    OBVIOUS
  <2>2. best \in [0 .. n -> V] /\ best[n] = it[1 .. n]
    BY <1>11, Zenon DEF Runs
  <2>3. it[DOMAIN ls] = it[1 .. n]
    BY <1>0
  <2> QED
    BY <1>1, <2>1, <2>2, <2>3, Zenon

(* The loops that add one field after the other.                            *)
Added(t, info, no) ==
  IF info.type \in no THEN t
  ELSE StoreInfo(t, Len(t.m.infos) + 1, info.type, info.size, FALSE)
PutAll(s, infos, no) == StoreAll(s, infos, no, FALSE)

LEMMA StoreAllLoop ==
  ASSUME NEW s, NEW infos, NEW no, NEW n \in Nat, DOMAIN infos = 1 .. n,
         NEW V, s \in V, \A k \in 1 .. n, v \in V : Added(v, infos[k], no) \in V
  PROVE  PutAll(s, infos, no) \in V
<1> DEFINE Step(v, x) == Added(v, x, no)
           base == s
           step == [k \in 1 .. n |-> [v \in V |-> Step(v, infos[k])]]
           Is(g) == g = [r \in SUBSET DOMAIN infos |->
                           IF r = {} THEN base
                           ELSE Step(g[r \ {Max(r)}], infos[Max(r)])]
           it == CHOOSE g : Is(g)
<1>1. PutAll(s, infos, no) = it[DOMAIN infos]
  BY Zenon DEF PutAll, StoreAll, Added, FoldLeft, MapThenFoldSet
<1>2. base \in V /\ \A k \in 1 .. n, v \in V : Step(v, infos[k]) \in V
  OBVIOUS
<1> HIDE DEF Step, base
<1>3. step \in [1 .. n -> [V -> V]]
  BY <1>2
<1>4. ASSUME NEW k \in 1 .. n, NEW v \in V
      PROVE  step[k][v] = Step(v, infos[k])
  OBVIOUS
<1> HIDE DEF step
<1>5. PICK g \in [SUBSET (1 .. n) -> V] : Folds(g, n, base, step)
  BY <1>2, <1>3, FoldExists, Zenon
<1>6. ASSUME NEW r \in SUBSET (1 .. n), r # {}
      PROVE  Max(r) \in 1 .. n
  BY <1>6, Greatest, Zenon
<1>7. Is(g)
  <2>1. g = [r \in SUBSET (1 .. n) |->
               IF r = {} THEN base ELSE step[Max(r)][g[r \ {Max(r)}]]]
    BY <1>5, Zenon DEF Folds
  <2>2. \A r \in SUBSET (1 .. n) :
          r # {} => step[Max(r)][g[r \ {Max(r)}]] = Step(g[r \ {Max(r)}], infos[Max(r)])
    BY <1>4, <1>5, <1>6, Zenon
  <2>3. g = [r \in SUBSET (1 .. n) |->
               IF r = {} THEN base ELSE Step(g[r \ {Max(r)}], infos[Max(r)])]
    BY <1>5, <2>1, <2>2, Zenon
  <2> QED
    BY <2>3, Zenon
<1>8. Is(it)
  BY <1>7, Zenon
<1> HIDE DEF it
<1>9. it[{}] = base
  BY <1>8, Zenon
<1>10. \A r \in SUBSET (1 .. n) : r # {} /\ it[r \ {Max(r)}] \in V =>
          it[r] = step[Max(r)][it[r \ {Max(r)}]]
  <2> SUFFICES ASSUME NEW r \in SUBSET (1 .. n), r # {}, it[r \ {Max(r)}] \in V
               PROVE  it[r] = step[Max(r)][it[r \ {Max(r)}]]
    OBVIOUS
  <2>1. it[r] = Step(it[r \ {Max(r)}], infos[Max(r)])
    BY <1>8, Zenon
  <2>2. Max(r) \in 1 .. n
    BY <1>6
  <2> QED
    BY <1>4, <2>1, <2>2, Zenon
<1>11. PICK best : Runs(best, n, V, base, step, it[1 .. n])
  BY <1>2, <1>3, <1>9, <1>10, FoldRuns, Zenon
<1> QED
  <2>1. n \in 0 .. n
    OBVIOUS
  <2>2. best \in [0 .. n -> V] /\ best[n] = it[1 .. n]
    BY <1>11, Zenon DEF Runs
  <2> QED
    BY <1>1, <2>1, <2>2, Zenon

(* MESSAGE_FragmentPacket.                                                  *)
LEMMA FragmentsLoop ==
  ASSUME NEW w, NEW m, NEW unit, NEW z, z = [w |-> w, list |-> <<>>, rest |-> Content(m)],
         NEW n \in Nat, DOMAIN [i \in 1 .. Pieces(m, unit) |-> i] = 1 .. n,
         NEW V, z \in V, \A k \in 1 .. n, v \in V : OneMore(v, m, unit) \in V
  PROVE  Fragments(w, m, unit) \in V
<1> DEFINE ls == [i \in 1 .. Pieces(m, unit) |-> i]
           Step(v, x) == OneMore(v, m, unit)
           base == z
           step == [k \in 1 .. n |-> [v \in V |-> Step(v, ls[k])]]
           Is(g) == g = [r \in SUBSET DOMAIN ls |->
                           IF r = {} THEN base
                           ELSE Step(g[r \ {Max(r)}], ls[Max(r)])]
           it == CHOOSE g : Is(g)
<1>1. Fragments(w, m, unit) = it[DOMAIN ls]
  BY Zenon DEF Fragments, FoldLeft, MapThenFoldSet
<1>0. DOMAIN ls = 1 .. n /\ \A k \in 1 .. n : ls[k] = k
  OBVIOUS
<1> HIDE DEF ls
<1>2. base \in V /\ \A k \in 1 .. n, v \in V : Step(v, ls[k]) \in V
  BY <1>0
<1> HIDE DEF Step, base
<1>3. step \in [1 .. n -> [V -> V]]
  BY <1>2
<1>4. ASSUME NEW k \in 1 .. n, NEW v \in V
      PROVE  step[k][v] = Step(v, ls[k])
  OBVIOUS
<1> HIDE DEF step
<1>5. PICK g \in [SUBSET (1 .. n) -> V] : Folds(g, n, base, step)
  BY <1>2, <1>3, FoldExists, Zenon
<1>6. ASSUME NEW r \in SUBSET (1 .. n), r # {}
      PROVE  Max(r) \in 1 .. n
  BY <1>6, Greatest, Zenon
<1>7. Is(g)
  <2>1. g = [r \in SUBSET (1 .. n) |->
               IF r = {} THEN base ELSE step[Max(r)][g[r \ {Max(r)}]]]
    BY <1>5, Zenon DEF Folds
  <2>2. \A r \in SUBSET (1 .. n) :
          r # {} => step[Max(r)][g[r \ {Max(r)}]] = Step(g[r \ {Max(r)}], ls[Max(r)])
    BY <1>4, <1>5, <1>6, Zenon
  <2>3. g = [r \in SUBSET (1 .. n) |->
               IF r = {} THEN base ELSE Step(g[r \ {Max(r)}], ls[Max(r)])]
    BY <1>5, <1>0, <2>1, <2>2, Zenon
  <2> QED
    BY <1>0, <2>3, Zenon
<1>8. Is(it)
  BY <1>7, Zenon
<1> HIDE DEF it
<1>9. it[{}] = base
  BY <1>8, <1>0, Zenon
<1>10. \A r \in SUBSET (1 .. n) : r # {} /\ it[r \ {Max(r)}] \in V =>
          it[r] = step[Max(r)][it[r \ {Max(r)}]]
  <2> SUFFICES ASSUME NEW r \in SUBSET (1 .. n), r # {}, it[r \ {Max(r)}] \in V
               PROVE  it[r] = step[Max(r)][it[r \ {Max(r)}]]
    OBVIOUS
  <2>1. it[r] = Step(it[r \ {Max(r)}], ls[Max(r)])
    BY <1>8, <1>0, Zenon
  <2>2. Max(r) \in 1 .. n
    BY <1>6
  <2> QED
    BY <1>4, <2>1, <2>2, Zenon
<1>11. PICK best : Runs(best, n, V, base, step, it[1 .. n])
  BY <1>2, <1>3, <1>9, <1>10, FoldRuns, Zenon
<1> QED
  <2>1. n \in 0 .. n
    OBVIOUS
  <2>2. best \in [0 .. n -> V] /\ best[n] = it[1 .. n]
    BY <1>11, Zenon DEF Runs
  <2>3. it[DOMAIN ls] = it[1 .. n]
    BY <1>0
  <2> QED
    BY <1>1, <2>1, <2>2, <2>3, Zenon

(* The packets of a list put together.                                      *)
LEMMA JoinedLoop ==
  ASSUME NEW list, NEW z, z = [real |-> <<>>, virt |-> 0], NEW n \in Nat, DOMAIN list = 1 .. n,
         NEW V, z \in V, \A k \in 1 .. n, v \in V : [real |-> v.real \o list[k].packet, virt |-> v.virt + list[k].virt] \in V
  PROVE  Joined(list) \in V
<1> DEFINE Step(v, x) == [real |-> v.real \o x.packet, virt |-> v.virt + x.virt]
           base == z
           step == [k \in 1 .. n |-> [v \in V |-> Step(v, list[k])]]
           Is(g) == g = [r \in SUBSET DOMAIN list |->
                           IF r = {} THEN base
                           ELSE Step(g[r \ {Max(r)}], list[Max(r)])]
           it == CHOOSE g : Is(g)
<1>1. Joined(list) = it[DOMAIN list]
  BY Zenon DEF Joined, FoldLeft, MapThenFoldSet
<1>2. base \in V /\ \A k \in 1 .. n, v \in V : Step(v, list[k]) \in V
  OBVIOUS
<1> HIDE DEF Step, base
<1>3. step \in [1 .. n -> [V -> V]]
  BY <1>2
<1>4. ASSUME NEW k \in 1 .. n, NEW v \in V
      PROVE  step[k][v] = Step(v, list[k])
  OBVIOUS
<1> HIDE DEF step
<1>5. PICK g \in [SUBSET (1 .. n) -> V] : Folds(g, n, base, step)
  BY <1>2, <1>3, FoldExists, Zenon
<1>6. ASSUME NEW r \in SUBSET (1 .. n), r # {}
      PROVE  Max(r) \in 1 .. n
  BY <1>6, Greatest, Zenon
<1>7. Is(g)
  <2>1. g = [r \in SUBSET (1 .. n) |->
               IF r = {} THEN base ELSE step[Max(r)][g[r \ {Max(r)}]]]
    BY <1>5, Zenon DEF Folds
  <2>2. \A r \in SUBSET (1 .. n) :
          r # {} => step[Max(r)][g[r \ {Max(r)}]] = Step(g[r \ {Max(r)}], list[Max(r)])
    BY <1>4, <1>5, <1>6, Zenon
  <2>3. g = [r \in SUBSET (1 .. n) |->
               IF r = {} THEN base ELSE Step(g[r \ {Max(r)}], list[Max(r)])]
    BY <1>5, <2>1, <2>2, Zenon
  <2> QED
    BY <2>3, Zenon
<1>8. Is(it)
  BY <1>7, Zenon
<1> HIDE DEF it
<1>9. it[{}] = base
  BY <1>8, Zenon
<1>10. \A r \in SUBSET (1 .. n) : r # {} /\ it[r \ {Max(r)}] \in V =>
          it[r] = step[Max(r)][it[r \ {Max(r)}]]
  <2> SUFFICES ASSUME NEW r \in SUBSET (1 .. n), r # {}, it[r \ {Max(r)}] \in V
               PROVE  it[r] = step[Max(r)][it[r \ {Max(r)}]]
    OBVIOUS
  <2>1. it[r] = Step(it[r \ {Max(r)}], list[Max(r)])
    BY <1>8, Zenon
  <2>2. Max(r) \in 1 .. n
    BY <1>6
  <2> QED
    BY <1>4, <2>1, <2>2, Zenon
<1>11. PICK best : Runs(best, n, V, base, step, it[1 .. n])
  BY <1>2, <1>3, <1>9, <1>10, FoldRuns, Zenon
<1> QED
  <2>1. n \in 0 .. n
    OBVIOUS
  <2>2. best \in [0 .. n -> V] /\ best[n] = it[1 .. n]
    BY <1>11, Zenon DEF Runs
  <2> QED
    BY <1>1, <2>1, <2>2, Zenon

(* MESSAGE_Unserialize.                                                     *)
Unpacked(w, item) ==
  [PayloadAlloc([w |-> w, m |-> Alloc(FALSE)], item.size) EXCEPT
     !.m.packet = item.packet, !.m.virt = item.virt, !.m.headers = item.headers]

LEMMA UnserializeLoop ==
  ASSUME NEW w, NEW item, NEW z, z = Unpacked(w, item), NEW n \in Nat, DOMAIN item.infos = 1 .. n,
         NEW V, z \in V, \A k \in 1 .. n, v \in V : AppendInfo(v, item.infos[k].type, item.infos[k].size) \in V
  PROVE  Unserialize(w, item) \in V
<1> DEFINE Step(v, x) == AppendInfo(v, x.type, x.size)
           base == z
           step == [k \in 1 .. n |-> [v \in V |-> Step(v, item.infos[k])]]
           Is(g) == g = [r \in SUBSET DOMAIN item.infos |->
                           IF r = {} THEN base
                           ELSE Step(g[r \ {Max(r)}], item.infos[Max(r)])]
           it == CHOOSE g : Is(g)
<1>1. Unserialize(w, item) = it[DOMAIN item.infos]
  BY Zenon DEF Unserialize, Unpacked, FoldLeft, MapThenFoldSet
<1>2. base \in V /\ \A k \in 1 .. n, v \in V : Step(v, item.infos[k]) \in V
  OBVIOUS
<1> HIDE DEF Step, base
<1>3. step \in [1 .. n -> [V -> V]]
  BY <1>2
<1>4. ASSUME NEW k \in 1 .. n, NEW v \in V
      PROVE  step[k][v] = Step(v, item.infos[k])
  OBVIOUS
<1> HIDE DEF step
<1>5. PICK g \in [SUBSET (1 .. n) -> V] : Folds(g, n, base, step)
  BY <1>2, <1>3, FoldExists, Zenon
<1>6. ASSUME NEW r \in SUBSET (1 .. n), r # {}
      PROVE  Max(r) \in 1 .. n
  BY <1>6, Greatest, Zenon
<1>7. Is(g)
  <2>1. g = [r \in SUBSET (1 .. n) |->
               IF r = {} THEN base ELSE step[Max(r)][g[r \ {Max(r)}]]]
    BY <1>5, Zenon DEF Folds
  <2>2. \A r \in SUBSET (1 .. n) :
          r # {} => step[Max(r)][g[r \ {Max(r)}]] = Step(g[r \ {Max(r)}], item.infos[Max(r)])
    BY <1>4, <1>5, <1>6, Zenon
  <2>3. g = [r \in SUBSET (1 .. n) |->
               IF r = {} THEN base ELSE Step(g[r \ {Max(r)}], item.infos[Max(r)])]
    BY <1>5, <2>1, <2>2, Zenon
  <2> QED
    BY <2>3, Zenon
<1>8. Is(it)
  BY <1>7, Zenon
<1> HIDE DEF it
<1>9. it[{}] = base
  BY <1>8, Zenon
<1>10. \A r \in SUBSET (1 .. n) : r # {} /\ it[r \ {Max(r)}] \in V =>
          it[r] = step[Max(r)][it[r \ {Max(r)}]]
  <2> SUFFICES ASSUME NEW r \in SUBSET (1 .. n), r # {}, it[r \ {Max(r)}] \in V
               PROVE  it[r] = step[Max(r)][it[r \ {Max(r)}]]
    OBVIOUS
  <2>1. it[r] = Step(it[r \ {Max(r)}], item.infos[Max(r)])
    BY <1>8, Zenon
  <2>2. Max(r) \in 1 .. n
    BY <1>6
  <2> QED
    BY <1>4, <2>1, <2>2, Zenon
<1>11. PICK best : Runs(best, n, V, base, step, it[1 .. n])
  BY <1>2, <1>3, <1>9, <1>10, FoldRuns, Zenon
<1> QED
  <2>1. n \in 0 .. n
    OBVIOUS
  <2>2. best \in [0 .. n -> V] /\ best[n] = it[1 .. n]
    BY <1>11, Zenon DEF Runs
  <2> QED
    BY <1>1, <2>1, <2>2, Zenon

(* The way back from a string to a list.                                    *)
LEMMA UnserializeListLoop ==
  ASSUME NEW w, NEW items, NEW z, z = [w |-> w, list |-> <<>>], NEW n \in Nat, DOMAIN items = 1 .. n,
         NEW V, z \in V, \A k \in 1 .. n, v \in V : Unserialized(v, items[k]) \in V
  PROVE  UnserializeMsgList(w, items) \in V
<1> DEFINE Step(v, x) == Unserialized(v, x)
           base == z
           step == [k \in 1 .. n |-> [v \in V |-> Step(v, items[k])]]
           Is(g) == g = [r \in SUBSET DOMAIN items |->
                           IF r = {} THEN base
                           ELSE Step(g[r \ {Max(r)}], items[Max(r)])]
           it == CHOOSE g : Is(g)
<1>1. UnserializeMsgList(w, items) = it[DOMAIN items]
  BY Zenon DEF UnserializeMsgList, FoldLeft, MapThenFoldSet
<1>2. base \in V /\ \A k \in 1 .. n, v \in V : Step(v, items[k]) \in V
  OBVIOUS
<1> HIDE DEF Step, base
<1>3. step \in [1 .. n -> [V -> V]]
  BY <1>2
<1>4. ASSUME NEW k \in 1 .. n, NEW v \in V
      PROVE  step[k][v] = Step(v, items[k])
  OBVIOUS
<1> HIDE DEF step
<1>5. PICK g \in [SUBSET (1 .. n) -> V] : Folds(g, n, base, step)
  BY <1>2, <1>3, FoldExists, Zenon
<1>6. ASSUME NEW r \in SUBSET (1 .. n), r # {}
      PROVE  Max(r) \in 1 .. n
  BY <1>6, Greatest, Zenon
<1>7. Is(g)
  <2>1. g = [r \in SUBSET (1 .. n) |->
               IF r = {} THEN base ELSE step[Max(r)][g[r \ {Max(r)}]]]
    BY <1>5, Zenon DEF Folds
  <2>2. \A r \in SUBSET (1 .. n) :
          r # {} => step[Max(r)][g[r \ {Max(r)}]] = Step(g[r \ {Max(r)}], items[Max(r)])
    BY <1>4, <1>5, <1>6, Zenon
  <2>3. g = [r \in SUBSET (1 .. n) |->
               IF r = {} THEN base ELSE Step(g[r \ {Max(r)}], items[Max(r)])]
    BY <1>5, <2>1, <2>2, Zenon
  <2> QED
    BY <2>3, Zenon
<1>8. Is(it)
  BY <1>7, Zenon
<1> HIDE DEF it
<1>9. it[{}] = base
  BY <1>8, Zenon
<1>10. \A r \in SUBSET (1 .. n) : r # {} /\ it[r \ {Max(r)}] \in V =>
          it[r] = step[Max(r)][it[r \ {Max(r)}]]
  <2> SUFFICES ASSUME NEW r \in SUBSET (1 .. n), r # {}, it[r \ {Max(r)}] \in V
               PROVE  it[r] = step[Max(r)][it[r \ {Max(r)}]]
    OBVIOUS
  <2>1. it[r] = Step(it[r \ {Max(r)}], items[Max(r)])
    BY <1>8, Zenon
  <2>2. Max(r) \in 1 .. n
    BY <1>6
  <2> QED
    BY <1>4, <2>1, <2>2, Zenon
<1>11. PICK best : Runs(best, n, V, base, step, it[1 .. n])
  BY <1>2, <1>3, <1>9, <1>10, FoldRuns, Zenon
<1> QED
  <2>1. n \in 0 .. n
    OBVIOUS
  <2>2. best \in [0 .. n -> V] /\ best[n] = it[1 .. n]
    BY <1>11, Zenon DEF Runs
  <2> QED
    BY <1>1, <2>1, <2>2, Zenon

(* The messages of a flow in the queue.                                     *)
QueuedRun(best, f, n, V) ==
  /\ best \in [0 .. n -> V] /\ best[0] = <<>>
  /\ \A k \in 1 .. n : best[k] = (IF queue[k].f = f THEN Append(best[k - 1], queue[k].m) ELSE best[k - 1])
  /\ Queued(f) = best[n]

LEMMA QueuedLoop ==
  ASSUME NEW f, NEW n \in Nat, DOMAIN queue = 1 .. n,
         NEW V, <<>> \in V, \A k \in 1 .. n, v \in V : (IF queue[k].f = f THEN Append(v, queue[k].m) ELSE v) \in V
  PROVE  \E best : QueuedRun(best, f, n, V)
<1> DEFINE Step(v, x) == (IF x.f = f THEN Append(v, x.m) ELSE v)
           base == <<>>
           step == [k \in 1 .. n |-> [v \in V |-> Step(v, queue[k])]]
           Is(g) == g = [r \in SUBSET DOMAIN queue |->
                           IF r = {} THEN base
                           ELSE Step(g[r \ {Max(r)}], queue[Max(r)])]
           it == CHOOSE g : Is(g)
<1>1. Queued(f) = it[DOMAIN queue]
  BY Zenon DEF Queued, FoldLeft, MapThenFoldSet
<1>2. base \in V /\ \A k \in 1 .. n, v \in V : Step(v, queue[k]) \in V
  OBVIOUS
<1> HIDE DEF Step, base
<1>3. step \in [1 .. n -> [V -> V]]
  BY <1>2
<1>4. ASSUME NEW k \in 1 .. n, NEW v \in V
      PROVE  step[k][v] = Step(v, queue[k])
  OBVIOUS
<1> HIDE DEF step
<1>5. PICK g \in [SUBSET (1 .. n) -> V] : Folds(g, n, base, step)
  BY <1>2, <1>3, FoldExists, Zenon
<1>6. ASSUME NEW r \in SUBSET (1 .. n), r # {}
      PROVE  Max(r) \in 1 .. n
  BY <1>6, Greatest, Zenon
<1>7. Is(g)
  <2>1. g = [r \in SUBSET (1 .. n) |->
               IF r = {} THEN base ELSE step[Max(r)][g[r \ {Max(r)}]]]
    BY <1>5, Zenon DEF Folds
  <2>2. \A r \in SUBSET (1 .. n) :
          r # {} => step[Max(r)][g[r \ {Max(r)}]] = Step(g[r \ {Max(r)}], queue[Max(r)])
    BY <1>4, <1>5, <1>6, Zenon
  <2>3. g = [r \in SUBSET (1 .. n) |->
               IF r = {} THEN base ELSE Step(g[r \ {Max(r)}], queue[Max(r)])]
    BY <1>5, <2>1, <2>2, Zenon
  <2> QED
    BY <2>3, Zenon
<1>8. Is(it)
  BY <1>7, Zenon
<1> HIDE DEF it
<1>9. it[{}] = base
  BY <1>8, Zenon
<1>10. \A r \in SUBSET (1 .. n) : r # {} /\ it[r \ {Max(r)}] \in V =>
          it[r] = step[Max(r)][it[r \ {Max(r)}]]
  <2> SUFFICES ASSUME NEW r \in SUBSET (1 .. n), r # {}, it[r \ {Max(r)}] \in V
               PROVE  it[r] = step[Max(r)][it[r \ {Max(r)}]]
    OBVIOUS
  <2>1. it[r] = Step(it[r \ {Max(r)}], queue[Max(r)])
    BY <1>8, Zenon
  <2>2. Max(r) \in 1 .. n
    BY <1>6
  <2> QED
    BY <1>4, <2>1, <2>2, Zenon
<1>11. PICK best : Runs(best, n, V, base, step, it[1 .. n])
  BY <1>2, <1>3, <1>9, <1>10, FoldRuns, Zenon
<1>12. \A k \in 1 .. n : best[k] = Step(best[k - 1], queue[k])
  <2> TAKE k \in 1 .. n
  <2>1. k - 1 \in 0 .. n
    OBVIOUS
  <2>2. best[k - 1] \in V /\ best[k] = step[k][best[k - 1]]
    BY <1>11, <2>1, Zenon DEF Runs
  <2> QED
    BY <1>4, <2>2, Zenon
<1> QED
  BY <1>1, <1>11, <1>12, Zenon DEF Runs, Step, base, QueuedRun

-----------------------------------------------------------------------------
(* What the operations do to a message and its storage.                     *)

Blank == Alloc(FALSE)
Uses(w) == [b \in {c \in DOMAIN w.kind : Used(w, c)} |-> w.kind[b]]

(* A message that has nothing yet, where everything in use is another's.    *)
LEMMA NewGood ==
  ASSUME NEW w, PoolSound(w), NEW m \in Msgs, ~m.mt, m.infos = <<>>
  PROVE  Good(w, m, Uses(w), {0})
<1>1. Places(m) = {0}
  <2>1. 0 .. 0 = {0}
    OBVIOUS
  <2>2. Len(<<>>) = 0
    OBVIOUS
  <2> QED
    BY <2>1, <2>2, Zenon DEF Places
<1>2. \A b : b \in DOMAIN Uses(w) <=> Used(w, b)
  BY DEF Uses, Used
<1>3. \A b \in DOMAIN Uses(w) : Uses(w)[b] = w.kind[b]
  BY DEF Uses
<1>4. Places(m) \ {0} = {}
  BY <1>1
<1> QED
  BY <1>1, <1>2, <1>3, <1>4 DEF Good

(* A new message is fine but for its payload.                               *)
LEMMA AllocFine ==
  ASSUME NEW w, PoolSound(w), NEW s, s = [w |-> w, m |-> Blank]
  PROVE  Fine(s, Uses(w), {0}) /\ s.w = w /\ s.m = Blank
<1>1. Blank \in Msgs /\ Blank.infos = <<>> /\ ~Blank.mt
  BY AllocIs DEF Blank
<1>2. Good(w, Blank, Uses(w), {0})
  BY <1>1, NewGood
<1> QED
  BY <1>2, FineMade

LEMMA GoodFields ==
  ASSUME NEW w, NEW m, NEW K, NEW H, Good(w, m, K, H), NEW n \in Msgs,
         n.payload = m.payload, n.size = m.size, n.infos = m.infos, ~n.mt
  PROVE  Good(w, n, K, H)
<1>1. Places(n) = Places(m) /\ H \in SUBSET Places(n)
  BY DEF Places, Good
<1>2. \A k \in Places(m) \ H : Alike(m, n, k)
  BY DEF Alike, At, InPlace, KindOf
<1> QED
  BY <1>1, <1>2, GoodAlike

(* Freeing keeps the pool well typed, whatever is freed.                    *)
LEMMA InfoFieldFreeType ==
  ASSUME NEW w \in Pools, NEW info \in Entries, NEW mt \in BOOLEAN
  PROVE  InfoFieldFree(w, info, mt) \in Pools
<1> DEFINE b == info.at
           I == w.infoList \cup {b}
<1>1. b \in Nat /\ I \in SUBSET Nat
  BY PoolFacts DEF Entries
<1>2. [w EXCEPT !.infoList = I] = [kind |-> w.kind, infoList |-> I, payloadList |-> w.payloadList]
  <2> HIDE DEF I
  <2> QED
    BY PoolFacts
<1>3. [w EXCEPT !.infoList = I] \in Pools
  <2> HIDE DEF I
  <2> QED
    BY <1>1, <1>2, PoolFacts, PoolMade
<1>4. Freed(w, b) \in Pools
  BY FreedIs
<1>5. \/ InfoFieldFree(w, info, mt) = [w EXCEPT !.infoList = I]
      \/ InfoFieldFree(w, info, mt) = w
      \/ InfoFieldFree(w, info, mt) = Freed(w, b)
  BY Zenon DEF InfoFieldFree
<1> QED
  BY <1>3, <1>4, <1>5, Zenon

LEMMA PayloadFreeType ==
  ASSUME NEW w \in Pools, NEW b \in Nat, NEW size \in Nat, NEW mt \in BOOLEAN
  PROVE  PayloadFree(w, b, size, mt) \in Pools
<1> DEFINE P == w.payloadList \cup {b}
<1>1. P \in SUBSET Nat
  BY PoolFacts
<1>2. [w EXCEPT !.payloadList = P] = [kind |-> w.kind, infoList |-> w.infoList, payloadList |-> P]
  <2> HIDE DEF P
  <2> QED
    BY PoolFacts
<1>3. [w EXCEPT !.payloadList = P] \in Pools
  <2> HIDE DEF P
  <2> QED
    BY <1>1, <1>2, PoolFacts, PoolMade
<1>4. Freed(w, b) \in Pools
  BY FreedIs
<1>5. \/ PayloadFree(w, b, size, mt) = [w EXCEPT !.payloadList = P]
      \/ PayloadFree(w, b, size, mt) = Freed(w, b)
  BY Zenon DEF PayloadFree
<1> QED
  BY <1>3, <1>4, <1>5, Zenon

(* MESSAGE_Free gives back every field.                                     *)
LEMMA FreeRuns ==
  ASSUME NEW w \in Pools, NEW m \in Msgs
  PROVE  \E best : FreeRun(best, w, m, Len(m.infos), Pools)
<1> DEFINE n == Len(m.infos)
<1>1. n \in Nat /\ DOMAIN m.infos = 1 .. n /\ m.mt \in BOOLEAN
  BY MsgFields
<1>2. PaidBack(w, m) \in Pools
  <2>1. PayloadFree(w, m.payload, m.size, m.mt) \in Pools
    BY MsgFields, PayloadFreeType
  <2> QED
    BY <2>1 DEF PaidBack
<1>3. \A k \in 1 .. n : m.infos[k] \in Entries
  BY MsgFields
<1>4. \A k \in 1 .. n, v \in Pools : InfoFieldFree(v, m.infos[k], m.mt) \in Pools
  BY <1>1, <1>3, InfoFieldFreeType
<1> HIDE DEF n
<1>6. \E best : FreeRun(best, w, m, n, Pools)
  BY <1>1, <1>2, <1>4, FreeLoop, Zenon
<1> QED
  BY <1>6, Zenon DEF n

LEMMA FreeType ==
  ASSUME NEW w \in Pools, NEW m \in Msgs
  PROVE  Free(w, m) \in Pools
<1>1. PICK best : FreeRun(best, w, m, Len(m.infos), Pools)
  BY FreeRuns
<1>2. best \in [0 .. Len(m.infos) -> Pools] /\ Free(w, m) = best[Len(m.infos)]
  BY <1>1 DEF FreeRun
<1>3. Len(m.infos) \in 0 .. Len(m.infos)
  BY MsgFields
<1> QED
  BY <1>2, <1>3

(* MESSAGE_Free gives back everything the message owned.                    *)
LEMMA FreeGood ==
  ASSUME NEW w, NEW m, NEW K, Good(w, m, K, {})
  PROVE  Good(Free(w, m), m, K, Places(m))
<1> DEFINE n == Len(m.infos)
<1>1. w \in Pools /\ m \in Msgs /\ ~m.mt
  BY DEF Good, PoolSound
<1>2. n \in Nat /\ m.mt = FALSE
  BY <1>1, MsgFields
<1>10. PICK best : FreeRun(best, w, m, n, Pools)
  BY <1>1, FreeRuns
<1>3. /\ best \in [0 .. n -> Pools] /\ best[0] = PaidBack(w, m)
      /\ \A k \in 1 .. n : best[k] = InfoFieldFree(best[k - 1], m.infos[k], m.mt)
      /\ Free(w, m) = best[n]
  BY <1>10 DEF FreeRun
<1> DEFINE B == {k \in 0 .. n : Good(best[k], m, K, 0 .. k)}
<1>4. 0 \in B
  <2>1. 0 \notin {}
    OBVIOUS
  <2>2. m.size > 0 /\ Good(PayloadFree(w, m.payload, m.size, FALSE), m, K, {} \cup {0})
    BY <2>1, PayloadFreed
  <2>3. {} \cup {0} = 0 .. 0 /\ 0 \in 0 .. n
    BY <1>2
  <2>4. best[0] = PayloadFree(w, m.payload, m.size, FALSE)
    BY <1>2, <1>3, <2>2 DEF PaidBack
  <2>5. Good(best[0], m, K, 0 .. 0)
    BY <2>2, <2>3, <2>4, Zenon
  <2> QED
    BY <2>3, <2>5
<1>5. \A i \in 1 .. n : i - 1 \in B => i \in B
  <2> SUFFICES ASSUME NEW i \in 1 .. n, i - 1 \in B
               PROVE  i \in B
    OBVIOUS
  <2>1. Good(best[i - 1], m, K, 0 .. (i - 1))
    OBVIOUS
  <2>2. i \notin 0 .. (i - 1) /\ i \in 1 .. Len(m.infos) /\ i \in 0 .. n
    OBVIOUS
  <2>3. Good(InfoFieldFree(best[i - 1], m.infos[i], FALSE), m, K, (0 .. (i - 1)) \cup {i})
    BY <2>1, <2>2, InfoFreed
  <2>4. (0 .. (i - 1)) \cup {i} = 0 .. i
    OBVIOUS
  <2>5. best[i] = InfoFieldFree(best[i - 1], m.infos[i], FALSE)
    BY <1>2, <1>3
  <2>6. Good(best[i], m, K, 0 .. i)
    BY <2>3, <2>4, <2>5, Zenon
  <2> QED
    BY <2>2, <2>6
<1>6. B \in SUBSET (0 .. n)
  OBVIOUS
<1>9. \A k \in B : Good(best[k], m, K, 0 .. k)
  OBVIOUS
<1> HIDE DEF B, n
<1>7. n \in B
  BY <1>2, <1>4, <1>5, <1>6, UpTo
<1>8. Good(best[n], m, K, 0 .. n)
  BY <1>7, <1>9
<1> QED
  BY <1>3, <1>8, Zenon DEF Places, n

(* The info fields of another message.                                      *)
LEMMA CopiedFine ==
  ASSUME NEW t, NEW K, NEW H \in SUBSET {0}, Fine(t, K, H), NEW src \in Msgs,
         NEW i \in 1 .. Len(src.infos), NEW u, u = Copied(t, src, i)
  PROVE  Fine(u, K, H)
<1> DEFINE v == IF i <= Len(t.m.infos) THEN InfoFieldFree(t.w, t.m.infos[i], FALSE) ELSE t.w
           s == [w |-> v, m |-> t.m]
           type == src.infos[i].type
           size == src.infos[i].size
           G == IF i <= Len(t.m.infos) THEN H \cup {i} ELSE H
<1>1. t = [w |-> t.w, m |-> t.m] /\ t.m \in Msgs /\ t.m.mt = FALSE /\ Good(t.w, t.m, K, H)
  BY FineIs
<1>2. type \in InfoTypes /\ size \in Nat \ {0} /\ i \in Nat \ {0} /\ Len(t.m.infos) \in Nat
  <2>1. src.infos \in Seq(Entries) /\ t.m.infos \in Seq(Entries)
    BY <1>1, MsgFields
  <2>2. src.infos[i] \in Entries /\ i \in Nat \ {0}
    BY <2>1
  <2> QED
    BY <2>1, <2>2 DEF Entries
<1>3. Good(v, t.m, K, G)
  <2>1. CASE i <= Len(t.m.infos)
    <3>1. i \in 1 .. Len(t.m.infos) /\ i \notin H
      BY <1>2, <2>1
    <3>2. Good(InfoFieldFree(t.w, t.m.infos[i], FALSE), t.m, K, H \cup {i})
      BY <1>1, <3>1, InfoFreed
    <3> QED
      BY <2>1, <3>2
  <2>2. CASE ~(i <= Len(t.m.infos))
    BY <1>1, <2>2
  <2> QED
    BY <2>1, <2>2
<1>4. u = Put(s, i, type, size)
  <2>1. (IF i <= Len(t.m.infos)
         THEN [t EXCEPT !.w = InfoFieldFree(t.w, t.m.infos[i], FALSE)] ELSE t) = s
    BY <1>1
  <2> QED
    BY <1>1, <2>1, Zenon DEF Copied, Put
<1>5. G \ {i} = H /\ (i <= Len(t.m.infos) => i \in G)
  BY <1>2
<1> HIDE DEF v, type, size, G
<1>6. s = [w |-> v, m |-> t.m]
  OBVIOUS
<1> HIDE DEF s
<1>7. Fine(s, K, G) /\ s.m = t.m
  BY <1>3, <1>6, FineMade
<1>8. Fine(u, K, G \ {i})
  BY <1>2, <1>4, <1>5, <1>7, Stored
<1> QED
  BY <1>5, <1>8

(* The operations of one message keep it fine: no field is lost, and        *)
(* none is shared.                                                          *)
LEMMA CopyInfoFine ==
  ASSUME NEW s, NEW K, NEW H \in SUBSET {0}, Fine(s, K, H), NEW src \in Msgs
  PROVE  Fine(CopyInfo(s, src), K, H)
<1> DEFINE V == {t \in Pairs : Fine(t, K, H)}
           n == Len(src.infos)
<1>1. n \in Nat /\ DOMAIN src.infos = 1 .. n
  BY MsgFields
<1>2. \A k \in 1 .. n, v \in V : Copied(v, src, k) \in V
  <2> TAKE k \in 1 .. n, v \in V
  <2>1. Fine(v, K, H) /\ k \in 1 .. Len(src.infos)
    OBVIOUS
  <2>2. Fine(Copied(v, src, k), K, H)
    BY <2>1, CopiedFine
  <2> QED
    BY <2>2, FineIs
<1>3. s \in V
  BY FineIs
<1>4. \A t \in V : Fine(t, K, H)
  OBVIOUS
<1> HIDE DEF V, n
<1>5. CopyInfo(s, src) \in V
  BY <1>1, <1>2, <1>3, CopyInfoLoop, Zenon
<1> QED
  BY <1>4, <1>5

(* One more field at the end.                                               *)
LEMMA AddedFine ==
  ASSUME NEW t, NEW K, NEW H \in SUBSET {0}, Fine(t, K, H),
         NEW type \in InfoTypes, NEW size \in Nat \ {0},
         NEW u, u = Put(t, Len(t.m.infos) + 1, type, size)
  PROVE  Fine(u, K, H)
<1> DEFINE i == Len(t.m.infos) + 1
<1>1. t.m \in Msgs
  BY FineIs
<1>2. i \in Nat \ {0} /\ ~(i <= Len(t.m.infos)) /\ H \ {i} = H
  BY <1>1, MsgFields
<1>3. u = Put(t, i, type, size)
  OBVIOUS
<1> HIDE DEF i
<1>4. Fine(u, K, H \ {i})
  BY <1>2, <1>3, Stored
<1> QED
  BY <1>2, <1>4

LEMMA PutAllFine ==
  ASSUME NEW s, NEW K, NEW H \in SUBSET {0}, Fine(s, K, H),
         NEW infos \in Seq(Entries), NEW no
  PROVE  Fine(PutAll(s, infos, no), K, H)
<1> DEFINE V == {t \in Pairs : Fine(t, K, H)}
           n == Len(infos)
<1>1. n \in Nat /\ DOMAIN infos = 1 .. n
  OBVIOUS
<1>2. \A k \in 1 .. n, v \in V : Added(v, infos[k], no) \in V
  <2> TAKE k \in 1 .. n, v \in V
  <2>1. Fine(v, K, H)
    OBVIOUS
  <2>6. infos[k] \in Entries
    OBVIOUS
  <2>2. infos[k].type \in InfoTypes /\ infos[k].size \in Nat \ {0}
    BY <2>6 DEF Entries
  <2> DEFINE u == Put(v, Len(v.m.infos) + 1, infos[k].type, infos[k].size)
  <2>3. Fine(u, K, H)
    BY <2>1, <2>2, AddedFine
  <2>4. Added(v, infos[k], no) = v \/ Added(v, infos[k], no) = u
    BY Zenon DEF Added, Put
  <2> HIDE DEF u
  <2>5. Fine(Added(v, infos[k], no), K, H)
    BY <2>1, <2>3, <2>4
  <2> QED
    BY <2>5, FineIs
<1>3. s \in V
  BY FineIs
<1>4. \A t \in V : Fine(t, K, H)
  OBVIOUS
<1> HIDE DEF V, n
<1>5. PutAll(s, infos, no) \in V
  BY <1>1, <1>2, <1>3, StoreAllLoop, Zenon
<1> QED
  BY <1>4, <1>5

LEMMA FineChanged ==
  ASSUME NEW t, NEW K, NEW H, Fine(t, K, H), NEW n \in Msgs,
         n.payload = t.m.payload, n.size = t.m.size, n.infos = t.m.infos, ~n.mt,
         NEW u, u = [w |-> t.w, m |-> n]
  PROVE  Fine(u, K, H)
<1>1. Good(t.w, t.m, K, H)
  BY FineIs
<1>2. Good(t.w, n, K, H)
  BY <1>1, GoodFields
<1> QED
  BY <1>2, FineMade

LEMMA InfoIndexIs ==
  ASSUME NEW m \in Msgs, NEW type
  PROVE  InfoIndex(m, type) \in 0 .. Len(m.infos)
<1> DEFINE I == {i \in 1 .. Len(m.infos) : m.infos[i].type = type}
<1>1. InfoIndex(m, type) = IF I # {} THEN Min(I) ELSE 0
  BY DEF InfoIndex, SelectInSeq
<1>2. Len(m.infos) \in Nat
  BY MsgFields
<1>3. ASSUME I # {}
      PROVE  Min(I) \in I
  <2>1. I \in SUBSET Nat
    BY <1>2
  <2>2. \E x \in I : \A y \in I : x <= y
    BY <1>3, <2>1, Least, Zenon
  <2> HIDE DEF I
  <2> QED
    BY <2>2 DEF Min
<1> QED
  BY <1>1, <1>2, <1>3

(* MESSAGE_InfoFieldFree and then StoreInfo at the same entry.              *)
LEMMA Replaced ==
  ASSUME NEW s, NEW K, Fine(s, K, {}), NEW i \in 1 .. Len(s.m.infos),
         NEW type \in InfoTypes, NEW size \in Nat \ {0},
         NEW r, r = [s EXCEPT !.w = InfoFieldFree(s.w, s.m.infos[i], s.m.mt)],
         NEW u, u = Put(r, i, type, size)
  PROVE  Fine(u, K, {})
<1> DEFINE v == InfoFieldFree(s.w, s.m.infos[i], FALSE)
<1>1. Good(s.w, s.m, K, {}) /\ s = [w |-> s.w, m |-> s.m] /\ s.m.mt = FALSE /\ s.m \in Msgs
  BY FineIs
<1>2. r = [w |-> v, m |-> s.m]
  BY <1>1
<1>3. i \notin {}
  OBVIOUS
<1>4. Good(v, s.m, K, {} \cup {i})
  BY <1>1, <1>3, InfoFreed
<1>5. {} \cup {i} = {i} /\ {i} \ {i} = {} /\ i \in {i}
  OBVIOUS
<1>6. i \in Nat \ {0}
  BY <1>1, MsgFields
<1> HIDE DEF v
<1>9. Good(v, s.m, K, {i})
  BY <1>4, <1>5
<1>7. Fine(r, K, {i})
  BY <1>2, <1>9, FineMade, Zenon
<1>8. Fine(u, K, {i} \ {i})
  BY <1>5, <1>6, <1>7, Stored
<1> QED
  BY <1>5, <1>8

(* A field that shrinks in storage of its own.                              *)
LEMMA Resized ==
  ASSUME NEW s, NEW K, Fine(s, K, {}), NEW i \in 1 .. Len(s.m.infos),
         NEW size \in Nat \ {0}, ~(size <= SmallInfo), ~(s.m.infos[i].size <= SmallInfo),
         NEW u, u = [s EXCEPT !.m.infos[i].size = size]
  PROVE  Fine(u, K, {})
<1> DEFINE m == s.m
           e == [m.infos[i] EXCEPT !.size = size]
           J == [m.infos EXCEPT ![i] = e]
           n == [m EXCEPT !.infos = J]
<1>1. Good(s.w, m, K, {}) /\ s = [w |-> s.w, m |-> m] /\ ~m.mt /\ m \in Msgs
  BY FineIs
<1>2. u = [w |-> s.w, m |-> n]
  BY <1>1
<1>3. m.infos \in Seq(Entries) /\ m.infos[i] \in Entries
  <2>1. m.infos \in Seq(Entries)
    BY <1>1, MsgFields
  <2> HIDE DEF m
  <2> QED
    BY <2>1 DEF m
<1>4. e \in Entries /\ e.at = m.infos[i].at /\ e.size = size
  BY <1>3 DEF Entries
<1>5. /\ J \in Seq(Entries) /\ Len(J) = Len(m.infos) /\ J[i] = e
      /\ \A k \in 1 .. Len(m.infos) : k # i => J[k] = m.infos[k]
  <2> HIDE DEF e, m
  <2> QED
    BY <1>3, <1>4 DEF m
<1> HIDE DEF J, e
<1>6. n \in Msgs /\ n.infos = J /\ n.payload = m.payload /\ n.size = m.size /\ n.mt = m.mt
  <2>1. n = [m EXCEPT !.infos = J]
    OBVIOUS
  <2> HIDE DEF n, m
  <2> QED
    BY <1>1, <1>5, <2>1, InfosSet
<1> HIDE DEF n
<1>7. Places(n) = Places(m) /\ {} \in SUBSET Places(n)
  BY <1>5, <1>6 DEF Places
<1>8. \A k \in Places(m) \ {} : Alike(m, n, k)
  <2> TAKE k \in Places(m) \ {}
  <2>1. CASE k = 0
    BY <1>6, <2>1 DEF Alike, At, InPlace, KindOf
  <2>2. CASE k = i
    <3>1. i # 0 /\ n.infos[i] = e
      BY <1>1, <1>5, <1>6, MsgFields
    <3>2. ~InMessage(e.type, e.size) /\ ~InMessage(m.infos[i].type, m.infos[i].size)
      BY <1>4 DEF InMessage
    <3>4. SmallInfo \in Nat /\ m.infos[i].size \in Nat
      BY <1>3, MessageSizes DEF Entries, MessageSizes
    <3>3. size > SmallInfo /\ m.infos[i].size > SmallInfo
      BY <3>4
    <3> QED
      BY <1>4, <2>2, <3>1, <3>2, <3>3 DEF Alike, At, InPlace, KindOf
  <2>3. CASE k # 0 /\ k # i
    <3>1. k \in 1 .. Len(m.infos)
      BY <2>3, <1>1, MsgFields DEF Places
    <3>2. n.infos[k] = m.infos[k]
      BY <1>5, <1>6, <2>3, <3>1
    <3> QED
      BY <2>3, <3>2 DEF Alike, At, InPlace, KindOf
  <2> QED
    BY <2>1, <2>2, <2>3
<1>9. ~n.mt /\ Places(n) \ {} = Places(m) \ {}
  BY <1>1, <1>6, <1>7
<1> HIDE DEF m
<1>10. Good(s.w, n, K, {})
  BY <1>1, <1>6, <1>7, <1>8, <1>9, GoodAlike
<1> QED
  BY <1>2, <1>10, FineMade

LEMMA AddInfoFine ==
  ASSUME NEW s, NEW K, Fine(s, K, {}), NEW type \in InfoTypes, NEW size \in Nat \ {0},
         NEW u, u = AddInfo(s, type, size)
  PROVE  Fine(u, K, {})
<1> DEFINE i == InfoIndex(s.m, type)
           old == s.m.infos[i]
           r == [s EXCEPT !.w = InfoFieldFree(s.w, old, s.m.mt)]
           a == Put(s, Len(s.m.infos) + 1, type, size)
           b == Put(r, i, type, size)
           c == [s EXCEPT !.m.infos[i].size = size]
<1>1. s.m.mt = FALSE /\ s.m \in Msgs
  BY FineIs
<1>2. i \in 0 .. Len(s.m.infos) /\ Len(s.m.infos) \in Nat
  BY <1>1, InfoIndexIs, MsgFields
<1>3. \/ u = a \/ u = s
      \/ i # 0 /\ u = b
      \/ i # 0 /\ u = c /\ ~(size <= SmallInfo) /\ ~(size > old.size)
  <2>1. u = IF i = 0 THEN StoreInfo(s, Len(s.m.infos) + 1, type, size, s.m.mt)
            ELSE IF type = Default
            THEN IF size <= SmallInfo \/ size > old.size THEN StoreInfo(r, i, type, size, s.m.mt) ELSE c
            ELSE IF old.size < size /\ (old.size > SmallInfo \/ size > SmallInfo)
                 THEN StoreInfo(r, i, type, size, s.m.mt) ELSE s
    BY Zenon DEF AddInfo
  <2>2. /\ a = StoreInfo(s, Len(s.m.infos) + 1, type, size, s.m.mt)
        /\ b = StoreInfo(r, i, type, size, s.m.mt)
    BY <1>1, Zenon DEF Put
  <2> HIDE DEF a, b, c, i, r, old
  <2> QED
    BY <2>1, <2>2, Zenon
<1>4. Fine(a, K, {})
  <2>1. {} \in SUBSET {0}
    OBVIOUS
  <2> QED
    BY <2>1, AddedFine
<1>5. i # 0 => Fine(b, K, {})
  <2> SUFFICES ASSUME i # 0
               PROVE  Fine(b, K, {})
    OBVIOUS
  <2>1. i \in 1 .. Len(s.m.infos)
    BY <1>2
  <2> HIDE DEF i
  <2> QED
    BY <2>1, Replaced
<1>6. i # 0 /\ ~(size <= SmallInfo) /\ ~(size > old.size) => Fine(c, K, {})
  <2> SUFFICES ASSUME i # 0, ~(size <= SmallInfo), ~(size > old.size)
               PROVE  Fine(c, K, {})
    OBVIOUS
  <2>1. i \in 1 .. Len(s.m.infos)
    BY <1>2
  <2> HIDE DEF i
  <2>2. s.m.infos[i] \in Entries
    BY <1>1, <2>1, MsgFields
  <2>3. ~(s.m.infos[i].size <= SmallInfo)
    BY <2>2, MessageSizes DEF Entries, MessageSizes
  <2> QED
    BY <2>1, <2>3, Resized
<1> HIDE DEF a, b, c, i, old
<1> QED
  BY <1>3, <1>4, <1>5, <1>6

LEMMA RemoveInfoFine ==
  ASSUME NEW s, NEW K, Fine(s, K, {}), NEW type, NEW u, u = RemoveInfo(s, type)
  PROVE  Fine(u, K, {})
<1> DEFINE i == InfoIndex(s.m, type)
           v == InfoFieldFree(s.w, s.m.infos[i], FALSE)
           n == [s.m EXCEPT !.infos = RemoveAt(@, i)]
<1>1. Good(s.w, s.m, K, {}) /\ s.m \in Msgs
  BY FineIs
<1>2. i \in 0 .. Len(s.m.infos) /\ Len(s.m.infos) \in Nat
  BY <1>1, InfoIndexIs, MsgFields
<1>3. u = IF i = 0 THEN s ELSE [w |-> v, m |-> n]
  BY Zenon DEF RemoveInfo
<1>4. CASE i = 0
  BY <1>3, <1>4
<1>5. CASE i # 0
  <2>1. i \in 1 .. Len(s.m.infos) /\ i \notin {} /\ {} \cup {i} = {i}
    BY <1>2, <1>5
  <2>2. u = [w |-> v, m |-> n]
    BY <1>3, <1>5, Zenon
  <2>5. n = [s.m EXCEPT !.infos = RemoveAt(@, i)]
    OBVIOUS
  <2> HIDE DEF i, n
  <2>3. Good(v, s.m, K, {} \cup {i})
    BY <1>1, <2>1, InfoFreed
  <2> HIDE DEF v
  <2>6. Good(v, s.m, K, {i})
    BY <2>1, <2>3
  <2>4. Good(v, n, K, {})
    BY <2>1, <2>6, <2>5, EntryGone
  <2> QED
    BY <2>2, <2>4, FineMade
<1> QED
  BY <1>4, <1>5

-----------------------------------------------------------------------------
(* Packets: what the operations return, and the messages they make.         *)

(* Another message in a pair.                                               *)
LEMMA PairChanged ==
  ASSUME NEW v, NEW o, NEW t, t = [w |-> v, m |-> o], NEW n
  PROVE  [t EXCEPT !.m = n] = [w |-> v, m |-> n]
  OBVIOUS

(* The fields that have no storage of their own.                            *)
LEMMA FieldsSet ==
  ASSUME NEW t, NEW K, NEW H, Fine(t, K, H)
  PROVE  /\ \A x \in Seq(Int) : Fine([t EXCEPT !.m.packet = x], K, H)
         /\ \A x \in Int : Fine([t EXCEPT !.m.virt = x], K, H)
         /\ \A x \in Int : Fine([t EXCEPT !.m.actual = x], K, H)
         /\ \A x \in Seq(Int) : Fine([t EXCEPT !.m.headers = x], K, H)
         /\ \A x \in Seq(Items) : Fine([t EXCEPT !.m.inside = x], K, H)
         /\ \A x \in BOOLEAN : Fine([t EXCEPT !.m.sent = x], K, H)
<1>1. t = [w |-> t.w, m |-> t.m] /\ t.m \in Msgs /\ t.m.mt = FALSE
  BY FineIs
<1>2. ASSUME NEW x \in Seq(Int)
      PROVE  Fine([t EXCEPT !.m.packet = x], K, H)
  <2> DEFINE n == [t.m EXCEPT !.packet = x]
  <2>1. n \in Msgs /\ n.payload = t.m.payload /\ n.size = t.m.size /\ n.infos = t.m.infos /\ ~n.mt
    BY <1>1 DEF Msgs
  <2>2. [t EXCEPT !.m.packet = x] = [w |-> t.w, m |-> n]
    <3>1. [t EXCEPT !.m.packet = x] = [t EXCEPT !.m = n]
      OBVIOUS
    <3> HIDE DEF n
    <3>2. [t EXCEPT !.m = n] = [w |-> t.w, m |-> n]
      BY <1>1, PairChanged
    <3> QED
      BY <3>1, <3>2, Zenon
  <2> HIDE DEF n
  <2> QED
    BY <2>1, <2>2, FineChanged
<1>3. ASSUME NEW x \in Int
      PROVE  Fine([t EXCEPT !.m.virt = x], K, H)
  <2> DEFINE n == [t.m EXCEPT !.virt = x]
  <2>1. n \in Msgs /\ n.payload = t.m.payload /\ n.size = t.m.size /\ n.infos = t.m.infos /\ ~n.mt
    BY <1>1 DEF Msgs
  <2>2. [t EXCEPT !.m.virt = x] = [w |-> t.w, m |-> n]
    <3>1. [t EXCEPT !.m.virt = x] = [t EXCEPT !.m = n]
      OBVIOUS
    <3> HIDE DEF n
    <3>2. [t EXCEPT !.m = n] = [w |-> t.w, m |-> n]
      BY <1>1, PairChanged
    <3> QED
      BY <3>1, <3>2, Zenon
  <2> HIDE DEF n
  <2> QED
    BY <2>1, <2>2, FineChanged
<1>4. ASSUME NEW x \in Int
      PROVE  Fine([t EXCEPT !.m.actual = x], K, H)
  <2> DEFINE n == [t.m EXCEPT !.actual = x]
  <2>1. n \in Msgs /\ n.payload = t.m.payload /\ n.size = t.m.size /\ n.infos = t.m.infos /\ ~n.mt
    BY <1>1 DEF Msgs
  <2>2. [t EXCEPT !.m.actual = x] = [w |-> t.w, m |-> n]
    <3>1. [t EXCEPT !.m.actual = x] = [t EXCEPT !.m = n]
      OBVIOUS
    <3> HIDE DEF n
    <3>2. [t EXCEPT !.m = n] = [w |-> t.w, m |-> n]
      BY <1>1, PairChanged
    <3> QED
      BY <3>1, <3>2, Zenon
  <2> HIDE DEF n
  <2> QED
    BY <2>1, <2>2, FineChanged
<1>5. ASSUME NEW x \in Seq(Int)
      PROVE  Fine([t EXCEPT !.m.headers = x], K, H)
  <2> DEFINE n == [t.m EXCEPT !.headers = x]
  <2>3. n \in Msgs
    BY <1>1 DEF Msgs
  <2>1. n \in Msgs /\ n.payload = t.m.payload /\ n.size = t.m.size /\ n.infos = t.m.infos /\ ~n.mt
    BY <1>1, <2>3, MsgFields
  <2>2. [t EXCEPT !.m.headers = x] = [w |-> t.w, m |-> n]
    <3>1. [t EXCEPT !.m.headers = x] = [t EXCEPT !.m = n]
      OBVIOUS
    <3> HIDE DEF n
    <3>2. [t EXCEPT !.m = n] = [w |-> t.w, m |-> n]
      BY <1>1, PairChanged
    <3> QED
      BY <3>1, <3>2, Zenon
  <2> HIDE DEF n
  <2> QED
    BY <2>1, <2>2, FineChanged
<1>6. ASSUME NEW x \in Seq(Items)
      PROVE  Fine([t EXCEPT !.m.inside = x], K, H)
  <2> DEFINE n == [t.m EXCEPT !.inside = x]
  <2>1. n \in Msgs /\ n.payload = t.m.payload /\ n.size = t.m.size /\ n.infos = t.m.infos /\ ~n.mt
    BY <1>1 DEF Msgs
  <2>2. [t EXCEPT !.m.inside = x] = [w |-> t.w, m |-> n]
    <3>1. [t EXCEPT !.m.inside = x] = [t EXCEPT !.m = n]
      OBVIOUS
    <3> HIDE DEF n
    <3>2. [t EXCEPT !.m = n] = [w |-> t.w, m |-> n]
      BY <1>1, PairChanged
    <3> QED
      BY <3>1, <3>2, Zenon
  <2> HIDE DEF n
  <2> QED
    BY <2>1, <2>2, FineChanged
<1>7. ASSUME NEW x \in BOOLEAN
      PROVE  Fine([t EXCEPT !.m.sent = x], K, H)
  <2> DEFINE n == [t.m EXCEPT !.sent = x]
  <2>1. n \in Msgs /\ n.payload = t.m.payload /\ n.size = t.m.size /\ n.infos = t.m.infos /\ ~n.mt
    BY <1>1 DEF Msgs
  <2>2. [t EXCEPT !.m.sent = x] = [w |-> t.w, m |-> n]
    <3>1. [t EXCEPT !.m.sent = x] = [t EXCEPT !.m = n]
      OBVIOUS
    <3> HIDE DEF n
    <3>2. [t EXCEPT !.m = n] = [w |-> t.w, m |-> n]
      BY <1>1, PairChanged
    <3> QED
      BY <3>1, <3>2, Zenon
  <2> HIDE DEF n
  <2> QED
    BY <2>1, <2>2, FineChanged
<1> QED
  BY <1>2, <1>3, <1>4, <1>5, <1>6, <1>7

LEMMA AppendInfoFine ==
  ASSUME NEW s, NEW K, NEW H \in SUBSET {0}, Fine(s, K, H),
         NEW type \in InfoTypes, NEW size \in Nat \ {0}
  PROVE  Fine(AppendInfo(s, type, size), K, H)
<1> DEFINE u == Put(s, Len(s.m.infos) + 1, type, size)
<1>1. s.m.mt = FALSE
  BY FineIs
<1>2. AppendInfo(s, type, size) = s \/ AppendInfo(s, type, size) = u
  BY <1>1, Zenon DEF AppendInfo, Put
<1>3. Fine(u, K, H)
  BY AddedFine
<1> HIDE DEF u
<1> QED
  BY <1>2, <1>3

LEMMA AppendInfosFine ==
  ASSUME NEW s, NEW K, NEW H \in SUBSET {0}, Fine(s, K, H), NEW infos \in Seq(Entries)
  PROVE  Fine(AppendInfos(s, infos), K, H)
<1> DEFINE no == IF InfoIndex(s.m, Default) # 0 THEN {Default} ELSE {}
<1>1. s.m.mt = FALSE
  BY FineIs
<1>2. AppendInfos(s, infos) = PutAll(s, infos, no)
  BY <1>1, Zenon DEF AppendInfos, PutAll
<1> HIDE DEF no
<1> QED
  BY <1>2, PutAllFine

LEMMA PacketAllocFine ==
  ASSUME NEW s, NEW K, Fine(s, K, {0}), NEW packet \in Seq(Int)
  PROVE  Fine(PacketAlloc(s, packet), K, {})
<1> DEFINE size == Len(packet) + HeaderRoom
           t == PayloadAlloc(s, size)
           u == [t EXCEPT !.m.packet = packet]
           h == <<Proto>>
<1>1. size \in Nat \ {0}
  BY MessageSizes DEF MessageSizes
<1>2. h \in Seq(Int) /\ {0} \ {0} = {}
  BY DEF Proto
<1>3. PacketAlloc(s, packet) = [t EXCEPT !.m.packet = packet, !.m.headers = h]
  BY Zenon DEF PacketAlloc
<1>4. [t EXCEPT !.m.packet = packet, !.m.headers = h] = [u EXCEPT !.m.headers = h]
  OBVIOUS
<1> HIDE DEF size, h
<1>7. t = PayloadAlloc(s, size) /\ 0 \in {0}
  OBVIOUS
<1> HIDE DEF t
<1>9. Fine(t, K, {0} \ {0})
  BY <1>1, <1>7, PayloadStored
<1>5. Fine(t, K, {})
  BY <1>2, <1>9
<1>6. Fine(u, K, {})
  BY <1>5, FieldsSet
<1> HIDE DEF u
<1>8. Fine([u EXCEPT !.m.headers = h], K, {})
  BY <1>2, <1>6, FieldsSet
<1> QED
  BY <1>3, <1>4, <1>8, Zenon

(* MESSAGE_Duplicate of a message that has a payload.                       *)
Dup(w, m) == Duplicate(w, m, FALSE)

LEMMA DupFine ==
  ASSUME NEW w, PoolSound(w), NEW m \in Msgs, m.size > 0
  PROVE  Fine(Dup(w, m), Uses(w), {})
<1> DEFINE n == [m EXCEPT !.mt = FALSE, !.sent = FALSE, !.infos = <<>>]
           s == [w |-> w, m |-> n]
           t == PayloadAlloc(s, m.size)
<1>1. n \in Msgs /\ ~n.mt /\ n.infos = <<>>
  <2>1. <<>> \in Seq(Entries)
    OBVIOUS
  <2> QED
    BY <2>1 DEF Msgs
<1>2. m.size \in Nat \ {0} /\ m.infos \in Seq(Entries) /\ m.size # 0
  BY MsgFields
<1>3. Dup(w, m) = PutAll(t, m.infos, {})
  BY <1>2, Zenon DEF Dup, Duplicate, PutAll
<1> HIDE DEF n
<1>4. Good(w, n, Uses(w), {0})
  BY <1>1, NewGood
<1>5. s = [w |-> w, m |-> n]
  OBVIOUS
<1> HIDE DEF s
<1>6. Fine(s, Uses(w), {0})
  BY <1>4, <1>5, FineMade
<1>7. t = PayloadAlloc(s, m.size) /\ 0 \in {0}
  OBVIOUS
<1> HIDE DEF t
<1>8. Fine(t, Uses(w), {0} \ {0})
  BY <1>2, <1>6, <1>7, PayloadStored
<1>9. {0} \ {0} = {} /\ {} \in SUBSET {0}
  OBVIOUS
<1>10. Fine(t, Uses(w), {})
  BY <1>8, <1>9
<1> QED
  BY <1>2, <1>3, <1>9, <1>10, PutAllFine

(* The sum of two, and the least of two.                                    *)
LEMMA LeastOfTwo ==
  ASSUME NEW a \in Int, NEW b \in Int
  PROVE  Min({a, b}) = IF a <= b THEN a ELSE b
BY DEF Min

Cuts == [real : Seq(Int), virt : Int]

(* What is cut off, and what is left.                                       *)
LEMMA CutType ==
  ASSUME NEW rest \in Cuts, NEW unit \in Nat, NEW cut, cut = Cut(rest, unit)
  PROVE  cut.real \in Seq(Int) /\ cut.virt \in Int /\ cut.rest \in Cuts
<1> DEFINE n == Len(rest.real)
           r == Min({n, unit})
           v == IF n >= unit THEN 0 ELSE Min({rest.virt, unit - r})
           a == SubSeq(rest.real, 1, r)
           b == SubSeq(rest.real, r + 1, n)
<1>1. rest.real \in Seq(Int) /\ rest.virt \in Int /\ n \in Nat
  BY DEF Cuts
<1>2. r \in Nat /\ r <= n
  BY <1>1, LeastOfTwo
<1>3. v \in Int
  <2>1. unit - r \in Int
    BY <1>2
  <2> HIDE DEF r
  <2>2. Min({rest.virt, unit - r}) \in Int
    BY <1>1, <2>1, LeastOfTwo
  <2> QED
    BY <2>2
<1>4. cut = [real |-> a, virt |-> v, rest |-> [real |-> b, virt |-> rest.virt - v]]
  BY Zenon DEF Cut
<1> HIDE DEF r, v, n
<1>5. a \in Seq(Int) /\ b \in Seq(Int)
  BY <1>1, <1>2 DEF n
<1>6. rest.virt - v \in Int
  BY <1>1, <1>3
<1> HIDE DEF a, b
<1> QED
  BY <1>3, <1>4, <1>5, <1>6 DEF Cuts

(* New messages are fine, whatever they are made from.                      *)
LEMMA FragmentFine ==
  ASSUME NEW w, PoolSound(w), NEW m \in Msgs, NEW part, part.real \in Seq(Int), part.virt \in Int,
         NEW u, u = Fragment(w, m, part)
  PROVE  Fine(u, Uses(w), {})
<1> DEFINE s == [w |-> w, m |-> Blank]
           t == CopyInfo(s, m)
           p == PacketAlloc(t, part.real)
<1>1. u = [p EXCEPT !.m.virt = part.virt]
  BY Zenon DEF Fragment, Blank
<1>2. s = [w |-> w, m |-> Blank]
  OBVIOUS
<1>3. {0} \in SUBSET {0}
  OBVIOUS
<1> HIDE DEF s
<1>4. Fine(s, Uses(w), {0})
  BY <1>2, AllocFine
<1>5. Fine(t, Uses(w), {0})
  BY <1>3, <1>4, CopyInfoFine
<1> HIDE DEF t
<1>6. Fine(p, Uses(w), {})
  BY <1>5, PacketAllocFine
<1> HIDE DEF p
<1> QED
  BY <1>1, <1>6, FieldsSet

LEMMA JoinedType ==
  ASSUME NEW list \in Seq(Msgs)
  PROVE  Joined(list).real \in Seq(Int) /\ Joined(list).virt \in Int
<1> DEFINE z == [real |-> <<>>, virt |-> 0]
<1>1. z \in Cuts
  <2>1. <<>> \in Seq(Int)
    OBVIOUS
  <2> QED
    BY <2>1 DEF Cuts
<1>2. Len(list) \in Nat /\ DOMAIN list = 1 .. Len(list)
  OBVIOUS
<1>3. \A k \in 1 .. Len(list), c \in Cuts :
        [real |-> c.real \o list[k].packet, virt |-> c.virt + list[k].virt] \in Cuts
  <2> TAKE k \in 1 .. Len(list), c \in Cuts
  <2>1. list[k] \in Msgs
    OBVIOUS
  <2>2. list[k].packet \in Seq(Int) /\ list[k].virt \in Int
    BY <2>1, MsgFields
  <2>3. c.real \in Seq(Int) /\ c.virt \in Int
    BY DEF Cuts
  <2>4. c.real \o list[k].packet \in Seq(Int) /\ c.virt + list[k].virt \in Int
    BY <2>2, <2>3
  <2> QED
    BY <2>4 DEF Cuts
<1>4. z = [real |-> <<>>, virt |-> 0]
  OBVIOUS
<1> HIDE DEF z
<1>5. Joined(list) \in Cuts
  BY <1>1, <1>2, <1>3, <1>4, JoinedLoop
<1> QED
  BY <1>5 DEF Cuts

LEMMA ReassembleFine ==
  ASSUME NEW w, PoolSound(w), NEW list \in Seq(Msgs), list # <<>>,
         NEW u, u = Reassemble(w, list)
  PROVE  Fine(u, Uses(w), {})
<1> DEFINE s == [w |-> w, m |-> Blank]
           p == PacketAlloc(s, Joined(list).real)
           t == CopyInfo(p, list[1])
           h == [t EXCEPT !.m.headers = list[1].headers]
<1>1. u = [t EXCEPT !.m.headers = list[1].headers, !.m.virt = Joined(list).virt]
  BY Zenon DEF Reassemble, Blank
<1>2. u = [h EXCEPT !.m.virt = Joined(list).virt]
  <2> HIDE DEF t
  <2> QED
    BY <1>1
<1>3. Joined(list).real \in Seq(Int) /\ Joined(list).virt \in Int
  BY JoinedType
<1>4. list[1] \in Msgs
  OBVIOUS
<1>5. list[1].headers \in Seq(Int)
  BY <1>4, MsgFields
<1>6. s = [w |-> w, m |-> Blank] /\ {} \in SUBSET {0}
  OBVIOUS
<1> HIDE DEF s
<1>7. Fine(s, Uses(w), {0})
  BY <1>6, AllocFine
<1>8. Fine(p, Uses(w), {})
  BY <1>3, <1>7, PacketAllocFine
<1> HIDE DEF p
<1>9. Fine(t, Uses(w), {})
  BY <1>4, <1>6, <1>8, CopyInfoFine
<1> HIDE DEF t
<1>10. Fine(h, Uses(w), {})
  BY <1>5, <1>9, FieldsSet
<1> HIDE DEF h
<1> QED
  BY <1>2, <1>3, <1>10, FieldsSet

LEMMA SerializeType ==
  ASSUME NEW m \in Msgs, m.size > 0
  PROVE  Serialize(m) \in Items
<1> DEFINE infos == [i \in DOMAIN m.infos |-> [type |-> m.infos[i].type, size |-> m.infos[i].size]]
<1>1. /\ m.size \in Nat /\ m.packet \in Seq(Int) /\ m.virt \in Int
      /\ m.headers \in Seq(Int) /\ m.infos \in Seq(Entries)
  BY MsgFields
<1>2. infos \in Seq(Written)
  <2>1. \A i \in DOMAIN m.infos : [type |-> m.infos[i].type, size |-> m.infos[i].size] \in Written
    <3> TAKE i \in DOMAIN m.infos
    <3>1. m.infos[i] \in Entries
      BY <1>1
    <3> QED
      BY <3>1 DEF Entries, Written
  <2>2. DOMAIN m.infos = 1 .. Len(m.infos) /\ Len(m.infos) \in Nat
    BY <1>1
  <2>3. infos \in [1 .. Len(m.infos) -> Written]
    BY <2>1, <2>2
  <2> QED
    BY <2>2, <2>3
<1>3. Serialize(m) = [packet |-> m.packet, virt |-> m.virt, headers |-> m.headers,
                      size |-> m.size, infos |-> infos]
  BY Zenon DEF Serialize
<1>4. m.size \in Nat \ {0}
  BY <1>1
<1> HIDE DEF infos
<1> QED
  BY <1>1, <1>2, <1>3, <1>4 DEF Items

LEMMA UnserializeFine ==
  ASSUME NEW w, PoolSound(w), NEW item \in Items, NEW u, u = Unserialize(w, item)
  PROVE  Fine(u, Uses(w), {})
<1> DEFINE s == [w |-> w, m |-> Blank]
           p == PayloadAlloc(s, item.size)
           a == [p EXCEPT !.m.packet = item.packet]
           b == [a EXCEPT !.m.virt = item.virt]
           z == [b EXCEPT !.m.headers = item.headers]
           K == Uses(w)
           V == {t \in Pairs : Fine(t, K, {})}
<1>1. /\ item.packet \in Seq(Int) /\ item.virt \in Int /\ item.headers \in Seq(Int)
      /\ item.size \in Nat \ {0} /\ item.infos \in Seq(Written)
  BY DEF Items
<1>2. Unpacked(w, item) = z
  <2>1. Unpacked(w, item) = [p EXCEPT !.m.packet = item.packet, !.m.virt = item.virt,
                                      !.m.headers = item.headers]
    BY Zenon DEF Unpacked, Blank
  <2> HIDE DEF p
  <2> QED
    BY <2>1
<1>3. s = [w |-> w, m |-> Blank] /\ 0 \in {0} /\ {0} \ {0} = {} /\ {} \in SUBSET {0}
  OBVIOUS
<1> HIDE DEF s
<1>4. Fine(s, K, {0})
  BY <1>3, AllocFine
<1>5. p = PayloadAlloc(s, item.size)
  OBVIOUS
<1> HIDE DEF p, K
<1>6. Fine(p, K, {0} \ {0})
  BY <1>1, <1>3, <1>4, <1>5, PayloadStored
<1>7. Fine(p, K, {})
  BY <1>3, <1>6
<1>8. Fine(a, K, {})
  BY <1>1, <1>7, FieldsSet
<1> HIDE DEF a
<1>9. Fine(b, K, {})
  BY <1>1, <1>8, FieldsSet
<1> HIDE DEF b
<1>10. Fine(z, K, {})
  BY <1>1, <1>9, FieldsSet
<1>11. z \in V
  BY <1>10, FineIs
<1>12. \A t \in V : Fine(t, K, {})
  OBVIOUS
<1> HIDE DEF z
<1>13. \A k \in 1 .. Len(item.infos), v \in V :
         AppendInfo(v, item.infos[k].type, item.infos[k].size) \in V
  <2> TAKE k \in 1 .. Len(item.infos), v \in V
  <2>1. item.infos[k] \in Written
    BY <1>1
  <2>2. item.infos[k].type \in InfoTypes /\ item.infos[k].size \in Nat \ {0}
    BY <2>1 DEF Written
  <2>3. Fine(v, K, {})
    OBVIOUS
  <2>4. Fine(AppendInfo(v, item.infos[k].type, item.infos[k].size), K, {})
    BY <1>3, <2>2, <2>3, AppendInfoFine
  <2> QED
    BY <2>4, FineIs
<1>14. Len(item.infos) \in Nat /\ DOMAIN item.infos = 1 .. Len(item.infos)
  BY <1>1
<1> HIDE DEF V
<1>16. z = Unpacked(w, item)
  BY <1>2
<1>15. Unserialize(w, item) \in V
  BY <1>11, <1>13, <1>14, <1>16, UnserializeLoop
<1> QED
  BY <1>12, <1>15 DEF K

LEMMA PackFine ==
  ASSUME NEW v, PoolSound(v), NEW w, NEW list \in Seq(Msgs), v = FreeList(w, list),
         \A i \in DOMAIN list : list[i].size > 0,
         NEW u, u = PackMessage(w, list)
  PROVE  Fine(u, Uses(v), {})
<1> DEFINE size == Len(list) * SerialSize + HeaderRoom
           s == [w |-> v, m |-> Blank]
           p == PayloadAlloc(s, size)
           h == <<Proto>>
           all == SerializeMsgList(list)
           sum == Len(Joined(list).real) + Joined(list).virt
           a == [p EXCEPT !.m.headers = h]
           b == [a EXCEPT !.m.inside = all]
<1>1. u = [p EXCEPT !.m.headers = h, !.m.inside = all, !.m.actual = sum]
  BY Zenon DEF PackMessage, Blank
<1>2. u = [b EXCEPT !.m.actual = sum]
  <2> HIDE DEF p, h, all, sum
  <2> QED
    BY <1>1
<1>3. h \in Seq(Int) /\ 0 \in {0} /\ {0} \ {0} = {}
  BY DEF Proto
<1>4. size \in Nat \ {0}
  <2>1. Len(list) \in Nat /\ SerialSize \in Nat /\ HeaderRoom \in Nat \ {0}
    BY MessageSizes DEF MessageSizes
  <2>2. Len(list) * SerialSize \in Nat
    BY <2>1
  <2> QED
    BY <2>1, <2>2
<1>5. all \in Seq(Items)
  <2>1. \A i \in DOMAIN list : Serialize(list[i]) \in Items
    BY SerializeType
  <2>2. DOMAIN list = 1 .. Len(list) /\ Len(list) \in Nat
    OBVIOUS
  <2>3. all = [i \in DOMAIN list |-> Serialize(list[i])]
    BY DEF SerializeMsgList
  <2>4. all \in [1 .. Len(list) -> Items]
    BY <2>1, <2>2, <2>3
  <2> HIDE DEF all
  <2> QED
    BY <2>2, <2>4
<1>6. sum \in Int
  BY JoinedType
<1>7. s = [w |-> v, m |-> Blank] /\ p = PayloadAlloc(s, size)
  OBVIOUS
<1> HIDE DEF s
<1>8. Fine(s, Uses(v), {0})
  BY <1>7, AllocFine
<1> HIDE DEF p, size, all, sum, h
<1>9. Fine(p, Uses(v), {0} \ {0})
  BY <1>3, <1>4, <1>7, <1>8, PayloadStored
<1>10. Fine(p, Uses(v), {})
  BY <1>3, <1>9
<1>11. Fine(a, Uses(v), {})
  BY <1>3, <1>10, FieldsSet
<1> HIDE DEF a
<1>12. Fine(b, Uses(v), {})
  BY <1>5, <1>11, FieldsSet
<1> HIDE DEF b
<1> QED
  BY <1>2, <1>6, <1>12, FieldsSet

(* NewPacket's message.                                                     *)
NewMessage(w, bytes, v) == [PacketAlloc([w |-> w, m |-> Blank], bytes) EXCEPT !.m.virt = v]

LEMMA NewMessageFine ==
  ASSUME NEW w, PoolSound(w), NEW bytes \in Seq(Int), NEW v \in Int, NEW u, u = NewMessage(w, bytes, v)
  PROVE  Fine(u, Uses(w), {})
<1> DEFINE s == [w |-> w, m |-> Blank]
           p == PacketAlloc(s, bytes)
<1>1. u = [p EXCEPT !.m.virt = v]
  BY Zenon DEF NewMessage
<1>2. s = [w |-> w, m |-> Blank]
  OBVIOUS
<1> HIDE DEF s
<1>3. Fine(s, Uses(w), {0})
  BY <1>2, AllocFine
<1>4. Fine(p, Uses(w), {})
  BY <1>3, PacketAllocFine
<1> HIDE DEF p
<1> QED
  BY <1>1, <1>4, FieldsSet

-----------------------------------------------------------------------------
(* All messages there are.  K tells what each block in use was allocated    *)
(* as: the fields of the messages of M use these blocks and no other, each  *)
(* one of its own.                                                          *)

Laid(m, k, K) ==
  IF InPlace(m, k) THEN At(m, k) = Null
  ELSE At(m, k) \in DOMAIN K /\ K[At(m, k)] = KindOf(m, k) /\ (k = 0 => m.size > 0)

Backed(M, K) ==
  /\ M \subseteq Msgs /\ Null \notin DOMAIN K
  /\ \A m \in M : ~m.mt /\ \A k \in Places(m) : Laid(m, k, K)
  /\ \A m, n \in M : \A k \in Places(m), l \in Places(n) :
       At(m, k) = At(n, l) /\ At(m, k) # Null => m = n /\ k = l
  /\ \A b \in DOMAIN K : \E m \in M : \E k \in Places(m) : At(m, k) = b

Sound(w, M) == PoolSound(w) /\ Backed(M, Uses(w))

(* A pool and the messages that own all that is used in it.                 *)
LEMMA UsesIs ==
  ASSUME NEW w, PoolSound(w)
  PROVE  /\ \A b : b \in DOMAIN Uses(w) <=> Used(w, b)
         /\ \A b : Used(w, b) => Uses(w)[b] = w.kind[b] /\ b # Null
<1>1. \A b : Used(w, b) => b \in DOMAIN w.kind /\ b # Null
  BY NotNull DEF Used
<1> QED
  BY <1>1 DEF Uses

(* Every message has a payload.                                             *)
LEMMA HasZero == \A m \in Msgs : 0 \in Places(m)
BY MsgFields DEF Places

(* One message apart from the others, and back.                             *)
LEMMA Opening ==
  ASSUME NEW w, NEW M, Sound(w, M), NEW m \in M
  PROVE  \E K : Backed(M \ {m}, K) /\ Good(w, m, K, {})
<1> DEFINE U == Uses(w)
           K == [b \in {c \in DOMAIN U : \A k \in Places(m) : At(m, k) # c} |-> U[b]]
<1>1. PoolSound(w) /\ Backed(M, U)
  BY DEF Sound
<1>2. /\ \A b : b \in DOMAIN U <=> Used(w, b)
      /\ \A b : Used(w, b) => U[b] = w.kind[b] /\ b # Null
  BY <1>1, UsesIs
<1> HIDE DEF U
<1>3. /\ \A b : b \in DOMAIN K <=> b \in DOMAIN U /\ \A k \in Places(m) : At(m, k) # b
      /\ \A b \in DOMAIN K : K[b] = U[b]
  OBVIOUS
<1> HIDE DEF K
<1>4. Backed(M \ {m}, K)
  <2>1. M \ {m} \subseteq Msgs /\ Null \notin DOMAIN K
    BY <1>1, <1>3 DEF Backed
  <2>2. ASSUME NEW n \in M \ {m}, NEW k \in Places(n)
        PROVE  Laid(n, k, K)
    <3>1. Laid(n, k, U)
      BY <1>1 DEF Backed
    <3>2. CASE InPlace(n, k)
      BY <3>1, <3>2 DEF Laid
    <3>3. CASE ~InPlace(n, k)
      <4>1. At(n, k) \in DOMAIN U /\ U[At(n, k)] = KindOf(n, k) /\ (k = 0 => n.size > 0)
        BY <3>1, <3>3 DEF Laid
      <4>2. At(n, k) # Null
        BY <1>2, <4>1
      <4>3. \A l \in Places(m) : At(m, l) # At(n, k)
        BY <1>1, <4>2 DEF Backed
      <4> QED
        BY <1>3, <3>3, <4>1, <4>3 DEF Laid
    <3> QED
      BY <3>2, <3>3
  <2>3. ASSUME NEW b \in DOMAIN K
        PROVE  \E n \in M \ {m} : \E k \in Places(n) : At(n, k) = b
    <3>1. b \in DOMAIN U /\ \A k \in Places(m) : At(m, k) # b
      BY <1>3
    <3>2. PICK n \in M : \E k \in Places(n) : At(n, k) = b
      BY <1>1, <3>1 DEF Backed
    <3> QED
      BY <3>1, <3>2
  <2> QED
    BY <1>1, <2>1, <2>2, <2>3 DEF Backed
<1>5. Good(w, m, K, {})
  <2>1. m \in Msgs /\ ~m.mt
    BY <1>1 DEF Backed
  <2>2. ASSUME NEW k \in Places(m)
        PROVE  Fit(w, m, k) /\ At(m, k) \notin DOMAIN K
    <3>1. Laid(m, k, U)
      BY <1>1 DEF Backed
    <3> QED
      BY <1>2, <1>3, <3>1 DEF Laid, Fit
  <2>3. \A k, l \in Places(m) : k # l /\ At(m, k) # Null => At(m, k) # At(m, l)
    BY <1>1 DEF Backed
  <2>4. \A b \in DOMAIN K : Used(w, b) /\ w.kind[b] = K[b]
    BY <1>2, <1>3
  <2>5. \A b : Used(w, b) => b \in DOMAIN K \/ \E k \in Places(m) \ {} : At(m, k) = b
    BY <1>2, <1>3
  <2> QED
    BY <1>1, <2>1, <2>2, <2>3, <2>4, <2>5 DEF Good
<1> QED
  BY <1>4, <1>5

(* The message is put back, changed or freed.                               *)
LEMMA Closing ==
  ASSUME NEW M, NEW K, Backed(M, K), NEW v, NEW n, Good(v, n, K, {})
  PROVE  n \notin M /\ Sound(v, M \cup {n})
<1> DEFINE U == Uses(v)
<1>1. PoolSound(v) /\ n \in Msgs /\ ~n.mt
  BY DEF Good
<1>2. /\ \A b : b \in DOMAIN U <=> Used(v, b)
      /\ \A b : Used(v, b) => U[b] = v.kind[b] /\ b # Null
  BY <1>1, UsesIs
<1>3. \A k \in Places(n) : Fit(v, n, k) /\ At(n, k) \notin DOMAIN K
  BY DEF Good
<1>4. n \notin M
  <2>1. 0 \in Places(n) /\ ~InPlace(n, 0)
    BY <1>1, HasZero DEF InPlace
  <2>2. n \in M => At(n, 0) \in DOMAIN K
    BY <2>1 DEF Backed, Laid
  <2> QED
    BY <1>3, <2>1, <2>2
<1> HIDE DEF U
<1>5. \A b \in DOMAIN K : b \in DOMAIN U /\ U[b] = K[b] /\ b # Null
  BY <1>2 DEF Good
<1>6. ASSUME NEW m \in M, NEW k \in Places(m)
      PROVE  Laid(m, k, U) /\ At(m, k) \in DOMAIN K \cup {Null}
  <2>1. Laid(m, k, K)
    BY DEF Backed
  <2> QED
    BY <1>5, <2>1 DEF Laid
<1>7. \A k \in Places(n) : Laid(n, k, U)
  BY <1>2, <1>3 DEF Laid, Fit
<1>8. ASSUME NEW b \in DOMAIN U
      PROVE  \E m \in M \cup {n} : \E k \in Places(m) : At(m, k) = b
  <2>1. b \in DOMAIN K \/ \E k \in Places(n) : At(n, k) = b
    BY <1>2 DEF Good
  <2>2. ASSUME b \in DOMAIN K
        PROVE  \E m \in M : \E k \in Places(m) : At(m, k) = b
    BY <2>2 DEF Backed
  <2> QED
    BY <2>1, <2>2
<1>9. ASSUME NEW m \in M \cup {n}, NEW l \in M \cup {n}, NEW j \in Places(m), NEW k \in Places(l),
             At(m, j) = At(l, k), At(m, j) # Null
      PROVE  m = l /\ j = k
  <2>1. CASE m \in M /\ l \in M
    BY <1>9, <2>1 DEF Backed
  <2>2. CASE m = n /\ l = n
    BY <1>9, <2>2 DEF Good
  <2>3. CASE m \in M /\ l = n
    BY <1>3, <1>6, <1>9, <2>3
  <2>4. CASE m = n /\ l \in M
    BY <1>3, <1>6, <1>9, <2>4
  <2> QED
    BY <2>1, <2>2, <2>3, <2>4
<1>10. M \cup {n} \subseteq Msgs /\ \A m \in M \cup {n} : ~m.mt
  BY <1>1 DEF Backed
<1>11. Null \notin DOMAIN U
  BY <1>2
<1>12. Backed(M \cup {n}, U)
  BY <1>6, <1>7, <1>8, <1>9, <1>10, <1>11 DEF Backed
<1> QED
  BY <1>1, <1>4, <1>12 DEF Sound, U

(* A message that was freed.                                                *)
LEMMA Dropping ==
  ASSUME NEW M, NEW K, Backed(M, K), NEW v, NEW n, Good(v, n, K, Places(n))
  PROVE  Sound(v, M)
<1> DEFINE U == Uses(v)
<1>1. PoolSound(v)
  BY DEF Good
<1>2. /\ \A b : b \in DOMAIN U <=> Used(v, b)
      /\ \A b : Used(v, b) => U[b] = v.kind[b] /\ b # Null
  BY <1>1, UsesIs
<1> HIDE DEF U
<1>3. \A b : b \in DOMAIN K <=> b \in DOMAIN U
  BY <1>2 DEF Good
<1>4. \A b \in DOMAIN K : U[b] = K[b]
  BY <1>2 DEF Good
<1>5. \A m \in M : \A k \in Places(m) : Laid(m, k, U)
  BY <1>3, <1>4 DEF Backed, Laid
<1>6. Backed(M, U)
  BY <1>3, <1>5 DEF Backed
<1> QED
  BY <1>1, <1>6 DEF Sound, U

(* A message is freed, and one more is made.                                *)
LEMMA FreeSound ==
  ASSUME NEW w, NEW M, Sound(w, M), NEW m \in M
  PROVE  Sound(Free(w, m), M \ {m})
<1>1. PICK K : Backed(M \ {m}, K) /\ Good(w, m, K, {})
  BY Opening
<1>2. Good(Free(w, m), m, K, Places(m))
  BY <1>1, FreeGood
<1> QED
  BY <1>1, <1>2, Dropping

LEMMA MadeSound ==
  ASSUME NEW w, NEW M, Sound(w, M), NEW u, Fine(u, Uses(w), {})
  PROVE  u.m \in Msgs /\ u.m \notin M /\ Sound(u.w, M \cup {u.m})
<1>1. Backed(M, Uses(w)) /\ Good(u.w, u.m, Uses(w), {})
  BY DEF Sound, Fine
<1> QED
  BY <1>1, Closing, FineIs

(* The payload of an owned message is there.                                *)
LEMMA HasPayload ==
  ASSUME NEW w, NEW M, Sound(w, M), NEW m \in M
  PROVE  m \in Msgs /\ ~m.mt /\ m.size > 0
<1>1. m \in Msgs /\ ~m.mt /\ \A k \in Places(m) : Laid(m, k, Uses(w))
  BY DEF Sound, Backed
<1>2. 0 \in Places(m) /\ ~InPlace(m, 0)
  BY <1>1, HasZero DEF InPlace
<1> QED
  BY <1>1, <1>2 DEF Laid

-----------------------------------------------------------------------------
(* Lists of messages.  O are the messages of the others.                    *)

Apart(O, list) ==
  /\ list \in Seq(Msgs)
  /\ \A i, j \in DOMAIN list : list[i] = list[j] => i = j
  /\ \A i \in DOMAIN list : list[i] \notin O
Keeps(w, O, list) == Apart(O, list) /\ Sound(w, O \cup Range(list))

LEMMA RangeHas == \A list : Range(list) = {list[i] : i \in DOMAIN list}
BY DEF Range

(* A list of messages, apart from others, grows.                            *)
LEMMA KeepsNone ==
  ASSUME NEW w, NEW O
  PROVE  Keeps(w, O, <<>>) <=> Sound(w, O)
<1>1. DOMAIN <<>> = {} /\ <<>> \in Seq(Msgs)
  OBVIOUS
<1>2. Range(<<>>) = {} /\ O \cup {} = O
  BY <1>1, RangeHas
<1> QED
  BY <1>1, <1>2, Zenon DEF Keeps, Apart

LEMMA KeepsOne ==
  ASSUME NEW w, NEW O, NEW m, NEW list, list = <<m>>
  PROVE  /\ Keeps(w, O, list) <=> m \in Msgs /\ m \notin O /\ Sound(w, O \cup {m})
         /\ Apart(O, list) <=> m \in Msgs /\ m \notin O
<1>1. DOMAIN list = {1} /\ list[1] = m
  OBVIOUS
<1>2. Range(list) = {m}
  BY <1>1, RangeHas
<1>3. list \in Seq(Msgs) <=> m \in Msgs
  OBVIOUS
<1>4. Apart(O, list) <=> m \in Msgs /\ m \notin O
  BY <1>1, <1>3, Zenon DEF Apart
<1> QED
  BY <1>2, <1>4, Zenon DEF Keeps

LEMMA KeepsAppend ==
  ASSUME NEW w, NEW O, NEW list, Keeps(w, O, list), NEW u, Fine(u, Uses(w), {}),
         NEW longer, longer = Append(list, u.m)
  PROVE  Keeps(u.w, O, longer)
<1>1. list \in Seq(Msgs) /\ Sound(w, O \cup Range(list))
  BY DEF Keeps, Apart
<1>2. /\ u.m \in Msgs /\ u.m \notin O \cup Range(list)
      /\ Sound(u.w, (O \cup Range(list)) \cup {u.m})
  BY <1>1, MadeSound
<1>3. /\ longer \in Seq(Msgs) /\ DOMAIN list = 1 .. Len(list) /\ Len(list) \in Nat
      /\ DOMAIN longer = 1 .. (Len(list) + 1) /\ longer[Len(list) + 1] = u.m
      /\ \A i \in 1 .. Len(list) : longer[i] = list[i]
  BY <1>1, <1>2
<1>4. \A i \in 1 .. Len(list) : list[i] \in Range(list)
  BY <1>3, RangeHas
<1>5. Apart(O, longer)
  <2>1. \A i, j \in 1 .. (Len(list) + 1) : longer[i] = longer[j] => i = j
    <3> TAKE i, j \in 1 .. (Len(list) + 1)
    <3>1. CASE i \in 1 .. Len(list) /\ j \in 1 .. Len(list)
      BY <1>3, <3>1 DEF Keeps, Apart
    <3>2. CASE i = Len(list) + 1 /\ j \in 1 .. Len(list)
      BY <1>2, <1>3, <1>4, <3>2
    <3>3. CASE j = Len(list) + 1 /\ i \in 1 .. Len(list)
      BY <1>2, <1>3, <1>4, <3>3
    <3> QED
      BY <1>3, <3>1, <3>2, <3>3
  <2>2. \A i \in 1 .. (Len(list) + 1) : longer[i] \notin O
    <3> TAKE i \in 1 .. (Len(list) + 1)
    <3>1. CASE i \in 1 .. Len(list)
      BY <1>3, <3>1 DEF Keeps, Apart
    <3> QED
      BY <1>2, <1>3, <3>1
  <2> QED
    BY <1>3, <2>1, <2>2 DEF Apart
<1>6. Range(longer) = Range(list) \cup {u.m}
  <2>1. \A x : x \in Range(longer) <=> \E i \in 1 .. (Len(list) + 1) : longer[i] = x
    BY <1>3, RangeHas
  <2>2. \A x : x \in Range(list) <=> \E i \in 1 .. Len(list) : list[i] = x
    BY <1>3, RangeHas
  <2>3. \A x : x \in Range(longer) <=> x \in Range(list) \cup {u.m}
    BY <1>3, <2>1, <2>2
  <2> QED
    BY <2>3, Zenon
<1>7. (O \cup Range(list)) \cup {u.m} = O \cup Range(longer)
  BY <1>6
<1> QED
  BY <1>2, <1>5, <1>7 DEF Keeps

(* Two lists, one after the other.                                          *)
LEMMA ApartBoth ==
  ASSUME NEW O, NEW A \in Seq(Msgs), NEW B \in Seq(Msgs)
  PROVE  /\ Range(A \o B) = Range(A) \cup Range(B)
         /\ Apart(O, A \o B) <=> Apart(O, A) /\ Apart(O \cup Range(A), B)
         /\ Apart(O, A \o B) <=> Apart(O, B) /\ Apart(O \cup Range(B), A)
<1> DEFINE L == A \o B
           a == Len(A)
           b == Len(B)
<1>1. /\ L \in Seq(Msgs) /\ a \in Nat /\ b \in Nat
      /\ DOMAIN A = 1 .. a /\ DOMAIN B = 1 .. b /\ DOMAIN L = 1 .. (a + b)
      /\ \A k \in 1 .. (a + b) : L[k] = IF k <= a THEN A[k] ELSE B[k - a]
  <2>1. L \in Seq(Msgs) /\ Len(L) = a + b
    BY Joining
  <2> QED
    BY <2>1, Joining
<1> HIDE DEF L, a, b
<1>2. /\ \A k \in 1 .. a : k \in 1 .. (a + b) /\ L[k] = A[k]
      /\ \A k \in 1 .. b : a + k \in 1 .. (a + b) /\ L[a + k] = B[k]
      /\ \A k \in 1 .. (a + b) : k \in 1 .. a \/ (k - a \in 1 .. b /\ a + (k - a) = k)
  BY <1>1
<1>3. /\ \A x : x \in Range(A) <=> \E i \in 1 .. a : A[i] = x
      /\ \A x : x \in Range(B) <=> \E i \in 1 .. b : B[i] = x
      /\ \A x : x \in Range(L) <=> \E i \in 1 .. (a + b) : L[i] = x
  BY <1>1, RangeHas, Zenon
<1>4. Range(L) = Range(A) \cup Range(B)
  <2>1. \A x : x \in Range(L) <=> x \in Range(A) \cup Range(B)
    BY <1>2, <1>3
  <2> QED
    BY <2>1, Zenon
<1> DEFINE Once(list, n) == \A i, j \in 1 .. n : list[i] = list[j] => i = j
           Differ == \A i \in 1 .. a, j \in 1 .. b : A[i] # B[j]
           Free1(list, n) == \A i \in 1 .. n : list[i] \notin O
<1>5. Once(L, a + b) <=> Once(A, a) /\ Once(B, b) /\ Differ
  <2>1. ASSUME Once(L, a + b)
        PROVE  Once(A, a) /\ Once(B, b) /\ Differ
    <3>1. Once(A, a)
      BY <1>2, <2>1
    <3>2. Once(B, b)
      BY <1>1, <1>2, <2>1
    <3>3. Differ
      BY <1>1, <1>2, <2>1
    <3> QED
      BY <3>1, <3>2, <3>3
  <2>2. ASSUME Once(A, a), Once(B, b), Differ
        PROVE  Once(L, a + b)
    <3> SUFFICES ASSUME NEW i \in 1 .. (a + b), NEW j \in 1 .. (a + b), L[i] = L[j]
                 PROVE  i = j
      OBVIOUS
    <3>1. CASE i \in 1 .. a /\ j \in 1 .. a
      BY <1>2, <2>2, <3>1
    <3>2. CASE i \in 1 .. a /\ j - a \in 1 .. b /\ a + (j - a) = j
      BY <1>2, <2>2, <3>2
    <3>3. CASE j \in 1 .. a /\ i - a \in 1 .. b /\ a + (i - a) = i
      BY <1>2, <2>2, <3>3
    <3>4. CASE i - a \in 1 .. b /\ a + (i - a) = i /\ j - a \in 1 .. b /\ a + (j - a) = j
      BY <1>2, <2>2, <3>4
    <3> QED
      BY <1>2, <3>1, <3>2, <3>3, <3>4
  <2> QED
    BY <2>1, <2>2
<1>6. Free1(L, a + b) <=> Free1(A, a) /\ Free1(B, b)
  BY <1>2
<1>7. Apart(O, L) <=> Once(L, a + b) /\ Free1(L, a + b)
  BY <1>1 DEF Apart
<1>8. Apart(O, A) /\ Apart(O \cup Range(A), B) <=> Once(A, a) /\ Free1(A, a) /\ Once(B, b) /\ Free1(B, b) /\ Differ
  <2>1. (\A j \in 1 .. b : B[j] \notin O \cup Range(A)) <=> Free1(B, b) /\ Differ
    BY <1>3
  <2>2. Apart(O, A) <=> Once(A, a) /\ Free1(A, a)
    BY <1>1 DEF Apart
  <2>3. Apart(O \cup Range(A), B) <=> Once(B, b) /\ \A j \in 1 .. b : B[j] \notin O \cup Range(A)
    BY <1>1 DEF Apart
  <2> HIDE DEF Once, Free1, Differ
  <2> QED
    BY <2>1, <2>2, <2>3
<1>9. Apart(O, B) /\ Apart(O \cup Range(B), A) <=> Once(A, a) /\ Free1(A, a) /\ Once(B, b) /\ Free1(B, b) /\ Differ
  <2>1. (\A i \in 1 .. a : A[i] \notin O \cup Range(B)) <=> Free1(A, a) /\ Differ
    BY <1>3
  <2>2. Apart(O, B) <=> Once(B, b) /\ Free1(B, b)
    BY <1>1 DEF Apart
  <2>3. Apart(O \cup Range(B), A) <=> Once(A, a) /\ \A i \in 1 .. a : A[i] \notin O \cup Range(B)
    BY <1>1 DEF Apart
  <2> HIDE DEF Once, Free1, Differ
  <2> QED
    BY <2>1, <2>2, <2>3
<1> HIDE DEF Once, Differ, Free1
<1>10. /\ Range(L) = Range(A) \cup Range(B)
       /\ Apart(O, L) <=> Apart(O, A) /\ Apart(O \cup Range(A), B)
       /\ Apart(O, L) <=> Apart(O, B) /\ Apart(O \cup Range(B), A)
  <2>1. Range(L) = Range(A) \cup Range(B)
    BY <1>4
  <2>2. /\ Apart(O, L) <=> Apart(O, A) /\ Apart(O \cup Range(A), B)
        /\ Apart(O, L) <=> Apart(O, B) /\ Apart(O \cup Range(B), A)
    BY <1>5, <1>6, <1>7, <1>8, <1>9, Zenon
  <2> QED
    BY <2>1, <2>2, Zenon
<1> QED
  BY <1>10 DEF L

(* Two lists apart from others are one such list.                           *)
LEMMA KeepsJoined ==
  ASSUME NEW w, NEW O, NEW A \in Seq(Msgs), NEW B \in Seq(Msgs)
  PROVE  /\ Keeps(w, O, A \o B) <=> Apart(O, A) /\ Keeps(w, O \cup Range(A), B)
         /\ Keeps(w, O, A \o B) <=> Apart(O, B) /\ Keeps(w, O \cup Range(B), A)
<1>1. /\ O \cup Range(A \o B) = (O \cup Range(A)) \cup Range(B)
      /\ O \cup Range(A \o B) = (O \cup Range(B)) \cup Range(A)
  <2>1. Range(A \o B) = Range(A) \cup Range(B)
    BY ApartBoth
  <2>2. \A S, T : /\ O \cup (S \cup T) = (O \cup S) \cup T
                 /\ O \cup (S \cup T) = (O \cup T) \cup S
    OBVIOUS
  <2> QED
    BY <2>1, <2>2, Zenon
<1>2. /\ Apart(O, A \o B) <=> Apart(O, A) /\ Apart(O \cup Range(A), B)
      /\ Apart(O, A \o B) <=> Apart(O, B) /\ Apart(O \cup Range(B), A)
  BY ApartBoth
<1> QED
  BY <1>1, <1>2, Zenon DEF Keeps

LEMMA KeepsBoth ==
  ASSUME NEW w, NEW O, NEW A \in Seq(Msgs), NEW B \in Seq(Msgs), NEW L, L = A \o B
  PROVE  /\ Keeps(w, O, L) <=> Apart(O, A) /\ Keeps(w, O \cup Range(A), B)
         /\ Keeps(w, O, L) <=> Apart(O, B) /\ Keeps(w, O \cup Range(B), A)
BY KeepsJoined, Zenon

(* MESSAGE_FreeList.                                                        *)
LEMMA FreeListSound ==
  ASSUME NEW w, NEW M, Sound(w, M), NEW chain \in Seq(Msgs),
         \A i, j \in DOMAIN chain : chain[i] = chain[j] => i = j,
         \A i \in DOMAIN chain : chain[i] \in M
  PROVE  Sound(FreeList(w, chain), M \ Range(chain))
<1> DEFINE n == Len(chain)
           R(k) == {chain[j] : j \in 1 .. k}
<1>1. n \in Nat /\ DOMAIN chain = 1 .. n /\ w \in Pools
  BY DEF Sound, PoolSound
<1>2. \A k \in 1 .. n, v \in Pools : Free(v, chain[k]) \in Pools
  BY FreeType
<1>3. \E best : FreeListRun(best, w, chain, n, Pools)
  <2> HIDE DEF n
  <2> QED
    BY <1>1, <1>2, FreeListLoop
<1>4. PICK best : FreeListRun(best, w, chain, n, Pools)
  BY <1>3, Zenon
<1>5. /\ best[0] = w /\ FreeList(w, chain) = best[n]
      /\ \A k \in 1 .. n : best[k] = Free(best[k - 1], chain[k])
  BY <1>4 DEF FreeListRun
<1> DEFINE B == {k \in 0 .. n : Sound(best[k], M \ R(k))}
<1>6. 0 \in B
  <2>1. M \ R(0) = M
    OBVIOUS
  <2>2. Sound(best[0], M \ R(0))
    BY <1>5, <2>1
  <2>3. 0 \in 0 .. n
    BY <1>1
  <2> HIDE DEF R, n
  <2> QED
    BY <2>2, <2>3
<1>7. \A i \in 1 .. n : i - 1 \in B => i \in B
  <2> SUFFICES ASSUME NEW i \in 1 .. n, i - 1 \in B
               PROVE  i \in B
    OBVIOUS
  <2>1. Sound(best[i - 1], M \ R(i - 1))
    OBVIOUS
  <2>2. chain[i] \in M \ R(i - 1)
    BY <1>1
  <2>3. Sound(Free(best[i - 1], chain[i]), (M \ R(i - 1)) \ {chain[i]})
    BY <2>1, <2>2, FreeSound
  <2>4. (M \ R(i - 1)) \ {chain[i]} = M \ R(i)
    <3>1. 1 .. i = (1 .. (i - 1)) \cup {i}
      OBVIOUS
    <3>2. \A x : x \in R(i) <=> x \in R(i - 1) \/ x = chain[i]
      BY <3>1, Zenon
    <3> HIDE DEF R
    <3> QED
      BY <3>2
  <2>5. Sound(best[i], M \ R(i))
    BY <1>5, <2>3, <2>4
  <2> QED
    BY <2>5
<1>8. \A k \in B : Sound(best[k], M \ R(k))
  OBVIOUS
<1>9. B \in SUBSET (0 .. n)
  OBVIOUS
<1> HIDE DEF B
<1>10. n \in B
  BY <1>1, <1>6, <1>7, <1>9, UpTo
<1>11. Range(chain) = R(n)
  BY <1>1, RangeHas
<1> QED
  BY <1>5, <1>8, <1>10, <1>11

(* The list is freed, and only X stays with what the others have.           *)
LEMMA FreeListKeeps ==
  ASSUME NEW w, NEW O, NEW list, Apart(O, list), NEW X, X \cap Range(list) = {},
         Sound(w, (O \cup Range(list)) \cup X)
  PROVE  Sound(FreeList(w, list), O \cup X)
<1>1. list \in Seq(Msgs) /\ \A i, j \in DOMAIN list : list[i] = list[j] => i = j
  BY DEF Apart
<1>2. \A i \in DOMAIN list : list[i] \in Range(list)
  BY RangeHas
<1>3. Sound(FreeList(w, list), ((O \cup Range(list)) \cup X) \ Range(list))
  BY <1>1, <1>2, FreeListSound
<1>4. O \cap Range(list) = {}
  BY RangeHas DEF Apart
<1>5. ((O \cup Range(list)) \cup X) \ Range(list) = O \cup X
  BY <1>4
<1> QED
  BY <1>3, <1>5

(* The list is freed.                                                       *)
LEMMA FreeListKept ==
  ASSUME NEW w, NEW O, NEW list, Keeps(w, O, list)
  PROVE  Sound(FreeList(w, list), O)
<1> DEFINE X == {}
<1>1. Apart(O, list) /\ Sound(w, (O \cup Range(list)) \cup X) /\ X \cap Range(list) = {}
      /\ O \cup X = O
  BY DEF Keeps
<1> HIDE DEF X
<1>2. Sound(FreeList(w, list), O \cup X)
  BY <1>1, FreeListKeeps
<1> QED
  BY <1>1, <1>2

(* An operation on the only message of a flow.                              *)
LEMMA OneOpens ==
  ASSUME NEW w, NEW O, NEW m, NEW list, list = <<m>>, Keeps(w, O, list),
         NEW s, s = [w |-> w, m |-> m]
  PROVE  \E K : Backed(O, K) /\ Fine(s, K, {})
<1>1. Sound(w, O \cup {m}) /\ m \notin O
  BY KeepsOne
<1>2. PICK K : Backed((O \cup {m}) \ {m}, K) /\ Good(w, m, K, {})
  BY <1>1, Opening
<1>3. (O \cup {m}) \ {m} = O
  BY <1>1
<1>4. Fine(s, K, {})
  BY <1>2, FineMade
<1> QED
  BY <1>2, <1>3, <1>4

(* The only message of a list is changed, or made.                          *)
LEMMA OneCloses ==
  ASSUME NEW O, NEW K, Backed(O, K), NEW u, Fine(u, K, {}), NEW list, list = <<u.m>>
  PROVE  Keeps(u.w, O, list)
<1>1. Good(u.w, u.m, K, {}) /\ u.m \in Msgs
  BY FineIs
<1>2. u.m \notin O /\ Sound(u.w, O \cup {u.m})
  BY <1>1, Closing
<1> QED
  BY <1>1, <1>2, KeepsOne

LEMMA OneMade ==
  ASSUME NEW w, NEW O, Sound(w, O), NEW u, Fine(u, Uses(w), {}), NEW list, list = <<u.m>>
  PROVE  Keeps(u.w, O, list)
<1>1. Backed(O, Uses(w))
  BY DEF Sound
<1> QED
  BY <1>1, OneCloses

(* The headers of one message of a list are set.                            *)
LEMMA HeadersKept ==
  ASSUME NEW w, NEW O, NEW list, Keeps(w, O, list), NEW i \in DOMAIN list, NEW h \in Seq(Int),
         NEW new, new = [list EXCEPT ![i].headers = h]
  PROVE  Keeps(w, O, new)
<1> DEFINE m == list[i]
           n == [m EXCEPT !.headers = h]
           P == O \cup {list[j] : j \in DOMAIN list \ {i}}
           M == O \cup Range(list)
<1>1. /\ list \in Seq(Msgs) /\ Sound(w, M) /\ m \in Msgs /\ m \in M
      /\ \A j, k \in DOMAIN list : list[j] = list[k] => j = k
      /\ \A j \in DOMAIN list : list[j] \notin O
  BY RangeHas DEF Keeps, Apart
<1>2. M \ {m} = P
  BY <1>1, RangeHas
<1> HIDE DEF P, M
<1>3. PICK K : Backed(P, K) /\ Good(w, m, K, {})
  BY <1>1, <1>2, Opening
<1>4. n \in Msgs /\ n.payload = m.payload /\ n.size = m.size /\ n.infos = m.infos /\ ~n.mt
  <2>1. n \in Msgs
    BY <1>1 DEF Msgs
  <2>2. ~m.mt
    BY <1>3 DEF Good
  <2> QED
    BY <1>1, <2>1, <2>2 DEF Msgs
<1>8. new = [list EXCEPT ![i] = n]
  OBVIOUS
<1> HIDE DEF n
<1>5. Good(w, n, K, {})
  <2> HIDE DEF m
  <2> QED
    BY <1>3, <1>4, GoodFields
<1>6. n \notin P /\ Sound(w, P \cup {n})
  BY <1>3, <1>5, Closing
<1>7. /\ new \in Seq(Msgs) /\ DOMAIN new = DOMAIN list /\ new[i] = n
      /\ \A j \in DOMAIN list \ {i} : new[j] = list[j]
  BY <1>1, <1>4, <1>8
<1>9. P \cup {n} = O \cup Range(new)
  <2>1. Range(new) = {new[j] : j \in DOMAIN list}
    BY <1>7, RangeHas
  <2>2. \A x : x \in Range(new) <=> x = n \/ x \in {list[j] : j \in DOMAIN list \ {i}}
    BY <1>7, <2>1
  <2> QED
    BY <2>2 DEF P
<1>10. Apart(O, new)
  <2>1. \A j \in DOMAIN list \ {i} : list[j] \in P /\ list[j] # n
    BY <1>6 DEF P
  <2>2. n \notin O
    BY <1>6 DEF P
  <2> QED
    BY <1>1, <1>7, <2>1, <2>2 DEF Apart
<1> QED
  BY <1>6, <1>9, <1>10 DEF Keeps

-----------------------------------------------------------------------------
(* Cutting, joining, packing and serializing the messages of a flow.        *)

(* The fragments of a packet are apart from the others.                     *)
LEMMA FragmentsKept ==
  ASSUME NEW w, NEW O, Sound(w, O), NEW m \in O, NEW unit \in Nat \ {0},
         NEW all, all = Fragments(w, m, unit)
  PROVE  Keeps(all.w, O, all.list)
<1> DEFINE S == [w : Pools, list : Seq(Msgs), rest : Cuts]
           V == {s \in S : Keeps(s.w, O, s.list)}
           z == [w |-> w, list |-> <<>>, rest |-> Content(m)]
           n == Pieces(m, unit)
           D == [i \in 1 .. n |-> i]
<1>1. m \in Msgs /\ w \in Pools
  BY DEF Sound, PoolSound, Backed
<1>2. z \in V
  <2>1. Content(m) \in Cuts
    BY <1>1, MsgFields DEF Content, Cuts
  <2>2. z.w = w /\ z.list = <<>> /\ <<>> \in Seq(Msgs)
    OBVIOUS
  <2>3. z \in S
    <3> HIDE DEF z
    <3>1. z = [w |-> w, list |-> <<>>, rest |-> Content(m)]
      BY DEF z
    <3> QED
      BY <1>1, <2>1, <2>2, <3>1
  <2>4. Keeps(z.w, O, z.list)
    BY <2>2, KeepsNone
  <2> QED
    BY <2>3, <2>4
<1>3. \A v \in V : OneMore(v, m, unit) \in V
  <2> TAKE v \in V
  <2>1. v \in S /\ Keeps(v.w, O, v.list) /\ v.w \in Pools /\ v.list \in Seq(Msgs) /\ v.rest \in Cuts
    OBVIOUS
  <2> DEFINE part == Cut(v.rest, unit)
             new == Fragment(v.w, m, part)
             longer == Append(v.list, new.m)
  <2>2. part.real \in Seq(Int) /\ part.virt \in Int /\ part.rest \in Cuts
    BY <2>1, CutType
  <2>3. OneMore(v, m, unit) = [w |-> new.w, rest |-> part.rest, list |-> longer]
    BY Zenon DEF OneMore
  <2>4. PoolSound(v.w)
    BY <2>1 DEF Keeps, Sound
  <2> HIDE DEF part, V
  <2>5. Fine(new, Uses(v.w), {})
    BY <1>1, <2>2, <2>4, FragmentFine
  <2> HIDE DEF new
  <2>6. Keeps(new.w, O, longer)
    BY <2>1, <2>5, KeepsAppend
  <2>7. new.w \in Pools /\ longer \in Seq(Msgs)
    BY <2>5, <2>6, FineIs DEF Keeps, Apart, PoolSound
  <2> HIDE DEF longer, S
  <2>8. OneMore(v, m, unit) \in S
    BY <2>2, <2>3, <2>7 DEF S
  <2>9. OneMore(v, m, unit).w = new.w /\ OneMore(v, m, unit).list = longer
    BY <2>3
  <2> QED
    BY <2>6, <2>8, <2>9 DEF V
<1>4. \E k \in Nat : DOMAIN D = 1 .. k
  <2>1. DOMAIN D = 1 .. n
    OBVIOUS
  <2>2. PacketSize(m) \in Int
    BY <1>1, MsgFields DEF PacketSize
  <2> SUFFICES n \in Int
    <3> HIDE DEF n, D
    <3>1. CASE n < 1
      <4>1. 1 .. n = 1 .. 0 /\ 0 \in Nat
        BY <3>1
      <4> QED
        BY <2>1, <4>1
    <3>2. CASE ~(n < 1)
      <4>1. n \in Nat
        BY <3>2
      <4> QED
        BY <2>1, <4>1
    <3> QED
      BY <3>1, <3>2
  <2> QED
    BY <2>2 DEF Pieces
<1>5. PICK k \in Nat : DOMAIN D = 1 .. k
  BY <1>4
<1>6. z = [w |-> w, list |-> <<>>, rest |-> Content(m)]
  OBVIOUS
<1>7. \A j \in 1 .. k, v \in V : OneMore(v, m, unit) \in V
  BY <1>3, Zenon
<1>8. \A s \in V : Keeps(s.w, O, s.list)
  OBVIOUS
<1>10. DOMAIN [i \in 1 .. Pieces(m, unit) |-> i] = 1 .. k
  BY <1>5
<1> HIDE DEF V, z
<1>9. Fragments(w, m, unit) \in V
  BY <1>2, <1>5, <1>6, <1>7, <1>10, FragmentsLoop
<1> QED
  BY <1>8, <1>9

(* MESSAGE_FragmentPacket into a list.                                      *)
LEMMA CutKept ==
  ASSUME NEW w, NEW O, NEW m, NEW one, one = <<m>>, Keeps(w, O, one), NEW unit \in Nat \ {0},
         NEW cut, cut = FragmentPacket(w, m, unit)
  PROVE  Keeps(cut.w, O, cut.list)
<1> DEFINE all == Fragments(w, m, unit)
           list == [all.list EXCEPT ![1].headers = m.headers]
           v == Free(all.w, m)
<1>1. m \in Msgs /\ m \notin O /\ Sound(w, O \cup {m})
  BY KeepsOne
<1>2. Keeps(all.w, O \cup {m}, all.list)
  <2>1. m \in O \cup {m}
    OBVIOUS
  <2> QED
    BY <1>1, <2>1, FragmentsKept
<1>3. cut = [w |-> w, list |-> <<m>>] \/ cut = [w |-> v, list |-> list]
  BY Zenon DEF FragmentPacket
<1>4. Keeps(v, O, all.list)
  <2>1. Apart(O \cup {m}, all.list) /\ Sound(all.w, (O \cup {m}) \cup Range(all.list))
    BY <1>2 DEF Keeps
  <2>2. m \notin Range(all.list)
    BY <2>1, RangeHas DEF Apart
  <2>3. ((O \cup {m}) \cup Range(all.list)) \ {m} = O \cup Range(all.list)
    BY <1>1, <2>2
  <2>4. Sound(v, O \cup Range(all.list))
    <3>1. m \in (O \cup {m}) \cup Range(all.list)
      OBVIOUS
    <3>2. Sound(v, ((O \cup {m}) \cup Range(all.list)) \ {m})
      BY <2>1, <3>1, FreeSound
    <3> QED
      BY <2>3, <3>2
  <2>5. Apart(O, all.list)
    BY <2>1 DEF Apart
  <2> QED
    BY <2>4, <2>5 DEF Keeps
<1>5. Keeps(v, O, list)
  <2> HIDE DEF v
  <2>1. m.headers \in Seq(Int) /\ all.list \in Seq(Msgs)
    BY <1>1, <1>4, MsgFields DEF Keeps, Apart
  <2>2. CASE 1 \in DOMAIN all.list
    <3> HIDE DEF all
    <3> QED
      BY <1>4, <2>1, <2>2, HeadersKept
  <2>3. CASE 1 \notin DOMAIN all.list
    <3>1. list = all.list
      <4> HIDE DEF all
      <4> QED
        BY <2>1, <2>3
    <3> QED
      BY <1>4, <3>1
  <2> QED
    BY <2>2, <2>3
<1> HIDE DEF v, list
<1>6. CASE cut = [w |-> w, list |-> <<m>>]
  <2>1. cut.w = w /\ cut.list = one
    BY <1>6
  <2> QED
    BY <2>1
<1>7. CASE cut = [w |-> v, list |-> list]
  <2>1. cut.w = v /\ cut.list = list
    BY <1>7
  <2> QED
    BY <1>5, <2>1
<1> QED
  BY <1>3, <1>6, <1>7

(* The storage of a message is where it was.                                *)
LEMMA SameStorage ==
  ASSUME NEW m \in Msgs
  PROVE  /\ \A x \in Seq(Int) : LET n == [m EXCEPT !.headers = x]
                                IN n \in Msgs /\ n.payload = m.payload /\ n.size = m.size /\ n.infos = m.infos /\ n.mt = m.mt
         /\ \A x \in Seq(Int) : LET n == [m EXCEPT !.packet = x]
                                IN n \in Msgs /\ n.payload = m.payload /\ n.size = m.size /\ n.infos = m.infos /\ n.mt = m.mt
         /\ \A x \in Int : LET n == [m EXCEPT !.virt = x]
                           IN n \in Msgs /\ n.payload = m.payload /\ n.size = m.size /\ n.infos = m.infos /\ n.mt = m.mt
BY DEF Msgs

(* MESSAGE_ShrinkPacket leaves the storage alone.                           *)
LEMMA Shrinks ==
  ASSUME NEW m \in Msgs, NEW k \in Nat
  PROVE  /\ ShrinkPacket(m, k) \in Msgs
         /\ LET n == ShrinkPacket(m, k)
            IN n.payload = m.payload /\ n.size = m.size /\ n.infos = m.infos /\ n.mt = m.mt
<1> DEFINE x == SubSeq(m.packet, k + 1, Len(m.packet))
<1>1. ShrinkPacket(m, k) = [m EXCEPT !.packet = x]
  BY DEF ShrinkPacket
<1>2. x \in Seq(Int)
  <2>1. m.packet \in Seq(Int)
    BY MsgFields
  <2>2. \A j \in (k + 1) .. Len(m.packet) : j \in 1 .. Len(m.packet)
    BY <2>1
  <2>3. SubSeq(m.packet, k + 1, Len(m.packet)) \in Seq(Int)
    BY <2>1, <2>2
  <2> QED
    BY <2>3
<1> HIDE DEF x
<1> QED
  BY <1>1, <1>2, SameStorage

(* A list of two.                                                           *)
LEMMA KeepsPair ==
  ASSUME NEW w, NEW O, NEW a, NEW b, NEW list, list = <<a, b>>,
         a \in Msgs, a \notin O, b \in Msgs, b \notin O \cup {a},
         Sound(w, (O \cup {a}) \cup {b})
  PROVE  Keeps(w, O, list)
<1>1. DOMAIN list = {1, 2} /\ list[1] = a /\ list[2] = b /\ list \in Seq(Msgs)
  OBVIOUS
<1>2. Range(list) = {a, b}
  BY <1>1, RangeHas
<1>3. O \cup Range(list) = (O \cup {a}) \cup {b}
  BY <1>2
<1>4. Apart(O, list)
  BY <1>1, Zenon DEF Apart
<1> QED
  BY <1>3, <1>4 DEF Keeps

(* MESSAGE_ReassemblePacket, after which the pieces are freed.              *)
LEMMA JoinKept ==
  ASSUME NEW w, NEW O, NEW list, Keeps(w, O, list), list # <<>>,
         NEW new, new = Reassemble(w, list), NEW one, one = <<new.m>>
  PROVE  Keeps(FreeList(new.w, list), O, one)
<1> DEFINE X == {new.m}
<1>1. list \in Seq(Msgs) /\ Apart(O, list) /\ Sound(w, O \cup Range(list)) /\ PoolSound(w)
  BY DEF Keeps, Apart, Sound
<1>2. Fine(new, Uses(w), {})
  BY <1>1, ReassembleFine
<1>3. new.m \in Msgs /\ new.m \notin O \cup Range(list) /\ Sound(new.w, (O \cup Range(list)) \cup X)
  BY <1>1, <1>2, MadeSound
<1>4. X \cap Range(list) = {}
  BY <1>3
<1> HIDE DEF X
<1>5. Sound(FreeList(new.w, list), O \cup X)
  BY <1>1, <1>3, <1>4, FreeListKeeps
<1> QED
  BY <1>3, <1>5, KeepsOne DEF X

(* MESSAGE_PackMessage.                                                     *)
LEMMA PackKept ==
  ASSUME NEW w, NEW O, NEW list, Keeps(w, O, list),
         NEW new, new = PackMessage(w, list), NEW one, one = <<new.m>>
  PROVE  Keeps(new.w, O, one)
<1> DEFINE v == FreeList(w, list)
<1>1. list \in Seq(Msgs) /\ Sound(w, O \cup Range(list))
  BY DEF Keeps, Apart
<1>2. Sound(v, O)
  BY FreeListKept
<1>3. \A i \in DOMAIN list : list[i].size > 0
  BY <1>1, RangeHas, HasPayload
<1>4. PoolSound(v) /\ v = FreeList(w, list)
  BY <1>2 DEF Sound
<1> HIDE DEF v
<1>5. Fine(new, Uses(v), {})
  BY <1>1, <1>3, <1>4, PackFine
<1> QED
  BY <1>2, <1>5, OneMade

(* n has the storage of m.                                                  *)
Same(m, n) ==
  n \in Msgs /\ n.payload = m.payload /\ n.size = m.size /\ n.infos = m.infos /\ n.mt = m.mt

(* A message changes, but not in what it owns.                              *)
LEMMA SameSound ==
  ASSUME NEW w, NEW O, NEW m, m \notin O, Sound(w, O \cup {m}), NEW n, Same(m, n)
  PROVE  n \notin O /\ Sound(w, O \cup {n})
<1>1. PICK K : Backed((O \cup {m}) \ {m}, K) /\ Good(w, m, K, {})
  BY Opening
<1>2. (O \cup {m}) \ {m} = O
  OBVIOUS
<1>3. Good(w, n, K, {})
  <2>1. ~m.mt
    BY <1>1 DEF Good
  <2> QED
    BY <1>1, <2>1, GoodFields DEF Same
<1> QED
  BY <1>1, <1>2, <1>3, Closing

LEMMA PairKept ==
  ASSUME NEW w, NEW O, NEW a, NEW b, a \notin O, b \notin O \cup {a}, Sound(w, (O \cup {a}) \cup {b}),
         NEW c, Same(a, c), NEW d, Same(b, d), NEW list, list = <<c, d>>
  PROVE  Keeps(w, O, list)
<1>1. d \notin O \cup {a} /\ Sound(w, (O \cup {a}) \cup {d})
  BY SameSound
<1>2. (O \cup {a}) \cup {d} = (O \cup {d}) \cup {a} /\ a \notin O \cup {d}
  BY <1>1
<1>3. c \notin O \cup {d} /\ Sound(w, (O \cup {d}) \cup {c})
  BY <1>1, <1>2, SameSound
<1>4. (O \cup {d}) \cup {c} = (O \cup {c}) \cup {d} /\ d \notin O \cup {c} /\ c \notin O
  BY <1>1, <1>3
<1> QED
  BY <1>3, <1>4, KeepsPair DEF Same

(* MESSAGE_FragmentPacket in two.                                           *)
LEMMA SplitKept ==
  ASSUME NEW w, NEW O, NEW m, NEW single, single = <<m>>, Keeps(w, O, single),
         NEW unit \in Nat, NEW freeOriginal \in BOOLEAN,
         NEW cut, cut = SplitPacket(w, m, unit, freeOriginal)
  PROVE  Keeps(IF freeOriginal THEN cut.w ELSE Free(cut.w, m), O, cut.list)
<1> DEFINE part == Cut(Content(m), unit)
           one == Fragment(w, m, part)
           kept == ShrinkPacket([m EXCEPT !.virt = part.rest.virt], Len(part.real))
           other == Fragment(one.w, m, part.rest)
           c == [one.m EXCEPT !.headers = m.headers]
           d1 == [kept EXCEPT !.headers = m.headers]
           d2 == [other.m EXCEPT !.headers = m.headers]
<1>1. m \in Msgs /\ m \notin O /\ Sound(w, O \cup {m}) /\ PoolSound(w)
  BY KeepsOne DEF Sound
<1>2. m.headers \in Seq(Int) /\ Content(m) \in Cuts
  BY <1>1, MsgFields DEF Content, Cuts
<1>3. part.real \in Seq(Int) /\ part.virt \in Int /\ part.rest \in Cuts
  BY <1>2, CutType
<1>4. freeOriginal => cut = [w |-> one.w, list |-> <<c, d1>>]
  <2> SUFFICES ASSUME freeOriginal = TRUE
               PROVE  cut = [w |-> one.w, list |-> <<c, d1>>]
    OBVIOUS
  <2> DEFINE two == [w |-> one.w, m |-> kept]
  <2>1. cut = [w |-> two.w, list |-> <<c, [two.m EXCEPT !.headers = m.headers]>>]
    BY Zenon DEF SplitPacket
  <2>2. two.w = one.w /\ two.m = kept
    OBVIOUS
  <2> QED
    BY <2>1, <2>2, Zenon
<1>5. ~freeOriginal => cut = [w |-> other.w, list |-> <<c, d2>>]
  <2> SUFFICES ASSUME ~freeOriginal
               PROVE  cut = [w |-> other.w, list |-> <<c, d2>>]
    OBVIOUS
  <2> QED
    BY Zenon DEF SplitPacket
<1> HIDE DEF part
<1>6. Fine(one, Uses(w), {})
  BY <1>1, <1>3, FragmentFine
<1> HIDE DEF one
<1>7. one.m \in Msgs /\ one.m \notin O \cup {m} /\ Sound(one.w, (O \cup {m}) \cup {one.m})
  BY <1>1, <1>6, MadeSound
<1>8. Same(one.m, c)
  BY <1>2, <1>7, SameStorage DEF Same
<1>9. CASE freeOriginal
  <2>1. Same(m, d1)
    <3> DEFINE n == [m EXCEPT !.virt = part.rest.virt]
    <3>1. part.rest.virt \in Int /\ Len(part.real) \in Nat
      BY <1>3 DEF Cuts
    <3>2. n \in Msgs /\ Same(m, n)
      BY <1>1, <3>1, SameStorage DEF Same
    <3> HIDE DEF n
    <3>3. kept \in Msgs /\ Same(n, kept)
      BY <3>1, <3>2, Shrinks DEF Same, n
    <3> HIDE DEF kept
    <3>4. Same(kept, d1)
      BY <1>2, <3>3, SameStorage DEF Same
    <3> QED
      BY <3>2, <3>3, <3>4 DEF Same
  <2>2. (O \cup {m}) \cup {one.m} = (O \cup {one.m}) \cup {m} /\ m \notin O \cup {one.m} /\ one.m \notin O
    BY <1>1, <1>7
  <2>5. Sound(one.w, (O \cup {one.m}) \cup {m})
    BY <1>7, <2>2
  <2>6. m \notin O \cup {one.m} /\ one.m \notin O
    BY <2>2
  <2> HIDE DEF c, d1
  <2>3. Keeps(one.w, O, <<c, d1>>)
    BY <1>8, <2>1, <2>5, <2>6, PairKept
  <2>7. cut = [w |-> one.w, list |-> <<c, d1>>]
    BY <1>4, <1>9, Zenon
  <2>4. cut.w = one.w /\ cut.list = <<c, d1>>
    BY <2>7
  <2> QED
    BY <1>9, <2>3, <2>4
<1>10. CASE ~freeOriginal
  <2>1. Fine(other, Uses(one.w), {})
    <3>1. PoolSound(one.w) /\ part.rest.real \in Seq(Int) /\ part.rest.virt \in Int
      BY <1>3, <1>7 DEF Sound, Cuts
    <3> QED
      BY <1>1, <3>1, FragmentFine
  <2> HIDE DEF other
  <2> DEFINE M == (O \cup {m}) \cup {one.m}
             v == Free(other.w, m)
  <2>2. other.m \in Msgs /\ other.m \notin M /\ Sound(other.w, M \cup {other.m})
    BY <1>7, <2>1, MadeSound
  <2>3. Sound(v, (M \cup {other.m}) \ {m})
    BY <2>2, FreeSound
  <2>4. (M \cup {other.m}) \ {m} = (O \cup {one.m}) \cup {other.m}
    BY <1>1, <1>7, <2>2
  <2>5. one.m \notin O /\ other.m \notin O \cup {one.m}
    BY <1>7, <2>2
  <2>6. Same(other.m, d2)
    BY <1>2, <2>2, SameStorage DEF Same
  <2> HIDE DEF M, v, c, d2
  <2>7. Keeps(v, O, <<c, d2>>)
    BY <1>8, <2>3, <2>4, <2>5, <2>6, PairKept
  <2>8. cut.w = other.w /\ cut.list = <<c, d2>>
    BY <1>5, <1>10
  <2> QED
    BY <1>10, <2>7, <2>8 DEF v
<1> QED
  BY <1>9, <1>10

(* MESSAGE_UnserializeMsgList.                                              *)
LEMMA RestoreKept ==
  ASSUME NEW w, NEW O, Sound(w, O), NEW items \in Seq(Items),
         NEW all, all = UnserializeMsgList(w, items)
  PROVE  Keeps(all.w, O, all.list)
<1> DEFINE S == [w : Pools, list : Seq(Msgs)]
           V == {s \in S : Keeps(s.w, O, s.list)}
           z == [w |-> w, list |-> <<>>]
<1>1. z \in V
  <2>1. z.w = w /\ z.list = <<>> /\ <<>> \in Seq(Msgs) /\ w \in Pools
    BY DEF Sound, PoolSound
  <2>2. Keeps(z.w, O, z.list)
    BY <2>1, KeepsNone
  <2> QED
    BY <2>1, <2>2
<1>2. Len(items) \in Nat /\ DOMAIN items = 1 .. Len(items)
  OBVIOUS
<1>3. \A k \in 1 .. Len(items), v \in V : Unserialized(v, items[k]) \in V
  <2> TAKE k \in 1 .. Len(items), v \in V
  <2>1. v \in S /\ Keeps(v.w, O, v.list) /\ v.w \in Pools /\ v.list \in Seq(Msgs)
    OBVIOUS
  <2> DEFINE new == Unserialize(v.w, items[k])
             longer == Append(v.list, new.m)
  <2>2. Unserialized(v, items[k]) = [w |-> new.w, list |-> longer]
    BY Zenon DEF Unserialized
  <2>3. items[k] \in Items /\ PoolSound(v.w)
    BY <2>1 DEF Keeps, Sound
  <2> HIDE DEF V
  <2>4. Fine(new, Uses(v.w), {})
    BY <2>3, UnserializeFine
  <2> HIDE DEF new
  <2>5. Keeps(new.w, O, longer)
    BY <2>1, <2>4, KeepsAppend
  <2>6. new.w \in Pools /\ longer \in Seq(Msgs)
    BY <2>4, <2>5, FineIs DEF Keeps, Apart, PoolSound
  <2> HIDE DEF longer
  <2> QED
    BY <2>2, <2>5, <2>6 DEF V
<1>4. \A s \in V : Keeps(s.w, O, s.list)
  OBVIOUS
<1>5. z = [w |-> w, list |-> <<>>]
  OBVIOUS
<1> HIDE DEF V, z
<1>6. UnserializeMsgList(w, items) \in V
  BY <1>1, <1>2, <1>3, <1>5, UnserializeListLoop
<1> QED
  BY <1>4, <1>6

(* MESSAGE_UnpackMessage.                                                   *)
LEMMA UnpackKept ==
  ASSUME NEW w, NEW O, NEW m, NEW one, one = <<m>>, Keeps(w, O, one),
         NEW out, out = UnpackMessage(w, m)
  PROVE  Keeps(out.w, O, out.list)
<1> DEFINE all == UnserializeMsgList(w, m.inside)
           v == Free(all.w, m)
<1>1. m \in Msgs /\ m \notin O /\ Sound(w, O \cup {m})
  BY KeepsOne
<1>2. m.inside \in Seq(Items)
  BY <1>1, MsgFields
<1>3. out = [w |-> v, list |-> all.list]
  BY Zenon DEF UnpackMessage
<1>4. Keeps(all.w, O \cup {m}, all.list)
  BY <1>1, <1>2, RestoreKept
<1> HIDE DEF all
<1>5. Apart(O \cup {m}, all.list) /\ Sound(all.w, (O \cup {m}) \cup Range(all.list))
  BY <1>4 DEF Keeps
<1>6. m \notin Range(all.list)
  BY <1>5, RangeHas DEF Apart
<1>7. ((O \cup {m}) \cup Range(all.list)) \ {m} = O \cup Range(all.list)
  BY <1>1, <1>6
<1>8. Sound(v, ((O \cup {m}) \cup Range(all.list)) \ {m})
  BY <1>5, FreeSound
<1>9. Apart(O, all.list)
  BY <1>5 DEF Apart
<1> HIDE DEF v
<1>10. out.w = v /\ out.list = all.list
  BY <1>3
<1> QED
  BY <1>7, <1>8, <1>9, <1>10 DEF Keeps

-----------------------------------------------------------------------------
(* The messages the owners hold and those in the queue: each one is in one  *)
(* place only.                                                              *)

Slots == [m : Msgs, f : Flows, time : 0 .. Never]

Shape(h, q) ==
  /\ h \in [Flows -> Seq(Msgs)] /\ q \in Seq(Slots)
  /\ \A f, g \in Flows : \A i \in DOMAIN h[f], j \in DOMAIN h[g] : h[f][i] = h[g][j] => f = g /\ i = j
  /\ \A i, j \in DOMAIN q : q[i].m = q[j].m => i = j
  /\ \A f \in Flows : \A i \in DOMAIN h[f], j \in DOMAIN q : h[f][i] # q[j].m

Waiting(q) == {q[i].m : i \in DOMAIN q}
Others(h, q, f) == (UNION {Range(h[g]) : g \in Flows \ {f}}) \cup Waiting(q)
Members(h, q) == (UNION {Range(h[g]) : g \in Flows}) \cup Waiting(q)

(* The messages there are: those of a flow, and the others.                 *)
LEMMA OthersIs ==
  ASSUME NEW h, NEW q, NEW f \in Flows
  PROVE  /\ Members(h, q) = Others(h, q, f) \cup Range(h[f])
         /\ \A x : x \in Others(h, q, f) <=>
                     \/ \E g \in Flows \ {f} : \E i \in DOMAIN h[g] : h[g][i] = x
                     \/ \E i \in DOMAIN q : q[i].m = x
         /\ \A x : x \in Members(h, q) <=>
                     \/ \E g \in Flows : \E i \in DOMAIN h[g] : h[g][i] = x
                     \/ \E i \in DOMAIN q : q[i].m = x
<1>6. \A x : x \in Waiting(q) <=> \E i \in DOMAIN q : q[i].m = x
  BY DEF Waiting
<1>7. \A E, x : x \in UNION {Range(h[g]) : g \in E} <=> \E g \in E : x \in Range(h[g])
  BY Zenon
<1>1. \A x : x \in Others(h, q, f) <=>
               \/ \E g \in Flows \ {f} : x \in Range(h[g])
               \/ \E i \in DOMAIN q : q[i].m = x
  BY <1>6, <1>7, Zenon DEF Others
<1>2. \A x : x \in Members(h, q) <=>
               \/ \E g \in Flows : x \in Range(h[g])
               \/ \E i \in DOMAIN q : q[i].m = x
  BY <1>6, <1>7, Zenon DEF Members
<1>3. \A x : x \in Members(h, q) <=> x \in Others(h, q, f) \cup Range(h[f])
  BY <1>1, <1>2
<1>4. \A g, x : x \in Range(h[g]) <=> \E i \in DOMAIN h[g] : h[g][i] = x
  BY RangeHas
<1>5. Members(h, q) = Others(h, q, f) \cup Range(h[f])
  BY <1>3, Zenon
<1> QED
  BY <1>1, <1>2, <1>4, <1>5

(* The others are so, whatever the flow holds.                              *)
LEMMA SameOthers ==
  ASSUME NEW g, NEW h, NEW q, NEW f \in Flows, \A e \in Flows \ {f} : g[e] = h[e]
  PROVE  Others(g, q, f) = Others(h, q, f)
<1>1. \A x : x \in Others(g, q, f) <=>
             \/ \E e \in Flows \ {f} : \E i \in DOMAIN g[e] : g[e][i] = x
             \/ \E i \in DOMAIN q : q[i].m = x
  BY OthersIs
<1>2. \A x : x \in Others(h, q, f) <=>
             \/ \E e \in Flows \ {f} : \E i \in DOMAIN h[e] : h[e][i] = x
             \/ \E i \in DOMAIN q : q[i].m = x
  BY OthersIs
<1>3. \A x : x \in Others(g, q, f) <=> x \in Others(h, q, f)
  BY <1>1, <1>2
<1> QED
  BY <1>3, Zenon

(* What one flow holds, and what it may change it into.                     *)
LEMMA FlowOpens ==
  ASSUME NEW w, NEW h, NEW q, Shape(h, q), Sound(w, Members(h, q)), NEW f \in Flows
  PROVE  Keeps(w, Others(h, q, f), h[f])
<1>1. h[f] \in Seq(Msgs)
  BY DEF Shape
<1>2. \A i \in DOMAIN h[f] : h[f][i] \notin Others(h, q, f)
  BY OthersIs DEF Shape
<1>3. Apart(Others(h, q, f), h[f])
  BY <1>1, <1>2 DEF Shape, Apart
<1> QED
  BY <1>3, OthersIs DEF Keeps

(* The flow may hold any list that is apart from the others.                *)
LEMMA FlowCloses ==
  ASSUME NEW v, NEW h, NEW q, Shape(h, q), NEW f \in Flows, NEW list,
         Keeps(v, Others(h, q, f), list),
         NEW g, g \in [Flows -> Seq(Msgs)],
         g[f] = list, \A e \in Flows \ {f} : g[e] = h[e]
  PROVE  Shape(g, q) /\ Sound(v, Members(g, q))
<1>1. list \in Seq(Msgs) /\ h \in [Flows -> Seq(Msgs)]
  BY DEF Keeps, Apart, Shape
<1>2. /\ g \in [Flows -> Seq(Msgs)] /\ g[f] = list
      /\ \A e \in Flows \ {f} : g[e] = h[e]
  OBVIOUS
<1>3. Others(g, q, f) = Others(h, q, f)
  BY <1>2, SameOthers
<1>4. Members(g, q) = Others(h, q, f) \cup Range(list)
  <2>1. Members(g, q) = Others(g, q, f) \cup Range(g[f])
    BY OthersIs
  <2> QED
    BY <1>2, <1>3, <2>1
<1>5. \A i \in DOMAIN list : list[i] \notin Others(h, q, f)
  BY DEF Keeps, Apart
<1>6. ASSUME NEW d \in Flows, NEW e \in Flows, NEW i \in DOMAIN g[d], NEW j \in DOMAIN g[e], g[d][i] = g[e][j]
      PROVE  d = e /\ i = j
  <2>1. CASE d = f /\ e = f
    BY <1>2, <1>6, <2>1 DEF Keeps, Apart
  <2>2. CASE d # f /\ e # f
    BY <1>2, <1>6, <2>2 DEF Shape
  <2>3. CASE d = f /\ e # f
    BY <1>2, <1>5, <1>6, <2>3, OthersIs
  <2>4. CASE d # f /\ e = f
    BY <1>2, <1>5, <1>6, <2>4, OthersIs
  <2> QED
    BY <2>1, <2>2, <2>3, <2>4
<1>7. ASSUME NEW d \in Flows, NEW i \in DOMAIN g[d], NEW j \in DOMAIN q
      PROVE  g[d][i] # q[j].m
  <2>1. CASE d = f
    BY <1>2, <1>5, <2>1, OthersIs
  <2>2. CASE d # f
    BY <1>2, <2>2 DEF Shape
  <2> QED
    BY <2>1, <2>2
<1>8. Shape(g, q)
  BY <1>2, <1>6, <1>7 DEF Shape
<1> QED
  BY <1>4, <1>8 DEF Keeps

(* One more element that is not among the others.                           *)
LEMMA OnceMore ==
  ASSUME NEW n \in Nat, NEW a, NEW b, NEW x,
         \A i, j \in 1 .. n : a[i] = a[j] => i = j,
         \A i \in 1 .. n : a[i] # x, \A i \in 1 .. n : b[i] = a[i], b[n + 1] = x
  PROVE  \A i, j \in 1 .. (n + 1) : b[i] = b[j] => i = j
<1>1. \A i \in 1 .. (n + 1) : i \in 1 .. n \/ i = n + 1
  OBVIOUS
<1> QED
  BY <1>1

(* The messages of a flow in the queue.                                     *)
LEMMA QueuedIs ==
  ASSUME queue \in Seq(Slots), \A i, j \in DOMAIN queue : queue[i].m = queue[j].m => i = j, NEW f
  PROVE  /\ Apart({}, Queued(f))
         /\ \A x : (\E i \in DOMAIN Queued(f) : Queued(f)[i] = x) <=>
                   \E i \in DOMAIN queue : queue[i].f = f /\ queue[i].m = x
<1> DEFINE n == Len(queue)
           V == Seq(Msgs)
           In(list, k) == \A x : (\E i \in DOMAIN list : list[i] = x) <=>
                                 \E i \in 1 .. k : queue[i].f = f /\ queue[i].m = x
<1>1. n \in Nat /\ DOMAIN queue = 1 .. n /\ \A k \in 1 .. n : queue[k].m \in Msgs
  <2>1. n \in Nat /\ DOMAIN queue = 1 .. n /\ \A k \in 1 .. n : queue[k] \in Slots
    OBVIOUS
  <2> QED
    BY <2>1 DEF Slots
<1>2. <<>> \in V
  OBVIOUS
<1>3. \A k \in 1 .. n, v \in V : (IF queue[k].f = f THEN Append(v, queue[k].m) ELSE v) \in V
  BY <1>1
<1> HIDE DEF n, V
<1>4. PICK best : QueuedRun(best, f, n, V)
  BY <1>1, <1>2, <1>3, QueuedLoop, Zenon
<1>5. /\ best \in [0 .. n -> V] /\ best[0] = <<>> /\ Queued(f) = best[n]
      /\ \A k \in 1 .. n : best[k] = (IF queue[k].f = f THEN Append(best[k - 1], queue[k].m) ELSE best[k - 1])
  BY <1>4, Zenon DEF QueuedRun
<1> DEFINE B == {k \in 0 .. n : Apart({}, best[k]) /\ In(best[k], k)}
<1>6. 0 \in B
  <2>1. DOMAIN best[0] = {} /\ best[0] \in Seq(Msgs)
    BY <1>5
  <2>2. Apart({}, best[0]) /\ In(best[0], 0) /\ 0 \in 0 .. n
    BY <1>1, <2>1 DEF Apart
  <2> QED
    BY <2>2
<1>7. \A k \in 1 .. n : k - 1 \in B => k \in B
  <2> SUFFICES ASSUME NEW k \in 1 .. n, k - 1 \in B
               PROVE  k \in B
    OBVIOUS
  <2> DEFINE a == best[k - 1]
             b == best[k]
             x == queue[k].m
  <2>1. Apart({}, a) /\ In(a, k - 1)
    OBVIOUS
  <2>2. b = IF queue[k].f = f THEN Append(a, x) ELSE a
    BY <1>5
  <2>9. k \in 0 .. n
    BY <1>1
  <2> HIDE DEF B, b, a
  <2>3. CASE queue[k].f # f
    <3>1. b = a /\ (\A i \in 1 .. k : queue[i].f = f => i \in 1 .. (k - 1))
      BY <2>2, <2>3
    <3>2. In(b, k)
      BY <2>1, <3>1
    <3> HIDE DEF In
    <3> QED
      BY <2>1, <2>9, <3>1, <3>2 DEF B, b
  <2>4. CASE queue[k].f = f
    <3>1. a \in Seq(Msgs) /\ b = Append(a, x)
      BY <2>1, <2>2, <2>4 DEF Apart
    <3>2. x \in Msgs
      BY <1>1
    <3>3. /\ DOMAIN a = 1 .. Len(a) /\ Len(a) \in Nat /\ b \in Seq(Msgs)
          /\ DOMAIN b = 1 .. (Len(a) + 1) /\ b[Len(a) + 1] = x
          /\ \A i \in 1 .. Len(a) : b[i] = a[i]
      <4> HIDE DEF x
      <4> QED
        BY <3>1, <3>2
    <3>4. \A i \in 1 .. Len(a) : a[i] # x
      <4> SUFFICES ASSUME NEW i \in 1 .. Len(a), a[i] = x
                   PROVE  FALSE
        OBVIOUS
      <4>1. PICK j \in 1 .. (k - 1) : queue[j].f = f /\ queue[j].m = x
        BY <2>1, <3>3
      <4>2. k \in 1 .. n /\ j \in 1 .. n /\ j # k
        BY <1>1
      <4> HIDE DEF x
      <4>3. queue[j].m = queue[k].m
        BY <4>1 DEF x
      <4> QED
        BY <1>1, <4>2, <4>3
    <3>5. Apart({}, b)
      <4>1. \A i, j \in 1 .. (Len(a) + 1) : b[i] = b[j] => i = j
        <5>1. Len(a) \in Nat /\ \A i, j \in 1 .. Len(a) : a[i] = a[j] => i = j
          BY <2>1, <3>3 DEF Apart
        <5> HIDE DEF x, In
        <5> QED
          BY <5>1, <3>3, <3>4, OnceMore
      <4> QED
        BY <3>3, <4>1 DEF Apart
    <3>6. In(b, k)
      <4>1. ASSUME NEW y, NEW i \in DOMAIN b, b[i] = y
            PROVE  \E j \in 1 .. k : queue[j].f = f /\ queue[j].m = y
        <5>1. CASE i \in 1 .. Len(a)
          <6>1. \E j \in 1 .. (k - 1) : queue[j].f = f /\ queue[j].m = y
            BY <2>1, <3>3, <4>1, <5>1
          <6> QED
            BY <6>1
        <5>2. CASE i = Len(a) + 1
          BY <2>4, <3>3, <4>1, <5>2
        <5> QED
          BY <3>3, <5>1, <5>2
      <4>2. ASSUME NEW y, NEW j \in 1 .. k, queue[j].f = f /\ queue[j].m = y
            PROVE  \E i \in DOMAIN b : b[i] = y
        <5>1. CASE j = k
          <6>1. Len(a) + 1 \in DOMAIN b /\ b[Len(a) + 1] = y
            BY <3>3, <4>2, <5>1
          <6> QED
            BY <6>1
        <5>2. CASE j # k
          <6>1. j \in 1 .. (k - 1)
            BY <5>2
          <6>2. \E i \in DOMAIN a : a[i] = y
            BY <2>1, <4>2, <6>1
          <6> QED
            BY <3>3, <6>2
        <5> QED
          BY <5>1, <5>2
      <4> QED
        BY <4>1, <4>2
    <3> HIDE DEF In
    <3> QED
      BY <2>9, <3>5, <3>6 DEF B, b
  <2> QED
    BY <2>3, <2>4
<1>8. B \in SUBSET (0 .. n) /\ \A k \in B : Apart({}, best[k]) /\ In(best[k], k)
  OBVIOUS
<1> HIDE DEF B, In
<1>9. n \in B
  BY <1>1, <1>6, <1>7, <1>8, UpTo
<1>10. Apart({}, Queued(f)) /\ In(Queued(f), n)
  BY <1>5, <1>8, <1>9
<1> QED
  BY <1>1, <1>10 DEF In

-----------------------------------------------------------------------------
(* The inductive invariant.                                                 *)

Custody == Shape(hold, queue) /\ Sound(pool, Members(hold, queue))
Strings ==
  /\ buffer \in [Flows -> Seq(Items)]
  /\ \A f \in Flows : buffer[f] # <<>> =>
       hold[f] = <<>> /\ \A i \in DOMAIN queue : queue[i].f # f
IInv == Custody /\ Strings /\ EarliestIsLeast

(* A field of a chain is a place of a message that is there.                *)
LEMMA ChainMessages ==
  ASSUME Custody, NEW x \in Fields
  PROVE  /\ x[1] \in Flows \cup {Queue} /\ x[2] \in DOMAIN Chains[x[1]]
         /\ Chains[x[1]][x[2]] \in Members(hold, queue)
         /\ x[3] \in Places(Chains[x[1]][x[2]]) /\ x = <<x[1], x[2], x[3]>>
<1>1. DOMAIN Chains = Flows \cup {Queue}
  BY DEF Chains
<1>2. PICK c \in Flows \cup {Queue} : \E i \in DOMAIN Chains[c] : \E k \in 0 .. Len(Chains[c][i].infos) : x = <<c, i, k>>
  <2>1. PICK c \in DOMAIN Chains : x \in UNION {{<<c, i, k>> : k \in 0 .. Len(Chains[c][i].infos)} : i \in DOMAIN Chains[c]}
    BY Zenon DEF Fields
  <2>2. PICK i \in DOMAIN Chains[c] : x \in {<<c, i, k>> : k \in 0 .. Len(Chains[c][i].infos)}
    BY <2>1, Zenon
  <2>3. PICK k \in 0 .. Len(Chains[c][i].infos) : x = <<c, i, k>>
    BY <2>2, Zenon
  <2> QED
    BY <1>1, <2>3, Zenon
<1>7. PICK i \in DOMAIN Chains[c] : \E k \in 0 .. Len(Chains[c][i].infos) : x = <<c, i, k>>
  BY <1>2, Zenon
<1>3. PICK k \in 0 .. Len(Chains[c][i].infos) : x = <<c, i, k>>
  BY <1>7, Zenon
<1>4. x[1] = c /\ x[2] = i /\ x[3] = k
  BY <1>3
<1>5. Chains[c][i] \in Members(hold, queue)
  <2>1. CASE c = Queue
    <3>1. Chains[c] = [j \in DOMAIN queue |-> queue[j].m]
      BY <2>1 DEF Chains
    <3>2. i \in DOMAIN queue /\ Chains[c][i] = queue[i].m
      BY <3>1
    <3> QED
      BY <3>2 DEF Members, Waiting
  <2>2. CASE c \in Flows /\ c # Queue
    <3>1. Chains[c] = hold[c]
      BY <2>2 DEF Chains
    <3> QED
      BY <2>2, <3>1, OthersIs
  <2> QED
    BY <2>1, <2>2
<1>6. k \in Places(Chains[c][i])
  BY DEF Places
<1> QED
  BY <1>3, <1>4, <1>5, <1>6

(* A message is in one place of one chain.                                  *)
LEMMA OnePlace ==
  ASSUME Custody, NEW c \in Flows \cup {Queue}, NEW d \in Flows \cup {Queue},
         NEW i \in DOMAIN Chains[c], NEW j \in DOMAIN Chains[d], Chains[c][i] = Chains[d][j]
  PROVE  c = d /\ i = j
<1>1. Queue \notin Flows
  BY MessageSizes DEF MessageSizes, Queue
<1>2. \A f \in Flows : Chains[f] = hold[f]
  BY <1>1 DEF Chains
<1>3. Chains[Queue] = [k \in DOMAIN queue |-> queue[k].m]
  BY DEF Chains
<1> HIDE DEF Chains
<1>4. /\ \A f, g \in Flows : \A k \in DOMAIN hold[f], l \in DOMAIN hold[g] : hold[f][k] = hold[g][l] => f = g /\ k = l
      /\ \A k, l \in DOMAIN queue : queue[k].m = queue[l].m => k = l
      /\ \A f \in Flows : \A k \in DOMAIN hold[f], l \in DOMAIN queue : hold[f][k] # queue[l].m
  BY DEF Custody, Shape
<1>5. CASE c \in Flows /\ d \in Flows
  BY <1>2, <1>4, <1>5
<1>6. CASE c = Queue /\ d = Queue
  BY <1>3, <1>4, <1>6
<1>7. CASE c \in Flows /\ d = Queue
  BY <1>2, <1>3, <1>4, <1>7
<1>8. CASE c = Queue /\ d \in Flows
  BY <1>2, <1>3, <1>4, <1>8
<1> QED
  BY <1>5, <1>6, <1>7, <1>8

(* Every member of the set has its place in a chain.                        *)
LEMMA FieldOf ==
  ASSUME Custody, NEW m \in Members(hold, queue), NEW k \in Places(m)
  PROVE  \E x \in Fields : Block(x) = At(m, k)
<1>1. \E c \in Flows \cup {Queue} : \E i \in DOMAIN Chains[c] : Chains[c][i] = m
  <2>1. CASE \E i \in DOMAIN queue : queue[i].m = m
    <3>1. PICK i \in DOMAIN queue : queue[i].m = m
      BY <2>1
    <3>2. Chains[Queue] = [j \in DOMAIN queue |-> queue[j].m]
      BY DEF Chains
    <3>3. i \in DOMAIN Chains[Queue] /\ Chains[Queue][i] = m
      BY <3>1, <3>2
    <3> QED
      BY <3>3
  <2>2. CASE \E f \in Flows : \E i \in DOMAIN hold[f] : hold[f][i] = m
    <3>1. PICK f \in Flows : \E i \in DOMAIN hold[f] : hold[f][i] = m
      BY <2>2
    <3>2. Chains[f] = hold[f]
      BY MessageSizes DEF Chains, Queue, MessageSizes
    <3> QED
      BY <3>1, <3>2
  <2>3. (\E i \in DOMAIN queue : queue[i].m = m) \/ \E f \in Flows : \E i \in DOMAIN hold[f] : hold[f][i] = m
    BY DEF Members, Waiting, Range
  <2> QED
    BY <2>1, <2>2, <2>3
<1>2. PICK c \in Flows \cup {Queue} : \E i \in DOMAIN Chains[c] : Chains[c][i] = m
  BY <1>1
<1>3. PICK i \in DOMAIN Chains[c] : Chains[c][i] = m
  BY <1>2
<1>4. DOMAIN Chains = Flows \cup {Queue}
  BY DEF Chains
<1>5. k \in 0 .. Len(Chains[c][i].infos)
  BY <1>3 DEF Places
<1> DEFINE x == <<c, i, k>>
<1>6. x \in {<<c, i, l>> : l \in 0 .. Len(Chains[c][i].infos)}
  BY <1>5
<1> DEFINE F(d) == UNION {{<<d, j, l>> : l \in 0 .. Len(Chains[d][j].infos)} : j \in DOMAIN Chains[d]}
<1>7. x \in F(c)
  BY <1>6, Zenon
<1>12. Fields = UNION {F(d) : d \in DOMAIN Chains}
  BY DEF Fields
<1>10. c \in DOMAIN Chains
  BY <1>4
<1>11. Block(x) = Block(<<c, i, k>>)
  OBVIOUS
<1> HIDE DEF x, F
<1>8. x \in Fields
  BY <1>7, <1>10, <1>12, Zenon
<1>9. Block(<<c, i, k>>) = At(m, k)
  BY <1>3 DEF Block
<1> QED
  BY <1>8, <1>9, <1>11

(* If the messages own what is used, every block has one owner.             *)
LEMMA CustodyOneOwner ==
  ASSUME Custody
  PROVE  OneOwner
<1> DEFINE M == Members(hold, queue)
           U == Uses(pool)
           owning == {x \in Fields : Block(x) # Null}
           used == {Block(x) : x \in owning}
<1>1. PoolSound(pool) /\ Backed(M, U)
  BY DEF Custody, Sound
<1>2. /\ \A b : b \in DOMAIN U <=> Used(pool, b)
      /\ \A b : Used(pool, b) => U[b] = pool.kind[b] /\ b # Null
  BY <1>1, UsesIs
<1> HIDE DEF U, M
<1>3. \A x \in Fields : LET m == Chains[x[1]][x[2]]
                        IN m \in M /\ x[3] \in Places(m) /\ Block(x) = At(m, x[3])
  BY ChainMessages DEF Block, M
<1>4. \A x \in owning : Used(pool, Block(x))
  <2> SUFFICES ASSUME NEW x \in Fields, Block(x) # Null
               PROVE  Used(pool, Block(x))
    OBVIOUS
  <2>1. PICK m \in M : x[3] \in Places(m) /\ Block(x) = At(m, x[3])
    BY <1>3
  <2>2. Laid(m, x[3], U)
    BY <1>1, <2>1 DEF Backed
  <2> QED
    BY <1>2, <2>1, <2>2 DEF Laid
<1>5. \A x, y \in owning : x # y => Block(x) # Block(y)
  <2> SUFFICES ASSUME NEW x \in Fields, NEW y \in Fields, Block(x) # Null, Block(x) = Block(y)
               PROVE  x = y
    OBVIOUS
  <2> DEFINE m == Chains[x[1]][x[2]]
             n == Chains[y[1]][y[2]]
  <2>1. m \in M /\ x[3] \in Places(m) /\ Block(x) = At(m, x[3])
    BY <1>3
  <2>2. n \in M /\ y[3] \in Places(n) /\ Block(y) = At(n, y[3])
    BY <1>3
  <2> HIDE DEF m, n
  <2>6. At(m, x[3]) = At(n, y[3]) /\ At(m, x[3]) # Null
    BY <2>1, <2>2
  <2>7. \A p, q \in M : \A k \in Places(p), l \in Places(q) :
          At(p, k) = At(q, l) /\ At(p, k) # Null => p = q /\ k = l
    BY <1>1 DEF Backed
  <2>3. m = n /\ x[3] = y[3]
    BY <2>1, <2>2, <2>6, <2>7, Zenon
  <2>4. /\ x[1] \in Flows \cup {Queue} /\ x[2] \in DOMAIN Chains[x[1]] /\ x = <<x[1], x[2], x[3]>>
        /\ y[1] \in Flows \cup {Queue} /\ y[2] \in DOMAIN Chains[y[1]] /\ y = <<y[1], y[2], y[3]>>
    BY ChainMessages, Zenon
  <2>5. x[1] = y[1] /\ x[2] = y[2]
    BY <2>3, <2>4, OnePlace DEF m, n
  <2> QED
    BY <2>3, <2>4, <2>5, Zenon
<1>6. \A b : Used(pool, b) => b \in used
  <2> SUFFICES ASSUME NEW b, Used(pool, b)
               PROVE  b \in used
    OBVIOUS
  <2>1. b \in DOMAIN U /\ b # Null
    BY <1>2
  <2>2. PICK m \in M : \E k \in Places(m) : At(m, k) = b
    BY <1>1, <2>1 DEF Backed
  <2>3. PICK k \in Places(m) : At(m, k) = b
    BY <2>2
  <2>4. PICK x \in Fields : Block(x) = b
    BY <2>3, FieldOf DEF M
  <2> QED
    BY <2>1, <2>4
<1>7. \A b : b \in used => Used(pool, b)
  BY <1>4
<1>8. /\ \A b \in pool.infoList : b \in DOMAIN pool.kind /\ pool.kind[b] = "infoCell"
      /\ \A b \in pool.payloadList : b \in DOMAIN pool.kind /\ pool.kind[b] = "payloadCell"
  BY <1>1 DEF PoolSound, ListsSound
<1> HIDE DEF used
<1>9. used \cap (pool.infoList \cup pool.payloadList) = {}
  BY <1>7 DEF Used
<1>10. used \cup pool.infoList \cup pool.payloadList = DOMAIN pool.kind
  <2>1. \A b : b \in used \cup pool.infoList \cup pool.payloadList <=> b \in DOMAIN pool.kind
    BY <1>6, <1>7, <1>8 DEF Used
  <2> QED
    BY <2>1, Zenon
<1> QED
  BY <1>5, <1>8, <1>9, <1>10, Zenon DEF OneOwner, used

-----------------------------------------------------------------------------
(* The steps of the owners.                                                 *)

(* No message is allocated as a thread's.                                   *)
NoThreads == Threads \subseteq {FALSE}

Rest(f) == Others(hold, queue, f)

(* What the owner of a flow may take for granted.                           *)
LEMMA Typed ==
  ASSUME IInv, NEW f \in Flows
  PROVE  /\ hold \in [Flows -> Seq(Msgs)] /\ hold[f] \in Seq(Msgs) /\ queue \in Seq(Slots)
         /\ buffer \in [Flows -> Seq(Items)] /\ buffer[f] \in Seq(Items)
         /\ hold[f] # <<>> => buffer[f] = <<>>
         /\ PoolSound(pool) /\ Keeps(pool, Rest(f), hold[f])
<1>1. Shape(hold, queue) /\ Sound(pool, Members(hold, queue))
  BY DEF IInv, Custody
<1>2. Keeps(pool, Rest(f), hold[f])
  BY <1>1, FlowOpens DEF Rest
<1> QED
  BY <1>1, <1>2 DEF IInv, Strings, Shape, Sound

(* The owner changes what it holds and nothing else.                        *)
LEMMA HeldCustody ==
  ASSUME IInv, NEW f \in Flows, NEW w, NEW list, Keeps(w, Rest(f), list), Holds(f, w, list)
  PROVE  /\ Custody' /\ EarliestIsLeast' /\ queue' = queue
         /\ hold'[f] = list /\ \A e \in Flows \ {f} : hold'[e] = hold[e]
<1>1. Shape(hold, queue) /\ hold \in [Flows -> Seq(Msgs)]
  BY DEF IInv, Custody, Shape
<1>2. pool' = w /\ queue' = queue /\ earliest' = earliest /\ hold' = [hold EXCEPT ![f] = list]
  BY DEF Holds
<1>3. list \in Seq(Msgs)
  BY DEF Keeps, Apart
<1>4. /\ hold' \in [Flows -> Seq(Msgs)] /\ hold'[f] = list
      /\ \A e \in Flows \ {f} : hold'[e] = hold[e]
  BY <1>1, <1>2, <1>3
<1>5. Shape(hold', queue) /\ Sound(w, Members(hold', queue))
  BY <1>1, <1>4, FlowCloses DEF Rest
<1>6. Custody'
  BY <1>2, <1>5 DEF Custody
<1>7. EarliestIsLeast'
  BY <1>2 DEF IInv, EarliestIsLeast, TimesOf
<1> QED
  BY <1>2, <1>4, <1>6, <1>7

(* A step of one flow that leaves it a list apart from the others.          *)
LEMMA Held ==
  ASSUME IInv, NEW f \in Flows, NEW w, NEW list, Keeps(w, Rest(f), list),
         Holds(f, w, list), UNCHANGED buffer, buffer[f] = <<>>
  PROVE  IInv'
<1>1. /\ Custody' /\ EarliestIsLeast' /\ queue' = queue
      /\ hold'[f] = list /\ \A e \in Flows \ {f} : hold'[e] = hold[e]
  BY HeldCustody
<1>2. Strings'
  BY <1>1 DEF IInv, Strings
<1> QED
  BY <1>1, <1>2 DEF IInv

(* The only message of the flow is changed.                                 *)
LEMMA Changed ==
  ASSUME IInv, NEW f \in Flows, Len(hold[f]) = 1, NEW u, Changes(f, u), UNCHANGED buffer,
         \A K : Fine(Mine(f), K, {}) => Fine(u, K, {})
  PROVE  IInv'
<1> DEFINE m == hold[f][1]
           one == <<u.m>>
<1>1. /\ hold[f] \in Seq(Msgs) /\ hold[f] # <<>> /\ buffer[f] = <<>>
      /\ Keeps(pool, Rest(f), hold[f])
  <2>1. hold[f] # <<>>
    OBVIOUS
  <2> QED
    BY <2>1, Typed
<1>2. hold[f] = <<m>>
  BY <1>1
<1>3. Mine(f) = [w |-> pool, m |-> m]
  BY DEF Mine
<1> HIDE DEF m
<1>4. PICK K : Backed(Rest(f), K) /\ Fine(Mine(f), K, {})
  BY <1>1, <1>2, <1>3, OneOpens
<1>5. Fine(u, K, {}) /\ one = <<u.m>>
  BY <1>4
<1> HIDE DEF one
<1>6. Keeps(u.w, Rest(f), one)
  BY <1>4, <1>5, OneCloses
<1>7. Holds(f, u.w, one)
  BY Zenon DEF Changes, one
<1> QED
  BY <1>1, <1>6, <1>7, Held

(* A flow that has nothing gets a new message.                              *)
LEMMA Made ==
  ASSUME IInv, NEW f \in Flows, IsFree(f), NEW u, Changes(f, u), UNCHANGED buffer,
         Fine(u, Uses(pool), {})
  PROVE  IInv'
<1> DEFINE one == <<u.m>>
<1>1. hold[f] = <<>> /\ buffer[f] = <<>>
  BY DEF IsFree
<1>2. Sound(pool, Rest(f))
  BY <1>1, Typed, KeepsNone
<1>3. one = <<u.m>>
  OBVIOUS
<1> HIDE DEF one
<1>4. Keeps(u.w, Rest(f), one)
  BY <1>2, <1>3, OneMade
<1>5. Holds(f, u.w, one)
  BY Zenon DEF Changes, one
<1> QED
  BY <1>1, <1>4, <1>5, Held

(* The flow has one message, or some.                                       *)
LEMMA PlainOne ==
  ASSUME IInv, NEW f \in Flows
  PROVE  /\ Ready(f) => hold[f] # <<>>
         /\ Single(f) => Len(hold[f]) = 1 /\ hold[f] # <<>>
         /\ Plain(f) => Single(f)
BY DEF Ready, Single, Plain

(* The actions of the owner of a flow, one by one.                          *)
LEMMA NewPacketKeeps ==
  ASSUME IInv, UNCHANGED buffer, NEW f \in Flows, NEW r \in Reals, NEW v \in Virtuals,
         NewPacket(f, r, v, FALSE)
  PROVE  IInv'
<1> DEFINE bytes == [i \in 1 .. r |-> 10 * f + i]
           u == NewMessage(pool, bytes, v)
<1>1. IsFree(f) /\ Changes(f, u)
  BY Zenon DEF NewPacket, NewMessage, Blank
<1>2. r \in Nat /\ v \in Int /\ f \in Nat
  BY MessageSizes DEF MessageSizes
<1>3. bytes \in Seq(Int)
  <2>1. bytes \in [1 .. r -> Int]
    BY <1>2
  <2> HIDE DEF bytes
  <2> QED
    BY <1>2, <2>1
<1>4. PoolSound(pool)
  BY Typed
<1> HIDE DEF bytes
<1>5. Fine(u, Uses(pool), {})
  BY <1>2, <1>3, <1>4, NewMessageFine
<1> HIDE DEF u
<1> QED
  BY <1>1, <1>5, Made

LEMMA SetInfoKeeps ==
  ASSUME IInv, UNCHANGED buffer, NEW f \in Flows, NEW ask \in Asked, SetInfo(f, ask[1], ask[2])
  PROVE  IInv'
<1> DEFINE u == AddInfo(Mine(f), ask[1], ask[2])
<1>1. Plain(f) /\ Changes(f, u)
  BY Zenon DEF SetInfo
<1>2. ask[1] \in InfoTypes /\ ask[2] \in Nat \ {0}
  BY MessageSizes DEF MessageSizes
<1>3. \A K : Fine(Mine(f), K, {}) => Fine(u, K, {})
  BY <1>2, AddInfoFine
<1> HIDE DEF u
<1> QED
  BY <1>1, <1>3, Changed, PlainOne

LEMMA DropInfoKeeps ==
  ASSUME IInv, UNCHANGED buffer, NEW f \in Flows, NEW type, DropInfo(f, type)
  PROVE  IInv'
<1> DEFINE u == RemoveInfo(Mine(f), type)
<1>1. Plain(f) /\ Changes(f, u)
  BY Zenon DEF DropInfo
<1>2. \A K : Fine(Mine(f), K, {}) => Fine(u, K, {})
  BY RemoveInfoFine
<1> HIDE DEF u
<1> QED
  BY <1>1, <1>2, Changed, PlainOne

LEMMA TakeInfosKeeps ==
  ASSUME IInv, UNCHANGED buffer, NEW f \in Flows, NEW g \in Flows, TakeInfos(f, g)
  PROVE  IInv'
<1> DEFINE u == AppendInfos(Mine(f), hold[g][1].infos)
<1>1. Plain(f) /\ Plain(g) /\ Changes(f, u)
  BY Zenon DEF TakeInfos
<1>2. hold[g][1].infos \in Seq(Entries)
  <2>1. hold[g] \in Seq(Msgs) /\ Len(hold[g]) = 1
    BY <1>1, PlainOne, Typed
  <2>2. hold[g][1] \in Msgs
    BY <2>1
  <2> QED
    BY <2>2, MsgFields
<1>3. \A K : Fine(Mine(f), K, {}) => Fine(u, K, {})
  <2>1. {} \in SUBSET {0}
    OBVIOUS
  <2> QED
    BY <1>2, <2>1, AppendInfosFine
<1> HIDE DEF u
<1> QED
  BY <1>1, <1>3, Changed, PlainOne

LEMMA AddHeaderKeeps ==
  ASSUME IInv, UNCHANGED buffer, NEW f \in Flows, AddHeader(f)
  PROVE  IInv'
<1> DEFINE s == Mine(f)
           x == <<Proto>> \o s.m.packet
           y == Append(s.m.headers, Proto)
           t == [s EXCEPT !.m.packet = x]
           u == [t EXCEPT !.m.headers = y]
<1>1. Plain(f) /\ Changes(f, [s EXCEPT !.m.packet = <<Proto>> \o @, !.m.headers = Append(@, Proto)])
  BY Zenon DEF AddHeader
<1>2. ASSUME NEW K, Fine(s, K, {})
      PROVE  Fine(u, K, {})
  <2>1. s.m \in Msgs
    BY <1>2, FineIs
  <2>2. x \in Seq(Int) /\ y \in Seq(Int)
    <3>1. s.m.packet \in Seq(Int) /\ s.m.headers \in Seq(Int) /\ Proto \in Int
      BY <2>1, MsgFields DEF Proto
    <3> HIDE DEF s
    <3> QED
      BY <3>1
  <2> HIDE DEF s, x, y
  <2>3. Fine(t, K, {})
    BY <1>2, <2>2, FieldsSet
  <2> HIDE DEF t
  <2> QED
    BY <2>2, <2>3, FieldsSet
<1>3. [s EXCEPT !.m.packet = <<Proto>> \o @, !.m.headers = Append(@, Proto)] = u
  <2>1. s = [w |-> pool, m |-> hold[f][1]]
    BY DEF Mine
  <2> HIDE DEF s
  <2> QED
    BY <2>1
<1>4. Changes(f, u)
  BY <1>1, <1>3, Zenon
<1> HIDE DEF u
<1> QED
  BY <1>1, <1>2, <1>4, Changed, PlainOne

LEMMA RemoveHeaderKeeps ==
  ASSUME IInv, UNCHANGED buffer, NEW f \in Flows, RemoveHeader(f)
  PROVE  IInv'
<1> DEFINE s == Mine(f)
           m == hold[f][1]
           n == [m EXCEPT !.headers = Front(@)]
           k == ShrinkPacket(n, 1)
           u == [w |-> pool, m |-> k]
<1>1. Plain(f) /\ Changes(f, u)
  BY Zenon DEF RemoveHeader
<1>5. s = [w |-> pool, m |-> m]
  BY DEF Mine
<1> HIDE DEF s, m
<1>6. s.w = pool /\ s.m = m
  BY <1>5
<1>2. ASSUME NEW K, Fine(s, K, {})
      PROVE  Fine(u, K, {})
  <2>1. m \in Msgs /\ ~m.mt
    BY <1>2, <1>6, FineIs
  <2> DEFINE x == Front(m.headers)
  <2>2. x \in Seq(Int)
    <3>1. m.headers \in Seq(Int)
      BY <2>1, MsgFields
    <3>2. x = SubSeq(m.headers, 1, Len(m.headers) - 1)
      BY DEF Front
    <3>3. \A j \in 1 .. (Len(m.headers) - 1) : j \in 1 .. Len(m.headers)
      BY <3>1
    <3>4. SubSeq(m.headers, 1, Len(m.headers) - 1) \in Seq(Int)
      BY <3>1, <3>3
    <3> QED
      BY <3>2, <3>4
  <2>3. n = [m EXCEPT !.headers = x]
    OBVIOUS
  <2> HIDE DEF x, n
  <2>4. Same(m, n)
    BY <2>1, <2>2, <2>3, SameStorage DEF Same
  <2>5. Same(n, k)
    BY <2>4, Shrinks DEF Same
  <2> HIDE DEF k
  <2>6. Same(m, k)
    BY <2>4, <2>5 DEF Same
  <2>7. k \in Msgs /\ k.payload = s.m.payload /\ k.size = s.m.size /\ k.infos = s.m.infos /\ ~k.mt
    BY <1>6, <2>1, <2>6 DEF Same
  <2>8. u = [w |-> s.w, m |-> k]
    BY <1>6
  <2> HIDE DEF u
  <2> QED
    BY <1>2, <2>7, <2>8, FineChanged
<1> HIDE DEF u
<1> QED
  BY <1>1, <1>2, Changed, PlainOne DEF s

LEMMA SendKeeps ==
  ASSUME IInv, UNCHANGED buffer, NEW f \in Flows, Send(f)
  PROVE  IInv'
<1> DEFINE u == [Mine(f) EXCEPT !.m.sent = TRUE]
<1>1. Single(f) /\ Changes(f, u)
  BY Zenon DEF Send
<1>2. \A K : Fine(Mine(f), K, {}) => Fine(u, K, {})
  <2>1. TRUE \in BOOLEAN
    OBVIOUS
  <2> QED
    BY <2>1, FieldsSet
<1> HIDE DEF u
<1> QED
  BY <1>1, <1>2, Changed, PlainOne

LEMMA ArriveKeeps ==
  ASSUME IInv, UNCHANGED buffer, NEW f \in Flows, Arrive(f)
  PROVE  IInv'
<1> DEFINE u == [Mine(f) EXCEPT !.m.sent = FALSE]
<1>1. Len(hold[f]) = 1 /\ Changes(f, u)
  BY Zenon DEF Arrive
<1>2. \A K : Fine(Mine(f), K, {}) => Fine(u, K, {})
  <2>1. FALSE \in BOOLEAN
    OBVIOUS
  <2> QED
    BY <2>1, FieldsSet
<1> HIDE DEF u
<1> QED
  BY <1>1, <1>2, Changed

LEMMA CopyingKeeps ==
  ASSUME IInv, UNCHANGED buffer, NEW f \in Flows, NEW g \in Flows, Copying(f, g, FALSE)
  PROVE  IInv'
<1> DEFINE u == Dup(pool, hold[f][1])
<1>1. Single(f) /\ IsFree(g) /\ Changes(g, u)
  BY Zenon DEF Copying, Dup
<1>2. hold[f] \in Seq(Msgs) /\ Len(hold[f]) = 1 /\ Keeps(pool, Rest(f), hold[f]) /\ PoolSound(pool)
  BY <1>1, PlainOne, Typed
<1>3. hold[f][1] \in Range(hold[f])
  BY <1>2, RangeHas
<1>4. hold[f][1] \in Msgs /\ hold[f][1].size > 0
  BY <1>2, <1>3, HasPayload DEF Keeps
<1>5. Fine(u, Uses(pool), {})
  BY <1>2, <1>4, DupFine
<1> HIDE DEF u
<1> QED
  BY <1>1, <1>5, Made

LEMMA CuttingKeeps ==
  ASSUME IInv, UNCHANGED buffer, NEW f \in Flows, NEW unit \in FragUnits, Cutting(f, unit)
  PROVE  IInv'
<1> DEFINE m == hold[f][1]
           cut == FragmentPacket(pool, m, unit)
<1>1. Plain(f) /\ Holds(f, cut.w, cut.list)
  BY Zenon DEF Cutting
<1>2. /\ hold[f] \in Seq(Msgs) /\ Len(hold[f]) = 1 /\ buffer[f] = <<>>
      /\ Keeps(pool, Rest(f), hold[f])
  BY <1>1, PlainOne, Typed
<1>3. hold[f] = <<m>> /\ unit \in Nat \ {0}
  BY <1>2, MessageSizes DEF MessageSizes
<1> HIDE DEF m
<1>4. Keeps(cut.w, Rest(f), cut.list)
  BY <1>2, <1>3, CutKept
<1> HIDE DEF cut
<1> QED
  BY <1>1, <1>2, <1>4, Held

(* The list is what A and B are, one after the other.                       *)
LEMMA Glued ==
  ASSUME NEW S, NEW L \in Seq(S), NEW A \in Seq(S), NEW B \in Seq(S), NEW k \in Nat,
         Len(A) = k, Len(B) = Len(L) - k, k <= Len(L),
         \A i \in 1 .. k : A[i] = L[i],
         \A i \in 1 .. (Len(L) - k) : B[i] = L[k + i]
  PROVE  A \o B = L
<1>1. Len(L) \in Nat
  OBVIOUS
<1> DEFINE C == A \o B
<1>2. C \in Seq(S) /\ Len(C) = Len(A) + Len(B)
      /\ \A i \in 1 .. Len(A) + Len(B) : C[i] = IF i <= Len(A) THEN A[i] ELSE B[i - Len(A)]
  BY Joining
<1> HIDE DEF C
<1>3. Len(C) = Len(L) /\ \A i \in 1 .. Len(L) : C[i] = IF i <= k THEN A[i] ELSE B[i - k]
  BY <1>1, <1>2
<1>4. \A i \in 1 .. Len(L) : C[i] = L[i]
  <2> TAKE i \in 1 .. Len(L)
  <2>1. CASE i <= k
    BY <1>1, <1>3, <2>1
  <2>2. CASE ~(i <= k)
    <3>1. i - k \in 1 .. (Len(L) - k) /\ k + (i - k) = i
      BY <1>1, <2>2
    <3> QED
      BY <1>3, <2>2, <3>1
  <2> QED
    BY <2>1, <2>2
<1>5. C = L
  BY <1>2, <1>3, <1>4
<1> QED
  BY <1>5 DEF C

(* A list is its two parts.                                                 *)
LEMMA CutInTwo ==
  ASSUME NEW S, NEW L \in Seq(S), NEW k \in Nat, k <= Len(L)
  PROVE  LET A == SubSeq(L, 1, k)
             B == SubSeq(L, k + 1, Len(L))
         IN /\ A \in Seq(S) /\ B \in Seq(S) /\ Len(A) = k /\ Len(B) = Len(L) - k
            /\ \A i \in 1 .. (Len(L) - k) : B[i] = L[k + i]
            /\ A \o B = L
<1> DEFINE A == SubSeq(L, 1, k)
           B == SubSeq(L, k + 1, Len(L))
<1>1. Len(L) \in Nat /\ \A i \in 1 .. Len(L) : L[i] \in S
  OBVIOUS
<1>2. A \in Seq(S) /\ Len(A) = k /\ \A i \in 1 .. k : A[i] = L[i]
  BY <1>1
<1>3. B \in Seq(S) /\ Len(B) = Len(L) - k /\ \A i \in 1 .. (Len(L) - k) : B[i] = L[k + i]
  BY <1>1
<1> HIDE DEF A, B
<1>4. A \o B = L
  BY <1>2, <1>3, Glued
<1> QED
  BY <1>2, <1>3, <1>4 DEF A, B

LEMMA SplittingKeeps ==
  ASSUME IInv, UNCHANGED buffer, NEW f \in Flows, NEW unit \in FragUnits,
         NEW freeOriginal \in BOOLEAN, Splitting(f, unit, freeOriginal)
  PROVE  IInv'
<1> DEFINE L == hold[f]
           m == Last(L)
           A == Front(L)
           one == <<m>>
           O == Rest(f) \cup Range(A)
           cut == SplitPacket(pool, m, unit, freeOriginal)
           v == IF freeOriginal THEN cut.w ELSE Free(cut.w, m)
<1>1. Ready(f) /\ Holds(f, v, A \o cut.list)
  BY Zenon DEF Splitting
<1>2. L \in Seq(Msgs) /\ L # <<>> /\ buffer[f] = <<>> /\ Keeps(pool, Rest(f), L)
  BY <1>1, PlainOne, Typed
<1>3. unit \in Nat
  BY MessageSizes DEF MessageSizes
<1> HIDE DEF L
<1>4. m \in Msgs /\ A \in Seq(Msgs) /\ one \in Seq(Msgs) /\ L = A \o one
  <2> DEFINE k == Len(L) - 1
             B == SubSeq(L, k + 1, Len(L))
  <2>1. k \in Nat /\ k <= Len(L) /\ k + 1 = Len(L) /\ Len(L) - k = 1
    BY <1>2
  <2>2. m = L[k + 1] /\ A = SubSeq(L, 1, k)
    BY <2>1 DEF Last, Front
  <2> HIDE DEF k, A, m
  <2>3. /\ A \in Seq(Msgs) /\ B \in Seq(Msgs) /\ Len(B) = 1 /\ A \o B = L
        /\ \A i \in 1 .. 1 : B[i] = L[k + i]
    <3>1. /\ SubSeq(L, 1, k) \in Seq(Msgs) /\ B \in Seq(Msgs)
          /\ Len(B) = Len(L) - k /\ SubSeq(L, 1, k) \o B = L
          /\ \A i \in 1 .. (Len(L) - k) : B[i] = L[k + i]
      BY <1>2, <2>1, CutInTwo
    <3> HIDE DEF B
    <3> QED
      BY <2>1, <2>2, <3>1
  <2> HIDE DEF B
  <2>4. B[1] = m /\ m \in Msgs
    BY <1>2, <2>1, <2>2, <2>3
  <2>5. B = one
    BY <2>3, <2>4
  <2> HIDE DEF one
  <2> QED
    BY <2>3, <2>4, <2>5
<1> HIDE DEF A, m
<1>5. Apart(Rest(f), A) /\ Keeps(pool, O, one)
  BY <1>2, <1>4, KeepsBoth
<1>6. Keeps(v, O, cut.list)
  <2>1. one = <<m>>
    OBVIOUS
  <2> HIDE DEF one, O
  <2> QED
    BY <1>3, <1>5, <2>1, SplitKept
<1> HIDE DEF v, cut
<1>7. cut.list \in Seq(Msgs)
  BY <1>6 DEF Keeps, Apart
<1>8. Keeps(v, Rest(f), A \o cut.list)
  BY <1>4, <1>5, <1>6, <1>7, KeepsBoth
<1> QED
  BY <1>1, <1>2, <1>8, Held

LEMMA JoinAllKeeps ==
  ASSUME IInv, UNCHANGED buffer, NEW f \in Flows, JoinAll(f)
  PROVE  IInv'
<1> DEFINE L == hold[f]
           new == Reassemble(pool, L)
           v == FreeList(new.w, L)
           one == <<new.m>>
<1>1. Ready(f) /\ Holds(f, v, one)
  BY Zenon DEF JoinAll
<1>2. L # <<>> /\ buffer[f] = <<>> /\ Keeps(pool, Rest(f), L)
  BY <1>1, PlainOne, Typed
<1> HIDE DEF L
<1>3. Keeps(v, Rest(f), one)
  BY <1>2, JoinKept
<1> HIDE DEF v, one
<1> QED
  BY <1>1, <1>2, <1>3, Held

LEMMA JoinTwoKeeps ==
  ASSUME IInv, UNCHANGED buffer, NEW f \in Flows, JoinTwo(f)
  PROVE  IInv'
<1> DEFINE L == hold[f]
           two == SubSeq(L, 1, 2)
           B == SubSeq(L, 3, Len(L))
           O == Rest(f) \cup Range(B)
           new == Reassemble(pool, two)
           v == FreeList(new.w, two)
           one == <<new.m>>
<1>1. Ready(f) /\ Len(L) > 1 /\ Holds(f, v, one \o B)
  BY Zenon DEF JoinTwo
<1>2. L \in Seq(Msgs) /\ buffer[f] = <<>> /\ Keeps(pool, Rest(f), L)
  BY <1>1, PlainOne, Typed
<1> HIDE DEF L
<1>3. two \in Seq(Msgs) /\ two # <<>> /\ B \in Seq(Msgs) /\ L = two \o B
  <2>1. 2 \in Nat /\ 2 <= Len(L) /\ 2 + 1 = 3
    BY <1>1, <1>2
  <2>2. two \in Seq(Msgs) /\ Len(two) = 2 /\ B \in Seq(Msgs) /\ two \o B = L
    BY <1>2, <2>1, CutInTwo
  <2> HIDE DEF two, B
  <2>3. Len(<<>>) = 0
    OBVIOUS
  <2>5. Len(two) # 0
    BY <2>2
  <2>4. two # <<>>
    BY <2>3, <2>5, Zenon
  <2> QED
    BY <2>2, <2>4
<1> HIDE DEF two, B
<1>4. Apart(Rest(f), B) /\ Keeps(pool, O, two)
  BY <1>2, <1>3, KeepsBoth
<1>5. Keeps(v, O, one)
  <2> HIDE DEF O
  <2> QED
    BY <1>3, <1>4, JoinKept
<1> HIDE DEF v, one
<1>6. one \in Seq(Msgs)
  BY <1>5 DEF Keeps, Apart
<1>7. Keeps(v, Rest(f), one \o B)
  BY <1>3, <1>4, <1>5, <1>6, KeepsBoth
<1> QED
  BY <1>1, <1>2, <1>7, Held

LEMMA PackingKeeps ==
  ASSUME IInv, UNCHANGED buffer, NEW f \in Flows, Packing(f)
  PROVE  IInv'
<1> DEFINE new == PackMessage(pool, hold[f])
           one == <<new.m>>
<1>1. Ready(f) /\ Holds(f, new.w, one)
  BY Zenon DEF Packing, Changes
<1>2. buffer[f] = <<>> /\ Keeps(pool, Rest(f), hold[f])
  BY <1>1, PlainOne, Typed
<1>3. Keeps(new.w, Rest(f), one)
  BY <1>2, PackKept
<1> HIDE DEF new, one
<1> QED
  BY <1>1, <1>2, <1>3, Held

LEMMA UnpackingKeeps ==
  ASSUME IInv, UNCHANGED buffer, NEW f \in Flows, Unpacking(f)
  PROVE  IInv'
<1> DEFINE m == hold[f][1]
           out == UnpackMessage(pool, m)
<1>1. Single(f) /\ Holds(f, out.w, out.list)
  BY Zenon DEF Unpacking
<1>2. /\ hold[f] \in Seq(Msgs) /\ Len(hold[f]) = 1 /\ buffer[f] = <<>>
      /\ Keeps(pool, Rest(f), hold[f])
  BY <1>1, PlainOne, Typed
<1>3. hold[f] = <<m>>
  BY <1>2
<1> HIDE DEF m
<1>4. Keeps(out.w, Rest(f), out.list)
  BY <1>2, <1>3, UnpackKept
<1> HIDE DEF out
<1> QED
  BY <1>1, <1>2, <1>4, Held

LEMMA FreeFlowKeeps ==
  ASSUME IInv, UNCHANGED buffer, NEW f \in Flows, FreeFlow(f)
  PROVE  IInv'
<1> DEFINE v == FreeList(pool, hold[f])
<1>1. Ready(f) /\ Holds(f, v, <<>>)
  BY Zenon DEF FreeFlow
<1>2. buffer[f] = <<>> /\ Keeps(pool, Rest(f), hold[f])
  BY <1>1, PlainOne, Typed
<1>3. Sound(v, Rest(f))
  BY <1>2, FreeListKept
<1> HIDE DEF v
<1>4. Keeps(v, Rest(f), <<>>)
  BY <1>3, KeepsNone
<1> QED
  BY <1>1, <1>2, <1>4, Held

(* The queue has no message of a flow that is ready.                        *)
LEMMA NoneQueued ==
  ASSUME IInv, NEW f \in Flows, Queued(f) = <<>>
  PROVE  \A i \in DOMAIN queue : queue[i].f # f
<1>1. queue \in Seq(Slots) /\ \A i, j \in DOMAIN queue : queue[i].m = queue[j].m => i = j
  BY DEF IInv, Custody, Shape
<1>2. DOMAIN Queued(f) = {}
  OBVIOUS
<1> QED
  BY <1>1, <1>2, QueuedIs

(* The actions that move messages into a string and out of it.              *)
LEMMA StoringKeeps ==
  ASSUME IInv, NEW f \in Flows, Storing(f)
  PROVE  IInv'
<1> DEFINE v == FreeList(pool, hold[f])
           s == SerializeMsgList(hold[f])
<1>1. Ready(f) /\ buffer' = [buffer EXCEPT ![f] = s] /\ Holds(f, v, <<>>)
  BY Zenon DEF Storing
<1>2. hold[f] \in Seq(Msgs) /\ Keeps(pool, Rest(f), hold[f]) /\ buffer \in [Flows -> Seq(Items)]
  BY Typed
<1>3. Sound(v, Rest(f))
  BY <1>2, FreeListKept
<1>4. s \in Seq(Items)
  <2>1. \A i \in DOMAIN hold[f] : Serialize(hold[f][i]) \in Items
    <3> TAKE i \in DOMAIN hold[f]
    <3>1. hold[f][i] \in Range(hold[f])
      BY RangeHas
    <3>2. hold[f][i] \in Msgs /\ hold[f][i].size > 0
      BY <1>2, <3>1, HasPayload DEF Keeps
    <3> QED
      BY <3>2, SerializeType
  <2>2. DOMAIN hold[f] = 1 .. Len(hold[f]) /\ Len(hold[f]) \in Nat
    BY <1>2
  <2>3. s = [i \in DOMAIN hold[f] |-> Serialize(hold[f][i])]
    BY DEF SerializeMsgList
  <2>4. s \in [1 .. Len(hold[f]) -> Items]
    BY <2>1, <2>2, <2>3
  <2> HIDE DEF s
  <2> QED
    BY <2>2, <2>4
<1> HIDE DEF v, s
<1>5. Keeps(v, Rest(f), <<>>)
  BY <1>3, KeepsNone
<1>6. /\ Custody' /\ EarliestIsLeast' /\ queue' = queue
      /\ hold'[f] = <<>> /\ \A e \in Flows \ {f} : hold'[e] = hold[e]
  BY <1>1, <1>5, HeldCustody
<1>7. \A i \in DOMAIN queue : queue[i].f # f
  BY <1>1, NoneQueued DEF Ready
<1>8. buffer' \in [Flows -> Seq(Items)] /\ \A e \in Flows \ {f} : buffer'[e] = buffer[e]
  BY <1>1, <1>2, <1>4
<1>9. Strings'
  BY <1>6, <1>7, <1>8 DEF IInv, Strings
<1> QED
  BY <1>6, <1>9 DEF IInv

LEMMA RestoringKeeps ==
  ASSUME IInv, NEW f \in Flows, Restoring(f)
  PROVE  IInv'
<1> DEFINE out == UnserializeMsgList(pool, buffer[f])
<1>1. buffer[f] # <<>> /\ buffer' = [buffer EXCEPT ![f] = <<>>] /\ Holds(f, out.w, out.list)
  BY Zenon DEF Restoring
<1>2. hold[f] = <<>> /\ Keeps(pool, Rest(f), hold[f]) /\ buffer \in [Flows -> Seq(Items)] /\ buffer[f] \in Seq(Items)
  BY <1>1, Typed DEF IInv, Strings
<1>3. Sound(pool, Rest(f))
  BY <1>2, KeepsNone
<1>4. Keeps(out.w, Rest(f), out.list)
  BY <1>2, <1>3, RestoreKept
<1> HIDE DEF out
<1>5. /\ Custody' /\ EarliestIsLeast' /\ queue' = queue
      /\ \A e \in Flows \ {f} : hold'[e] = hold[e]
  BY <1>1, <1>4, HeldCustody
<1>6. <<>> \in Seq(Items)
  OBVIOUS
<1>7. /\ buffer' \in [Flows -> Seq(Items)] /\ buffer'[f] = <<>>
      /\ \A e \in Flows \ {f} : buffer'[e] = buffer[e]
  BY <1>1, <1>2, <1>6
<1>8. Strings'
  BY <1>5, <1>7 DEF IInv, Strings
<1> QED
  BY <1>5, <1>8 DEF IInv

(* The least of a set of times.                                             *)
LEMMA MinHas ==
  ASSUME NEW T \in SUBSET Nat, T # {}
  PROVE  Min(T) \in T /\ \A y \in T : Min(T) <= y
<1>1. \E x \in T : \A y \in T : x <= y
  BY Least, Zenon
<1> QED
  BY <1>1, Zenon DEF Min

LEMMA MinIs ==
  ASSUME NEW T \in SUBSET Nat, NEW x \in T, \A y \in T : x <= y
  PROVE  Min(T) = x
<1>1. Min(T) \in T /\ \A y \in T : Min(T) <= y
  BY MinHas
<1>2. Min(T) <= x /\ x <= Min(T) /\ x \in Nat /\ Min(T) \in Nat
  BY <1>1
<1> QED
  BY <1>2

(* The times in the queue.                                                  *)
LEMMA Times ==
  ASSUME NEW q \in Seq(Slots)
  PROVE  {Never} \cup TimesOf(q) \in SUBSET Nat /\ TimesOf(q) \in SUBSET (0 .. Never) /\ Never \in Nat
<1>1. \A i \in DOMAIN q : q[i] \in Slots
  OBVIOUS
<1>2. \A i \in DOMAIN q : q[i].time \in 0 .. Never
  BY <1>1 DEF Slots
<1>3. Never \in Nat
  BY MessageSizes DEF MessageSizes
<1> QED
  BY <1>2, <1>3 DEF TimesOf

(* The earliest time, of the queue as it is.                                *)
LEMMA EarliestHas ==
  ASSUME IInv
  PROVE  /\ earliest \in {Never} \cup TimesOf(queue)
         /\ \A y \in {Never} \cup TimesOf(queue) : earliest <= y
         /\ earliest \in Nat
<1> DEFINE T == {Never} \cup TimesOf(queue)
<1>1. queue \in Seq(Slots) /\ earliest = Min(T)
  BY DEF IInv, Custody, Shape, EarliestIsLeast
<1>2. T \in SUBSET Nat /\ T # {}
  BY <1>1, Times
<1> HIDE DEF T
<1>3. Min(T) \in T /\ \A y \in T : Min(T) <= y
  BY <1>2, MinHas
<1> QED
  BY <1>1, <1>2, <1>3 DEF T

(* Which messages there are.                                                *)
LEMMA MembersIs ==
  ASSUME NEW h, NEW q
  PROVE  \A x : x \in Members(h, q) <=>
                  \/ \E g \in Flows : \E i \in DOMAIN h[g] : h[g][i] = x
                  \/ \E i \in DOMAIN q : q[i].m = x
<1>1. \A x : x \in Waiting(q) <=> \E i \in DOMAIN q : q[i].m = x
  BY DEF Waiting
<1>2. \A x : x \in UNION {Range(h[g]) : g \in Flows} <=> \E g \in Flows : x \in Range(h[g])
  BY Zenon
<1>3. \A x : x \in Members(h, q) <=>
               \/ \E g \in Flows : x \in Range(h[g])
               \/ \E i \in DOMAIN q : q[i].m = x
  BY <1>1, <1>2, Zenon DEF Members
<1>4. \A g, x : x \in Range(h[g]) <=> \E i \in DOMAIN h[g] : h[g][i] = x
  BY RangeHas
<1> QED
  BY <1>3, <1>4

LEMMA SameMembers ==
  ASSUME NEW g, NEW q, NEW h, NEW r,
         \A x : (\/ \E e \in Flows : \E i \in DOMAIN g[e] : g[e][i] = x
                \/ \E i \in DOMAIN q : q[i].m = x) <=>
              (\/ \E e \in Flows : \E i \in DOMAIN h[e] : h[e][i] = x
               \/ \E i \in DOMAIN r : r[i].m = x)
  PROVE  Members(g, q) = Members(h, r)
<1>1. \A x : x \in Members(g, q) <=>
                  \/ \E e \in Flows : \E i \in DOMAIN g[e] : g[e][i] = x
                  \/ \E i \in DOMAIN q : q[i].m = x
  BY MembersIs
<1>2. \A x : x \in Members(h, r) <=>
                  \/ \E e \in Flows : \E i \in DOMAIN h[e] : h[e][i] = x
                  \/ \E i \in DOMAIN r : r[i].m = x
  BY MembersIs
<1>3. \A x : x \in Members(g, q) <=> x \in Members(h, r)
  BY <1>1, <1>2
<1> QED
  BY <1>3, Zenon

(* The times of a chain.                                                    *)
LEMMA DueTimes ==
  ASSUME NEW due \in Dues
  PROVE  /\ Len(due) \in Nat /\ DOMAIN due = 1 .. Len(due)
         /\ \A i \in 1 .. Len(due) : due[i] \in 0 .. Never
<1> DEFINE T == 0 .. Never
<1>1. due \in Seq(T)
  BY MessageSizes DEF MessageSizes
<1> HIDE DEF T
<1>2. Len(due) \in Nat /\ DOMAIN due = 1 .. Len(due) /\ \A i \in 1 .. Len(due) : due[i] \in T
  BY <1>1
<1> QED
  BY <1>2 DEF T

(* MessageQueue::enqueue.                                                   *)
LEMMA EnqueueKeeps ==
  ASSUME IInv, UNCHANGED buffer, NEW f \in Flows, NEW due \in Dues, Enqueue(f, due)
  PROVE  IInv'
<1> DEFINE h == hold[f]
           n == Len(h)
           c == Len(queue)
           S == [i \in DOMAIN h |-> [m |-> h[i], f |-> f, time |-> due[i]]]
           q == queue \o S
           g == [hold EXCEPT ![f] = <<>>]
           D == {due[i] : i \in DOMAIN h}
<1>1. /\ Ready(f) /\ n <= Len(due) /\ hold' = g /\ queue' = q
      /\ earliest' = Min({earliest} \cup D) /\ pool' = pool
  BY Zenon DEF Enqueue
<1>2. /\ hold \in [Flows -> Seq(Msgs)] /\ h \in Seq(Msgs) /\ queue \in Seq(Slots)
      /\ buffer[f] = <<>> /\ c \in Nat /\ DOMAIN queue = 1 .. c
  BY <1>1, PlainOne, Typed
<1>3. n \in Nat /\ DOMAIN h = 1 .. n /\ \A i \in 1 .. n : h[i] \in Msgs
  <2> HIDE DEF h
  <2> QED
    BY <1>2
<1>4. \A i \in 1 .. n : due[i] \in 0 .. Never
  <2>1. n \in Nat /\ n <= Len(due)
    BY <1>1, <1>3
  <2> HIDE DEF h, n
  <2> QED
    BY <2>1, DueTimes
<1>5. /\ \A f1, g1 \in Flows : \A i \in DOMAIN hold[f1], j \in DOMAIN hold[g1] : hold[f1][i] = hold[g1][j] => f1 = g1 /\ i = j
      /\ \A i, j \in 1 .. c : queue[i].m = queue[j].m => i = j
      /\ \A f1 \in Flows : \A i \in DOMAIN hold[f1], j \in 1 .. c : hold[f1][i] # queue[j].m
  <2>1. Shape(hold, queue) /\ DOMAIN queue = 1 .. c
    BY <1>2 DEF IInv, Custody
  <2> HIDE DEF h, n, c, S, q, g, D
  <2> QED
    BY <2>1 DEF Shape
<1> HIDE DEF n, c
<1>6. /\ S \in Seq(Slots) /\ Len(S) = n
      /\ \A i \in 1 .. n : S[i].m = h[i] /\ S[i].f = f /\ S[i].time = due[i]
  <2>1. \A i \in 1 .. n : [m |-> h[i], f |-> f, time |-> due[i]] \in Slots
    BY <1>3, <1>4 DEF Slots
  <2>2. S \in [1 .. n -> Slots]
    BY <1>3, <2>1
  <2>3. \A i \in 1 .. n : S[i] = [m |-> h[i], f |-> f, time |-> due[i]]
    BY <1>3
  <2> HIDE DEF S, h
  <2>4. S \in Seq(Slots) /\ Len(S) = n
    BY <1>3, <2>2
  <2> QED
    BY <2>3, <2>4
<1> HIDE DEF S
<1>7. /\ q \in Seq(Slots) /\ DOMAIN q = 1 .. (c + n)
      /\ \A k \in 1 .. (c + n) : q[k] = IF k <= c THEN queue[k] ELSE S[k - c]
  <2>1. q \in Seq(Slots) /\ Len(q) = c + n
    BY <1>2, <1>6, Joining DEF c
  <2>2. \A k \in 1 .. (c + n) : q[k] = IF k <= c THEN queue[k] ELSE S[k - c]
    BY <1>2, <1>6, Joining DEF c
  <2> HIDE DEF q
  <2> QED
    BY <1>2, <1>3, <2>1, <2>2
<1> HIDE DEF q
<1>8. /\ \A k \in 1 .. c : k \in 1 .. (c + n) /\ q[k] = queue[k]
      /\ \A k \in 1 .. n : c + k \in 1 .. (c + n) /\ q[c + k].m = h[k] /\ q[c + k].f = f /\ q[c + k].time = due[k]
      /\ \A k \in 1 .. (c + n) : k \in 1 .. c \/ (k - c \in 1 .. n /\ c + (k - c) = k)
  BY <1>2, <1>3, <1>6, <1>7
<1>9. g \in [Flows -> Seq(Msgs)] /\ g[f] = <<>> /\ \A e \in Flows \ {f} : g[e] = hold[e]
  <2>1. <<>> \in Seq(Msgs)
    OBVIOUS
  <2> QED
    BY <1>2, <2>1
<1>10. \A e \in Flows : \A i \in DOMAIN g[e] : e # f /\ g[e] = hold[e] /\ i \in DOMAIN hold[e]
  <2>1. DOMAIN <<>> = {}
    OBVIOUS
  <2> QED
    BY <1>9, <2>1
<1> HIDE DEF g
<1>11. \A i, j \in 1 .. (c + n) : q[i].m = q[j].m => i = j
  <2> SUFFICES ASSUME NEW i \in 1 .. (c + n), NEW j \in 1 .. (c + n), q[i].m = q[j].m
               PROVE  i = j
    OBVIOUS
  <2>1. CASE i \in 1 .. c /\ j \in 1 .. c
    BY <1>5, <1>8, <2>1
  <2>2. CASE i \in 1 .. c /\ j - c \in 1 .. n /\ c + (j - c) = j
    BY <1>3, <1>5, <1>8, <2>2
  <2>3. CASE j \in 1 .. c /\ i - c \in 1 .. n /\ c + (i - c) = i
    BY <1>3, <1>5, <1>8, <2>3
  <2>4. CASE i - c \in 1 .. n /\ c + (i - c) = i /\ j - c \in 1 .. n /\ c + (j - c) = j
    <3>1. i - c = j - c
      BY <1>3, <1>5, <1>8, <2>4
    <3> QED
      BY <2>4, <3>1
  <2> QED
    BY <1>8, <2>1, <2>2, <2>3, <2>4
<1>12. \A e \in Flows : \A i \in DOMAIN g[e], j \in 1 .. (c + n) : g[e][i] # q[j].m
  <2> SUFFICES ASSUME NEW e \in Flows, NEW i \in DOMAIN g[e], NEW j \in 1 .. (c + n)
               PROVE  g[e][i] # q[j].m
    OBVIOUS
  <2>1. e # f /\ g[e] = hold[e] /\ i \in DOMAIN hold[e]
    BY <1>10
  <2>2. CASE j \in 1 .. c
    BY <1>5, <1>8, <2>1, <2>2
  <2>3. CASE j - c \in 1 .. n /\ c + (j - c) = j
    BY <1>3, <1>5, <1>8, <2>1, <2>3
  <2> QED
    BY <1>8, <2>2, <2>3
<1>13. Shape(g, q)
  BY <1>5, <1>7, <1>9, <1>10, <1>11, <1>12 DEF Shape
<1>14. \A x : (\/ \E e \in Flows : \E i \in DOMAIN g[e] : g[e][i] = x
             \/ \E i \in DOMAIN q : q[i].m = x) <=>
             (\/ \E e \in Flows : \E i \in DOMAIN hold[e] : hold[e][i] = x
              \/ \E i \in DOMAIN queue : queue[i].m = x)
  <2>1. \A x : (\E i \in DOMAIN q : q[i].m = x) <=>
               (\E i \in 1 .. c : queue[i].m = x) \/ (\E i \in 1 .. n : h[i] = x)
    BY <1>7, <1>8
  <2>2. \A x : (\E e \in Flows : \E i \in DOMAIN hold[e] : hold[e][i] = x) <=>
               (\E e \in Flows : \E i \in DOMAIN g[e] : g[e][i] = x) \/ (\E i \in 1 .. n : h[i] = x)
    BY <1>3, <1>9, <1>10
  <2>3. \A x : (\E i \in DOMAIN queue : queue[i].m = x) <=> (\E i \in 1 .. c : queue[i].m = x)
    BY <1>2
  <2> QED
    BY <2>1, <2>2, <2>3
<1>15. Custody'
  <2>1. Members(g, q) = Members(hold, queue)
    BY <1>14, SameMembers
  <2>2. Sound(pool, Members(g, q))
    BY <2>1, Zenon DEF IInv, Custody
  <2> QED
    BY <1>1, <1>13, <2>2, Zenon DEF Custody
<1>16. Strings'
  <2>1. \A e \in Flows : buffer[e] # <<>> => e # f /\ g[e] = <<>> /\ \A i \in 1 .. c : queue[i].f # e
    BY <1>2, <1>9 DEF IInv, Strings
  <2>2. \A e \in Flows : buffer[e] # <<>> => g[e] = <<>> /\ \A i \in DOMAIN q : q[i].f # e
    BY <1>7, <1>8, <2>1
  <2> QED
    BY <1>1, <2>2 DEF IInv, Strings
<1>17. EarliestIsLeast'
  <2> DEFINE T == {Never} \cup TimesOf(queue)
             a == earliest
             b == Min({a} \cup D)
  <2>1. a \in T /\ a \in Nat /\ \A y \in T : a <= y
    BY EarliestHas
  <2>2. D \in SUBSET Nat /\ \A y : y \in D <=> \E i \in 1 .. n : due[i] = y
    BY <1>3, <1>4
  <2> HIDE DEF D
  <2>3. b \in {a} \cup D /\ \A y \in {a} \cup D : b <= y
    <3>1. {a} \cup D \in SUBSET Nat /\ {a} \cup D # {}
      BY <2>1, <2>2
    <3> QED
      BY <3>1, MinHas
  <2>4. {Never} \cup TimesOf(q) = T \cup D
    <3>1. \A y : y \in TimesOf(q) <=> \E i \in 1 .. (c + n) : q[i].time = y
      BY <1>7 DEF TimesOf
    <3>2. \A y : y \in TimesOf(queue) <=> \E i \in 1 .. c : queue[i].time = y
      BY <1>2 DEF TimesOf
    <3>3. \A y : y \in TimesOf(q) <=> y \in TimesOf(queue) \/ y \in D
      BY <1>8, <2>2, <3>1, <3>2
    <3> QED
      BY <3>3
  <2> HIDE DEF T, a, b
  <2>5. b \in T \cup D /\ \A y \in T \cup D : b <= y
    <3>1. T \in SUBSET Nat
      BY <1>2, Times DEF T
    <3>2. b \in Nat /\ b <= a
      BY <2>1, <2>2, <2>3
    <3>3. ASSUME NEW y \in T
          PROVE  b <= y
      BY <2>1, <3>1, <3>2
    <3> QED
      BY <2>1, <2>3, <3>3
  <2>6. T \cup D \in SUBSET Nat
    BY <1>2, <2>2, Times DEF T
  <2>7. Min(T \cup D) = b
    BY <2>5, <2>6, MinIs
  <2>8. earliest' = b /\ Min({Never} \cup TimesOf(q)) = b
    BY <1>1, <2>4, <2>7 DEF a, b
  <2> QED
    BY <1>1, <2>8, Zenon DEF EarliestIsLeast
<1> QED
  BY <1>15, <1>16, <1>17 DEF IInv

(* What is first in a queue, and the rest of it.                            *)
LEMMA QueueOpens ==
  ASSUME NEW c \in Nat, NEW q \in Seq(Slots), Len(q) = c, q # <<>>
  PROVE  /\ c >= 1 /\ Head(q) = q[1] /\ q[1] \in Slots
         /\ Tail(q) \in Seq(Slots) /\ DOMAIN Tail(q) = 1 .. (c - 1)
         /\ \A k \in 1 .. (c - 1) : k + 1 \in 1 .. c /\ Tail(q)[k] = q[k + 1]
         /\ \A k \in 1 .. c : k = 1 \/ (k - 1 \in 1 .. (c - 1) /\ q[k] = Tail(q)[k - 1])
  OBVIOUS

LEMMA TimesIs ==
  ASSUME NEW q
  PROVE  \A y : y \in TimesOf(q) <=> \E i \in DOMAIN q : q[i].time = y
BY DEF TimesOf

(* The earliest time once the head has gone.                                *)
LEMMA LeastLeft ==
  ASSUME IInv, NEW r \in Seq(Slots), NEW t \in Nat, NEW e,
         TimesOf(queue) = {t} \cup TimesOf(r),
         r = <<>> => e = Never,
         r # <<>> => e = IF t = earliest THEN Min(TimesOf(r)) ELSE earliest
  PROVE  e = Min({Never} \cup TimesOf(r))
<1> DEFINE T == {Never} \cup TimesOf(r)
<1>1. /\ TimesOf(r) \in SUBSET (0 .. Never) /\ TimesOf(r) \in SUBSET Nat /\ T \in SUBSET Nat /\ Never \in Nat
      /\ \A y \in TimesOf(r) : y <= Never
  BY Times
<1>2. /\ earliest \in {Never, t} \cup TimesOf(r) /\ earliest \in Nat
      /\ \A y \in {Never, t} \cup TimesOf(r) : earliest <= y
  BY EarliestHas
<1>3. Never \in T
  OBVIOUS
<1>4. CASE r = <<>>
  <2>1. DOMAIN <<>> = {}
    OBVIOUS
  <2>2. \A y : y \notin TimesOf(r)
    BY <1>4, <2>1, TimesIs
  <2>3. \A y \in T : Never <= y
    BY <1>1, <2>2
  <2> HIDE DEF T
  <2>4. Min(T) = Never
    BY <1>1, <1>3, <2>3, MinIs
  <2> QED
    BY <1>4, <2>4 DEF T
<1>5. CASE r # <<>> /\ t = earliest
  <2>1. \E y : y \in TimesOf(r)
    <3>1. 1 \in DOMAIN r
      BY <1>5
    <3> QED
      BY <3>1, TimesIs
  <2> DEFINE b == Min(TimesOf(r))
  <2>2. b \in TimesOf(r) /\ \A y \in TimesOf(r) : b <= y
    BY <1>1, <2>1, MinHas
  <2>3. e = b
    BY <1>5
  <2> HIDE DEF b
  <2>4. b \in T /\ \A y \in T : b <= y
    BY <1>1, <2>2
  <2> HIDE DEF T
  <2>5. Min(T) = b
    BY <1>1, <2>4, MinIs
  <2> QED
    BY <2>3, <2>5 DEF T
<1>6. CASE r # <<>> /\ t # earliest
  <2>1. e = earliest
    BY <1>6
  <2>2. earliest \in T /\ \A y \in T : earliest <= y
    BY <1>2, <1>6
  <2> HIDE DEF T
  <2>3. Min(T) = earliest
    BY <1>1, <2>2, MinIs
  <2> QED
    BY <2>1, <2>3 DEF T
<1> QED
  BY <1>4, <1>5, <1>6

(* MessageQueue::dequeue.                                                   *)
LEMMA DequeueKeeps ==
  ASSUME IInv, UNCHANGED buffer, Dequeue
  PROVE  IInv'
<1> DEFINE c == Len(queue)
           r == Tail(queue)
           s == queue[1]
           f == s.f
           x == s.m
           h == hold[f]
           n == Len(h)
           g == [hold EXCEPT ![f] = Append(h, x)]
<1>1. /\ hold \in [Flows -> Seq(Msgs)] /\ queue \in Seq(Slots) /\ queue # <<>>
  BY DEF IInv, Custody, Shape, Dequeue
<1>2. /\ c \in Nat /\ DOMAIN queue = 1 .. c /\ c >= 1 /\ 1 \in 1 .. c
      /\ Head(queue) = s /\ s \in Slots
      /\ r \in Seq(Slots) /\ DOMAIN r = 1 .. (c - 1)
      /\ \A k \in 1 .. (c - 1) : k + 1 \in 1 .. c /\ r[k] = queue[k + 1]
      /\ \A k \in 1 .. c : k = 1 \/ (k - 1 \in 1 .. (c - 1) /\ queue[k] = r[k - 1])
  <2>1. c \in Nat /\ DOMAIN queue = 1 .. c
    BY <1>1
  <2>2. c >= 1 /\ 1 \in 1 .. c
    BY <1>1, <2>1
  <2> HIDE DEF c
  <2> QED
    BY <1>1, <2>1, <2>2, QueueOpens DEF c
<1>3. f \in Flows /\ x \in Msgs /\ s.time \in 0 .. Never
  BY <1>2 DEF Slots
<1>4. /\ hold' = g /\ queue' = r /\ pool' = pool
      /\ earliest' = IF r = <<>> THEN Never
                     ELSE IF s.time = earliest THEN Min(TimesOf(r)) ELSE earliest
  BY <1>2, Zenon DEF Dequeue
<1>5. /\ \A f1, g1 \in Flows : \A i \in DOMAIN hold[f1], j \in DOMAIN hold[g1] : hold[f1][i] = hold[g1][j] => f1 = g1 /\ i = j
      /\ \A i, j \in 1 .. c : queue[i].m = queue[j].m => i = j
      /\ \A f1 \in Flows : \A i \in DOMAIN hold[f1], j \in 1 .. c : hold[f1][i] # queue[j].m
  BY <1>2 DEF IInv, Custody, Shape
<1>6. h \in Seq(Msgs) /\ n \in Nat /\ DOMAIN h = 1 .. n
  BY <1>1, <1>3
<1>7. /\ Append(h, x) \in Seq(Msgs) /\ DOMAIN Append(h, x) = 1 .. (n + 1)
      /\ \A i \in 1 .. n : Append(h, x)[i] = h[i]
      /\ Append(h, x)[n + 1] = x
  <2> HIDE DEF h, x
  <2> QED
    BY <1>3, <1>6
<1>8. /\ g \in [Flows -> Seq(Msgs)] /\ g[f] = Append(h, x)
      /\ \A e \in Flows \ {f} : g[e] = hold[e]
  BY <1>1, <1>3, <1>7
<1>9. /\ DOMAIN g[f] = 1 .. (n + 1) /\ DOMAIN hold[f] = 1 .. n
      /\ \A i \in 1 .. n : g[f][i] = hold[f][i]
      /\ g[f][n + 1] = x
  BY <1>6, <1>7, <1>8
<1>10. x = queue[1].m /\ f = queue[1].f
  OBVIOUS
<1> HIDE DEF g, r, s, c, n, f, x
(* A message of a flow is what the flow held there, or what it was given.   *)
<1>11. \A e \in Flows : \A i \in DOMAIN g[e] :
         \/ i \in DOMAIN hold[e] /\ g[e][i] = hold[e][i]
         \/ e = f /\ i = n + 1 /\ g[e][i] = x
  BY <1>6, <1>8, <1>9
<1>12. \A e \in Flows : \A i \in DOMAIN hold[e] : hold[e][i] # x
  BY <1>2, <1>5, <1>10
<1>13. \A e \in Flows : \A i \in DOMAIN hold[e] : i \in DOMAIN g[e] /\ g[e][i] = hold[e][i]
  <2> SUFFICES ASSUME NEW e \in Flows, NEW i \in DOMAIN hold[e]
               PROVE  i \in DOMAIN g[e] /\ g[e][i] = hold[e][i]
    OBVIOUS
  <2>1. CASE e # f
    BY <1>8, <2>1
  <2>2. CASE e = f
    <3>1. i \in 1 .. n
      BY <1>9, <2>2
    <3>2. i \in 1 .. (n + 1)
      BY <1>6, <3>1
    <3> QED
      BY <1>9, <2>2, <3>1, <3>2
  <2> QED
    BY <2>1, <2>2
<1>14. \A k \in 1 .. (c - 1) : k + 1 \in 1 .. c /\ r[k].m = queue[k + 1].m /\ r[k].f = queue[k + 1].f /\ queue[k + 1].m # x
  <2> TAKE k \in 1 .. (c - 1)
  <2>1. k + 1 \in 1 .. c /\ r[k] = queue[k + 1] /\ k + 1 # 1
    BY <1>2
  <2> QED
    BY <1>2, <1>5, <1>10, <2>1
<1>15. Shape(g, r)
  <2>1. \A e1, e2 \in Flows : \A i \in DOMAIN g[e1], j \in DOMAIN g[e2] : g[e1][i] = g[e2][j] => e1 = e2 /\ i = j
    <3> SUFFICES ASSUME NEW e1 \in Flows, NEW e2 \in Flows, NEW i \in DOMAIN g[e1], NEW j \in DOMAIN g[e2],
                        g[e1][i] = g[e2][j]
                 PROVE  e1 = e2 /\ i = j
      OBVIOUS
    <3>1. \/ i \in DOMAIN hold[e1] /\ g[e1][i] = hold[e1][i]
          \/ e1 = f /\ i = n + 1 /\ g[e1][i] = x
      BY <1>11
    <3>2. \/ j \in DOMAIN hold[e2] /\ g[e2][j] = hold[e2][j]
          \/ e2 = f /\ j = n + 1 /\ g[e2][j] = x
      BY <1>11
    <3> QED
      BY <3>1, <3>2, <1>5, <1>12
  <2>2. \A i, j \in DOMAIN r : r[i].m = r[j].m => i = j
    <3> SUFFICES ASSUME NEW i \in 1 .. (c - 1), NEW j \in 1 .. (c - 1), r[i].m = r[j].m
                 PROVE  i = j
      BY <1>2
    <3>1. i + 1 = j + 1
      BY <1>5, <1>14
    <3> QED
      BY <3>1
  <2>3. \A e \in Flows : \A i \in DOMAIN g[e], j \in DOMAIN r : g[e][i] # r[j].m
    <3> SUFFICES ASSUME NEW e \in Flows, NEW i \in DOMAIN g[e], NEW j \in 1 .. (c - 1)
                 PROVE  g[e][i] # r[j].m
      BY <1>2
    <3> QED
      BY <1>5, <1>11, <1>14
  <2> QED
    BY <1>2, <1>8, <2>1, <2>2, <2>3 DEF Shape
<1>16. \A y : (\/ \E e \in Flows : \E i \in DOMAIN g[e] : g[e][i] = y
               \/ \E i \in DOMAIN r : r[i].m = y) <=>
              (\/ \E e \in Flows : \E i \in DOMAIN hold[e] : hold[e][i] = y
               \/ \E i \in DOMAIN queue : queue[i].m = y)
  <2>1. \A y : (\E e \in Flows : \E i \in DOMAIN g[e] : g[e][i] = y) <=>
               (\E e \in Flows : \E i \in DOMAIN hold[e] : hold[e][i] = y) \/ y = x
    <3>1. n + 1 \in DOMAIN g[f] /\ g[f][n + 1] = x
      BY <1>6, <1>9
    <3> QED
      BY <1>3, <1>11, <1>13, <3>1
  <2>2. \A y : (\E i \in 1 .. c : queue[i].m = y) <=> (\E i \in 1 .. (c - 1) : r[i].m = y) \/ y = x
    BY <1>2, <1>10
  <2>3. \A y : (\E i \in DOMAIN queue : queue[i].m = y) <=> (\E i \in 1 .. c : queue[i].m = y)
    BY <1>2
  <2>4. \A y : (\E i \in DOMAIN r : r[i].m = y) <=> (\E i \in 1 .. (c - 1) : r[i].m = y)
    BY <1>2
  <2> QED
    BY <2>1, <2>2, <2>3, <2>4
<1>17. Custody'
  <2>1. Members(g, r) = Members(hold, queue)
    BY <1>16, SameMembers
  <2>2. Sound(pool, Members(g, r))
    BY <2>1, Zenon DEF IInv, Custody
  <2> QED
    BY <1>4, <1>15, <2>2, Zenon DEF Custody
<1>18. Strings'
  <2>1. \A e \in Flows : buffer[e] # <<>> => hold[e] = <<>> /\ \A i \in 1 .. c : queue[i].f # e
    BY <1>2 DEF IInv, Strings
  <2>2. \A e \in Flows : buffer[e] # <<>> => e # f
    BY <1>2, <1>10, <2>1
  <2>3. \A e \in Flows : buffer[e] # <<>> => g[e] = <<>> /\ \A i \in DOMAIN r : r[i].f # e
    <3> SUFFICES ASSUME NEW e \in Flows, buffer[e] # <<>>
                 PROVE  g[e] = <<>> /\ \A i \in DOMAIN r : r[i].f # e
      OBVIOUS
    <3>1. g[e] = <<>>
      BY <1>8, <2>1, <2>2
    <3>2. \A i \in 1 .. (c - 1) : r[i].f # e
      BY <1>14, <2>1
    <3> QED
      BY <1>2, <3>1, <3>2
  <2> QED
    BY <1>4, <2>3 DEF IInv, Strings
<1>19. EarliestIsLeast'
  <2> DEFINE t == s.time
             e == earliest'
  <2>1. t \in Nat /\ t = queue[1].time
    BY <1>3 DEF s
  <2>2. /\ r = <<>> => e = Never
        /\ r # <<>> => e = IF t = earliest THEN Min(TimesOf(r)) ELSE earliest
    BY <1>4
  <2> HIDE DEF t, e
  <2>3. \A y : y \in TimesOf(queue) <=> y \in {t} \cup TimesOf(r)
    <3>1. \A y : y \in TimesOf(queue) <=> \E i \in 1 .. c : queue[i].time = y
      BY <1>2, TimesIs
    <3>2. \A y : y \in TimesOf(r) <=> \E i \in 1 .. (c - 1) : r[i].time = y
      BY <1>2, TimesIs
    <3> QED
      BY <1>2, <2>1, <3>1, <3>2
  <2>4. TimesOf(queue) = {t} \cup TimesOf(r)
    BY <2>3, Zenon
  <2>5. r \in Seq(Slots)
    BY <1>2
  <2>6. e = Min({Never} \cup TimesOf(r))
    BY <2>1, <2>2, <2>4, <2>5, LeastLeft
  <2> QED
    BY <1>4, <2>6, Zenon DEF EarliestIsLeast, e
<1> QED
  BY <1>17, <1>18, <1>19 DEF IInv

(* An empty sequence, and the flows of a queue.                             *)
LEMMA NoneIn ==
  ASSUME NEW S, NEW s \in Seq(S), \A i \in DOMAIN s : FALSE
  PROVE  s = <<>>
<1>1. Len(s) \in Nat /\ DOMAIN s = 1 .. Len(s)
  OBVIOUS
<1>2. ~(1 \in 1 .. Len(s))
  BY <1>1
<1>3. Len(s) = 0
  BY <1>1, <1>2
<1> QED
  BY <1>3

LEMMA InQueue ==
  ASSUME NEW q \in Seq(Slots)
  PROVE  \A i \in DOMAIN q : q[i].f \in Flows
<1>1. \A i \in DOMAIN q : q[i] \in Slots
  OBVIOUS
<1> QED
  BY <1>1 DEF Slots

(* MessageQueue::dequeueAll.                                                *)
LEMMA DequeueAllKeeps ==
  ASSUME IInv, UNCHANGED buffer, DequeueAll
  PROVE  IInv'
<1> DEFINE g == [e \in Flows |-> hold[e] \o Queued(e)]
           InHand(e, y) == \E i \in DOMAIN hold[e] : hold[e][i] = y
           Sent(e, y) == \E i \in DOMAIN queue : queue[i].f = e /\ queue[i].m = y
           Has(e, y) == \E i \in DOMAIN g[e] : g[e][i] = y
<1>1. hold' = g /\ queue' = <<>> /\ earliest' = Never /\ pool' = pool
  BY Zenon DEF DequeueAll
<1>2. Shape(hold, queue)
  BY DEF IInv, Custody
<1>3. /\ hold \in [Flows -> Seq(Msgs)] /\ queue \in Seq(Slots)
      /\ \A f1, g1 \in Flows : \A i \in DOMAIN hold[f1], j \in DOMAIN hold[g1] : hold[f1][i] = hold[g1][j] => f1 = g1 /\ i = j
      /\ \A i, j \in DOMAIN queue : queue[i].m = queue[j].m => i = j
      /\ \A f1 \in Flows : \A i \in DOMAIN hold[f1], j \in DOMAIN queue : hold[f1][i] # queue[j].m
  BY <1>2 DEF Shape
<1>4. \A i \in DOMAIN queue : queue[i].f \in Flows
  BY <1>3, InQueue
<1>5. \A e \in Flows : /\ Apart({}, Queued(e))
                       /\ \A y : (\E i \in DOMAIN Queued(e) : Queued(e)[i] = y) <=> Sent(e, y)
  <2>1. queue \in Seq(Slots) /\ \A i, j \in DOMAIN queue : queue[i].m = queue[j].m => i = j
    BY <1>3
  <2> HIDE DEF g
  <2>2. ASSUME NEW e \in Flows
        PROVE  /\ Apart({}, Queued(e))
               /\ \A y : (\E i \in DOMAIN Queued(e) : Queued(e)[i] = y) <=>
                         \E i \in DOMAIN queue : queue[i].f = e /\ queue[i].m = y
    BY <2>1, QueuedIs
  <2> QED
    BY <2>2
<1>6. \A e \in Flows : Apart({}, g[e]) /\ \A y : Has(e, y) <=> InHand(e, y) \/ Sent(e, y)
  <2> SUFFICES ASSUME NEW e \in Flows
               PROVE  Apart({}, g[e]) /\ \A y : Has(e, y) <=> InHand(e, y) \/ Sent(e, y)
    OBVIOUS
  <2> DEFINE A == hold[e]
             B == Queued(e)
  <2>1. A \in Seq(Msgs) /\ B \in Seq(Msgs) /\ g[e] = A \o B
    BY <1>3, <1>5 DEF Apart
  <2>2. \A i \in DOMAIN B : B[i] \notin {} \cup Range(A)
    <3> SUFFICES ASSUME NEW i \in DOMAIN B, B[i] \in Range(A)
                 PROVE  FALSE
      OBVIOUS
    <3>1. PICK k \in DOMAIN A : A[k] = B[i]
      BY RangeHas
    <3>2. Sent(e, B[i])
      BY <1>5
    <3>3. PICK j \in DOMAIN queue : queue[j].m = B[i]
      BY <3>2
    <3> QED
      BY <1>3, <3>1, <3>3
  <2>3. Apart({}, A)
    BY <1>3, <2>1 DEF Apart
  <2>4. Apart({} \cup Range(A), B)
    BY <1>5, <2>1, <2>2 DEF Apart
  <2>5. \A y : InHand(e, y) <=> y \in Range(A)
    BY RangeHas
  <2>6. \A y : Sent(e, y) <=> y \in Range(B)
    <3>1. \A y : y \in Range(B) <=> \E i \in DOMAIN B : B[i] = y
      BY RangeHas
    <3> QED
      BY <1>5, <3>1
  <2> HIDE DEF A, B, InHand, Sent
  <2>7. Apart({}, A \o B) /\ Range(A \o B) = Range(A) \cup Range(B)
    BY <2>1, <2>3, <2>4, ApartBoth
  <2>8. \A y : Has(e, y) <=> y \in Range(A \o B)
    <3>1. \A y : y \in Range(A \o B) <=> \E i \in DOMAIN (A \o B) : (A \o B)[i] = y
      BY RangeHas
    <3> HIDE DEF g
    <3> QED
      BY <2>1, <3>1
  <2> HIDE DEF g, Has
  <2> QED
    BY <2>1, <2>5, <2>6, <2>7, <2>8
<1>7. g \in [Flows -> Seq(Msgs)] /\ \A e \in Flows : \A i, j \in DOMAIN g[e] : g[e][i] = g[e][j] => i = j
  <2>1. \A e \in Flows : g[e] \in Seq(Msgs) /\ \A i, j \in DOMAIN g[e] : g[e][i] = g[e][j] => i = j
    <3> HIDE DEF g
    <3> QED
      BY <1>6 DEF Apart
  <2>2. DOMAIN g = Flows /\ g = [e \in DOMAIN g |-> g[e]]
    OBVIOUS
  <2> HIDE DEF g
  <2> QED
    BY <2>1, <2>2
<1>8. \A e1, e2 \in Flows : \A y : Has(e1, y) /\ Has(e2, y) => e1 = e2
  <2> HIDE DEF g, Has
  <2> SUFFICES ASSUME NEW e1 \in Flows, NEW e2 \in Flows, NEW y, Has(e1, y), Has(e2, y)
               PROVE  e1 = e2
    OBVIOUS
  <2>1. (InHand(e1, y) \/ Sent(e1, y)) /\ (InHand(e2, y) \/ Sent(e2, y))
    BY <1>6
  <2> QED
    BY <1>3, <2>1
<1>9. \A y : (\E e \in Flows : Has(e, y)) <=>
             (\E e \in Flows : InHand(e, y)) \/ (\E i \in DOMAIN queue : queue[i].m = y)
  <2> HIDE DEF g, Has, InHand
  <2> QED
    BY <1>4, <1>6
<1> HIDE DEF g
<1>10. DOMAIN <<>> = {} /\ <<>> \in Seq(Slots)
  OBVIOUS
<1>11. Shape(g, <<>>)
  <2>1. \A e1, e2 \in Flows : \A i \in DOMAIN g[e1], j \in DOMAIN g[e2] : g[e1][i] = g[e2][j] => e1 = e2 /\ i = j
    <3> SUFFICES ASSUME NEW e1 \in Flows, NEW e2 \in Flows, NEW i \in DOMAIN g[e1], NEW j \in DOMAIN g[e2],
                        g[e1][i] = g[e2][j]
                 PROVE  e1 = e2 /\ i = j
      OBVIOUS
    <3>1. Has(e1, g[e1][i]) /\ Has(e2, g[e1][i])
      OBVIOUS
    <3>2. e1 = e2
      BY <1>8, <3>1
    <3> QED
      BY <1>7, <3>2
  <2>2. /\ \A i, j \in DOMAIN <<>> : <<>>[i].m = <<>>[j].m => i = j
        /\ \A e \in Flows : \A i \in DOMAIN g[e], j \in DOMAIN <<>> : g[e][i] # <<>>[j].m
    BY <1>10
  <2> QED
    BY <1>7, <1>10, <2>1, <2>2, Zenon DEF Shape
<1>12. Custody'
  <2>1. \A y : (\/ \E e \in Flows : \E i \in DOMAIN g[e] : g[e][i] = y
                \/ \E i \in DOMAIN <<>> : <<>>[i].m = y) <=>
               (\/ \E e \in Flows : \E i \in DOMAIN hold[e] : hold[e][i] = y
                \/ \E i \in DOMAIN queue : queue[i].m = y)
    BY <1>9, <1>10
  <2>2. Members(g, <<>>) = Members(hold, queue)
    BY <2>1, SameMembers
  <2>3. Sound(pool, Members(g, <<>>))
    BY <2>2, Zenon DEF IInv, Custody
  <2> QED
    BY <1>1, <1>11, <2>3, Zenon DEF Custody
<1>13. Strings'
  <2>1. \A e \in Flows : buffer[e] # <<>> => g[e] = <<>>
    <3> SUFFICES ASSUME NEW e \in Flows, buffer[e] # <<>>
                 PROVE  g[e] = <<>>
      OBVIOUS
    <3>1. hold[e] = <<>> /\ \A i \in DOMAIN queue : queue[i].f # e
      BY DEF IInv, Strings
    <3>2. \A y : ~InHand(e, y) /\ ~Sent(e, y)
      BY <1>10, <3>1
    <3>3. \A y : ~Has(e, y)
      <4> HIDE DEF Has, InHand, Sent
      <4> QED
        BY <1>6, <3>2
    <3>4. g[e] \in Seq(Msgs) /\ \A i \in DOMAIN g[e] : FALSE
      BY <1>7, <3>3
    <3> QED
      BY <3>4, NoneIn
  <2>2. \A e \in Flows : \A i \in DOMAIN <<>> : <<>>[i].f # e
    BY <1>10
  <2> QED
    BY <1>1, <2>1, <2>2, Zenon DEF IInv, Strings
<1>14. EarliestIsLeast'
  <2>1. \A y : y \notin TimesOf(<<>>)
    BY <1>10, TimesIs
  <2>2. {Never} \cup TimesOf(<<>>) \in SUBSET Nat /\ \A y \in {Never} \cup TimesOf(<<>>) : Never <= y
    <3>1. {Never} \cup TimesOf(<<>>) \in SUBSET Nat /\ Never \in Nat
      BY <1>10, Times, Zenon
    <3> QED
      BY <2>1, <3>1
  <2>3. Min({Never} \cup TimesOf(<<>>)) = Never
    BY <2>2, MinIs
  <2> QED
    BY <1>1, <2>3, Zenon DEF EarliestIsLeast
<1> QED
  BY <1>12, <1>13, <1>14 DEF IInv

(* The initial state and every step.                                        *)
LEMMA InitKeeps ==
  ASSUME Init
  PROVE  IInv
<1> DEFINE w == [kind |-> <<>>, infoList |-> {}, payloadList |-> {}]
<1>1. /\ pool = w /\ hold = [f \in Flows |-> <<>>] /\ buffer = [f \in Flows |-> <<>>]
      /\ queue = <<>> /\ earliest = Never
  BY DEF Init
<1>2. DOMAIN <<>> = {} /\ <<>> \in Seq(Slots) /\ <<>> \in Seq(Msgs) /\ <<>> \in Seq(Items)
  OBVIOUS
<1>3. /\ hold \in [Flows -> Seq(Msgs)] /\ \A f \in Flows : DOMAIN hold[f] = {} /\ hold[f] = <<>>
      /\ buffer \in [Flows -> Seq(Items)] /\ \A f \in Flows : buffer[f] = <<>>
  BY <1>1, <1>2
<1>4. DOMAIN queue = {} /\ queue \in Seq(Slots)
  BY <1>1, <1>2
<1>5. Shape(hold, queue)
  BY <1>3, <1>4 DEF Shape
<1>6. Members(hold, queue) = {}
  <2>1. \A x : x \notin Members(hold, queue)
    BY <1>3, <1>4, MembersIs
  <2> QED
    BY <2>1, Zenon
<1>7. Sound(w, {})
  <2>1. w.kind = <<>> /\ w.infoList = {} /\ w.payloadList = {}
    OBVIOUS
  <2>2. PoolSound(w)
    <3>1. IsFiniteSet({})
      BY FS_EmptySet
    <3>2. <<>> \in [{} -> Kinds] /\ {} \in SUBSET Heap
      BY <1>2
    <3>3. w.kind \in UNION {[D -> Kinds] : D \in SUBSET Heap}
      BY <2>1, <3>2
    <3>4. IsFiniteSet(DOMAIN w.kind)
      BY <1>2, <2>1, <3>1
    <3>5. w \in Pools
      BY <3>3, <3>4 DEF Pools
    <3> QED
      BY <2>1, <3>5, Zenon DEF PoolSound, ListsSound
  <2>3. \A b : b \notin DOMAIN Uses(w)
    BY <1>2, <2>1, <2>2, UsesIs DEF Used
  <2>4. DOMAIN Uses(w) = {}
    BY <2>3, Zenon
  <2> QED
    BY <2>2, <2>4 DEF Sound, Backed
<1>8. Custody
  BY <1>1, <1>5, <1>6, <1>7, Zenon DEF Custody
<1>9. Strings
  BY <1>3 DEF Strings
<1>10. EarliestIsLeast
  <2>1. \A y : y \notin TimesOf(queue)
    BY <1>4, TimesIs
  <2>2. {Never} \cup TimesOf(queue) \in SUBSET Nat /\ Never \in Nat
    BY <1>4, Times
  <2>3. \A y \in {Never} \cup TimesOf(queue) : Never <= y
    BY <2>1, <2>2
  <2>4. Min({Never} \cup TimesOf(queue)) = Never
    BY <2>2, <2>3, MinIs
  <2> QED
    BY <1>1, <2>4 DEF EarliestIsLeast
<1> QED
  BY <1>8, <1>9, <1>10 DEF IInv

LEMMA StepKeeps ==
  ASSUME IInv, NoThreads, [Next]_vars
  PROVE  IInv'
<1>1. CASE UNCHANGED vars
  <2>1. /\ pool' = pool /\ hold' = hold /\ buffer' = buffer /\ queue' = queue
        /\ earliest' = earliest
    BY <1>1 DEF vars
  <2>2. Custody' /\ Strings' /\ EarliestIsLeast'
    BY <2>1 DEF IInv, Custody, Strings, EarliestIsLeast
  <2> QED
    BY <2>2 DEF IInv
<1>2. Workers \subseteq Flows
  BY MessageSizes DEF MessageSizes
<1>3. \A isMT \in Threads : isMT = FALSE
  BY DEF NoThreads
<1>4. ASSUME NEW f \in Workers, Storing(f)
      PROVE  IInv'
  BY <1>2, <1>4, StoringKeeps
<1>5. ASSUME NEW f \in Workers, Restoring(f)
      PROVE  IInv'
  BY <1>2, <1>5, RestoringKeeps
<1>6. ASSUME NEW f \in Workers, WorkerStep(f), UNCHANGED buffer
      PROVE  IInv'
  <2> f \in Flows
    BY <1>2
  <2>1. ASSUME NEW r \in Reals, NEW v \in Virtuals, NEW isMT \in Threads, NewPacket(f, r, v, isMT)
        PROVE  IInv'
    BY <1>3, <1>6, <2>1, NewPacketKeeps
  <2>2. ASSUME NEW ask \in Asked, SetInfo(f, ask[1], ask[2])
        PROVE  IInv'
    BY <1>6, <2>2, SetInfoKeeps
  <2>3. ASSUME NEW t \in InfoTypes, DropInfo(f, t)
        PROVE  IInv'
    BY <1>6, <2>3, DropInfoKeeps
  <2>4. CASE AddHeader(f)
    BY <1>6, <2>4, AddHeaderKeeps
  <2>5. CASE RemoveHeader(f)
    BY <1>6, <2>5, RemoveHeaderKeeps
  <2>6. ASSUME NEW u \in FragUnits, Cutting(f, u)
        PROVE  IInv'
    BY <1>6, <2>6, CuttingKeeps
  <2>7. ASSUME NEW u \in FragUnits, NEW free \in BOOLEAN, Splitting(f, u, free)
        PROVE  IInv'
    BY <1>6, <2>7, SplittingKeeps
  <2>8. CASE JoinAll(f)
    BY <1>6, <2>8, JoinAllKeeps
  <2>9. CASE JoinTwo(f)
    BY <1>6, <2>9, JoinTwoKeeps
  <2>10. CASE Packing(f)
    BY <1>6, <2>10, PackingKeeps
  <2>11. CASE Unpacking(f)
    BY <1>6, <2>11, UnpackingKeeps
  <2> QED
    BY <1>6, <2>1, <2>2, <2>3, <2>4, <2>5, <2>6, <2>7, <2>8, <2>9, <2>10, <2>11, Zenon DEF WorkerStep
<1>7. ASSUME NEW f \in Flows, CopyStep(f), UNCHANGED buffer
      PROVE  IInv'
  <2>1. ASSUME NEW g \in Workers, NEW isMT \in Threads, Copying(g, f, isMT)
        PROVE  IInv'
    <3>1. g \in Flows /\ isMT = FALSE
      BY <1>2, <1>3
    <3> QED
      BY <1>7, <2>1, <3>1, CopyingKeeps
  <2>2. ASSUME NEW g \in Workers, TakeInfos(f, g)
        PROVE  IInv'
    BY <1>2, <1>7, <2>2, TakeInfosKeeps
  <2>3. CASE Send(f)
    BY <1>7, <2>3, SendKeeps
  <2>4. CASE Arrive(f)
    BY <1>7, <2>4, ArriveKeeps
  <2> QED
    BY <1>7, <2>1, <2>2, <2>3, <2>4, Zenon DEF CopyStep
<1>8. ASSUME NEW f \in Flows, FlowStep(f), UNCHANGED buffer
      PROVE  IInv'
  <2>1. CASE FreeFlow(f)
    BY <1>8, <2>1, FreeFlowKeeps
  <2>2. ASSUME NEW due \in Dues, Enqueue(f, due)
        PROVE  IInv'
    BY <1>8, <2>2, EnqueueKeeps
  <2> QED
    BY <1>8, <2>1, <2>2, Zenon DEF FlowStep
<1>9. CASE UNCHANGED buffer /\ Dequeue
  BY <1>9, DequeueKeeps
<1>10. CASE UNCHANGED buffer /\ DequeueAll
  BY <1>10, DequeueAllKeeps
<1>11. Flows \ Workers \subseteq Flows
  OBVIOUS
<1> QED
  BY <1>1, <1>4, <1>5, <1>6, <1>7, <1>8, <1>9, <1>10, <1>11, Zenon DEF Next

-----------------------------------------------------------------------------
(* The theorems.                                                            *)

(* Custody, what the strings hold and the earliest time are kept by every   *)
(* step, if no caller asks for the storage of a thread.                     *)
THEOREM Invariance ==
  ASSUME NoThreads
  PROVE  Spec => []IInv
<1>1. Init => IInv
  BY InitKeeps
<1>2. IInv /\ [Next]_vars => IInv'
  BY StepKeeps
<1> QED
  BY <1>1, <1>2, PTL DEF Spec

(* Every block of storage has exactly one owner - a field of one message, a *)
(* recycling list or the heap - whatever is cut, joined, copied, packed,    *)
(* stored, queued and freed in whatever order, for any number of flows and  *)
(* any sizes (MESSAGE_InfoFieldFree, MESSAGE_PayloadFree).                  *)
THEOREM OneOwnerAlways ==
  ASSUME NoThreads
  PROVE  Spec => []OneOwner
<1>1. IInv => OneOwner
  BY CustodyOneOwner DEF IInv
<1>2. Spec => []IInv
  BY Invariance
<1> QED
  BY <1>1, <1>2, PTL

(* m_earliestEvent is the time of the first event of the queue, or          *)
(* CLOCKTYPE_MAX if there is none (MessageQueue::enqueue, dequeue).         *)
THEOREM EarliestIsLeastAlways ==
  ASSUME NoThreads
  PROVE  Spec => []EarliestIsLeast
<1>1. IInv => EarliestIsLeast
  BY DEF IInv
<1>2. Spec => []IInv
  BY Invariance
<1> QED
  BY <1>1, <1>2, PTL
=============================================================================
