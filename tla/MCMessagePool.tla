--------------------------- MODULE MCMessagePool ---------------------------
(* Instance of MessagePool for TLC: a packet, a copy of it, and up to four *)
(* messages at a time.                                                     *)
EXTENDS MessagePool

MCFlows == {1, 2}
MCAsked == {<<"default", 1>>, <<"default", 3>>, <<"other", 1>>}
MCDues == {<<2, 1, 2, 1>>}

\* Where the heap puts a block means nothing: states are told apart by what the
\* blocks hold, numbered in the order in which the messages point to them.
OwnedBy(m) == [k \in 1..(1 + Len(m.infos)) |-> At(m, k - 1)]
Ordered ==
  LET of(ms) == FlattenSeq([i \in DOMAIN ms |-> OwnedBy(ms[i])])
      used == SelectSeq(of(hold[1] \o hold[2] \o Chains[Queue]), LAMBDA b : b # Null)
  IN used \o SetToSeq(pool.infoList \ Range(used))
          \o SetToSeq(pool.payloadList \ (Range(used) \cup pool.infoList))
View ==
  LET names == Ordered
      rank(b) == IF b = Null THEN Null ELSE SelectInSeq(names, LAMBDA n : n = b)
      Moved(m) == [m EXCEPT !.payload = rank(@), !.infos = [i \in DOMAIN @ |-> [@[i] EXCEPT !.at = rank(@)]]]
  IN <<[i \in DOMAIN names |-> IF names[i] \in DOMAIN pool.kind THEN pool.kind[names[i]] ELSE "none"],
       Cardinality(DOMAIN pool.kind), {rank(b) : b \in pool.infoList}, {rank(b) : b \in pool.payloadList},
       [f \in Flows |-> [i \in DOMAIN hold[f] |-> Moved(hold[f][i])]],
       [i \in DOMAIN queue |-> [queue[i] EXCEPT !.m = Moved(@)]],
       buffer, earliest, whole>>

=============================================================================
