------------------------ MODULE ScrollTransportProofs ------------------------
(***************************************************************************)
(* Theorems about ScrollTransport, for any configs, channel capacity,      *)
(* number of events and of streams:                                        *)
(*   PipelineTypes   the variables keep their types and the channels their *)
(*                   capacity;                                             *)
(*   ConnectedTells  CONNECTED is not reported for a stream that ended;    *)
(*   StreamsInOrder  a destination injects a stream's events in order;     *)
(*   ScrolledOnce    two copies of an event came by two entries of a key;  *)
(*   DistinctKeysScrollOnce  without such entries none is scrolled twice.  *)
(*                                                                         *)
(* An event passes places in a fixed order: main, lane, pending, outbox,   *)
(* wire, inject, injected.  For each entry and stream, what is further     *)
(* along is older (Older); no event is on the ways by entries of two keys, *)
(* nor, past pending, on two streams (KeysApart, StreamsApart).  A step    *)
(* moves one event on (Passes), or loses some (Loses).                     *)
(***************************************************************************)
EXTENDS ScrollTransport, SequenceTheorems, TLAPS

USE ScrollTransportAssumption

-----------------------------------------------------------------------------
\* Types.

Conns == {"connecting", "delay", "streaming", "sending"}
Calls == {"none", "open", "broken", "ended"}
Statuses == {"CONNECTING", "CONNECTED", "DISCONNECTED"}

SourceTypes ==
    /\ keyOf \in [Peers -> Keys] /\ keyOf \in Configs
    /\ read \in 0 .. MaxEvents
    /\ active \in Keys \cup {NoPeer}
    /\ main \in Seq(Items) /\ Len(main) <= Capacity
    /\ lane \in [Peers -> Seq(Items)]
    /\ \A p \in Peers : Len(lane[p]) <= Capacity

ConnTypes ==
    /\ conn \in [Peers -> Conns]
    /\ pending \in [Peers -> Seq(Items)]
    /\ \A p \in Peers : Len(pending[p]) = IF conn[p] = "sending" THEN 1 ELSE 0
    /\ stream \in [Peers -> 0 .. MaxStreams]
    /\ \A p \in Peers : conn[p] \in {"streaming", "sending"} => stream[p] # 0
    /\ status \in [Peers -> Statuses]

StreamTypes ==
    /\ call \in [Peers -> [Streams -> Calls]]
    /\ outbox \in [Peers -> [Streams -> Seq(Items)]]
    /\ \A p \in Peers, s \in Streams : Len(outbox[p][s]) <= Capacity
    /\ wire \in [Peers -> [Streams -> Seq(Items)]]

\* A machine has what came by the entries that config f gives its key.
Own(f, queues) == \A k \in Keys : queues[k] \in Seq({d \in Deliveries : f[d.entry] = k})

DestTypes ==
    /\ inject \in [Keys -> Seq(Deliveries)]
    /\ \A k \in Keys : Len(inject[k]) <= Capacity
    /\ injected \in [Keys -> Seq(Deliveries)]
    /\ Own(keyOf, inject) /\ Own(keyOf, injected)

Types == SourceTypes /\ ConnTypes /\ StreamTypes /\ DestTypes

LEMMA TailType ==
    ASSUME NEW S, NEW q \in Seq(S), q # << >>
    PROVE  /\ Head(q) \in S /\ Tail(q) \in Seq(S)
           /\ Len(Tail(q)) = Len(q) - 1 /\ Len(q) \in Nat
           /\ 1 \in DOMAIN q /\ Head(q) = q[1]
           /\ \A i \in DOMAIN Tail(q) : /\ i \in Nat /\ i + 1 \in DOMAIN q /\ i + 1 > 1
                                        /\ Tail(q)[i] = q[i + 1]
<1>1. Len(q) \in Nat /\ Len(q) # 0
    BY EmptySeq, LenProperties
<1>2. Tail(q) \in Seq(S) /\ Len(Tail(q)) = Len(q) - 1 /\ DOMAIN Tail(q) = 1 .. Len(q) - 1
    BY <1>1
<1>3. 1 \in DOMAIN q
    BY <1>1
<1>4. Head(q) \in S /\ Head(q) = q[1]
    BY <1>3
<1>5. \A i \in DOMAIN Tail(q) : /\ i \in Nat /\ i + 1 \in DOMAIN q /\ i + 1 > 1
                                /\ Tail(q)[i] = q[i + 1]
    BY <1>1, <1>2
<1> QED
    BY <1>1, <1>2, <1>3, <1>4, <1>5

LEMMA AppendType ==
    ASSUME NEW S, NEW q \in Seq(S), NEW x \in S
    PROVE  /\ Append(q, x) \in Seq(S) /\ Len(Append(q, x)) = Len(q) + 1 /\ Len(q) \in Nat
           /\ \A i \in DOMAIN Append(q, x) :
                \/ i \in DOMAIN q /\ Append(q, x)[i] = q[i] /\ i < Len(q) + 1
                \/ i = Len(q) + 1 /\ Append(q, x)[i] = x
<1>1. Append(q, x) \in Seq(S) /\ Len(Append(q, x)) = Len(q) + 1 /\ Len(q) \in Nat
    OBVIOUS
<1>2. ASSUME NEW i \in DOMAIN Append(q, x)
      PROVE  \/ i \in DOMAIN q /\ Append(q, x)[i] = q[i] /\ i < Len(q) + 1
             \/ i = Len(q) + 1 /\ Append(q, x)[i] = x
  <2>1. i \in 1 .. Len(q) + 1
    BY <1>1, <1>2
  <2>2. CASE i = Len(q) + 1
    BY <2>2
  <2>3. CASE i \in 1 .. Len(q)
    BY <1>1, <2>3
  <2> QED
    BY <1>1, <2>1, <2>2, <2>3
<1> QED
    BY <1>1, <1>2

LEMMA OfferedType ==
    ASSUME NEW S, NEW q \in Seq(S), NEW x \in S, Len(q) <= Capacity
    PROVE  /\ Offered(q, x) \in Seq(S) /\ Len(Offered(q, x)) <= Capacity
           /\ Offered(q, x) = q \/ Offered(q, x) = Append(q, x)
<1>1. CASE Len(q) < Capacity
  <2>1. Offered(q, x) = Append(q, x)
    BY <1>1 DEF Offered
  <2>2. Append(q, x) \in Seq(S) /\ Len(Append(q, x)) = Len(q) + 1 /\ Len(q) \in Nat
    BY AppendType
  <2> QED
    BY <1>1, <2>1, <2>2
<1>2. CASE ~(Len(q) < Capacity)
    BY <1>2 DEF Offered
<1> QED
    BY <1>1, <1>2

LEMMA SeqOfSubset ==
    ASSUME NEW S, NEW T, T \subseteq S, NEW q \in Seq(T)
    PROVE  q \in Seq(S)
    OBVIOUS

LEMMA SourceSteps ==
    ASSUME Types, ReadEvent \/ SetActive \/ Route
    PROVE  Types'
<1>1. CASE ReadEvent
  <2>1. read + 1 \in Items /\ read' \in 0 .. MaxEvents
    BY <1>1 DEF Types, SourceTypes, ReadEvent, Items
  <2>2. main' \in Seq(Items) /\ Len(main') <= Capacity
    BY <1>1, <2>1, OfferedType DEF Types, SourceTypes, ReadEvent
  <2> QED
    BY <1>1, <2>1, <2>2 DEF Types, SourceTypes, ConnTypes, StreamTypes, DestTypes, ReadEvent,
                            streamVars, serverVars
<1>2. CASE SetActive
  <2>1. Destinations \subseteq Keys
    BY DEF Destinations, Types, SourceTypes
  <2> QED
    BY <1>2, <2>1 DEF Types, SourceTypes, ConnTypes, StreamTypes, DestTypes, SetActive,
                      streamVars, serverVars
<1>3. CASE Route
  <2>1. Head(main) \in Items /\ Tail(main) \in Seq(Items) /\ Len(Tail(main)) <= Capacity
    <3>1. main \in Seq(Items) /\ main # << >> /\ Len(main) <= Capacity
      BY <1>3 DEF Types, SourceTypes, Route
    <3>2. Len(Tail(main)) = Len(main) - 1 /\ Len(main) \in Nat
      BY <3>1, TailType
    <3> QED
      BY <3>1, <3>2, TailType
  <2>2. ASSUME NEW p \in Peers
        PROVE  lane'[p] \in Seq(Items) /\ Len(lane'[p]) <= Capacity
    <3>1. lane[p] \in Seq(Items) /\ Len(lane[p]) <= Capacity
      BY DEF Types, SourceTypes
    <3>2. lane'[p] = IF keyOf[p] = active THEN Offered(lane[p], Head(main)) ELSE lane[p]
      BY <1>3 DEF Route
    <3> QED
      BY <2>1, <3>1, <3>2, OfferedType
  <2>3. lane' \in [Peers -> Seq(Items)]
    BY <1>3, <2>2 DEF Route
  <2> QED
    BY <1>3, <2>1, <2>2, <2>3 DEF Types, SourceTypes, ConnTypes, StreamTypes, DestTypes, Route,
                            streamVars, serverVars
<1> QED
    BY <1>1, <1>2, <1>3

LEMMA ConnSteps ==
    ASSUME Types, NEW p \in Peers, ConnectOk(p) \/ ConnectFails(p) \/ Retry(p) \/ NoticeEnd(p)
    PROVE  Types'
<1>1. CASE ConnectOk(p)
  <2>1. stream[p] + 1 \in Streams /\ stream[p] \in 0 .. MaxStreams
    BY <1>1 DEF Types, ConnTypes, ConnectOk, Streams
  <2>2. stream' \in [Peers -> 0 .. MaxStreams] /\ stream'[p] # 0
        /\ \A q \in Peers : q # p => stream'[q] = stream[q]
    BY <1>1, <2>1 DEF Types, ConnTypes, ConnectOk, Streams
  <2>3. conn' \in [Peers -> Conns] /\ status' \in [Peers -> Statuses]
    BY <1>1 DEF Types, ConnTypes, ConnectOk, Conns, Statuses
  <2>4. ConnTypes'
    BY <1>1, <2>2, <2>3 DEF Types, ConnTypes, ConnectOk
  <2>5. call' \in [Peers -> [Streams -> Calls]]
    BY <1>1, <2>1 DEF Types, StreamTypes, ConnectOk, Calls
  <2> QED
    BY <1>1, <2>4, <2>5 DEF Types, SourceTypes, StreamTypes, DestTypes, ConnectOk,
                            sourceVars, serverVars
<1>2. CASE ConnectFails(p) \/ Retry(p) \/ NoticeEnd(p)
  <2>1. conn' \in [Peers -> Conns] /\ status' \in [Peers -> Statuses]
    BY <1>2 DEF Types, ConnTypes, ConnectFails, Retry, NoticeEnd, Conns, Statuses
  <2>2. ConnTypes'
    BY <1>2, <2>1 DEF Types, ConnTypes, ConnectFails, Retry, NoticeEnd, streamVars
  <2> QED
    BY <1>2, <2>2 DEF Types, SourceTypes, StreamTypes, DestTypes, ConnectFails, Retry, NoticeEnd,
                      sourceVars, streamVars, serverVars
<1> QED
    BY <1>1, <1>2

LEMMA SendTypes ==
    ASSUME Types, NEW p \in Peers, NEW e \in Items, conn[p] \in {"streaming", "sending"}, Send(p, e),
           UNCHANGED <<stream, call, wire>>
    PROVE  ConnTypes' /\ StreamTypes'
<1>1. stream[p] \in Streams
    BY DEF Types, ConnTypes, Streams
<1>2. \E c \in {"streaming", "sending", "delay"} : conn' = [conn EXCEPT ![p] = c]
    BY DEF Send
<1>3. conn' \in [Peers -> Conns]
    BY <1>2 DEF Types, ConnTypes, Conns
<1>4. << >> \in Seq(Items) /\ Len(<< >>) = 0 /\ <<e>> \in Seq(Items) /\ Len(<<e>>) = 1
    OBVIOUS
<1>5. /\ pending' \in [Peers -> Seq(Items)]
      /\ \A q \in Peers : Len(pending'[q]) = IF conn'[q] = "sending" THEN 1 ELSE 0
  <2>1. \/ pending' = [pending EXCEPT ![p] = << >>] /\ conn'[p] # "sending"
        \/ pending' = [pending EXCEPT ![p] = <<e>>] /\ conn'[p] = "sending"
    BY DEF Send, Types, ConnTypes
  <2>2. \A q \in Peers : q # p => conn'[q] = conn[q]
    BY <1>2 DEF Types, ConnTypes
  <2>3. CASE pending' = [pending EXCEPT ![p] = << >>] /\ conn'[p] # "sending"
    <3> DEFINE v == << >>
    <3>1. v \in Seq(Items) /\ Len(v) = IF conn'[p] = "sending" THEN 1 ELSE 0
      BY <1>4, <2>3
    <3>2. pending' = [pending EXCEPT ![p] = v]
      BY <2>3
    <3> HIDE DEF v
    <3> QED
      BY <2>2, <3>1, <3>2 DEF Types, ConnTypes
  <2>4. CASE pending' = [pending EXCEPT ![p] = <<e>>] /\ conn'[p] = "sending"
    <3> DEFINE v == <<e>>
    <3>1. v \in Seq(Items) /\ Len(v) = IF conn'[p] = "sending" THEN 1 ELSE 0
      BY <1>4, <2>4
    <3>2. pending' = [pending EXCEPT ![p] = v]
      BY <2>4
    <3> HIDE DEF v
    <3> QED
      BY <2>2, <3>1, <3>2 DEF Types, ConnTypes
  <2> QED
    BY <2>1, <2>3, <2>4
<1>6. status' \in [Peers -> Statuses]
    BY DEF Send, Types, ConnTypes, Statuses
<1>7. \A q \in Peers : conn'[q] \in {"streaming", "sending"} => stream'[q] # 0
    BY <1>1, <1>2 DEF Types, ConnTypes, Streams
<1>8. ConnTypes'
    BY <1>3, <1>5, <1>6, <1>7 DEF Types, ConnTypes
<1>9. /\ outbox' \in [Peers -> [Streams -> Seq(Items)]]
      /\ \A q \in Peers, t \in Streams : Len(outbox'[q][t]) <= Capacity
  <2>1. CASE /\ Len(outbox[p][stream[p]]) < Capacity
             /\ outbox' = [outbox EXCEPT ![p][stream[p]] = Append(@, e)]
    <3>1. outbox[p][stream[p]] \in Seq(Items)
      BY <1>1 DEF Types, StreamTypes
    <3>2. /\ Append(outbox[p][stream[p]], e) \in Seq(Items)
          /\ Len(Append(outbox[p][stream[p]], e)) = Len(outbox[p][stream[p]]) + 1
          /\ Len(outbox[p][stream[p]]) \in Nat
      BY <3>1, AppendType
    <3>3. Len(Append(outbox[p][stream[p]], e)) <= Capacity
      BY <2>1, <3>2
    <3>4. outbox' \in [Peers -> [Streams -> Seq(Items)]]
      BY <1>1, <2>1, <3>2 DEF Types, StreamTypes
    <3>5. \A q \in Peers, t \in Streams :
              outbox'[q][t] = IF q = p /\ t = stream[p] THEN Append(outbox[p][stream[p]], e)
                              ELSE outbox[q][t]
      BY <1>1, <2>1 DEF Types, StreamTypes
    <3> QED
      BY <3>3, <3>4, <3>5 DEF Types, StreamTypes
  <2>2. CASE outbox' = outbox
    BY <2>2 DEF Types, StreamTypes
  <2> QED
    BY <2>1, <2>2 DEF Send
<1> QED
    BY <1>8, <1>9 DEF Types, StreamTypes

LEMMA TakeTypes ==
    ASSUME Types, NEW p \in Peers, Take(p)
    PROVE  Types' /\ Head(lane[p]) \in Items /\ lane[p] \in Seq(Items)
<1>1. lane[p] \in Seq(Items) /\ lane[p] # << >> /\ Len(lane[p]) <= Capacity
    BY DEF Types, SourceTypes, Take
<1>2. /\ Head(lane[p]) \in Items /\ Tail(lane[p]) \in Seq(Items)
      /\ Len(Tail(lane[p])) = Len(lane[p]) - 1 /\ Len(lane[p]) \in Nat
    BY <1>1, TailType
<1>3. Len(Tail(lane[p])) <= Capacity
    BY <1>1, <1>2
<1>4. SourceTypes'
    BY <1>2, <1>3 DEF Types, SourceTypes, Take, sourceVars
<1>5. ConnTypes' /\ StreamTypes'
    BY <1>2, SendTypes DEF Take
<1> QED
    BY <1>1, <1>2, <1>4, <1>5 DEF Types, DestTypes, Take, sourceVars, serverVars

LEMMA ResumeTypes ==
    ASSUME Types, NEW p \in Peers, Resume(p)
    PROVE  Types' /\ pending[p] \in Seq(Items) /\ 1 \in DOMAIN pending[p] /\ pending[p][1] \in Items
           /\ Len(pending[p]) = 1
<1>1. pending[p] \in Seq(Items) /\ Len(pending[p]) = 1
    BY DEF Types, ConnTypes, Resume
<1>2. 1 \in DOMAIN pending[p] /\ pending[p][1] \in Items
    BY <1>1, LenProperties
<1>3. ConnTypes' /\ StreamTypes'
    BY <1>2, SendTypes DEF Resume
<1> QED
    BY <1>1, <1>2, <1>3 DEF Types, SourceTypes, DestTypes, Resume, sourceVars, serverVars

LEMMA Prefix ==
    ASSUME NEW S, NEW q \in Seq(S), NEW n \in 0 .. Len(q)
    PROVE  /\ SubSeq(q, 1, n) \in Seq(S)
           /\ \A i \in DOMAIN SubSeq(q, 1, n) : i \in DOMAIN q /\ SubSeq(q, 1, n)[i] = q[i]
<1>1. SubSeq(q, 1, n) \in Seq(S) /\ Len(SubSeq(q, 1, n)) = n /\ Len(q) \in Nat
    BY LenProperties
<1>2. ASSUME NEW i \in 1 .. n PROVE i \in DOMAIN q /\ SubSeq(q, 1, n)[i] = q[i]
    BY <1>1, <1>2
<1> QED
    BY <1>1, <1>2

LEMMA StreamSteps ==
    ASSUME Types, NEW p \in Peers, NEW s \in Streams,
           Transmit(p, s) \/ StreamBreaks(p, s) \/ CallEnds(p, s) \/ ServerReads(p, s)
    PROVE  Types'
<1> USE DEF StreamTypes
<1>1. CASE Transmit(p, s)
  <2>1. outbox[p][s] \in Seq(Items) /\ outbox[p][s] # << >> /\ Len(outbox[p][s]) <= Capacity
        /\ wire[p][s] \in Seq(Items)
    BY <1>1 DEF Types, Transmit
  <2>2. /\ Head(outbox[p][s]) \in Items /\ Tail(outbox[p][s]) \in Seq(Items)
        /\ Len(Tail(outbox[p][s])) = Len(outbox[p][s]) - 1 /\ Len(outbox[p][s]) \in Nat
    BY <2>1, TailType
  <2>3. Len(Tail(outbox[p][s])) <= Capacity /\ Append(wire[p][s], Head(outbox[p][s])) \in Seq(Items)
    BY <2>1, <2>2, AppendType
  <2>4. outbox' \in [Peers -> [Streams -> Seq(Items)]] /\ wire' \in [Peers -> [Streams -> Seq(Items)]]
    BY <1>1, <2>2, <2>3 DEF Types, Transmit
  <2>5. \A q \in Peers, t \in Streams : Len(outbox'[q][t]) <= Capacity
    <3>1. \A q \in Peers, t \in Streams :
              outbox'[q][t] = IF q = p /\ t = s THEN Tail(outbox[p][s]) ELSE outbox[q][t]
      BY <1>1 DEF Types, Transmit
    <3> QED
      BY <2>3, <3>1 DEF Types
  <2> QED
    BY <1>1, <2>4, <2>5 DEF Types, SourceTypes, ConnTypes, DestTypes, Transmit, sourceVars, serverVars
<1>2. CASE StreamBreaks(p, s)
  <2>1. PICK n \in 0 .. Len(wire[p][s]) :
            wire' = [wire EXCEPT ![p][s] = SubSeq(wire[p][s], 1, n)]
    BY <1>2 DEF StreamBreaks
  <2>2. SubSeq(wire[p][s], 1, n) \in Seq(Items)
    BY Prefix DEF Types
  <2>3. wire' \in [Peers -> [Streams -> Seq(Items)]] /\ call' \in [Peers -> [Streams -> Calls]]
    BY <1>2, <2>1, <2>2 DEF Types, StreamBreaks, Calls
  <2>4. << >> \in Seq(Items) /\ Len(<< >>) = 0
    OBVIOUS
  <2>5. outbox' \in [Peers -> [Streams -> Seq(Items)]]
    BY <1>2, <2>4 DEF Types, StreamBreaks
  <2>6. \A q \in Peers, t \in Streams : Len(outbox'[q][t]) <= Capacity
    <3>1. \A q \in Peers, t \in Streams :
              outbox'[q][t] = IF q = p /\ t = s THEN << >> ELSE outbox[q][t]
      BY <1>2 DEF Types, StreamBreaks
    <3>2. \A q \in Peers, t \in Streams : outbox'[q][t] = << >> \/ outbox'[q][t] = outbox[q][t]
      BY <3>1
    <3>3. Len(<< >>) <= Capacity
      BY <2>4
    <3> QED
      BY <3>2, <3>3, Zenon DEF Types
  <2> QED
    BY <1>2, <2>3, <2>5, <2>6
       DEF Types, SourceTypes, ConnTypes, DestTypes, StreamBreaks, sourceVars, serverVars
<1>3. CASE CallEnds(p, s)
  <2>1. call' \in [Peers -> [Streams -> Calls]] /\ status' \in [Peers -> Statuses]
    BY <1>3 DEF Types, ConnTypes, CallEnds, Calls, Statuses
  <2> QED
    BY <1>3, <2>1 DEF Types, SourceTypes, ConnTypes, DestTypes, CallEnds, sourceVars, serverVars
<1>4. CASE ServerReads(p, s)
  <2> DEFINE k == keyOf[p]
             From == {e \in Deliveries : keyOf[e.entry] = k}
             d == [event |-> Head(wire[p][s]), entry |-> p, stream |-> s]
  <2>1. /\ wire[p][s] \in Seq(Items) /\ wire[p][s] # << >> /\ k \in Keys
        /\ inject[k] \in Seq(From) /\ Len(inject[k]) <= Capacity
    <3>1. wire[p][s] \in Seq(Items) /\ wire[p][s] # << >> /\ k \in Keys
      BY <1>4 DEF Types, SourceTypes, ServerReads
    <3> QED
      BY <3>1 DEF Types, DestTypes, Own
  <2>2. Tail(wire[p][s]) \in Seq(Items) /\ Head(wire[p][s]) \in Items
    BY <2>1, TailType
  <2>3. d \in From
    BY <2>2 DEF Deliveries
  <2>4. Offered(inject[k], d) \in Seq(From) /\ Len(Offered(inject[k], d)) <= Capacity
    BY <2>1, <2>3, OfferedType
  <2>7. Offered(inject[k], d) \in Seq(Deliveries)
    BY <2>4, SeqOfSubset
  <2>5. wire' \in [Peers -> [Streams -> Seq(Items)]]
    BY <1>4, <2>2 DEF Types, ServerReads
  <2>6. DestTypes'
    <3>1. inject' = [inject EXCEPT ![k] = Offered(inject[k], d)] /\ injected' = injected
      BY <1>4, <2>1 DEF ServerReads, SendInject, Types, DestTypes
    <3>2. keyOf' = keyOf
      BY <1>4 DEF ServerReads, sourceVars
    <3>3. Own(keyOf, inject')
      BY <2>1, <2>4, <3>1 DEF Types, DestTypes, Own
    <3> HIDE DEF k, d, From
    <3> QED
      BY <2>1, <2>4, <2>7, <3>1, <3>2, <3>3 DEF Types, DestTypes
  <2> QED
    BY <1>4, <2>5, <2>6 DEF Types, SourceTypes, ConnTypes, ServerReads, sourceVars
<1> QED
    BY <1>1, <1>2, <1>3, <1>4

LEMMA DestSteps ==
    ASSUME Types, NEW k \in Keys, Inject(k) \/ DestRestart(k)
    PROVE  Types'
<1>1. CASE Inject(k)
  <2>1. inject[k] \in Seq(Deliveries) /\ inject[k] # << >> /\ Len(inject[k]) <= Capacity
        /\ injected[k] \in Seq(Deliveries)
    BY <1>1 DEF Types, DestTypes, Inject
  <2>2. /\ Head(inject[k]) \in Deliveries /\ Tail(inject[k]) \in Seq(Deliveries)
        /\ Len(Tail(inject[k])) = Len(inject[k]) - 1 /\ Len(inject[k]) \in Nat
    BY <2>1, TailType
  <2>3. /\ Len(Tail(inject[k])) <= Capacity
        /\ Append(injected[k], Head(inject[k])) \in Seq(Deliveries)
    BY <2>1, <2>2, AppendType
  <2>4. Own(keyOf, inject') /\ Own(keyOf, injected')
    <3> DEFINE From == {d \in Deliveries : keyOf[d.entry] = k}
    <3>1. inject[k] \in Seq(From) /\ injected[k] \in Seq(From)
      BY DEF Types, DestTypes, Own
    <3>2. Tail(inject[k]) \in Seq(From) /\ Head(inject[k]) \in From
      BY <2>1, <3>1, TailType
    <3>3. Append(injected[k], Head(inject[k])) \in Seq(From)
      BY <3>1, <3>2, AppendType
    <3> QED
      BY <1>1, <3>2, <3>3 DEF Types, DestTypes, Own, Inject
  <2>5. DestTypes'
    BY <1>1, <2>2, <2>3, <2>4 DEF Types, DestTypes, Inject, sourceVars
  <2> QED
    BY <1>1, <2>5 DEF Types, SourceTypes, ConnTypes, StreamTypes, Inject, sourceVars, streamVars
<1>2. CASE DestRestart(k)
  <2>1. << >> \in Seq(Items) /\ << >> \in Seq(Deliveries) /\ Len(<< >>) = 0 /\ 0 <= Capacity
    OBVIOUS
  <2>2. /\ inject' \in [Keys -> Seq(Deliveries)] /\ \A l \in Keys : Len(inject'[l]) <= Capacity
        /\ Own(keyOf, inject')
    BY <1>2, <2>1 DEF Types, DestTypes, Own, DestRestart
  <2>3. /\ wire' \in [Peers -> [Streams -> Seq(Items)]]
        /\ outbox' \in [Peers -> [Streams -> Seq(Items)]]
        /\ \A q \in Peers, t \in Streams : Len(outbox'[q][t]) <= Capacity
    <3>1. [s \in Streams |-> << >>] \in [Streams -> Seq(Items)]
      BY <2>1
    <3>2. /\ wire' \in [Peers -> [Streams -> Seq(Items)]]
          /\ outbox' \in [Peers -> [Streams -> Seq(Items)]]
      BY <1>2, <3>1 DEF Types, StreamTypes, DestRestart
    <3>3. \A q \in Peers, t \in Streams :
              outbox'[q][t] = IF keyOf[q] = k THEN << >> ELSE outbox[q][t]
      BY <1>2 DEF DestRestart
    <3> QED
      BY <2>1, <3>2, <3>3 DEF Types, StreamTypes
  <2>4. call' \in [Peers -> [Streams -> Calls]]
    BY <1>2 DEF Types, StreamTypes, DestRestart, Calls
  <2> QED
    BY <1>2, <2>2, <2>3, <2>4 DEF Types, SourceTypes, ConnTypes, StreamTypes, DestTypes,
                                  DestRestart, sourceVars
<1> QED
    BY <1>1, <1>2

LEMMA TypesInit == Init => Types
<1> SUFFICES ASSUME Init PROVE Types
    OBVIOUS
<1>1. << >> \in Seq(Items) /\ << >> \in Seq(Deliveries) /\ Len(<< >>) = 0 /\ 0 <= Capacity
    OBVIOUS
<1>2. SourceTypes
    BY <1>1 DEF Init, SourceTypes
<1>3. ConnTypes
    BY <1>1 DEF Init, ConnTypes, Conns, Statuses
<1>4. StreamTypes
    BY <1>1 DEF Init, StreamTypes, Calls
<1>5. DestTypes
    BY <1>1 DEF Init, DestTypes, Own
<1> QED
    BY <1>2, <1>3, <1>4, <1>5 DEF Types

LEMMA TypesStep == Types /\ [Next]_vars => Types'
<1> SUFFICES ASSUME Types, [Next]_vars PROVE Types'
    OBVIOUS
<1>1. CASE UNCHANGED vars
    BY <1>1 DEF vars, Types, SourceTypes, ConnTypes, StreamTypes, DestTypes
<1>2. CASE ReadEvent \/ SetActive \/ Route
    BY <1>2, SourceSteps
<1>3. ASSUME NEW p \in Peers,
             \/ ConnectOk(p) \/ ConnectFails(p) \/ Retry(p) \/ NoticeEnd(p)
             \/ Take(p) \/ Resume(p)
      PROVE  Types'
    BY <1>3, ConnSteps, TakeTypes, ResumeTypes
<1>4. ASSUME NEW p \in Peers, NEW s \in Streams,
             Transmit(p, s) \/ StreamBreaks(p, s) \/ CallEnds(p, s) \/ ServerReads(p, s)
      PROVE  Types'
    BY <1>4, StreamSteps
<1>5. ASSUME NEW k \in Keys, Inject(k) \/ DestRestart(k) PROVE Types'
    BY <1>5, DestSteps
<1> QED
    BY <1>1, <1>2, <1>3, <1>4, <1>5 DEF Next

\* The variables keep their types, and every channel its capacity, whichever of its
\* ends is slow.
THEOREM PipelineTypes == Spec => []TypeOK
<1>1. Types => TypeOK
    BY DEF Types, SourceTypes, ConnTypes, StreamTypes, DestTypes, TypeOK,
           Conns, Calls, Statuses
<1> QED
    BY <1>1, TypesInit, TypesStep, PTL DEF Spec

-----------------------------------------------------------------------------
\* The status.

LEMMA ConnectedStep == Types /\ ConnectedHasStream /\ [Next]_vars => ConnectedHasStream'
<1> SUFFICES ASSUME Types, ConnectedHasStream, [Next]_vars PROVE ConnectedHasStream'
    OBVIOUS
<1> USE DEF ConnectedHasStream, Types, ConnTypes, StreamTypes
<1>1. CASE UNCHANGED vars \/ ReadEvent \/ SetActive \/ Route
    BY <1>1 DEF vars, ReadEvent, SetActive, Route, streamVars
<1>2. ASSUME NEW p \in Peers, ConnectOk(p) PROVE ConnectedHasStream'
  <2>1. stream[p] + 1 \in Streams /\ stream'[p] = stream[p] + 1
    BY <1>2 DEF ConnectOk, Streams
  <2>2. call'[p][stream'[p]] = "open" /\ conn'[p] = "streaming"
    BY <1>2, <2>1 DEF ConnectOk
  <2>3. \A q \in Peers : q # p => /\ status'[q] = status[q] /\ conn'[q] = conn[q]
                                  /\ call'[q] = call[q] /\ stream'[q] = stream[q]
    BY <1>2 DEF ConnectOk
  <2> QED
    BY <2>2, <2>3
<1>3. ASSUME NEW p \in Peers, ConnectFails(p) \/ Retry(p) \/ NoticeEnd(p)
      PROVE  ConnectedHasStream'
  <2>1. /\ conn' = [conn EXCEPT ![p] = conn'[p]]
        /\ status' = [status EXCEPT ![p] = status'[p]]
        /\ call' = call /\ stream' = stream
    BY <1>3 DEF ConnectFails, Retry, NoticeEnd, streamVars
  <2>2. CASE NoticeEnd(p)
    <3>1. status[p] # "CONNECTED" /\ status' = status
      BY <2>2 DEF NoticeEnd
    <3> QED
      BY <2>1, <3>1
  <2>3. CASE ConnectFails(p) \/ Retry(p)
    <3>1. status'[p] # "CONNECTED"
      BY <2>3 DEF ConnectFails, Retry
    <3> QED
      BY <2>1, <3>1
  <2> QED
    BY <1>3, <2>2, <2>3
<1>4. ASSUME NEW p \in Peers, NEW e, Send(p, e), UNCHANGED <<stream, call, wire>>,
             conn[p] \in {"streaming", "sending"}
      PROVE  ConnectedHasStream'
    BY <1>4 DEF Send
<1>5. ASSUME NEW p \in Peers, Take(p) \/ Resume(p) PROVE ConnectedHasStream'
    BY <1>4, <1>5 DEF Take, Resume
<1>6. ASSUME NEW p \in Peers, NEW s \in Streams, Transmit(p, s) \/ ServerReads(p, s)
      PROVE  ConnectedHasStream'
    BY <1>6 DEF Transmit, ServerReads
<1>7. ASSUME NEW p \in Peers, NEW s \in Streams, StreamBreaks(p, s) \/ CallEnds(p, s)
      PROVE  ConnectedHasStream'
  <2>1. CASE StreamBreaks(p, s)
    <3>1. \A q \in Peers, t \in Streams :
              call'[q][t] = IF q = p /\ t = s THEN "broken" ELSE call[q][t]
      BY <2>1 DEF StreamBreaks
    <3>2. \A q \in Peers : conn[q] \in {"streaming", "sending"} => stream[q] \in Streams
      BY DEF Streams
    <3> QED
      BY <2>1, <3>1, <3>2 DEF StreamBreaks
  <2>2. CASE CallEnds(p, s)
    <3>1. status'[p] = "DISCONNECTED" /\ UNCHANGED <<conn, stream>>
          /\ \A q \in Peers : q # p => status'[q] = status[q] /\ call'[q] = call[q]
      BY <2>2 DEF CallEnds
    <3> QED
      BY <3>1
  <2> QED
    BY <1>7, <2>1, <2>2
<1>8. ASSUME NEW k \in Keys, Inject(k) PROVE ConnectedHasStream'
    BY <1>8 DEF Inject, streamVars
<1>9. ASSUME NEW k \in Keys, DestRestart(k) PROVE ConnectedHasStream'
  <2>1. \A q \in Peers, t \in Streams :
            call'[q][t] = IF keyOf[q] = k /\ call[q][t] = "open" THEN "broken" ELSE call[q][t]
    BY <1>9 DEF DestRestart
  <2>2. \A q \in Peers : conn[q] \in {"streaming", "sending"} => stream[q] \in Streams
    BY DEF Streams
  <2> QED
    BY <1>9, <2>1, <2>2 DEF DestRestart
<1> QED
    BY <1>1, <1>2, <1>3, <1>5, <1>6, <1>7, <1>8, <1>9 DEF Next

\* CONNECTED is not reported for a stream that has come to its end: of the tasks that
\* store the status, none undoes the report of the other.
THEOREM ConnectedTells == Spec => []ConnectedHasStream
<1>1. Init => ConnectedHasStream
    BY DEF Init, ConnectedHasStream
<1> QED
    BY <1>1, TypesInit, TypesStep, ConnectedStep, PTL DEF Spec

-----------------------------------------------------------------------------
\* The order of the events.

Places == 0 .. 6
Elems(q) == {q[i] : i \in DOMAIN q}
EventsIn(q, p, s) ==
    {q[i].event : i \in {k \in DOMAIN q : q[k].entry = p /\ q[k].stream = s}}

\* The events at each place on the way by entry p and stream s.
Way(p, s) ==
    [c \in Places |->
        IF c = 0 THEN Elems(main)
        ELSE IF c = 1 THEN Elems(lane[p])
        ELSE IF c = 2 THEN Elems(pending[p])
        ELSE IF c = 3 THEN Elems(outbox[p][s])
        ELSE IF c = 4 THEN Elems(wire[p][s])
        ELSE IF c = 5 THEN EventsIn(inject[keyOf[p]], p, s)
        ELSE EventsIn(injected[keyOf[p]], p, s)]

\* What is further along a way w is older.
Older(w) == \A c, d \in Places : c < d => \A e \in w[c], f \in w[d] : f < e

\* An event x goes from place a to place b, or is lost; others may be lost.
Passes(w, v, a, b, x) ==
    /\ x \in w[a]
    /\ \A e \in v[a] : e \in w[a] /\ x < e
    /\ \A c \in Places : c # b => v[c] \subseteq w[c]
    /\ v[b] \subseteq w[b] \cup {x}
    /\ \A c \in Places : a < c /\ c < b => v[c] = {}
Loses(w, v) == \A c \in Places : v[c] \subseteq w[c]

LEMMA OlderPasses ==
    ASSUME NEW w, NEW v, Older(w),
           NEW a \in Places, NEW b \in Places, a < b, NEW x, Passes(w, v, a, b, x)
    PROVE  Older(v)
<1> SUFFICES ASSUME NEW c \in Places, NEW d \in Places, c < d, NEW e \in v[c], NEW f \in v[d]
             PROVE  f < e
    BY DEF Older
<1>0. a \in Int /\ b \in Int /\ c \in Int /\ d \in Int
    BY DEF Places
<1>1. CASE e \in w[c] /\ f \in w[d]
    BY <1>1 DEF Older
<1>2. CASE f = x /\ d = b
  <2>1. c # b /\ e \in w[c]
    BY <1>0, <1>2 DEF Passes
  <2>2. CASE c < a
    BY <1>2, <2>1, <2>2 DEF Older, Passes
  <2>3. CASE c = a
    BY <1>2, <2>3 DEF Passes
  <2>4. CASE a < c
    BY <1>2, <2>4 DEF Passes
  <2> QED
    BY <1>0, <2>2, <2>3, <2>4
<1>3. CASE e = x /\ c = b
  <2>1. d # b /\ f \in w[d] /\ a < d
    BY <1>0, <1>3 DEF Passes
  <2> QED
    BY <1>3, <2>1 DEF Older, Passes
<1> QED
    BY <1>0, <1>1, <1>2, <1>3 DEF Passes

LEMMA OlderLoses ==
    ASSUME NEW w, NEW v, Older(w), Loses(w, v)
    PROVE  Older(v)
    BY DEF Older, Loses

Sorted(q) == \A i, j \in DOMAIN q : i < j => q[i] < q[j]
SortedBy(q) == \A i, j \in DOMAIN q : i < j /\ SameStream(q[i], q[j]) => q[i].event < q[j].event

LEMMA SortedTail ==
    ASSUME NEW q \in Seq(Items), q # << >>, Sorted(q)
    PROVE  /\ Sorted(Tail(q)) /\ Head(q) \in Elems(q)
           /\ \A e \in Elems(Tail(q)) : e \in Elems(q) /\ Head(q) < e
<1>1. /\ 1 \in DOMAIN q /\ Head(q) = q[1]
      /\ \A i \in DOMAIN Tail(q) : /\ i \in Nat /\ i + 1 \in DOMAIN q /\ i + 1 > 1
                                   /\ Tail(q)[i] = q[i + 1]
    BY TailType
<1>2. Sorted(Tail(q))
  <2> SUFFICES ASSUME NEW i \in DOMAIN Tail(q), NEW j \in DOMAIN Tail(q), i < j
               PROVE  Tail(q)[i] < Tail(q)[j]
    BY DEF Sorted
  <2>1. i + 1 < j + 1
    BY <1>1
  <2> QED
    BY <1>1, <2>1 DEF Sorted
<1>3. \A e \in Elems(Tail(q)) : e \in Elems(q) /\ Head(q) < e
    BY <1>1 DEF Elems, Sorted
<1> QED
    BY <1>1, <1>2, <1>3 DEF Elems

LEMMA SortedAppend ==
    ASSUME NEW q \in Seq(Items), NEW x \in Items, Sorted(q), \A e \in Elems(q) : e < x
    PROVE  Sorted(Append(q, x)) /\ Elems(Append(q, x)) \subseteq Elems(q) \cup {x}
<1>1. /\ Len(q) \in Nat /\ DOMAIN q = 1 .. Len(q)
      /\ \A i \in DOMAIN Append(q, x) :
            \/ i \in DOMAIN q /\ Append(q, x)[i] = q[i] /\ i < Len(q) + 1
            \/ i = Len(q) + 1 /\ Append(q, x)[i] = x
    BY AppendType
<1>2. Sorted(Append(q, x))
  <2> SUFFICES ASSUME NEW i \in DOMAIN Append(q, x), NEW j \in DOMAIN Append(q, x), i < j
               PROVE  Append(q, x)[i] < Append(q, x)[j]
    BY DEF Sorted
  <2>1. i \in DOMAIN q /\ Append(q, x)[i] = q[i]
    BY <1>1
  <2> QED
    BY <1>1, <2>1 DEF Sorted, Elems
<1> QED
    BY <1>1, <1>2 DEF Elems

LEMMA SortedByTail ==
    ASSUME NEW q \in Seq(Deliveries), q # << >>, SortedBy(q)
    PROVE  /\ SortedBy(Tail(q))
           /\ \A p \in Peers, s \in Streams : EventsIn(Tail(q), p, s) \subseteq EventsIn(q, p, s)
           /\ Head(q).event \in EventsIn(q, Head(q).entry, Head(q).stream)
           /\ \A e \in EventsIn(Tail(q), Head(q).entry, Head(q).stream) : Head(q).event < e
<1>1. /\ 1 \in DOMAIN q /\ Head(q) = q[1]
      /\ \A i \in DOMAIN Tail(q) : /\ i \in Nat /\ i + 1 \in DOMAIN q /\ i + 1 > 1
                                   /\ Tail(q)[i] = q[i + 1]
    BY TailType
<1>2. SortedBy(Tail(q))
  <2> SUFFICES ASSUME NEW i \in DOMAIN Tail(q), NEW j \in DOMAIN Tail(q), i < j,
                      SameStream(Tail(q)[i], Tail(q)[j])
               PROVE  Tail(q)[i].event < Tail(q)[j].event
    BY DEF SortedBy
  <2>1. i + 1 < j + 1
    BY <1>1
  <2> QED
    BY <1>1, <2>1 DEF SortedBy
<1>3. \A e \in EventsIn(Tail(q), Head(q).entry, Head(q).stream) : Head(q).event < e
    BY <1>1 DEF EventsIn, SortedBy, SameStream
<1>4. \A p \in Peers, s \in Streams : EventsIn(Tail(q), p, s) \subseteq EventsIn(q, p, s)
    BY <1>1 DEF EventsIn
<1> QED
    BY <1>1, <1>2, <1>3, <1>4 DEF EventsIn

LEMMA SortedByAppend ==
    ASSUME NEW q \in Seq(Deliveries), NEW x \in Deliveries, SortedBy(q),
           \A e \in EventsIn(q, x.entry, x.stream) : e < x.event
    PROVE  /\ SortedBy(Append(q, x))
           /\ \A p \in Peers, s \in Streams : EventsIn(Append(q, x), p, s) \subseteq
                  EventsIn(q, p, s) \cup
                      (IF p = x.entry /\ s = x.stream THEN {x.event} ELSE {})
<1>1. /\ Len(q) \in Nat /\ DOMAIN q = 1 .. Len(q)
      /\ \A i \in DOMAIN Append(q, x) :
            \/ i \in DOMAIN q /\ Append(q, x)[i] = q[i] /\ i < Len(q) + 1
            \/ i = Len(q) + 1 /\ Append(q, x)[i] = x
    BY AppendType
<1>2. SortedBy(Append(q, x))
  <2> SUFFICES ASSUME NEW i \in DOMAIN Append(q, x), NEW j \in DOMAIN Append(q, x), i < j,
                      SameStream(Append(q, x)[i], Append(q, x)[j])
               PROVE  Append(q, x)[i].event < Append(q, x)[j].event
    BY DEF SortedBy
  <2>1. i \in DOMAIN q /\ Append(q, x)[i] = q[i]
    BY <1>1
  <2> QED
    BY <1>1, <2>1 DEF SortedBy, EventsIn, SameStream
<1> QED
    BY <1>1, <1>2 DEF EventsIn

LEMMA WayIs ==
    ASSUME NEW p, NEW s
    PROVE  /\ Way(p, s)[0] = Elems(main) /\ Way(p, s)'[0] = Elems(main')
           /\ Way(p, s)[1] = Elems(lane[p]) /\ Way(p, s)'[1] = Elems(lane'[p])
           /\ Way(p, s)[2] = Elems(pending[p]) /\ Way(p, s)'[2] = Elems(pending'[p])
           /\ Way(p, s)[3] = Elems(outbox[p][s]) /\ Way(p, s)'[3] = Elems(outbox'[p][s])
           /\ Way(p, s)[4] = Elems(wire[p][s]) /\ Way(p, s)'[4] = Elems(wire'[p][s])
           /\ Way(p, s)[5] = EventsIn(inject[keyOf[p]], p, s)
           /\ Way(p, s)'[5] = EventsIn(inject'[keyOf'[p]], p, s)
           /\ Way(p, s)[6] = EventsIn(injected[keyOf[p]], p, s)
           /\ Way(p, s)'[6] = EventsIn(injected'[keyOf'[p]], p, s)
<1>1. 0 \in Places /\ 1 \in Places /\ 2 \in Places /\ 3 \in Places /\ 4 \in Places
      /\ 5 \in Places /\ 6 \in Places
    BY DEF Places
<1> QED
    BY <1>1 DEF Way

LEMMA SevenPlaces ==
    ASSUME NEW c \in Places
    PROVE  c = 0 \/ c = 1 \/ c = 2 \/ c = 3 \/ c = 4 \/ c = 5 \/ c = 6
    BY DEF Places

\* Nothing comes to the way by p and s.
LEMMA WayLoses ==
    ASSUME NEW p, NEW s,
           Elems(main') \subseteq Elems(main), Elems(lane'[p]) \subseteq Elems(lane[p]),
           Elems(pending'[p]) \subseteq Elems(pending[p]),
           Elems(outbox'[p][s]) \subseteq Elems(outbox[p][s]),
           Elems(wire'[p][s]) \subseteq Elems(wire[p][s]),
           EventsIn(inject'[keyOf[p]], p, s) \subseteq EventsIn(inject[keyOf[p]], p, s),
           EventsIn(injected'[keyOf[p]], p, s) \subseteq EventsIn(injected[keyOf[p]], p, s),
           keyOf' = keyOf
    PROVE  Loses(Way(p, s), Way(p, s)')
<1> SUFFICES ASSUME NEW c \in Places PROVE Way(p, s)'[c] \subseteq Way(p, s)[c]
    BY DEF Loses
<1> QED
    BY WayIs, SevenPlaces

\* Event x moves on the ways by the entries of P, all of one key, and the streams of T.
Moves(P, T, a, b, x) ==
    /\ a \in Places /\ b \in Places /\ a < b
    /\ \A p \in P, t \in T : Passes(Way(p, t), Way(p, t)', a, b, x)
    /\ \A q \in Peers, t \in Streams : q \notin P \/ t \notin T => Loses(Way(q, t), Way(q, t)')
    /\ \A p, q \in P : keyOf[p] = keyOf[q]
    /\ (b <= 2 /\ T = Streams) \/ (b > 2 /\ \E t \in Streams : T = {t})

AllOlder == \A p \in Peers, s \in Streams : Older(Way(p, s))
AllRead == \A p \in Peers, s \in Streams, c \in Places : \A e \in Way(p, s)[c] :
              e \in Items /\ e <= read
KeysApart ==
    \A p, q \in Peers, s, t \in Streams, c, d \in Places \ {0} :
        keyOf[p] # keyOf[q] => \A e \in Way(p, s)[c] : e \notin Way(q, t)[d]
StreamsApart ==
    \A p \in Peers, s, t \in Streams, c, d \in Places \ (0 .. 2) :
        s # t => \A e \in Way(p, s)[c] : e \notin Way(p, t)[d]
Ways == AllOlder /\ AllRead /\ KeysApart /\ StreamsApart

AllSorted ==
    /\ Sorted(main)
    /\ \A k \in Keys : SortedBy(inject[k]) /\ SortedBy(injected[k])
    /\ \A p \in Peers : /\ Sorted(lane[p])
                        /\ \A s \in Streams : Sorted(outbox[p][s]) /\ Sorted(wire[p][s])

\* Up to pending the ways of all streams are one.
LEMMA Common ==
    ASSUME NEW p, NEW s, NEW t, NEW c \in 0 .. 2
    PROVE  c \in Places /\ Way(p, s)[c] = Way(p, t)[c]
<1>1. c = 0 \/ c = 1 \/ c = 2
    OBVIOUS
<1> QED
    BY <1>1, WayIs DEF Places

LEMMA WaysLose ==
    ASSUME Ways, \A p \in Peers, s \in Streams : Loses(Way(p, s), Way(p, s)'),
           UNCHANGED <<keyOf, read>>
    PROVE  Ways'
<1>1. AllOlder'
    BY OlderLoses DEF Ways, AllOlder
<1>2. AllRead'
    BY DEF Ways, AllRead, Loses
<1>3. KeysApart'
    BY DEF Ways, KeysApart, Loses
<1>4. StreamsApart'
    BY DEF Ways, StreamsApart, Loses
<1> QED
    BY <1>1, <1>2, <1>3, <1>4 DEF Ways

LEMMA WaysMove ==
    ASSUME Ways, NEW P \in SUBSET Peers, NEW T \in SUBSET Streams, T # {}, NEW a, NEW b, NEW x,
           Moves(P, T, a, b, x), UNCHANGED <<keyOf, read>>, x \in Items
    PROVE  Ways'
<1>1. a \in Places /\ b \in Places /\ a < b /\ a \in Int /\ b \in Int
    BY DEF Moves, Places
<1>2. ASSUME NEW q \in Peers, NEW t \in Streams
      PROVE  \/ q \in P /\ t \in T /\ Passes(Way(q, t), Way(q, t)', a, b, x)
             \/ (q \notin P \/ t \notin T) /\ Loses(Way(q, t), Way(q, t)')
    BY DEF Moves
<1>3. AllOlder'
  <2> SUFFICES ASSUME NEW q \in Peers, NEW t \in Streams PROVE Older(Way(q, t)')
    BY DEF AllOlder
  <2> QED
    BY <1>1, <1>2, OlderLoses, OlderPasses DEF Ways, AllOlder
\* An event that came to a place is x, at b, and was at a.
<1>4. ASSUME NEW q \in Peers, NEW t \in Streams, NEW c \in Places, NEW e \in Way(q, t)'[c]
      PROVE  \/ e \in Way(q, t)[c]
             \/ q \in P /\ t \in T /\ c = b /\ e = x /\ x \in Way(q, t)[a]
    BY <1>2, <1>4 DEF Passes, Loses
<1>5. AllRead'
    BY <1>1, <1>4 DEF Ways, AllRead
<1>6. ASSUME NEW p \in P PROVE \E u \in T : x \in Way(p, u)[a]
    BY DEF Moves, Passes
<1>7. ASSUME NEW p \in P, NEW q \in Peers, keyOf[q] # keyOf[p],
             NEW t \in Streams, NEW d \in Places \ {0}
      PROVE  x \notin Way(q, t)[d]
  <2>1. PICK u \in T : x \in Way(p, u)[a]
    BY <1>6
  <2>2. CASE a = 0
    <3>1. x \in Way(q, t)[0]
      BY <2>1, <2>2, WayIs
    <3>2. 0 \in Places /\ d \in Int /\ 0 < d
      BY DEF Places
    <3>3. x \in Way(q, t)[d] => x < x
      BY <3>1, <3>2 DEF Ways, AllOlder, Older
    <3> QED
      BY <3>3 DEF Items
  <2>3. CASE a # 0
    <3>1. a \in Places \ {0} /\ u \in Streams
      BY <1>1, <2>3
    <3>2. x \in Way(q, t)[d] => x \notin Way(p, u)[a]
      BY <1>7, <3>1 DEF Ways, KeysApart
    <3> QED
      BY <2>1, <3>2
  <2> QED
    BY <2>2, <2>3
<1>8. ASSUME NEW p \in P, NEW t \in Streams, NEW d \in Places \ (0 .. 2), t \notin T, b > 2
      PROVE  x \notin Way(p, t)[d]
  <2>1. d \in Places /\ d \in Int /\ d > 2
    BY DEF Places
  <2>2. PICK u \in T : x \in Way(p, u)[a]
    BY <1>6
  <2>3. CASE a <= 2
    <3>1. x \in Way(p, t)[a]
      BY <1>1, <2>2, <2>3, Common DEF Places
    <3>2. x \in Way(p, t)[d] => x < x
      BY <1>1, <2>1, <2>3, <3>1 DEF Ways, AllOlder, Older
    <3> QED
      BY <3>2 DEF Items
  <2>4. CASE a > 2
    BY <1>1, <1>8, <2>2, <2>4 DEF Ways, StreamsApart
  <2> QED
    BY <1>1, <2>3, <2>4
<1>9. KeysApart'
  <2> SUFFICES ASSUME NEW q \in Peers, NEW r \in Peers, keyOf[q] # keyOf[r],
                      NEW s \in Streams, NEW t \in Streams,
                      NEW c \in Places \ {0}, NEW d \in Places \ {0},
                      NEW e \in Way(q, s)'[c], e \in Way(r, t)'[d]
               PROVE  FALSE
    BY DEF KeysApart
  <2>1. CASE e \in Way(q, s)[c] /\ e \in Way(r, t)[d]
    BY <2>1 DEF Ways, KeysApart
  <2>2. CASE q \in P /\ e = x /\ r \notin P
    BY <1>4, <1>7, <2>2
  <2>3. CASE r \in P /\ e = x /\ q \notin P
    BY <1>4, <1>7, <2>3
  <2>4. ~(q \in P /\ r \in P)
    BY DEF Moves
  <2> QED
    BY <1>4, <2>1, <2>2, <2>3, <2>4
<1>10. StreamsApart'
  <2> SUFFICES ASSUME NEW q \in Peers, NEW s \in Streams, NEW t \in Streams, s # t,
                      NEW c \in Places \ (0 .. 2), NEW d \in Places \ (0 .. 2),
                      NEW e \in Way(q, s)'[c], e \in Way(q, t)'[d]
               PROVE  FALSE
    BY DEF StreamsApart
  <2>1. CASE e \in Way(q, s)[c] /\ e \in Way(q, t)[d]
    BY <2>1 DEF Ways, StreamsApart
  <2>2. b > 2 => s \notin T \/ t \notin T
    BY <1>1 DEF Moves
  <2>3. c > 2 /\ d > 2
    BY DEF Places
  <2>4. CASE q \in P /\ s \in T /\ c = b /\ e = x
    BY <1>4, <1>8, <2>2, <2>3, <2>4
  <2>5. CASE q \in P /\ t \in T /\ d = b /\ e = x
    BY <1>4, <1>8, <2>2, <2>3, <2>5
  <2> QED
    BY <1>4, <2>1, <2>4, <2>5
<1> QED
    BY <1>3, <1>5, <1>9, <1>10 DEF Ways

MainRead == \A e \in Elems(main) : e \in Items /\ e <= read

Order == AllSorted /\ MainRead /\ Ways

LEMMA RouteOrder ==
    ASSUME Types, Order, Route
    PROVE  Order'
<1> DEFINE x == Head(main)
           P == {p \in Peers : keyOf[p] = active /\ lane'[p] = Append(lane[p], x)}
<1>1. /\ main \in Seq(Items) /\ main # << >> /\ Sorted(main) /\ main' = Tail(main)
      /\ UNCHANGED <<keyOf, read, pending, outbox, wire, inject, injected>>
    BY DEF Types, SourceTypes, Route, Order, AllSorted, streamVars, serverVars
<1>2. /\ x \in Items /\ Sorted(main') /\ x \in Elems(main)
      /\ \A e \in Elems(main') : e \in Elems(main) /\ x < e
    BY <1>1, TailType, SortedTail
<1>3. /\ P \in SUBSET Peers /\ \A p \in Peers \ P : lane'[p] = lane[p]
      /\ \A p \in P : keyOf[p] = active /\ lane'[p] = Append(lane[p], x)
    BY DEF Route, Offered
<1> HIDE DEF P, x
<1>4. PICK s0 \in Streams : TRUE
    BY DEF Streams
<1>5. ASSUME NEW p \in Peers
      PROVE  lane[p] \in Seq(Items) /\ Sorted(lane[p]) /\ \A e \in Elems(lane[p]) : e < x
  <2>1. x \in Way(p, s0)[0] /\ Way(p, s0)[1] = Elems(lane[p])
    BY <1>2, WayIs
  <2>2. 0 \in Places /\ 1 \in Places /\ 0 < 1
    BY DEF Places
  <2>3. \A e \in Elems(lane[p]) : e < x
    BY <2>1, <2>2 DEF Order, Ways, AllOlder, Older
  <2> QED
    BY <2>3 DEF Types, SourceTypes, Order, AllSorted
<1>6. ASSUME NEW p \in P
      PROVE  Sorted(lane'[p]) /\ Elems(lane'[p]) \subseteq Elems(lane[p]) \cup {x}
  <2>1. /\ lane[p] \in Seq(Items) /\ Sorted(lane[p]) /\ \A e \in Elems(lane[p]) : e < x
        /\ lane'[p] = Append(lane[p], x)
    BY <1>3, <1>5
  <2> QED
    BY <1>2, <2>1, SortedAppend
<1>7. AllSorted'
    BY <1>1, <1>2, <1>3, <1>6 DEF Order, AllSorted
<1>8. MainRead'
    BY <1>1, <1>2 DEF Order, MainRead
<1>9. ASSUME NEW p \in Peers \ P, NEW s \in Streams PROVE Loses(Way(p, s), Way(p, s)')
    BY <1>1, <1>2, <1>3, WayLoses
<1>10. ASSUME NEW p \in P, NEW t \in Streams PROVE Passes(Way(p, t), Way(p, t)', 0, 1, x)
  <2>1. x \in Way(p, t)[0] /\ \A e \in Way(p, t)'[0] : e \in Way(p, t)[0] /\ x < e
    BY <1>2, WayIs
  <2>2. Way(p, t)'[1] \subseteq Way(p, t)[1] \cup {x}
    BY <1>6, WayIs
  <2>3. \A c \in 2 .. 6 : Way(p, t)'[c] \subseteq Way(p, t)[c]
    BY <1>1, WayIs
  <2> QED
    BY <2>1, <2>2, <2>3 DEF Passes, Places
<1>11. Moves(P, Streams, 0, 1, x)
    BY <1>3, <1>9, <1>10 DEF Moves, Places
<1> QED
    BY <1>1, <1>2, <1>3, <1>4, <1>7, <1>8, <1>11, WaysMove DEF Order

LEMMA Nothing ==
    ASSUME NEW p, NEW s
    PROVE  Sorted(<< >>) /\ SortedBy(<< >>) /\ Elems(<< >>) = {} /\ EventsIn(<< >>, p, s) = {}
<1>1. DOMAIN << >> = {}
    OBVIOUS
<1> QED
    BY <1>1 DEF Sorted, SortedBy, Elems, EventsIn

LEMMA PrefixOrder ==
    ASSUME NEW q \in Seq(Items), NEW n \in 0 .. Len(q), Sorted(q)
    PROVE  Sorted(SubSeq(q, 1, n)) /\ Elems(SubSeq(q, 1, n)) \subseteq Elems(q)
    BY Prefix DEF Sorted, Elems

LEMMA ReadOrder ==
    ASSUME Types, Order, ReadEvent
    PROVE  Order'
<1> DEFINE x == read + 1
<1>1. /\ read \in Nat /\ read' = x /\ x \in Items
      /\ main \in Seq(Items) /\ Sorted(main) /\ Len(main) <= Capacity
    BY DEF Types, SourceTypes, ReadEvent, Order, AllSorted, Items
<1>2. UNCHANGED <<keyOf, lane, pending, outbox, wire, inject, injected>>
    BY DEF ReadEvent, streamVars, serverVars
<1>3. \A e \in Elems(main) : e < x
    BY <1>1 DEF Order, MainRead, Items
<1>4. Sorted(main') /\ Elems(main') \subseteq Elems(main) \cup {x}
  <2>1. Sorted(Append(main, x)) /\ Elems(Append(main, x)) \subseteq Elems(main) \cup {x}
    BY <1>1, <1>3, SortedAppend
  <2>2. main' = main \/ main' = Append(main, x)
    BY DEF ReadEvent, Offered
  <2> QED
    BY <1>1, <2>1, <2>2
<1>5. AllSorted'
    BY <1>2, <1>4 DEF Order, AllSorted
<1>6. MainRead'
    BY <1>1, <1>4 DEF Order, MainRead, Items
<1>7. ASSUME NEW p \in Peers, NEW s \in Streams
      PROVE  /\ Way(p, s)'[0] \subseteq Way(p, s)[0] \cup {x}
             /\ \A c \in Places \ {0} : Way(p, s)'[c] = Way(p, s)[c]
  <2>1. \A c \in 1 .. 6 : Way(p, s)'[c] = Way(p, s)[c]
    BY <1>2, WayIs
  <2> QED
    BY <1>4, <2>1, WayIs DEF Places
<1>8. ASSUME NEW p \in Peers, NEW s \in Streams, NEW c \in Places, NEW e \in Way(p, s)[c]
      PROVE  e < x /\ e \in Items /\ e <= x
    BY <1>1, <1>8 DEF Order, Ways, AllRead, Items
<1>9. AllOlder'
  <2> SUFFICES ASSUME NEW p \in Peers, NEW s \in Streams, NEW c \in Places, NEW d \in Places, c < d,
                      NEW e \in Way(p, s)'[c], NEW f \in Way(p, s)'[d]
               PROVE  f < e
    BY DEF AllOlder, Older
  <2>1. d # 0 /\ f \in Way(p, s)[d]
    BY <1>7 DEF Places
  <2>2. CASE e \in Way(p, s)[c]
    BY <2>1, <2>2 DEF Order, Ways, AllOlder, Older
  <2>3. CASE e = x
    BY <1>8, <2>1, <2>3
  <2> QED
    BY <1>7, <2>2, <2>3
<1>10. AllRead'
    BY <1>1, <1>7, <1>8 DEF AllRead
<1>11. KeysApart'
    BY <1>2, <1>7 DEF Order, Ways, KeysApart
<1>12. StreamsApart'
  <2>1. \A c \in Places \ (0 .. 2) : c \in Places \ {0}
    BY DEF Places
  <2> QED
    BY <1>7, <2>1 DEF Order, Ways, StreamsApart
<1> QED
    BY <1>5, <1>6, <1>9, <1>10, <1>11, <1>12 DEF Order, Ways

\* The steps that move no event, or lose some.
LEMMA LossOrder ==
    ASSUME Types, Order, UNCHANGED <<keyOf, read, main, injected>>,
           \A p \in Peers :
              /\ Sorted(lane'[p]) /\ Elems(lane'[p]) \subseteq Elems(lane[p])
              /\ Elems(pending'[p]) \subseteq Elems(pending[p])
              /\ \A s \in Streams :
                    /\ Sorted(outbox'[p][s]) /\ Elems(outbox'[p][s]) \subseteq Elems(outbox[p][s])
                    /\ Sorted(wire'[p][s]) /\ Elems(wire'[p][s]) \subseteq Elems(wire[p][s]),
           \A k \in Keys :
              /\ SortedBy(inject'[k])
              /\ \A p \in Peers, s \in Streams :
                    EventsIn(inject'[k], p, s) \subseteq EventsIn(inject[k], p, s)
    PROVE  Order'
<1>1. AllSorted' /\ MainRead'
    BY DEF Order, AllSorted, MainRead
<1>2. ASSUME NEW p \in Peers, NEW s \in Streams PROVE Loses(Way(p, s), Way(p, s)')
  <2>1. keyOf[p] \in Keys
    BY DEF Types, SourceTypes
  <2> QED
    BY <2>1, WayLoses
<1> QED
    BY <1>1, <1>2, WaysLose DEF Order

LEMMA LosingSteps ==
    ASSUME Types, Order, NEW p \in Peers, NEW s \in Streams,
           \/ ConnectOk(p) \/ ConnectFails(p) \/ Retry(p) \/ NoticeEnd(p)
           \/ CallEnds(p, s) \/ StreamBreaks(p, s)
    PROVE  Order'
<1>1. /\ outbox \in [Peers -> [Streams -> Seq(Items)]] /\ wire \in [Peers -> [Streams -> Seq(Items)]]
      /\ \A l \in Keys : SortedBy(inject[l])
      /\ \A q \in Peers : /\ Sorted(lane[q])
                          /\ \A t \in Streams : Sorted(outbox[q][t]) /\ Sorted(wire[q][t])
    BY DEF Types, StreamTypes, Order, AllSorted
<1>2. CASE \/ ConnectOk(p) \/ ConnectFails(p) \/ Retry(p) \/ NoticeEnd(p)
           \/ CallEnds(p, s)
  <2>1. UNCHANGED <<keyOf, read, main, lane, pending, outbox, wire, inject, injected>>
    BY <1>2 DEF ConnectOk, ConnectFails, Retry, NoticeEnd, CallEnds,
                sourceVars, streamVars, serverVars
  <2> QED
    BY <1>1, <2>1, LossOrder
<1>3. CASE StreamBreaks(p, s)
  <2>1. UNCHANGED <<keyOf, read, main, lane, pending, inject, injected>>
    BY <1>3 DEF StreamBreaks, sourceVars, serverVars
  <2>2. PICK n \in 0 .. Len(wire[p][s]) :
            wire' = [wire EXCEPT ![p][s] = SubSeq(wire[p][s], 1, n)]
    BY <1>3 DEF StreamBreaks
  <2>3. Sorted(SubSeq(wire[p][s], 1, n)) /\ Elems(SubSeq(wire[p][s], 1, n)) \subseteq Elems(wire[p][s])
    BY <1>1, PrefixOrder
  <2>4. \A q \in Peers, t \in Streams :
            /\ outbox'[q][t] = IF q = p /\ t = s THEN << >> ELSE outbox[q][t]
            /\ wire'[q][t] = IF q = p /\ t = s THEN SubSeq(wire[p][s], 1, n) ELSE wire[q][t]
    BY <1>1, <1>3, <2>2 DEF StreamBreaks
  <2>5. \A q \in Peers, t \in Streams :
            /\ Sorted(outbox'[q][t]) /\ Elems(outbox'[q][t]) \subseteq Elems(outbox[q][t])
            /\ Sorted(wire'[q][t]) /\ Elems(wire'[q][t]) \subseteq Elems(wire[q][t])
    BY <1>1, <2>3, <2>4, Nothing
  <2> QED
    BY <1>1, <2>1, <2>5, LossOrder
<1> QED
    BY <1>2, <1>3

LEMMA RestartOrder ==
    ASSUME Types, Order, NEW k \in Keys, DestRestart(k)
    PROVE  Order'
<1>1. /\ \A l \in Keys : SortedBy(inject[l])
      /\ \A q \in Peers : /\ Sorted(lane[q])
                          /\ \A t \in Streams : Sorted(outbox[q][t]) /\ Sorted(wire[q][t])
    BY DEF Order, AllSorted
<1>2. UNCHANGED <<keyOf, read, main, lane, pending, injected>>
    BY DEF DestRestart, sourceVars
<1>3. \A l \in Keys : inject'[l] = IF l = k THEN << >> ELSE inject[l]
    BY DEF DestRestart, Types, DestTypes
<1>4. \A q \in Peers, t \in Streams :
          /\ outbox'[q][t] = IF keyOf[q] = k THEN << >> ELSE outbox[q][t]
          /\ wire'[q][t] = IF keyOf[q] = k THEN << >> ELSE wire[q][t]
    BY DEF DestRestart
<1>5. \A q \in Peers, t \in Streams :
          /\ Sorted(outbox'[q][t]) /\ Elems(outbox'[q][t]) \subseteq Elems(outbox[q][t])
          /\ Sorted(wire'[q][t]) /\ Elems(wire'[q][t]) \subseteq Elems(wire[q][t])
    BY <1>1, <1>4, Nothing
<1>6. \A l \in Keys : /\ SortedBy(inject'[l])
                      /\ \A q \in Peers, t \in Streams :
                            EventsIn(inject'[l], q, t) \subseteq EventsIn(inject[l], q, t)
    BY <1>1, <1>3, Nothing
<1> QED
    BY <1>1, <1>2, <1>5, <1>6, LossOrder

LEMMA MoveOrder ==
    ASSUME Order, NEW p \in Peers, NEW T \in SUBSET Streams, T # {}, NEW a, NEW b, NEW x \in Items,
           Moves({p}, T, a, b, x), UNCHANGED <<keyOf, read, main>>, AllSorted'
    PROVE  Order'
<1>1. MainRead'
    BY DEF Order, MainRead
<1> QED
    BY <1>1, WaysMove DEF Order

\* The event x goes from the lane or from pending into the stream.
LEMMA IntoStream ==
    ASSUME Types, Order, NEW p \in Peers, NEW s \in Streams, NEW a \in {1, 2}, NEW x \in Items,
           UNCHANGED <<keyOf, read, main, wire, inject, injected>>,
           outbox' = [outbox EXCEPT ![p][s] = Append(outbox[p][s], x)],
           \A q \in Peers \ {p} : lane'[q] = lane[q] /\ pending'[q] = pending[q],
           pending'[p] = << >>, Sorted(lane'[p]), Elems(lane'[p]) \subseteq Elems(lane[p]),
           x \in Way(p, s)[a], a = 1 => \A e \in Elems(lane'[p]) : x < e
    PROVE  Order'
<1>1. /\ outbox \in [Peers -> [Streams -> Seq(Items)]]
      /\ outbox[p][s] \in Seq(Items) /\ Sorted(outbox[p][s])
    BY DEF Types, StreamTypes, Order, AllSorted
<1>2. \A e \in Elems(outbox[p][s]) : e < x
  <2>1. a \in Places /\ 3 \in Places /\ a < 3
    BY DEF Places
  <2> QED
    BY <2>1, WayIs DEF Order, Ways, AllOlder, Older
<1>3. /\ Sorted(Append(outbox[p][s], x))
      /\ Elems(Append(outbox[p][s], x)) \subseteq Elems(outbox[p][s]) \cup {x}
    BY <1>1, <1>2, SortedAppend
<1>4. \A q \in Peers, t \in Streams :
          outbox'[q][t] = IF q = p /\ t = s THEN Append(outbox[p][s], x) ELSE outbox[q][t]
    BY <1>1
<1>5. AllSorted'
    BY <1>3, <1>4 DEF Order, AllSorted
<1>6. Elems(pending'[p]) = {}
    BY Nothing
<1>7. ASSUME NEW q \in Peers, NEW t \in Streams, q # p \/ t # s
      PROVE  Loses(Way(q, t), Way(q, t)')
    BY <1>4, <1>6, <1>7, WayLoses
<1>8. Passes(Way(p, s), Way(p, s)', a, 3, x)
  <2>1. Way(p, s)'[0] = Way(p, s)[0] /\ \A c \in 4 .. 6 : Way(p, s)'[c] = Way(p, s)[c]
    BY WayIs
  <2>2. Way(p, s)'[1] \subseteq Way(p, s)[1] /\ Way(p, s)'[2] = {}
    BY <1>6, WayIs
  <2>3. Way(p, s)'[3] \subseteq Way(p, s)[3] \cup {x}
    BY <1>3, <1>4, WayIs
  <2>4. a = 1 => \A e \in Way(p, s)'[1] : e \in Way(p, s)[1] /\ x < e
    BY <2>2, WayIs
  <2> QED
    BY <2>1, <2>2, <2>3, <2>4 DEF Passes, Places
<1>9. Moves({p}, {s}, a, 3, x)
    BY <1>7, <1>8 DEF Moves, Places
<1> QED
    BY <1>5, <1>9, MoveOrder

LEMMA TakeOrder ==
    ASSUME Types, Order, NEW p \in Peers, Take(p)
    PROVE  Order'
<1> DEFINE x == Head(lane[p])
<1>1. PICK s \in Streams : s = stream[p]
    BY DEF Types, ConnTypes, Take, Streams
<1>2. /\ lane[p] \in Seq(Items) /\ lane[p] # << >> /\ Sorted(lane[p])
      /\ lane \in [Peers -> Seq(Items)] /\ lane' = [lane EXCEPT ![p] = Tail(lane[p])]
      /\ UNCHANGED <<keyOf, read, main, wire, inject, injected>>
    BY DEF Types, SourceTypes, Take, Order, AllSorted, sourceVars, serverVars
<1>3. /\ x \in Items /\ x \in Elems(lane[p]) /\ Sorted(lane'[p])
      /\ \A e \in Elems(lane'[p]) : e \in Elems(lane[p]) /\ x < e
      /\ \A q \in Peers \ {p} : lane'[q] = lane[q]
    BY <1>2, TailType, SortedTail
<1>4. pending \in [Peers -> Seq(Items)] /\ pending[p] = << >>
    BY EmptySeq DEF Types, ConnTypes, Take
<1>5. \A q \in Peers : Sorted(lane'[q]) /\ Elems(lane'[q]) \subseteq Elems(lane[q])
    BY <1>3 DEF Order, AllSorted
<1>6. CASE outbox' = [outbox EXCEPT ![p][s] = Append(outbox[p][s], x)]
           /\ pending' = [pending EXCEPT ![p] = << >>]
  <2>1. pending'[p] = << >> /\ \A q \in Peers \ {p} : pending'[q] = pending[q]
    BY <1>4, <1>6
  <2>2. x \in Way(p, s)[1]
    BY <1>3, WayIs
  <2> QED
    BY <1>2, <1>3, <1>5, <1>6, <2>1, <2>2, IntoStream
<1>7. CASE outbox' = outbox /\ pending' = [pending EXCEPT ![p] = <<x>>]
  <2>1. Elems(pending'[p]) = {x} /\ \A q \in Peers \ {p} : pending'[q] = pending[q]
    <3>1. DOMAIN <<x>> = {1} /\ <<x>>[1] = x
      OBVIOUS
    <3>2. Elems(<<x>>) = {x}
      BY <3>1 DEF Elems
    <3> QED
      BY <1>4, <1>7, <3>2
  <2>2. AllSorted'
    BY <1>2, <1>5, <1>7 DEF Order, AllSorted
  <2>3. ASSUME NEW q \in Peers, q # p, NEW t \in Streams
        PROVE  Loses(Way(q, t), Way(q, t)')
    BY <1>2, <1>5, <1>7, <2>1, <2>3, WayLoses
  <2>4. ASSUME NEW t \in Streams PROVE Passes(Way(p, t), Way(p, t)', 1, 2, x)
    <3>1. Way(p, t)'[0] = Way(p, t)[0] /\ \A c \in 3 .. 6 : Way(p, t)'[c] = Way(p, t)[c]
      BY <1>2, <1>7, WayIs
    <3>2. x \in Way(p, t)[1] /\ \A e \in Way(p, t)'[1] : e \in Way(p, t)[1] /\ x < e
      BY <1>3, WayIs
    <3>3. Way(p, t)'[2] \subseteq Way(p, t)[2] \cup {x}
      BY <2>1, WayIs
    <3> QED
      BY <3>1, <3>2, <3>3 DEF Passes, Places
  <2>5. Moves({p}, Streams, 1, 2, x)
    BY <2>3, <2>4 DEF Moves, Places
  <2> QED
    BY <1>1, <1>2, <1>3, <2>2, <2>5, MoveOrder
<1>8. CASE outbox' = outbox /\ pending' = [pending EXCEPT ![p] = << >>]
  <2>1. \A q \in Peers : pending'[q] = pending[q]
    BY <1>4, <1>8
  <2> QED
    BY <1>2, <1>5, <1>8, <2>1, LossOrder DEF Order, AllSorted
<1> QED
    BY <1>1, <1>6, <1>7, <1>8 DEF Take, Send

LEMMA ResumeOrder ==
    ASSUME Types, Order, NEW p \in Peers, Resume(p)
    PROVE  Order'
<1>1. PICK s \in Streams, x \in Items : s = stream[p] /\ x = pending[p][1]
    BY ResumeTypes DEF Types, ConnTypes, Resume, Streams
<1>2. UNCHANGED <<keyOf, read, main, lane, wire, inject, injected>> /\ pending \in [Peers -> Seq(Items)]
    BY DEF Types, ConnTypes, Resume, sourceVars, serverVars
<1>3. x \in Elems(pending[p])
    BY <1>1, ResumeTypes DEF Elems
<1>4. /\ pending' = [pending EXCEPT ![p] = << >>]
      /\ outbox' = outbox \/ outbox' = [outbox EXCEPT ![p][s] = Append(outbox[p][s], x)]
    BY <1>1 DEF Resume, Send
<1>5. /\ pending'[p] = << >> /\ Elems(pending'[p]) = {}
      /\ \A q \in Peers \ {p} : pending'[q] = pending[q]
    BY <1>2, <1>4, Nothing
<1>6. CASE outbox' = [outbox EXCEPT ![p][s] = Append(outbox[p][s], x)]
  <2>1. x \in Way(p, s)[2] /\ Sorted(lane'[p]) /\ 2 \in {1, 2} /\ 2 # 1
    BY <1>2, <1>3, WayIs DEF Order, AllSorted
  <2> QED
    BY <1>2, <1>5, <1>6, <2>1, IntoStream
<1>7. CASE outbox' = outbox
    BY <1>2, <1>5, <1>7, LossOrder DEF Order, AllSorted
<1> QED
    BY <1>4, <1>6, <1>7

LEMMA TransmitOrder ==
    ASSUME Types, Order, NEW p \in Peers, NEW s \in Streams, Transmit(p, s)
    PROVE  Order'
<1>1. /\ outbox \in [Peers -> [Streams -> Seq(Items)]] /\ wire \in [Peers -> [Streams -> Seq(Items)]]
      /\ outbox[p][s] \in Seq(Items) /\ outbox[p][s] # << >> /\ Sorted(outbox[p][s])
      /\ wire[p][s] \in Seq(Items) /\ Sorted(wire[p][s])
    BY DEF Types, StreamTypes, Transmit, Order, AllSorted
<1>2. PICK x \in Items : x = Head(outbox[p][s])
    BY <1>1, TailType
<1>3. /\ x \in Elems(outbox[p][s]) /\ Sorted(Tail(outbox[p][s]))
      /\ \A e \in Elems(Tail(outbox[p][s])) : e \in Elems(outbox[p][s]) /\ x < e
    BY <1>1, <1>2, SortedTail
<1>4. \A q \in Peers, t \in Streams :
          /\ outbox'[q][t] = IF q = p /\ t = s THEN Tail(outbox[p][s]) ELSE outbox[q][t]
          /\ wire'[q][t] = IF q = p /\ t = s THEN Append(wire[p][s], x) ELSE wire[q][t]
    BY <1>1, <1>2 DEF Transmit
<1>5. UNCHANGED <<keyOf, read, main, lane, pending, inject, injected>>
    BY DEF Transmit, sourceVars, serverVars
<1>6. \A e \in Elems(wire[p][s]) : e < x
  <2>1. x \in Way(p, s)[3] /\ 3 \in Places /\ 4 \in Places /\ 3 < 4
    BY <1>3, WayIs DEF Places
  <2> QED
    BY <2>1, WayIs DEF Order, Ways, AllOlder, Older
<1>7. /\ Sorted(Append(wire[p][s], x))
      /\ Elems(Append(wire[p][s], x)) \subseteq Elems(wire[p][s]) \cup {x}
    BY <1>1, <1>6, SortedAppend
<1>8. AllSorted'
    BY <1>3, <1>4, <1>5, <1>7 DEF Order, AllSorted
<1>9. ASSUME NEW q \in Peers, NEW t \in Streams, q # p \/ t # s
      PROVE  Loses(Way(q, t), Way(q, t)')
    BY <1>4, <1>5, <1>9, WayLoses
<1>10. Passes(Way(p, s), Way(p, s)', 3, 4, x)
  <2>1. \A c \in {0, 1, 2, 5, 6} : Way(p, s)'[c] = Way(p, s)[c]
    BY <1>5, WayIs
  <2>2. x \in Way(p, s)[3] /\ \A e \in Way(p, s)'[3] : e \in Way(p, s)[3] /\ x < e
    BY <1>3, <1>4, WayIs
  <2>3. Way(p, s)'[4] \subseteq Way(p, s)[4] \cup {x}
    BY <1>4, <1>7, WayIs
  <2> QED
    BY <2>1, <2>2, <2>3 DEF Passes, Places
<1>11. Moves({p}, {s}, 3, 4, x)
    BY <1>9, <1>10 DEF Moves, Places
<1> QED
    BY <1>5, <1>8, <1>11, MoveOrder

LEMMA ServerOrder ==
    ASSUME Types, Order, NEW p \in Peers, NEW s \in Streams, ServerReads(p, s)
    PROVE  Order'
<1>1. PICK k \in Keys : k = keyOf[p]
    BY DEF Types, SourceTypes
<1>2. /\ wire \in [Peers -> [Streams -> Seq(Items)]] /\ inject \in [Keys -> Seq(Deliveries)]
      /\ wire[p][s] \in Seq(Items) /\ wire[p][s] # << >> /\ Sorted(wire[p][s])
      /\ inject[k] \in Seq(Deliveries) /\ SortedBy(inject[k])
    BY DEF Types, StreamTypes, DestTypes, ServerReads, Order, AllSorted
<1>3. PICK x \in Items : x = Head(wire[p][s])
    BY <1>2, TailType
<1>4. PICK d \in Deliveries : /\ d = [event |-> x, entry |-> p, stream |-> s]
                              /\ d.event = x /\ d.entry = p /\ d.stream = s
  <2>1. [event |-> x, entry |-> p, stream |-> s] \in Deliveries
    BY DEF Deliveries
  <2> QED
    BY <2>1
<1>5. /\ x \in Elems(wire[p][s]) /\ Sorted(Tail(wire[p][s]))
      /\ \A e \in Elems(Tail(wire[p][s])) : e \in Elems(wire[p][s]) /\ x < e
    BY <1>2, <1>3, SortedTail
<1>6. \A q \in Peers, t \in Streams :
          wire'[q][t] = IF q = p /\ t = s THEN Tail(wire[p][s]) ELSE wire[q][t]
    BY <1>2 DEF ServerReads
<1>7. UNCHANGED <<keyOf, read, main, lane, pending, outbox, injected>>
    BY DEF ServerReads, sourceVars
<1>8. /\ inject'[k] = inject[k] \/ inject'[k] = Append(inject[k], d)
      /\ \A l \in Keys \ {k} : inject'[l] = inject[l]
    BY <1>1, <1>2, <1>3, <1>4 DEF ServerReads, SendInject, Offered
<1>9. CASE inject'[k] = inject[k]
    BY <1>5, <1>6, <1>7, <1>8, <1>9, LossOrder DEF Order, AllSorted
<1>10. CASE inject'[k] = Append(inject[k], d)
  <2>1. \A e \in EventsIn(inject[k], p, s) : e < x
    <3>1. x \in Way(p, s)[4] /\ 4 \in Places /\ 5 \in Places /\ 4 < 5
      BY <1>5, WayIs DEF Places
    <3> QED
      BY <1>1, <3>1, WayIs DEF Order, Ways, AllOlder, Older
  <2>2. /\ SortedBy(inject'[k])
        /\ EventsIn(inject'[k], p, s) \subseteq EventsIn(inject[k], p, s) \cup {x}
        /\ \A q \in Peers, t \in Streams : q # p \/ t # s =>
               EventsIn(inject'[k], q, t) \subseteq EventsIn(inject[k], q, t)
    <3>1. /\ SortedBy(Append(inject[k], d))
          /\ \A q \in Peers, t \in Streams : EventsIn(Append(inject[k], d), q, t) \subseteq
                 EventsIn(inject[k], q, t) \cup
                     (IF q = d.entry /\ t = d.stream THEN {d.event} ELSE {})
      BY <1>2, <1>4, <2>1, SortedByAppend
    <3> QED
      BY <1>4, <1>10, <3>1
  <2>3. AllSorted'
    BY <1>5, <1>6, <1>7, <1>8, <2>2 DEF Order, AllSorted
  <2>4. ASSUME NEW q \in Peers, NEW t \in Streams, q # p \/ t # s
        PROVE  Loses(Way(q, t), Way(q, t)')
    <3>1. EventsIn(inject'[keyOf[q]], q, t) \subseteq EventsIn(inject[keyOf[q]], q, t)
      BY <1>8, <2>2, <2>4 DEF Types, SourceTypes
    <3> QED
      BY <1>6, <1>7, <2>4, <3>1, WayLoses
  <2>5. Passes(Way(p, s), Way(p, s)', 4, 5, x)
    <3>1. \A c \in {0, 1, 2, 3, 6} : Way(p, s)'[c] = Way(p, s)[c]
      BY <1>7, WayIs
    <3>2. x \in Way(p, s)[4] /\ \A e \in Way(p, s)'[4] : e \in Way(p, s)[4] /\ x < e
      BY <1>5, <1>6, WayIs
    <3>3. Way(p, s)'[5] \subseteq Way(p, s)[5] \cup {x}
      BY <1>1, <1>7, <2>2, WayIs
    <3> QED
      BY <3>1, <3>2, <3>3 DEF Passes, Places
  <2>6. Moves({p}, {s}, 4, 5, x)
    BY <2>4, <2>5 DEF Moves, Places
  <2> QED
    BY <1>7, <2>3, <2>6, MoveOrder
<1> QED
    BY <1>8, <1>9, <1>10

LEMMA InjectOrder ==
    ASSUME Types, Order, NEW k \in Keys, Inject(k)
    PROVE  Order'
<1>1. /\ inject \in [Keys -> Seq(Deliveries)] /\ injected \in [Keys -> Seq(Deliveries)]
      /\ inject[k] \in Seq(Deliveries) /\ inject[k] # << >> /\ SortedBy(inject[k])
      /\ injected[k] \in Seq(Deliveries) /\ SortedBy(injected[k])
    BY DEF Types, DestTypes, Inject, Order, AllSorted
<1>2. PICK d \in Deliveries : d = Head(inject[k])
    BY <1>1, TailType
<1>3. PICK x \in Items, p \in Peers, s \in Streams : x = d.event /\ p = d.entry /\ s = d.stream
    BY DEF Deliveries
<1>4. /\ SortedBy(Tail(inject[k])) /\ x \in EventsIn(inject[k], p, s)
      /\ \A q \in Peers, t \in Streams : EventsIn(Tail(inject[k]), q, t) \subseteq EventsIn(inject[k], q, t)
      /\ \A e \in EventsIn(Tail(inject[k]), p, s) : e \in EventsIn(inject[k], p, s) /\ x < e
    BY <1>1, <1>2, <1>3, SortedByTail
<1>5. /\ inject'[k] = Tail(inject[k]) /\ injected'[k] = Append(injected[k], d)
      /\ \A l \in Keys \ {k} : inject'[l] = inject[l] /\ injected'[l] = injected[l]
    BY <1>1, <1>2 DEF Inject
<1>6. UNCHANGED <<keyOf, read, main, lane, pending, outbox, wire>>
    BY DEF Inject, sourceVars, streamVars
<1>7. keyOf[p] = k
  <2>1. inject[k] \in Seq({e \in Deliveries : keyOf[e.entry] = k})
    BY DEF Types, DestTypes, Own
  <2>2. Head(inject[k]) \in {e \in Deliveries : keyOf[e.entry] = k}
    BY <1>1, <2>1, TailType
  <2> QED
    BY <1>2, <1>3, <2>2
<1>8. \A e \in EventsIn(injected[k], p, s) : e < x
  <2>1. x \in Way(p, s)[5] /\ 5 \in Places /\ 6 \in Places /\ 5 < 6
    BY <1>4, <1>7, WayIs DEF Places
  <2> QED
    BY <1>7, <2>1, WayIs DEF Order, Ways, AllOlder, Older
<1>9. /\ SortedBy(injected'[k])
      /\ EventsIn(injected'[k], p, s) \subseteq EventsIn(injected[k], p, s) \cup {x}
      /\ \A q \in Peers, t \in Streams : q # p \/ t # s =>
             EventsIn(injected'[k], q, t) \subseteq EventsIn(injected[k], q, t)
    BY <1>1, <1>3, <1>5, <1>8, SortedByAppend
<1>10. AllSorted'
    BY <1>4, <1>5, <1>6, <1>9 DEF Order, AllSorted
<1>11. ASSUME NEW q \in Peers, NEW t \in Streams, q # p \/ t # s
       PROVE  Loses(Way(q, t), Way(q, t)')
  <2>1. /\ EventsIn(inject'[keyOf[q]], q, t) \subseteq EventsIn(inject[keyOf[q]], q, t)
        /\ EventsIn(injected'[keyOf[q]], q, t) \subseteq EventsIn(injected[keyOf[q]], q, t)
    BY <1>4, <1>5, <1>9, <1>11 DEF Types, SourceTypes
  <2> QED
    BY <1>6, <2>1, WayLoses
<1>12. Passes(Way(p, s), Way(p, s)', 5, 6, x)
  <2>1. \A c \in 0 .. 4 : Way(p, s)'[c] = Way(p, s)[c]
    BY <1>6, WayIs
  <2>2. x \in Way(p, s)[5] /\ \A e \in Way(p, s)'[5] : e \in Way(p, s)[5] /\ x < e
    BY <1>4, <1>5, <1>6, <1>7, WayIs
  <2>3. Way(p, s)'[6] \subseteq Way(p, s)[6] \cup {x}
    BY <1>6, <1>7, <1>9, WayIs
  <2> QED
    BY <2>1, <2>2, <2>3 DEF Passes, Places
<1>13. Moves({p}, {s}, 5, 6, x)
    BY <1>11, <1>12 DEF Moves, Places
<1> QED
    BY <1>6, <1>10, <1>13, MoveOrder

LEMMA OrderInit == Init => Order
<1> SUFFICES ASSUME Init PROVE Order
    OBVIOUS
<1>1. /\ AllSorted /\ MainRead
    BY Nothing DEF Init, AllSorted, MainRead
<1>2. \A p \in Peers, s \in Streams, c \in Places : Way(p, s)[c] = {}
    BY Nothing DEF Init, Way
<1> QED
    BY <1>1, <1>2 DEF Order, Ways, AllOlder, Older, AllRead, KeysApart, StreamsApart, Places

LEMMA OrderStep == Types /\ Order /\ [Next]_vars => Order'
<1> SUFFICES ASSUME Types, Order, [Next]_vars PROVE Order'
    OBVIOUS
<1>1. CASE SetActive \/ UNCHANGED vars
  <2>1. UNCHANGED <<keyOf, read, main, lane, pending, outbox, wire, inject, injected>>
    BY <1>1 DEF SetActive, vars, streamVars, serverVars
  <2> QED
    BY <2>1 DEF Order, AllSorted, MainRead, Ways, AllOlder, AllRead, KeysApart, StreamsApart, Way
<1>2. PICK s0 \in Streams : TRUE
    BY DEF Streams
<1> QED
    BY <1>1, <1>2, ReadOrder, RouteOrder, LosingSteps, TakeOrder, ResumeOrder, InjectOrder,
       RestartOrder, TransmitOrder, ServerOrder DEF Next

\* A destination injects what comes by one stream in the order the receiver read it
\* (router, run_peer_connection, scroll handler, run_scroll_inject): every channel
\* may drop events and every connection may lose some, but none overtakes another.
THEOREM StreamsInOrder == Spec => []InOrderPerStream
<1>1. Order => InOrderPerStream
  <2> SUFFICES ASSUME Order PROVE InOrderPerStream
    OBVIOUS
  <2>1. \A k \in Keys : SortedBy(injected[k])
    BY DEF Order, AllSorted
  <2> QED
    BY <2>1 DEF InOrderPerStream, SortedBy
<1> QED
    BY <1>1, TypesInit, TypesStep, OrderInit, OrderStep, PTL DEF Spec

\* A channel is main, or of an entry, or of an entry and a stream, or of a machine.
LEMMA ChannelIs ==
    ASSUME NEW c \in Channels
    PROVE  \/ c = <<"main">> /\ Content(c) = By(NoPeer, main)
           \/ \E p \in Peers :
                \/ c = <<"lane", p>> /\ Content(c) = By(p, lane[p])
                \/ c = <<"pending", p>> /\ Content(c) = By(p, pending[p])
                \/ \E s \in Streams :
                    \/ c = <<"outbox", p, s>> /\ Content(c) = By(p, outbox[p][s])
                    \/ c = <<"wire", p, s>> /\ Content(c) = By(p, wire[p][s])
           \/ \E k \in Keys :
                \/ c = <<"inject", k>> /\ Content(c) = inject[k]
                \/ c = <<"injected", k>> /\ Content(c) = injected[k]
    BY DEF Channels, Content

LEMMA ByHas ==
    ASSUME NEW p, NEW q \in Seq(Items), NEW i \in DOMAIN By(p, q)
    PROVE  /\ i \in DOMAIN q /\ By(p, q)[i].entry = p /\ By(p, q)[i].event = q[i]
           /\ q[i] \in Elems(q)
    BY DEF By, Elems

LEMMA DeliveryHas ==
    ASSUME Types, NEW k \in Keys, NEW q, q = inject[k] \/ q = injected[k], NEW i \in DOMAIN q
    PROVE  \E p \in Peers, s \in Streams :
               /\ keyOf[p] = k /\ q[i].entry = p /\ q[i].stream = s /\ q[i].event \in Items
               /\ q[i].event \in EventsIn(q, p, s)
<1>1. q \in Seq({d \in Deliveries : keyOf[d.entry] = k})
    BY DEF Types, DestTypes, Own
<1>2. q[i] \in Deliveries /\ keyOf[q[i].entry] = k
    BY <1>1
<1> QED
    BY <1>2 DEF Deliveries, EventsIn

\* Which channel the k-th place on the way by p and s is.
ChannelAt(p, s, k) ==
    IF k = 1 THEN <<"lane", p>>
    ELSE IF k = 2 THEN <<"pending", p>>
    ELSE IF k = 3 THEN <<"outbox", p, s>>
    ELSE IF k = 4 THEN <<"wire", p, s>>
    ELSE IF k = 5 THEN <<"inject", keyOf[p]>>
    ELSE <<"injected", keyOf[p]>>

LEMMA OnTheWay ==
    ASSUME Types, NEW c \in Channels, c # <<"main">>, NEW i \in DOMAIN Content(c)
    PROVE  \E p \in Peers, s \in Streams, k \in Places \ {0} :
               /\ c = ChannelAt(p, s, k)
               /\ Content(c)[i].event \in Way(p, s)[k]
               /\ Content(c)[i].entry = p
<1>1. PICK s0 \in Streams : TRUE
    BY DEF Streams
<1>2. {1, 2, 3, 4, 5, 6} \subseteq Places \ {0}
    BY DEF Places
<1>3. ASSUME NEW p \in Peers, c = <<"lane", p>>, Content(c) = By(p, lane[p])
      PROVE  c = ChannelAt(p, s0, 1) /\ Content(c)[i].event \in Way(p, s0)[1]
             /\ Content(c)[i].entry = p
    BY <1>3, ByHas, WayIs DEF ChannelAt, Types, SourceTypes
<1>4. ASSUME NEW p \in Peers, c = <<"pending", p>>, Content(c) = By(p, pending[p])
      PROVE  c = ChannelAt(p, s0, 2) /\ Content(c)[i].event \in Way(p, s0)[2]
             /\ Content(c)[i].entry = p
    BY <1>4, ByHas, WayIs DEF ChannelAt, Types, ConnTypes
<1>5. ASSUME NEW p \in Peers, NEW s \in Streams, c = <<"outbox", p, s>>,
             Content(c) = By(p, outbox[p][s])
      PROVE  c = ChannelAt(p, s, 3) /\ Content(c)[i].event \in Way(p, s)[3]
             /\ Content(c)[i].entry = p
    BY <1>5, ByHas, WayIs DEF ChannelAt, Types, StreamTypes
<1>6. ASSUME NEW p \in Peers, NEW s \in Streams, c = <<"wire", p, s>>,
             Content(c) = By(p, wire[p][s])
      PROVE  c = ChannelAt(p, s, 4) /\ Content(c)[i].event \in Way(p, s)[4]
             /\ Content(c)[i].entry = p
    BY <1>6, ByHas, WayIs DEF ChannelAt, Types, StreamTypes
<1>7. ASSUME NEW k \in Keys, c = <<"inject", k>>, Content(c) = inject[k]
      PROVE  \E p \in Peers, s \in Streams : /\ c = ChannelAt(p, s, 5)
                                             /\ Content(c)[i].event \in Way(p, s)[5]
                                             /\ Content(c)[i].entry = p
    BY <1>7, DeliveryHas, WayIs DEF ChannelAt
<1>8. ASSUME NEW k \in Keys, c = <<"injected", k>>, Content(c) = injected[k]
      PROVE  \E p \in Peers, s \in Streams : /\ c = ChannelAt(p, s, 6)
                                             /\ Content(c)[i].event \in Way(p, s)[6]
                                             /\ Content(c)[i].entry = p
    BY <1>8, DeliveryHas, WayIs DEF ChannelAt
<1> QED
    BY <1>1, <1>2, <1>3, <1>4, <1>5, <1>6, <1>7, <1>8, ChannelIs

LEMMA OnceInSorted ==
    ASSUME NEW q \in Seq(Items), Sorted(q), NEW i \in DOMAIN q, NEW j \in DOMAIN q, q[i] = q[j]
    PROVE  i = j
<1>1. i \in Nat /\ j \in Nat /\ q[i] \in Items
    OBVIOUS
<1>2. ~(i < j) /\ ~(j < i)
    BY <1>1 DEF Sorted, Items
<1> QED
    BY <1>1, <1>2

\* Within one machine's channel no event is there twice by one entry.
LEMMA OnceInDeliveries ==
    ASSUME Types, Order, NEW k \in Keys, NEW q, NEW c \in {5, 6}, SortedBy(q),
           (q = inject[k] /\ c = 5) \/ (q = injected[k] /\ c = 6),
           NEW i \in DOMAIN q, NEW j \in DOMAIN q,
           q[i].event = q[j].event, q[i].entry = q[j].entry
    PROVE  i = j
<1>1. q \in Seq(Deliveries)
    BY DEF Types, DestTypes
<1>2. i \in Nat /\ j \in Nat
    BY <1>1
<1>3. PICK p \in Peers, s \in Streams :
        /\ keyOf[p] = k /\ q[i].entry = p /\ q[i].stream = s /\ q[i].event \in Items
        /\ q[i].event \in EventsIn(q, p, s)
    BY DeliveryHas
<1>4. PICK t \in Streams : q[j].stream = t /\ q[j].event \in EventsIn(q, p, t)
  <2>1. PICK r \in Peers, t \in Streams :
            q[j].entry = r /\ q[j].stream = t /\ q[j].event \in EventsIn(q, r, t)
    BY DeliveryHas
  <2>2. r = p
    BY <1>3, <2>1
  <2> QED
    BY <2>1, <2>2
<1>5. \A u \in Streams : Way(p, u)[c] = EventsIn(q, p, u)
    BY <1>3, WayIs
<1>6. s = t
  <2>1. c \in Places \ (0 .. 2)
    BY DEF Places
  <2>2. q[i].event \in Way(p, s)[c] /\ q[i].event \in Way(p, t)[c]
    BY <1>3, <1>4, <1>5
  <2>3. StreamsApart
    BY DEF Order, Ways
  <2> QED
    BY <1>3, <2>1, <2>2, <2>3 DEF StreamsApart
<1>7. ~(i < j) /\ ~(j < i)
  <2>1. PICK e \in Items : q[i].event = e /\ q[j].event = e
    BY <1>3
  <2>2. i < j \/ j < i => e < e
    BY <1>3, <1>4, <1>6, <2>1, Zenon DEF SortedBy, SameStream
  <2>3. ~(e < e)
    BY DEF Items
  <2> QED
    BY <2>2, <2>3
<1> QED
    BY <1>2, <1>7

LEMMA OnceInChannel ==
    ASSUME Types, Order, NEW c \in Channels,
           NEW i \in DOMAIN Content(c), NEW j \in DOMAIN Content(c),
           Content(c)[i].event = Content(c)[j].event, Content(c)[i].entry = Content(c)[j].entry
    PROVE  i = j
<1>1. ASSUME NEW p, NEW q \in Seq(Items), Sorted(q), Content(c) = By(p, q) PROVE i = j
  <2>1. i \in DOMAIN q /\ j \in DOMAIN q /\ q[i] = q[j]
    BY <1>1, ByHas
  <2> QED
    BY <1>1, <2>1, OnceInSorted
<1>2. CASE Content(c) = By(NoPeer, main)
    BY <1>1, <1>2 DEF Types, SourceTypes, Order, AllSorted
<1>3. ASSUME NEW p \in Peers, Content(c) = By(p, lane[p]) PROVE i = j
    BY <1>1, <1>3 DEF Types, SourceTypes, Order, AllSorted
<1>4. ASSUME NEW p \in Peers, Content(c) = By(p, pending[p]) PROVE i = j
  <2>1. pending[p] \in Seq(Items) /\ Len(pending[p]) \in {0, 1}
    BY DEF Types, ConnTypes
  <2>2. i \in DOMAIN pending[p] /\ j \in DOMAIN pending[p]
    BY <1>4, <2>1, ByHas
  <2> QED
    BY <2>1, <2>2
<1>5. ASSUME NEW p \in Peers, NEW s \in Streams,
             Content(c) = By(p, outbox[p][s]) \/ Content(c) = By(p, wire[p][s])
      PROVE  i = j
    BY <1>1, <1>5 DEF Types, StreamTypes, Order, AllSorted
<1>6. ASSUME NEW k \in Keys, Content(c) = inject[k] \/ Content(c) = injected[k] PROVE i = j
    BY <1>6, OnceInDeliveries DEF Order, AllSorted
<1> QED
    BY <1>2, <1>3, <1>4, <1>5, <1>6, ChannelIs

\* An event is at one place of the ways by one entry.
LEMMA OnePlace ==
    ASSUME Order, NEW p \in Peers, NEW s \in Streams, NEW t \in Streams,
           NEW k \in Places \ {0}, NEW l \in Places \ {0}, NEW e, e \in Way(p, s)[k], e \in Way(p, t)[l]
    PROVE  ChannelAt(p, s, k) = ChannelAt(p, t, l)
<1>1. k \in Int /\ l \in Int /\ e \in Int
    BY DEF Places, Order, Ways, AllRead, Items
<1>2. k > 2 /\ l > 2 => s = t
    BY DEF Order, Ways, StreamsApart, Places
<1>3. k <= 2 => e \in Way(p, t)[k]
    BY Common DEF Places
<1>4. l <= 2 => e \in Way(p, s)[l]
    BY Common DEF Places
<1>5. k = l
  <2>1. (e \in Way(p, s)[k] /\ e \in Way(p, s)[l]) \/ (e \in Way(p, t)[k] /\ e \in Way(p, t)[l])
    BY <1>1, <1>2, <1>3, <1>4
  <2>2. ~(k < l) /\ ~(l < k)
    BY <1>1, <2>1 DEF Order, Ways, AllOlder, Older
  <2> QED
    BY <1>1, <2>2
<1> QED
    BY <1>1, <1>2, <1>5 DEF ChannelAt

LEMMA MainFirst ==
    ASSUME Types, Order, NEW c \in Channels, c # <<"main">>, NEW i \in DOMAIN By(NoPeer, main),
           NEW j \in DOMAIN Content(c)
    PROVE  By(NoPeer, main)[i].event # Content(c)[j].event
<1> DEFINE e == By(NoPeer, main)[i].event
<1>1. PICK p \in Peers, s \in Streams, k \in Places \ {0} : Content(c)[j].event \in Way(p, s)[k]
    BY OnTheWay
<1>2. e \in Elems(main) /\ e \in Items
    BY ByHas DEF Types, SourceTypes, Elems
<1>3. e \in Way(p, s)[0] /\ e \in Int /\ 0 \in Places /\ 0 < k
    BY <1>2, WayIs DEF Items, Places
<1> QED
    BY <1>1, <1>3 DEF Order, Ways, AllOlder, Older

\* Connections and machines make no copies: an event that is at two places came there by
\* two entries of one key, whatever streams break and are opened again (router,
\* run_peer_connection, scroll handler, run_scroll_inject).
THEOREM ScrolledOnce == Spec => []AtMostOnce
<1>1. Types /\ Order => AtMostOnce
  <2> SUFFICES ASSUME Types, Order, NEW c \in Channels, NEW d \in Channels,
                      NEW i \in DOMAIN Content(c), NEW j \in DOMAIN Content(d),
                      Content(c)[i].event = Content(d)[j].event,
                      ~Twins(Content(c)[i].entry, Content(d)[j].entry)
               PROVE  c = d /\ i = j
    BY DEF AtMostOnce
  <2>1. \A x \in Channels : x = <<"main">> => Content(x) = By(NoPeer, main)
    BY DEF Content
  <2>2. CASE c = <<"main">> \/ d = <<"main">>
    <3>1. c = d /\ Content(c) = By(NoPeer, main)
      BY <2>1, <2>2, MainFirst
    <3>2. Content(c)[i].entry = Content(c)[j].entry
      BY <3>1, ByHas DEF Types, SourceTypes
    <3> QED
      BY <3>1, <3>2, OnceInChannel
  <2>3. CASE c # <<"main">> /\ d # <<"main">>
    <3>1. PICK p \in Peers, s \in Streams, k \in Places \ {0} :
              /\ c = ChannelAt(p, s, k) /\ Content(c)[i].event \in Way(p, s)[k]
              /\ Content(c)[i].entry = p
      BY <2>3, OnTheWay
    <3>2. PICK q \in Peers, t \in Streams, l \in Places \ {0} :
              /\ d = ChannelAt(q, t, l) /\ Content(d)[j].event \in Way(q, t)[l]
              /\ Content(d)[j].entry = q
      BY <2>3, OnTheWay
    <3>3. p = q
      <4>1. keyOf[p] = keyOf[q]
        BY <3>1, <3>2 DEF Order, Ways, KeysApart
      <4> QED
        BY <3>1, <3>2, <4>1 DEF Twins
    <3>4. c = d
      BY <3>1, <3>2, <3>3, OnePlace
    <3> QED
      BY <3>1, <3>2, <3>3, <3>4, OnceInChannel
  <2> QED
    BY <2>2, <2>3
<1> QED
    BY <1>1, TypesInit, TypesStep, OrderInit, OrderStep, PTL DEF Spec

\* Where no key is listed twice, every event is scrolled once at most, on one machine.
THEOREM DistinctKeysScrollOnce ==
    ASSUME \A f \in Configs : \A p, q \in Peers : f[p] = f[q] => p = q
    PROVE  Spec => [](\A k, l \in Keys : \A i \in DOMAIN injected[k], j \in DOMAIN injected[l] :
                         injected[k][i].event = injected[l][j].event => k = l /\ i = j)
<1> DEFINE Once == \A k, l \in Keys : \A i \in DOMAIN injected[k], j \in DOMAIN injected[l] :
                      injected[k][i].event = injected[l][j].event => k = l /\ i = j
<1>1. Types /\ AtMostOnce => Once
  <2> SUFFICES ASSUME Types, AtMostOnce, NEW k \in Keys, NEW l \in Keys,
                      NEW i \in DOMAIN injected[k], NEW j \in DOMAIN injected[l],
                      injected[k][i].event = injected[l][j].event
               PROVE  k = l /\ i = j
    OBVIOUS
  <2> DEFINE c == <<"injected", k>>
             d == <<"injected", l>>
  <2>1. /\ c \in Channels /\ Content(c) = injected[k]
        /\ d \in Channels /\ Content(d) = injected[l]
    BY DEF Channels, Content
  <2>2. \A p, q : ~Twins(p, q)
    BY DEF Twins, Types, SourceTypes
  <2>3. c = d /\ i = j
    <3> HIDE DEF c, d
    <3> QED
      BY <2>1, <2>2 DEF AtMostOnce
  <2> QED
    BY <2>3
<1> QED
    BY <1>1, TypesInit, TypesStep, ScrolledOnce, PTL DEF Spec
=============================================================================
