------------------------- MODULE DeviceMonitorProofs -------------------------
(***************************************************************************)
(* Theorems about DeviceMonitor, for any devices, names and failures.      *)
(*   MonitorTypes    the variables keep their types;                       *)
(*   MonitorCanStop  a receiver that was not cancelled is in the table;    *)
(*   TwiceOnlyLate   a cancelled receiver sends one event at most, and an  *)
(*                   event sent twice was sent by a cancelled one.         *)
(*   NamedDevicesFollowed  once the monitor has handled its news, a device *)
(*                   with a name of its own is read or about to be opened  *)
(*                   if it is there, and by nobody that goes on if not.    *)
(* The order of a receiver's events (Buffers) carries the types; who has   *)
(* an event still to send (EventsInv, SentInv) carries the third; that the *)
(* news of a device alternate and lead from what the table says to where   *)
(* the device is (MonitorInv) carries the last.                            *)
(***************************************************************************)
EXTENDS DeviceMonitor, SequenceTheorems, TLAPS

USE DeviceMonitorAssumption

-----------------------------------------------------------------------------
\* Sequences.

Has(s, e) == \E k \in DOMAIN s : s[k] = e

LEMMA HasAppend ==
    ASSUME NEW S, NEW s \in Seq(S), NEW x \in S, NEW e, Has(Append(s, x), e)
    PROVE  Has(s, e) \/ e = x
<1>1. PICK k \in DOMAIN Append(s, x) : Append(s, x)[k] = e
    BY DEF Has
<1>2. k \in 1 .. Len(s) + 1 /\ Len(s) \in Nat
    BY <1>1
<1>3. CASE k = Len(s) + 1
    BY <1>1, <1>3
<1>4. CASE k \in 1 .. Len(s)
  <2>1. Append(s, x)[k] = s[k] /\ k \in DOMAIN s
    BY <1>4
  <2> QED
    BY <1>1, <2>1 DEF Has
<1> QED
    BY <1>2, <1>3, <1>4

LEMMA HasConcat ==
    ASSUME NEW S, NEW s \in Seq(S), NEW t \in Seq(S), NEW e, Has(s \o t, e)
    PROVE  Has(s, e) \/ Has(t, e)
<1>1. PICK k \in DOMAIN (s \o t) : (s \o t)[k] = e
    BY DEF Has
<1>2. k \in 1 .. Len(s) + Len(t) /\ Len(s) \in Nat /\ Len(t) \in Nat
    BY <1>1
<1>3. CASE k <= Len(s)
  <2>1. (s \o t)[k] = s[k] /\ k \in DOMAIN s
    BY <1>2, <1>3
  <2> QED
    BY <1>1, <2>1 DEF Has
<1>4. CASE k > Len(s)
  <2>1. (s \o t)[k] = t[k - Len(s)] /\ k - Len(s) \in DOMAIN t
    BY <1>2, <1>4
  <2> QED
    BY <1>1, <2>1 DEF Has
<1> QED
    BY <1>2, <1>3, <1>4

LEMMA HasTail ==
    ASSUME NEW S, NEW s \in Seq(S), s # << >>, NEW e, Has(Tail(s), e)
    PROVE  Has(s, e)
<1>1. PICK k \in DOMAIN Tail(s) : Tail(s)[k] = e
    BY DEF Has
<1>2. k + 1 \in DOMAIN s /\ s[k + 1] = e
    BY <1>1
<1> QED
    BY <1>2 DEF Has

LEMMA HasHead ==
    ASSUME NEW S, NEW s \in Seq(S), s # << >>
    PROVE  Has(s, s[1]) /\ s[1] \in S /\ Tail(s) \in Seq(S)
<1>1. 1 \in DOMAIN s
    BY EmptySeq, LenProperties
<1> QED
    BY <1>1 DEF Has

-----------------------------------------------------------------------------
\* Types.

Values == 0 .. MaxEvents

LEMMA TellType ==
    ASSUME receivers \in Seq(Receivers), NEW d \in Devices, NEW e \in Values
    PROVE  /\ Tell(d, e) \in Seq(Receivers) /\ Len(Tell(d, e)) = Len(receivers)
           /\ DOMAIN Tell(d, e) = DOMAIN receivers
           /\ \A i \in DOMAIN receivers :
                \/ Tell(d, e)[i] = receivers[i]
                \/ /\ receivers[i].device = d
                   /\ Tell(d, e)[i] = [receivers[i] EXCEPT !.kernel = Append(@, e)]
<1> DEFINE r(i) == IF /\ receivers[i].device = d /\ receivers[i].plug = attached[d]
                      /\ receivers[i].stage \in {"looping", "polling"}
                   THEN [receivers[i] EXCEPT !.kernel = Append(@, e)]
                   ELSE receivers[i]
<1>1. DOMAIN receivers = 1 .. Len(receivers) /\ Len(receivers) \in Nat
    BY LenProperties
<1>2. ASSUME NEW i \in 1 .. Len(receivers) PROVE r(i) \in Receivers
  <2>1. receivers[i] \in Receivers
    BY <1>1, <1>2
  <2>2. Append(receivers[i].kernel, e) \in Seq(Values)
    BY <2>1 DEF Receivers, Values
  <2> QED
    BY <2>1, <2>2 DEF Receivers, Values
<1>3. Tell(d, e) = [i \in 1 .. Len(receivers) |-> r(i)]
    BY <1>1 DEF Tell
<1> HIDE DEF r
<1>4. Tell(d, e) \in [1 .. Len(receivers) -> Receivers]
    BY <1>2, <1>3
<1>5. Tell(d, e) \in Seq(Receivers) /\ Len(Tell(d, e)) = Len(receivers)
    BY <1>1, <1>4, IsASeq, LenProperties
<1>6. \A i \in DOMAIN receivers : Tell(d, e)[i] = r(i)
    BY <1>1, <1>3
<1> QED
    BY <1>1, <1>4, <1>5, <1>6 DEF r

Buffer(r) == r.queued \o r.kernel

\* A receiver is told once that its device is gone, after everything else.
GoneLast(s) == \A k \in DOMAIN s : s[k] = Gone => k = Len(s)

Reading(r) == r.stage \in {"looping", "polling"}

\* A receiver r, when the plugs were p and the devices are attached as in a.
InOrder(r, p, a) ==
    /\ GoneLast(Buffer(r))
    /\ r.plug <= p
    /\ r.stage = "starting" => Buffer(r) = << >>
    /\ Reading(r) =>
          /\ r.plug # 0
          /\ r.plug = a[r.device] => ~Has(Buffer(r), Gone)

Buffers == \A i \in DOMAIN receivers : InOrder(receivers[i], plugs, attached)

LEMMA BufferType ==
    ASSUME NEW r \in Receivers
    PROVE  /\ Buffer(r) \in Seq(Values)
           /\ r.kernel # << >> => Buffer(r) # << >>
           /\ r.queued \in Seq(Values) /\ r.kernel \in Seq(Values)
<1>1. r.queued \in Seq(Values) /\ r.kernel \in Seq(Values)
    BY DEF Receivers, Values
<1>2. Buffer(r) \in Seq(Values)
    BY <1>1 DEF Buffer
<1>3. ASSUME r.kernel # << >> PROVE Buffer(r) # << >>
  <2>1. Len(r.kernel) \in Nat /\ Len(r.kernel) # 0 /\ Len(r.queued) \in Nat
    BY <1>1, <1>3, EmptySeq, LenProperties
  <2>2. Len(Buffer(r)) = Len(r.queued) + Len(r.kernel)
    BY <1>1 DEF Buffer
  <2>3. Len(Buffer(r)) # 0
    <3> DEFINE n == Len(Buffer(r))  k == Len(r.kernel)  q == Len(r.queued)
    <3>1. k \in Nat /\ k # 0 /\ q \in Nat /\ n = q + k
      BY <2>1, <2>2
    <3> HIDE DEF n, k, q
    <3>2. n # 0
      BY <3>1
    <3> QED
      BY <3>2 DEF n
  <2> QED
    BY <1>2, <2>3, EmptySeq, LenProperties
<1> QED
    BY <1>1, <1>2, <1>3

LEMMA ConcatAppend ==
    ASSUME NEW S, NEW s \in Seq(S), NEW t \in Seq(S), NEW x \in S
    PROVE  s \o Append(t, x) = Append(s \o t, x)
<1> DEFINE a == s \o Append(t, x)
           b == Append(s \o t, x)
<1>1. s \o t \in Seq(S) /\ Append(t, x) \in Seq(S) /\ Len(s) \in Nat /\ Len(t) \in Nat
    OBVIOUS
<1>2. a \in Seq(S) /\ b \in Seq(S) /\ Len(a) = Len(s) + Len(t) + 1 /\ Len(b) = Len(a)
    BY <1>1
<1>3. ASSUME NEW k \in 1 .. Len(a) PROVE a[k] = b[k]
  <2>1. CASE k <= Len(s)
    BY <1>1, <1>2, <1>3, <2>1
  <2>2. CASE k > Len(s) /\ k <= Len(s) + Len(t)
    BY <1>1, <1>2, <1>3, <2>2
  <2>3. CASE k = Len(s) + Len(t) + 1
    BY <1>1, <1>2, <1>3, <2>3
  <2> QED
    BY <1>1, <1>2, <2>1, <2>2, <2>3
<1> HIDE DEF a, b
<1>4. a = b
    BY <1>2, <1>3, SeqEqual
<1> QED
    BY <1>4 DEF a, b

LEMMA BufferAppend ==
    ASSUME NEW r \in Receivers, NEW e \in Values
    PROVE  LET r2 == [r EXCEPT !.kernel = Append(@, e)]
           IN  r2 \in Receivers /\ Buffer(r2) = Append(Buffer(r), e)
<1> DEFINE r2 == [r EXCEPT !.kernel = Append(@, e)]
<1>1. r.queued \in Seq(Values) /\ r.kernel \in Seq(Values)
    BY DEF Receivers, Values
<1>2. r2.queued = r.queued /\ r2.kernel = Append(r.kernel, e)
    BY DEF Receivers
<1>3. r.queued \o Append(r.kernel, e) = Append(r.queued \o r.kernel, e)
  <2> DEFINE q == r.queued
             k == r.kernel
  <2>1. q \in Seq(Values) /\ k \in Seq(Values) /\ e \in Values
    BY <1>1
  <2> HIDE DEF q, k
  <2>2. q \o Append(k, e) = Append(q \o k, e)
    BY <2>1, ConcatAppend
  <2> QED
    BY <2>2 DEF q, k
<1>4. Append(r.kernel, e) \in Seq(Values)
    BY <1>1
<1>5. r2 \in Receivers
    BY <1>4 DEF Receivers, Values
<1> QED
    BY <1>2, <1>3, <1>5 DEF Buffer

LEMMA GoneLastAppend ==
    ASSUME NEW s \in Seq(Values), NEW e \in Values, GoneLast(s), ~Has(s, Gone)
    PROVE  GoneLast(Append(s, e))
<1> SUFFICES ASSUME NEW k \in DOMAIN Append(s, e), Append(s, e)[k] = Gone
             PROVE  k = Len(Append(s, e))
    BY DEF GoneLast
<1>1. Len(s) \in Nat /\ Len(Append(s, e)) = Len(s) + 1 /\ k \in 1 .. Len(s) + 1
    OBVIOUS
<1>2. CASE k \in 1 .. Len(s)
  <2>1. k \in DOMAIN s /\ s[k] = Gone
    BY <1>2
  <2> QED
    BY <2>1 DEF Has
<1> QED
    BY <1>1, <1>2

LEMMA GoneLastTail ==
    ASSUME NEW s \in Seq(Values), GoneLast(s), s # << >>
    PROVE  GoneLast(Tail(s)) /\ (s[1] = Gone => Tail(s) = << >>)
<1>1. Len(s) \in Nat \ {0} /\ Len(Tail(s)) = Len(s) - 1 /\ Tail(s) \in Seq(Values)
    BY EmptySeq, LenProperties
<1>2. ASSUME NEW k \in DOMAIN Tail(s), Tail(s)[k] = Gone PROVE k = Len(Tail(s))
  <2>1. k \in 1 .. Len(s) - 1 /\ Tail(s)[k] = s[k + 1] /\ k + 1 \in DOMAIN s
    BY <1>1, <1>2
  <2>2. k + 1 = Len(s)
    BY <1>2, <2>1 DEF GoneLast
  <2> QED
    BY <1>1, <2>1, <2>2
<1>3. ASSUME s[1] = Gone PROVE Tail(s) = << >>
  <2>1. 1 \in DOMAIN s
    BY <1>1
  <2>2. Len(s) = 1
    BY <1>3, <2>1 DEF GoneLast
  <2> QED
    BY <1>1, <2>2, EmptySeq, Z3
<1> QED
    BY <1>2, <1>3 DEF GoneLast

-----------------------------------------------------------------------------
\* What the steps do to the receivers.

LEMMA Update ==
    ASSUME receivers \in Seq(Receivers), NEW i \in DOMAIN receivers, NEW r \in Receivers
    PROVE  LET t == [receivers EXCEPT ![i] = r]
           IN  /\ t \in Seq(Receivers) /\ Len(t) = Len(receivers)
               /\ DOMAIN t = DOMAIN receivers /\ t[i] = r
               /\ \A j \in DOMAIN receivers : j # i => t[j] = receivers[j]
    OBVIOUS

\* Receiver i becomes r: it goes on with the same device and no new events.
Becomes(i, r) ==
    /\ i \in DOMAIN receivers /\ r \in Receivers
    /\ receivers' = [receivers EXCEPT ![i] = r]
    /\ r.device = receivers[i].device
    /\ receivers[i].cancelled => r.cancelled
    /\ GoneLast(Buffer(r))
    /\ \A e : Has(Buffer(r), e) => Has(Buffer(receivers[i]), e)

LEMMA SameBuffer ==
    ASSUME TypeOK, Buffers, NEW i \in DOMAIN receivers, NEW r,
           r = [receivers[i] EXCEPT !.stage = r.stage, !.plug = r.plug, !.cancelled = r.cancelled],
           r \in Receivers, receivers[i].cancelled => r.cancelled,
           receivers' = [receivers EXCEPT ![i] = r]
    PROVE  Becomes(i, r) /\ Buffer(r) = Buffer(receivers[i])
<1>1. receivers[i] \in Receivers
    BY DEF TypeOK
<1>2. r.queued = receivers[i].queued /\ r.kernel = receivers[i].kernel
      /\ r.device = receivers[i].device
    BY <1>1 DEF Receivers
<1>3. Buffer(r) = Buffer(receivers[i])
    BY <1>2 DEF Buffer
<1> QED
    BY <1>2, <1>3 DEF Becomes, Buffers, InOrder

LEMMA OpenEffect ==
    ASSUME TypeOK, Buffers, NEW i \in DOMAIN receivers, Open(i)
    PROVE  \E r : /\ Becomes(i, r) /\ Buffer(r) = Buffer(receivers[i])
                  /\ r.stage # "starting" /\ r.cancelled = receivers[i].cancelled
                  /\ r.plug <= plugs /\ (Reading(r) => r.plug # 0)
                  /\ receivers[i].stage = "starting"
<1>0. receivers[i] \in Receivers
    BY DEF TypeOK
<1>1. /\ receivers[i] \in Receivers /\ receivers[i].device \in Devices
      /\ attached[receivers[i].device] \in 0 .. plugs /\ plugs \in 0 .. MaxPlugs
      /\ attached[receivers[i].device] \in 0 .. MaxPlugs
  <2>1. receivers[i].device \in Devices
    BY <1>0 DEF Receivers
  <2>2. attached[receivers[i].device] \in 0 .. plugs /\ plugs \in 0 .. MaxPlugs
    BY <2>1 DEF TypeOK
  <2> QED
    BY <1>0, <2>1, <2>2
<1>2. receivers[i].plug <= plugs
    BY DEF Buffers, InOrder
<1>3. CASE /\ attached[receivers[i].device] # 0
           /\ receivers' = [receivers EXCEPT ![i].stage = "looping",
                                ![i].plug = attached[receivers[i].device]]
  <2> DEFINE r == [receivers[i] EXCEPT !.stage = "looping",
                                       !.plug = attached[receivers[i].device]]
  <2>1. receivers' = [receivers EXCEPT ![i] = r]
    BY <1>3
  <2>2. r \in Receivers /\ r.stage = "looping" /\ r.plug = attached[receivers[i].device]
        /\ r.cancelled = receivers[i].cancelled
    BY <1>1 DEF Receivers, Stages
  <2>3. r = [receivers[i] EXCEPT !.stage = r.stage, !.plug = r.plug, !.cancelled = r.cancelled]
    BY <1>1 DEF Receivers
  <2> HIDE DEF r
  <2>4. Becomes(i, r) /\ Buffer(r) = Buffer(receivers[i])
    BY <2>1, <2>2, <2>3, SameBuffer
  <2> QED
    BY <1>1, <1>3, <2>2, <2>4 DEF Open
<1>4. CASE receivers' = [receivers EXCEPT ![i].stage = "ended"]
  <2> DEFINE r == [receivers[i] EXCEPT !.stage = "ended"]
  <2>1. receivers' = [receivers EXCEPT ![i] = r]
    BY <1>4
  <2>2. r \in Receivers /\ r.stage = "ended" /\ r.plug = receivers[i].plug
        /\ r.cancelled = receivers[i].cancelled
    BY <1>1 DEF Receivers, Stages
  <2>3. r = [receivers[i] EXCEPT !.stage = r.stage, !.plug = r.plug, !.cancelled = r.cancelled]
    BY <1>1 DEF Receivers
  <2> HIDE DEF r
  <2>4. Becomes(i, r) /\ Buffer(r) = Buffer(receivers[i])
    BY <2>1, <2>2, <2>3, SameBuffer
  <2> QED
    BY <1>1, <1>2, <2>2, <2>4 DEF Open, Reading
<1> QED
    BY <1>3, <1>4 DEF Open

\* A look at the cancellation, or a failure: only the stage changes.
LEMMA StageEffect ==
    ASSUME TypeOK, Buffers, NEW i \in DOMAIN receivers, NEW g \in {"polling", "ended"},
           receivers' = [receivers EXCEPT ![i].stage = g]
    PROVE  \E r : /\ Becomes(i, r) /\ Buffer(r) = Buffer(receivers[i])
                  /\ r.stage = g /\ r.cancelled = receivers[i].cancelled
                  /\ r.plug = receivers[i].plug
<1>1. receivers[i] \in Receivers
    BY DEF TypeOK
<1> DEFINE r == [receivers[i] EXCEPT !.stage = g]
<1>2. receivers' = [receivers EXCEPT ![i] = r]
    OBVIOUS
<1>3. r \in Receivers /\ r.stage = g /\ r.plug = receivers[i].plug
      /\ r.cancelled = receivers[i].cancelled
    BY <1>1 DEF Receivers, Stages
<1>4. r = [receivers[i] EXCEPT !.stage = r.stage, !.plug = r.plug, !.cancelled = r.cancelled]
    BY <1>1 DEF Receivers
<1> HIDE DEF r
<1>5. Becomes(i, r) /\ Buffer(r) = Buffer(receivers[i])
    BY <1>2, <1>3, <1>4, SameBuffer
<1> QED
    BY <1>3, <1>5

LEMMA CancelEffect ==
    ASSUME TypeOK, Buffers, NEW i \in DOMAIN receivers,
           receivers' = [receivers EXCEPT ![i].cancelled = TRUE]
    PROVE  \E r : /\ Becomes(i, r) /\ Buffer(r) = Buffer(receivers[i])
                  /\ r.cancelled /\ r.stage = receivers[i].stage
                  /\ r.plug = receivers[i].plug
<1>1. receivers[i] \in Receivers
    BY DEF TypeOK
<1> DEFINE r == [receivers[i] EXCEPT !.cancelled = TRUE]
<1>2. receivers' = [receivers EXCEPT ![i] = r]
    OBVIOUS
<1>3. r \in Receivers /\ r.stage = receivers[i].stage /\ r.plug = receivers[i].plug
      /\ r.cancelled = TRUE
    BY <1>1 DEF Receivers
<1>4. r = [receivers[i] EXCEPT !.stage = r.stage, !.plug = r.plug, !.cancelled = r.cancelled]
    BY <1>1 DEF Receivers
<1> HIDE DEF r
<1>5. Becomes(i, r) /\ Buffer(r) = Buffer(receivers[i])
    BY <1>2, <1>3, <1>4, SameBuffer
<1> QED
    BY <1>3, <1>5

\* A read takes the first event, and sends it unless the device is gone.
Sends(i, e) ==
    /\ e \in 1 .. MaxEvents /\ Has(Buffer(receivers[i]), e)
    /\ sent' = sent \cup {[event |-> e, by |-> i, cancelled |-> receivers[i].cancelled]}

LEMMA ReadEffect ==
    ASSUME TypeOK, Buffers, NEW i \in DOMAIN receivers, Read(i)
    PROVE  \E r : /\ Becomes(i, r) /\ r.stage = "looping"
                  /\ r.cancelled = receivers[i].cancelled /\ r.plug = receivers[i].plug
                  /\ sent' = sent \/ \E e : Sends(i, e)
<1> DEFINE b == Buffer(receivers[i])
           rest == IF b[1] = Gone THEN Tail(b) ELSE b
           q == IF rest = << >> THEN rest ELSE Tail(rest)
           r == [receivers[i] EXCEPT !.stage = "looping", !.kernel = << >>, !.queued = q]
<1>1. receivers[i] \in Receivers
    BY DEF TypeOK
<1>2. b \in Seq(Values) /\ b # << >> /\ GoneLast(b)
    BY <1>1, BufferType DEF Read, Buffers, InOrder
<1>3. /\ b[1] \in Values /\ Has(b, b[1]) /\ Tail(b) \in Seq(Values) /\ GoneLast(Tail(b))
      /\ b[1] = Gone => Tail(b) = << >>
    BY <1>2, HasHead, GoneLastTail
<1>4. receivers' = [receivers EXCEPT ![i] = r]
    BY DEF Read, Buffer
<1>5. sent' = IF rest = << >> THEN sent
              ELSE sent \cup {[event |-> rest[1], by |-> i,
                               cancelled |-> receivers[i].cancelled]}
    BY DEF Read, Buffer
<1> HIDE DEF b
<1>6. /\ q \in Seq(Values) /\ GoneLast(q)
      /\ \A e : Has(q, e) => Has(b, e)
      /\ sent' = sent \/ \E e : Sends(i, e)
  <2>1. CASE b[1] = Gone
    <3>1. rest = << >> /\ q = << >>
      BY <1>3, <2>1
    <3>2. << >> \in Seq(Values) /\ GoneLast(<< >>) /\ \A e : ~Has(<< >>, e)
      BY DEF GoneLast, Has
    <3> QED
      BY <1>5, <3>1, <3>2
  <2>2. CASE b[1] # Gone
    <3>1. rest = b /\ q = Tail(b)
      BY <1>2, <2>2
    <3>2. \A e : Has(q, e) => Has(b, e)
      BY <1>2, <3>1, HasTail
    <3>3. b[1] \in 1 .. MaxEvents
      BY <1>3, <2>2 DEF Gone, Values
    <3>4. Sends(i, b[1])
      BY <1>2, <1>3, <1>5, <3>1, <3>3 DEF Sends, b
    <3> QED
      BY <1>3, <3>1, <3>2, <3>4
  <2> QED
    BY <2>1, <2>2
<1> HIDE DEF q
<1>7. /\ r \in Receivers /\ r.stage = "looping" /\ r.cancelled = receivers[i].cancelled
      /\ r.plug = receivers[i].plug /\ r.device = receivers[i].device
      /\ r.queued = q /\ r.kernel = << >>
  <2>1. << >> \in Seq(Values)
    OBVIOUS
  <2>2. r \in Receivers
    BY <1>1, <1>6, <2>1 DEF Receivers, Stages, Values
  <2> QED
    BY <1>1, <2>2 DEF Receivers
<1>8. Buffer(r) = q
    BY <1>6, <1>7, ConcatEmptySeq DEF Buffer
<1> HIDE DEF r
<1>9. Becomes(i, r)
    BY <1>4, <1>6, <1>7, <1>8 DEF Becomes, b
<1> QED
    BY <1>6, <1>7, <1>9

-----------------------------------------------------------------------------
\* The types and the order of a receiver's events.

OrderInv == TypeOK /\ Buffers

\* A step of one receiver.
LEMMA OrderBecomes ==
    ASSUME OrderInv, NEW i, NEW r, Becomes(i, r), InOrder(r, plugs, attached),
           UNCHANGED <<plugs, attached>>
    PROVE  Buffers' /\ receivers' \in Seq(Receivers) /\ Len(receivers') = Len(receivers)
<1>1. /\ receivers' \in Seq(Receivers) /\ Len(receivers') = Len(receivers)
      /\ DOMAIN receivers' = DOMAIN receivers /\ receivers'[i] = r
      /\ \A j \in DOMAIN receivers : j # i => receivers'[j] = receivers[j]
    BY Update DEF Becomes, OrderInv, TypeOK
<1>2. ASSUME NEW j \in DOMAIN receivers PROVE InOrder(receivers'[j], plugs, attached)
    BY <1>1, <1>2 DEF OrderInv, Buffers
<1>3. Buffers'
    BY <1>1, <1>2 DEF Buffers
<1> QED
    BY <1>1, <1>3

LEMMA NewsType ==
    ASSUME TypeOK, news # << >>
    PROVE  Tail(news) \in Seq(News) /\ Head(news).device \in Devices
<1>1. news \in Seq(News)
    BY DEF TypeOK
<1>2. Tail(news) \in Seq(News) /\ Head(news) \in News
    BY <1>1, HeadTailProperties, Zenon
<1> QED
    BY <1>2 DEF News

LEMMA OrderPlug ==
    ASSUME OrderInv, NEW d \in Devices, Plug(d)
    PROVE  OrderInv'
<1>1. plugs' \in 0 .. MaxPlugs /\ attached' \in [Devices -> 0 .. plugs']
    BY DEF OrderInv, TypeOK, Plug
<1>2. news' \in Seq(News)
    BY DEF OrderInv, TypeOK, Plug, News
<1>3. TypeOK'
    BY <1>1, <1>2 DEF OrderInv, TypeOK, Plug, News, Receivers, Sendings
<1>4. ASSUME NEW i \in DOMAIN receivers PROVE InOrder(receivers[i], plugs', attached')
  <2>1. receivers[i] \in Receivers /\ InOrder(receivers[i], plugs, attached)
    BY DEF OrderInv, TypeOK, Buffers
  <2>2. /\ receivers[i].plug \in Nat /\ receivers[i].plug <= plugs
        /\ receivers[i].device \in Devices /\ plugs \in Nat
    BY <2>1 DEF OrderInv, TypeOK, Receivers, InOrder
  <2>3. receivers[i].plug <= plugs'
    BY <2>2 DEF Plug
  <2>4. receivers[i].plug = attached'[receivers[i].device] =>
            receivers[i].plug = attached[receivers[i].device]
    BY <2>2 DEF OrderInv, TypeOK, Plug
  <2> QED
    BY <2>1, <2>3, <2>4 DEF InOrder
<1>5. Buffers'
    BY <1>4 DEF Buffers, Plug
<1> QED
    BY <1>3, <1>5 DEF OrderInv

\* Telling of an event keeps the order: of one that is no Gone in any case, of Gone
\* if the device is gone thereafter.
LEMMA OrderTell ==
    ASSUME OrderInv, NEW d \in Devices, NEW e \in Values, attached[d] # 0,
           receivers' = Tell(d, e), plugs' = plugs,
           \/ (e # Gone /\ attached' = attached)
           \/ attached' = [attached EXCEPT ![d] = 0]
    PROVE  Buffers' /\ receivers' \in Seq(Receivers) /\ Len(receivers') = Len(receivers)
<1>1. receivers \in Seq(Receivers) /\ attached \in [Devices -> 0 .. plugs]
    BY DEF OrderInv, TypeOK
<1>2. /\ receivers' \in Seq(Receivers) /\ Len(receivers') = Len(receivers)
      /\ DOMAIN receivers' = DOMAIN receivers
    BY <1>1, TellType
<1>3. ASSUME NEW i \in DOMAIN receivers PROVE InOrder(receivers'[i], plugs', attached')
  <2> DEFINE r == receivers[i]
             t == receivers'[i]
  <2>1. r \in Receivers /\ r.device \in Devices /\ InOrder(r, plugs, attached)
    <3>1. r \in Receivers /\ InOrder(r, plugs, attached)
      BY <1>1 DEF OrderInv, Buffers
    <3> QED
      BY <3>1 DEF Receivers
  <2>2. CASE r.device = d /\ r.plug = attached[d] /\ Reading(r)
    <3>1. t = [r EXCEPT !.kernel = Append(@, e)]
      BY <2>2 DEF Tell, Reading
    <3>2. t \in Receivers /\ Buffer(t) = Append(Buffer(r), e)
      BY <2>1, <3>1, BufferAppend
    <3>3. t.device = r.device /\ t.plug = r.plug /\ t.stage = r.stage
      BY <2>1, <3>1 DEF Receivers
    <3>4. Buffer(r) \in Seq(Values) /\ GoneLast(Buffer(r)) /\ ~Has(Buffer(r), Gone)
      BY <2>1, <2>2, BufferType DEF InOrder
    <3>5. GoneLast(Append(Buffer(r), e))
      BY <3>4, GoneLastAppend
    <3>6. e # Gone => ~Has(Append(Buffer(r), e), Gone)
      BY <3>4, HasAppend
    <3>7. e = Gone => t.plug # attached'[t.device]
      BY <1>1, <2>2, <3>3
    <3>8. t.plug = attached'[t.device] => ~Has(Buffer(t), Gone)
      BY <3>2, <3>6, <3>7
    <3>9. t.stage # "starting"
      BY <2>2, <3>3 DEF Reading
    <3> HIDE DEF r, t
    <3>10. InOrder(t, plugs', attached')
      <4>1. /\ GoneLast(Buffer(t)) /\ t.plug <= plugs'
            /\ Reading(t) => t.plug # 0
        BY <2>1, <3>2, <3>3, <3>5 DEF InOrder, Reading
      <4> QED
        BY <3>8, <3>9, <4>1 DEF InOrder, t
    <3> QED
      BY <3>10 DEF t
  <2>3. CASE ~(r.device = d /\ r.plug = attached[d] /\ Reading(r))
    <3>1. t = r
      BY <2>3 DEF Tell, Reading
    <3>2. Reading(r) /\ r.plug = attached'[r.device] => r.plug = attached[r.device]
      BY <1>1, <2>1, <2>3 DEF InOrder
    <3>3. InOrder(r, plugs', attached')
      BY <2>1, <3>2 DEF InOrder
    <3> QED
      BY <3>1, <3>3
  <2> QED
    BY <2>2, <2>3
<1>4. Buffers'
    BY <1>2, <1>3 DEF Buffers
<1> QED
    BY <1>2, <1>4

\* The monitor starts a receiver for device d.
Starts(d) ==
    /\ Matches(d) /\ table[NameOf[d]] = 0
    /\ receivers' = Append(receivers, Started(d))
    /\ table' = [table EXCEPT ![NameOf[d]] = Len(receivers) + 1]

LEMMA StartEffect ==
    ASSUME receivers \in Seq(Receivers), NEW d \in Devices, Starts(d)
    PROVE  /\ receivers' \in Seq(Receivers) /\ Len(receivers') = Len(receivers) + 1
           /\ DOMAIN receivers' = DOMAIN receivers \cup {Len(receivers) + 1}
           /\ Len(receivers) + 1 \notin DOMAIN receivers
           /\ \A i \in DOMAIN receivers : receivers'[i] = receivers[i]
           /\ receivers'[Len(receivers) + 1] = Started(d)
           /\ Buffer(Started(d)) = << >>
<1>1. << >> \in Seq(Values) /\ 0 \in 0 .. MaxPlugs
    OBVIOUS
<1>2. Started(d) \in Receivers
    BY <1>1 DEF Started, Receivers, Stages, Values
<1>3. << >> \o << >> = << >>
    BY <1>1, ConcatEmptySeq
<1>4. Buffer(Started(d)) = << >>
    BY <1>3 DEF Buffer, Started
<1> QED
    BY <1>2, <1>4 DEF Starts

LEMMA OrderAdded ==
    ASSUME OrderInv, HandleAdded
    PROVE  OrderInv'
<1> DEFINE d == Head(news).device
<1>1. Tail(news) \in Seq(News) /\ d \in Devices
    BY NewsType DEF OrderInv, HandleAdded
<1>2. receivers \in Seq(Receivers) /\ table \in [Names -> 0 .. Len(receivers)]
    BY DEF OrderInv, TypeOK
<1> HIDE DEF d
<1>3. CASE Starts(d)
  <2>1. receivers' \in Seq(Receivers) /\ Len(receivers') = Len(receivers) + 1
    BY <1>1, <1>2, <1>3, StartEffect
  <2>2. table' \in [Names -> 0 .. Len(receivers')]
    BY <1>1, <1>2, <1>3, <2>1, LenProperties DEF Starts
  <2>3. TypeOK'
    BY <1>1, <2>1, <2>2 DEF OrderInv, TypeOK, HandleAdded, News, Receivers, Sendings
  <2>4. InOrder(Started(d), plugs, attached)
    BY <1>1, <1>2, <1>3, StartEffect
       DEF Started, InOrder, GoneLast, Reading, OrderInv, TypeOK
  <2>5. \A i \in DOMAIN receivers' : InOrder(receivers'[i], plugs, attached)
    BY <1>1, <1>2, <1>3, <2>4, StartEffect DEF OrderInv, Buffers
  <2>6. Buffers'
    BY <2>5 DEF Buffers, HandleAdded
  <2> QED
    BY <2>3, <2>6 DEF OrderInv
<1>4. CASE UNCHANGED <<receivers, table>>
    BY <1>1, <1>4 DEF OrderInv, TypeOK, Buffers, HandleAdded, News, Receivers, Sendings
<1> QED
    BY <1>3, <1>4 DEF HandleAdded, Starts, d

LEMMA OrderRemoved ==
    ASSUME OrderInv, HandleRemoved
    PROVE  OrderInv'
<1> DEFINE n == NameOf[Head(news).device]
<1>1. Tail(news) \in Seq(News) /\ n \in Names
    BY NewsType DEF OrderInv, HandleRemoved
<1>2. receivers \in Seq(Receivers) /\ table \in [Names -> 0 .. Len(receivers)]
    BY DEF OrderInv, TypeOK
<1>3. table' = [table EXCEPT ![n] = 0]
    BY DEF HandleRemoved
<1>4. table' \in [Names -> 0 .. Len(receivers)]
    BY <1>1, <1>2, <1>3, LenProperties
<1>5. Buffers' /\ receivers' \in Seq(Receivers) /\ Len(receivers') = Len(receivers)
  <2>1. CASE table[n] = 0
    BY <1>2, <2>1 DEF HandleRemoved, OrderInv, Buffers
  <2>2. CASE table[n] # 0
    <3>1. table[n] \in DOMAIN receivers
      BY <1>1, <1>2, <2>2, LenProperties
    <3>2. receivers' = [receivers EXCEPT ![table[n]].cancelled = TRUE]
      BY <2>2 DEF HandleRemoved
    <3>3. PICK r : /\ Becomes(table[n], r) /\ Buffer(r) = Buffer(receivers[table[n]])
                   /\ r.stage = receivers[table[n]].stage
                   /\ r.plug = receivers[table[n]].plug
      BY <3>1, <3>2, CancelEffect DEF OrderInv
    <3>4. InOrder(r, plugs, attached)
      BY <3>1, <3>3 DEF OrderInv, Buffers, InOrder, Becomes, Reading
    <3> QED
      BY <3>3, <3>4, OrderBecomes DEF HandleRemoved
  <2> QED
    BY <2>1, <2>2
<1>6. TypeOK'
    BY <1>1, <1>4, <1>5 DEF OrderInv, TypeOK, HandleRemoved, News, Receivers, Sendings
<1> QED
    BY <1>5, <1>6 DEF OrderInv

LEMMA OrderReceiver ==
    ASSUME OrderInv, NEW i \in DOMAIN receivers, Receiver(i) \/ ReadFails(i)
    PROVE  OrderInv'
<1>1. PICK r : /\ Becomes(i, r) /\ InOrder(r, plugs, attached)
               /\ sent' = sent \/ \E e : Sends(i, e)
  <2>1. InOrder(receivers[i], plugs, attached)
    BY DEF OrderInv, Buffers
  <2>2. CASE Open(i)
    <3>1. PICK r : /\ Becomes(i, r) /\ Buffer(r) = Buffer(receivers[i])
                   /\ r.stage # "starting" /\ r.plug <= plugs /\ (Reading(r) => r.plug # 0)
                   /\ receivers[i].stage = "starting"
      BY <2>2, OpenEffect DEF OrderInv
    <3>2. Buffer(r) = << >> /\ GoneLast(Buffer(r))
      BY <2>1, <3>1 DEF InOrder
    <3>3. InOrder(r, plugs, attached)
      BY <3>1, <3>2 DEF InOrder, Has
    <3> QED
      BY <2>2, <3>1, <3>3 DEF Open
  <2>3. CASE Check(i) \/ ReadFails(i)
    <3>1. PICK g \in {"polling", "ended"} : receivers' = [receivers EXCEPT ![i].stage = g]
      BY <2>3 DEF Check, ReadFails
    <3>2. PICK r : /\ Becomes(i, r) /\ Buffer(r) = Buffer(receivers[i])
                   /\ r.stage = g /\ r.plug = receivers[i].plug
      BY <3>1, StageEffect DEF OrderInv
    <3>3. Reading(receivers[i])
      BY <2>3 DEF Check, ReadFails, Reading
    <3>4. InOrder(r, plugs, attached)
      BY <2>1, <3>1, <3>2, <3>3 DEF InOrder, Becomes, Reading
    <3> QED
      BY <2>3, <3>2, <3>4 DEF Check, ReadFails
  <2>4. CASE Read(i)
    <3>1. PICK r : /\ Becomes(i, r) /\ r.stage = "looping" /\ r.plug = receivers[i].plug
                   /\ sent' = sent \/ \E e : Sends(i, e)
      BY <2>4, ReadEffect DEF OrderInv
    <3>2. Reading(receivers[i])
      BY <2>4 DEF Read, Reading
    <3>3. InOrder(r, plugs, attached)
      BY <2>1, <3>1, <3>2 DEF InOrder, Becomes, Reading
    <3> QED
      BY <3>1, <3>3
  <2> QED
    BY <2>2, <2>3, <2>4 DEF Receiver
<1>2. UNCHANGED <<plugs, attached, news, table, events>>
    BY DEF Receiver, Open, Check, Read, ReadFails
<1>3. Buffers' /\ receivers' \in Seq(Receivers) /\ Len(receivers') = Len(receivers)
    BY <1>1, <1>2, OrderBecomes
<1>4. sent' \subseteq Sendings
  <2>1. receivers[i] \in Receivers /\ i \in Nat /\ sent \subseteq Sendings
    BY DEF OrderInv, TypeOK
  <2>2. receivers[i].cancelled \in BOOLEAN
    BY <2>1 DEF Receivers
  <2> QED
    BY <1>1, <2>1, <2>2 DEF Sends, Sendings
<1>5. TypeOK'
    BY <1>2, <1>3, <1>4 DEF OrderInv, TypeOK, News, Receivers, Sendings
<1> QED
    BY <1>3, <1>5 DEF OrderInv

LEMMA OrderDevices ==
    ASSUME OrderInv, NEW d \in Devices, Unplug(d) \/ Scroll(d)
    PROVE  OrderInv'
<1>1. CASE Unplug(d)
  <2>1. Gone \in Values
    BY DEF Gone, Values
  <2>2. Buffers' /\ receivers' \in Seq(Receivers) /\ Len(receivers') = Len(receivers)
    BY <1>1, <2>1, OrderTell DEF Unplug
  <2>3. attached' \in [Devices -> 0 .. plugs'] /\ news' \in Seq(News)
    BY <1>1 DEF OrderInv, TypeOK, Unplug, News
  <2>4. TypeOK'
    BY <1>1, <2>2, <2>3 DEF OrderInv, TypeOK, Unplug, News, Receivers, Sendings
  <2> QED
    BY <2>2, <2>4 DEF OrderInv
<1>2. CASE Scroll(d)
  <2>1. events + 1 \in Values /\ events + 1 # Gone
    BY <1>2 DEF Scroll, Gone, Values, OrderInv, TypeOK
  <2>2. Buffers' /\ receivers' \in Seq(Receivers) /\ Len(receivers') = Len(receivers)
    BY <1>2, <2>1, OrderTell DEF Scroll
  <2>3. TypeOK'
    BY <1>2, <2>1, <2>2 DEF OrderInv, TypeOK, Scroll, News, Receivers, Sendings, Values
  <2> QED
    BY <2>2, <2>3 DEF OrderInv
<1> QED
    BY <1>1, <1>2

LEMMA OrderInit == Init => OrderInv
<1> SUFFICES ASSUME Init PROVE OrderInv
    OBVIOUS
<1>1. TypeOK
  <2>1. attached \in [Devices -> 0 .. plugs] /\ plugs = 0 /\ events = 0 /\ sent = {}
    BY DEF Init
  <2>2. news = << >> /\ receivers = << >> /\ Len(receivers) = 0 /\ table \in [Names -> 0 .. 0]
    BY DEF Init
  <2> QED
    BY <2>1, <2>2 DEF TypeOK
<1>2. Buffers
    BY DEF Init, Buffers
<1> QED
    BY <1>1, <1>2 DEF OrderInv

LEMMA OrderStep == OrderInv /\ [Next]_vars => OrderInv'
<1> SUFFICES ASSUME OrderInv, [Next]_vars PROVE OrderInv'
    OBVIOUS
<1>1. CASE UNCHANGED vars
    BY <1>1 DEF vars, OrderInv, TypeOK, Buffers, News, Receivers, Sendings
<1>2. ASSUME NEW d \in Devices, Plug(d) \/ Unplug(d) \/ Scroll(d) PROVE OrderInv'
    BY <1>2, OrderPlug, OrderDevices
<1>3. CASE HandleAdded \/ HandleRemoved
    BY <1>3, OrderAdded, OrderRemoved
<1>4. ASSUME NEW i \in DOMAIN receivers, Receiver(i) \/ ReadFails(i) PROVE OrderInv'
    BY <1>4, OrderReceiver
<1> QED
    BY <1>1, <1>2, <1>3, <1>4 DEF Next

\* The variables keep their types.  In particular what a receiver sends is a scroll
\* event: the news that its device is gone comes last, so that it never waits where
\* the receiver, having dropped one, takes the next.
THEOREM MonitorTypes == Spec => []TypeOK
<1>1. OrderInv => TypeOK
    BY DEF OrderInv
<1> QED
    BY <1>1, OrderInit, OrderStep, PTL DEF Spec

-----------------------------------------------------------------------------
\* The table, and who has read an event.

Done == {"looping", "ended"}

\* Receivers go on, or are new and know no event.  Nothing uncancels them, and one
\* that was cancelled is done once it has read.
Shrinks ==
    /\ DOMAIN receivers \subseteq DOMAIN receivers'
    /\ \A i \in DOMAIN receivers :
        /\ receivers'[i].device = receivers[i].device
        /\ receivers[i].cancelled => receivers'[i].cancelled
        /\ receivers[i].cancelled /\ receivers[i].stage \in Done => receivers'[i].stage \in Done
        /\ \A e : Has(Buffer(receivers'[i]), e) => Has(Buffer(receivers[i]), e)
    /\ \A i \in DOMAIN receivers' \ DOMAIN receivers : \A e : ~Has(Buffer(receivers'[i]), e)

LEMMA BecomesShrinks ==
    ASSUME receivers \in Seq(Receivers), NEW i, NEW r, Becomes(i, r),
           receivers[i].cancelled /\ receivers[i].stage \in Done => r.stage \in Done
    PROVE  Shrinks
    BY Update DEF Becomes, Shrinks

LEMMA AddedEffect ==
    ASSUME OrderInv, TableHasReceivers, HandleAdded
    PROVE  Shrinks /\ TableHasReceivers'
<1> DEFINE d == Head(news).device
           k == Len(receivers) + 1
<1>1. d \in Devices /\ NameOf[d] \in Names
    BY NewsType DEF OrderInv, HandleAdded
<1>2. receivers \in Seq(Receivers) /\ table \in [Names -> 0 .. Len(receivers)]
    BY DEF OrderInv, TypeOK
<1> HIDE DEF d
<1>3. CASE Starts(d)
  <2>1. /\ DOMAIN receivers' = DOMAIN receivers \cup {k} /\ k \notin DOMAIN receivers
        /\ \A i \in DOMAIN receivers : receivers'[i] = receivers[i]
        /\ receivers'[k] = Started(d) /\ Buffer(Started(d)) = << >>
    BY <1>1, <1>2, <1>3, StartEffect
  <2>2. \A e : ~Has(<< >>, e)
    BY DEF Has
  <2>3. Shrinks
    BY <2>1, <2>2 DEF Shrinks
  <2>4. ASSUME NEW i \in DOMAIN receivers', ~receivers'[i].cancelled
        PROVE  table'[NameOf[receivers'[i].device]] = i
    <3>1. CASE i = k
      BY <1>1, <1>2, <1>3, <2>1, <3>1 DEF Starts, Started
    <3>2. CASE i \in DOMAIN receivers
      <4>1. table[NameOf[receivers[i].device]] = i /\ i # 0
        BY <1>2, <2>1, <2>4, <3>2, LenProperties DEF TableHasReceivers
      <4>2. NameOf[receivers[i].device] # NameOf[d]
        BY <1>3, <4>1 DEF Starts
      <4> QED
        BY <1>2, <1>3, <2>1, <3>2, <4>1, <4>2 DEF Starts
    <3> QED
      BY <2>1, <2>4, <3>1, <3>2
  <2> QED
    BY <2>3, <2>4 DEF TableHasReceivers
<1>4. CASE UNCHANGED <<receivers, table>>
    BY <1>4 DEF Shrinks, TableHasReceivers
<1> QED
    BY <1>3, <1>4 DEF HandleAdded, Starts, d

LEMMA RemovedEffect ==
    ASSUME OrderInv, TableHasReceivers, HandleRemoved
    PROVE  Shrinks /\ TableHasReceivers'
<1> DEFINE n == NameOf[Head(news).device]
<1>1. n \in Names
    BY NewsType DEF OrderInv, HandleRemoved
<1>2. receivers \in Seq(Receivers) /\ table \in [Names -> 0 .. Len(receivers)]
    BY DEF OrderInv, TypeOK
<1>3. table' = [table EXCEPT ![n] = 0]
    BY DEF HandleRemoved
<1>4. CASE table[n] = 0
  <2>1. receivers' = receivers /\ table' = table
    BY <1>1, <1>2, <1>3, <1>4 DEF HandleRemoved
  <2> QED
    BY <2>1 DEF Shrinks, TableHasReceivers
<1>5. CASE table[n] # 0
  <2>1. table[n] \in DOMAIN receivers
    BY <1>1, <1>2, <1>5, LenProperties
  <2>2. receivers' = [receivers EXCEPT ![table[n]].cancelled = TRUE]
    BY <1>5 DEF HandleRemoved
  <2>3. PICK r : /\ Becomes(table[n], r) /\ r.cancelled
                 /\ r.stage = receivers[table[n]].stage
    BY <2>1, <2>2, CancelEffect DEF OrderInv
  <2> HIDE DEF n
  <2>4. Shrinks
    BY <1>2, <2>3, BecomesShrinks
  <2>5. /\ DOMAIN receivers' = DOMAIN receivers /\ receivers'[table[n]] = r
        /\ \A j \in DOMAIN receivers : j # table[n] => receivers'[j] = receivers[j]
    BY <1>2, <2>3, Update DEF Becomes
  <2>6. ASSUME NEW i \in DOMAIN receivers', ~receivers'[i].cancelled
        PROVE  table'[NameOf[receivers'[i].device]] = i
    <3>1. i # table[n] /\ i \in DOMAIN receivers /\ receivers'[i] = receivers[i]
      BY <2>3, <2>5, <2>6
    <3>2. table[NameOf[receivers[i].device]] = i
      BY <2>6, <3>1 DEF TableHasReceivers
    <3>3. NameOf[receivers[i].device] # n
      BY <3>1, <3>2
    <3> QED
      BY <1>2, <1>3, <3>1, <3>2, <3>3
  <2> QED
    BY <2>4, <2>6 DEF TableHasReceivers
<1> QED
    BY <1>4, <1>5

LEMMA ReceiverEffect ==
    ASSUME OrderInv, TableHasReceivers, NEW i \in DOMAIN receivers, Receiver(i) \/ ReadFails(i)
    PROVE  /\ Shrinks /\ TableHasReceivers'
           /\ \/ sent' = sent
              \/ /\ Read(i) /\ \E e : Sends(i, e)
                 /\ receivers'[i].stage = "looping"
                 /\ receivers'[i].cancelled = receivers[i].cancelled
<1>1. PICK r : /\ Becomes(i, r) /\ r.cancelled = receivers[i].cancelled
               /\ receivers[i].cancelled /\ receivers[i].stage \in Done => r.stage \in Done
               /\ \/ sent' = sent
                  \/ Read(i) /\ (\E e : Sends(i, e)) /\ r.stage = "looping"
  <2>1. CASE Open(i)
    <3>1. sent' = sent
      BY <2>1 DEF Open
    <3> QED
      BY <2>1, <3>1, OpenEffect DEF OrderInv, Done
  <2>2. CASE Check(i) \/ ReadFails(i)
    <3>1. PICK g \in {"polling", "ended"} :
              /\ receivers' = [receivers EXCEPT ![i].stage = g]
              /\ receivers[i].stage \in Done /\ receivers[i].cancelled => g = "ended"
      BY <2>2 DEF Check, ReadFails, Done
    <3>2. sent' = sent
      BY <2>2 DEF Check, ReadFails
    <3>3. PICK r : /\ Becomes(i, r) /\ r.stage = g /\ r.cancelled = receivers[i].cancelled
      BY <3>1, StageEffect DEF OrderInv
    <3> QED
      BY <3>1, <3>2, <3>3 DEF Done
  <2>3. CASE Read(i)
    BY <2>3, ReadEffect DEF OrderInv, Done
  <2> QED
    BY <2>1, <2>2, <2>3 DEF Receiver
<1>2. receivers \in Seq(Receivers)
    BY DEF OrderInv, TypeOK
<1>3. Shrinks
    BY <1>1, <1>2, BecomesShrinks
<1>4. /\ DOMAIN receivers' = DOMAIN receivers /\ receivers'[i] = r
      /\ \A j \in DOMAIN receivers : j # i => receivers'[j] = receivers[j]
    BY <1>1, <1>2, Update DEF Becomes
<1>5. table' = table
    BY DEF Receiver, Open, Check, Read, ReadFails
<1>6. TableHasReceivers'
    BY <1>1, <1>4, <1>5 DEF TableHasReceivers, Becomes
<1> QED
    BY <1>1, <1>3, <1>4, <1>6

\* The receivers of device d are told of e.
Tells(d, e) ==
    /\ DOMAIN receivers' = DOMAIN receivers
    /\ \A i \in DOMAIN receivers :
        /\ receivers'[i].device = receivers[i].device
        /\ receivers'[i].cancelled = receivers[i].cancelled
        /\ receivers'[i].stage = receivers[i].stage
        /\ \A f : Has(Buffer(receivers'[i]), f) =>
              Has(Buffer(receivers[i]), f) \/ (f = e /\ receivers[i].device = d)

LEMMA TellEffect ==
    ASSUME OrderInv, TableHasReceivers, NEW d \in Devices, NEW e \in Values,
           receivers' = Tell(d, e), table' = table
    PROVE  Tells(d, e) /\ TableHasReceivers'
<1>1. receivers \in Seq(Receivers)
    BY DEF OrderInv, TypeOK
<1>2. DOMAIN receivers' = DOMAIN receivers
    BY <1>1, TellType
<1>3. ASSUME NEW i \in DOMAIN receivers
      PROVE  /\ receivers'[i].device = receivers[i].device
             /\ receivers'[i].cancelled = receivers[i].cancelled
             /\ receivers'[i].stage = receivers[i].stage
             /\ \A f : Has(Buffer(receivers'[i]), f) =>
                    Has(Buffer(receivers[i]), f) \/ (f = e /\ receivers[i].device = d)
  <2>1. receivers[i] \in Receivers /\ Buffer(receivers[i]) \in Seq(Values)
    BY <1>1, BufferType
  <2>2. CASE receivers'[i] = receivers[i]
    BY <2>2
  <2>3. CASE /\ receivers[i].device = d
             /\ receivers'[i] = [receivers[i] EXCEPT !.kernel = Append(@, e)]
    <3>1. Buffer(receivers'[i]) = Append(Buffer(receivers[i]), e)
      BY <2>1, <2>3, BufferAppend
    <3>2. \A f : Has(Buffer(receivers'[i]), f) => Has(Buffer(receivers[i]), f) \/ f = e
      BY <2>1, <3>1, HasAppend
    <3> QED
      BY <2>1, <2>3, <3>2 DEF Receivers
  <2>4. \/ receivers'[i] = receivers[i]
        \/ /\ receivers[i].device = d
           /\ receivers'[i] = [receivers[i] EXCEPT !.kernel = Append(@, e)]
    BY DEF Tell
  <2> QED
    BY <2>2, <2>3, <2>4
<1>4. Tells(d, e)
    BY <1>2, <1>3 DEF Tells
<1>5. TableHasReceivers'
    BY <1>2, <1>3 DEF TableHasReceivers
<1> QED
    BY <1>4, <1>5

\* A receiver that was not cancelled is in the table: the monitor can still stop it.
\* At most one receiver of each name is not cancelled, as a name has one entry.
THEOREM MonitorCanStop == Spec => []TableHasReceivers
<1> DEFINE I == OrderInv /\ TableHasReceivers
<1>1. Init => I
  <2>1. Init => TableHasReceivers
    BY DEF Init, TableHasReceivers
  <2> QED
    BY <2>1, OrderInit
<1>2. I /\ [Next]_vars => I'
  <2> SUFFICES ASSUME I, [Next]_vars PROVE TableHasReceivers'
    BY OrderStep
  <2>1. CASE UNCHANGED vars
    BY <2>1 DEF vars, TableHasReceivers
  <2>2. ASSUME NEW d \in Devices, Plug(d) PROVE TableHasReceivers'
    BY <2>2 DEF Plug, TableHasReceivers
  <2>3. ASSUME NEW d \in Devices, Unplug(d) PROVE TableHasReceivers'
    BY <2>3, TellEffect DEF Unplug, Gone, Values
  <2>4. ASSUME NEW d \in Devices, Scroll(d) PROVE TableHasReceivers'
    <3>1. events + 1 \in Values
      BY <2>4 DEF Scroll, Values, OrderInv, TypeOK
    <3> QED
      BY <2>4, <3>1, TellEffect DEF Scroll
  <2>5. CASE HandleAdded \/ HandleRemoved
    BY <2>5, AddedEffect, RemovedEffect
  <2>6. ASSUME NEW i \in DOMAIN receivers, Receiver(i) \/ ReadFails(i) PROVE TableHasReceivers'
    BY <2>6, ReceiverEffect
  <2> QED
    BY <2>1, <2>2, <2>3, <2>4, <2>5, <2>6 DEF Next
<1>3. I => TableHasReceivers
    OBVIOUS
<1> QED
    BY <1>1, <1>2, <1>3, PTL DEF Spec

\* Where an event is: with receivers of the one device that it came from.
EventsInv ==
    /\ \A i \in DOMAIN receivers, e \in 1 .. MaxEvents :
          Has(Buffer(receivers[i]), e) => e <= events
    /\ \A i, j \in DOMAIN receivers, e \in 1 .. MaxEvents :
          Has(Buffer(receivers[i]), e) /\ Has(Buffer(receivers[j]), e) =>
              receivers[i].device = receivers[j].device

\* Who has sent: after its last read, a cancelled receiver is done.  An event that
\* was sent before the sender was cancelled is left with cancelled receivers only.
SentInv ==
    /\ \A x \in sent :
        /\ x.event <= events /\ x.by \in DOMAIN receivers
        /\ x.cancelled => receivers[x.by].cancelled /\ receivers[x.by].stage \in Done
    /\ \A x \in sent, j \in DOMAIN receivers :
          ~x.cancelled /\ j # x.by /\ Has(Buffer(receivers[j]), x.event) =>
              receivers[j].cancelled

SendInv == EventsInv /\ SentInv /\ OneLateSend /\ SentTwiceOnlyLate

LEMMA EventsShrink ==
    ASSUME EventsInv, Shrinks, events' = events
    PROVE  EventsInv'
    BY DEF EventsInv, Shrinks

LEMMA SentShrink ==
    ASSUME SendInv, OrderInv, Shrinks, events' = events, sent' = sent
    PROVE  SendInv'
<1>1. EventsInv' /\ OneLateSend' /\ SentTwiceOnlyLate'
    BY EventsShrink DEF SendInv, OneLateSend, SentTwiceOnlyLate
<1>2. SentInv'
    BY DEF SendInv, SentInv, Shrinks
<1> QED
    BY <1>1, <1>2 DEF SendInv

LEMMA SentTells ==
    ASSUME SendInv, OrderInv, NEW d, NEW e \in Values, Tells(d, e), sent' = sent,
           \/ (e = Gone /\ events' = events)
           \/ (e = events + 1 /\ events' = events + 1)
    PROVE  SendInv'
<1>1. events \in Nat /\ \A x \in sent : x.event \in 1 .. MaxEvents
    BY DEF OrderInv, TypeOK, Sendings
<1>2. \A i \in DOMAIN receivers, f \in 1 .. MaxEvents :
          Has(Buffer(receivers'[i]), f) /\ f <= events => Has(Buffer(receivers[i]), f)
    BY <1>1 DEF Tells, Gone
<1>3. \A i \in DOMAIN receivers, f \in 1 .. MaxEvents :
          Has(Buffer(receivers'[i]), f) =>
              \/ Has(Buffer(receivers[i]), f) /\ f <= events
              \/ f = events + 1 /\ f = e /\ receivers[i].device = d
    BY <1>1 DEF Tells, Gone, SendInv, EventsInv
<1>4. EventsInv'
  <2>1. ASSUME NEW i \in DOMAIN receivers, NEW f \in 1 .. MaxEvents,
               Has(Buffer(receivers'[i]), f)
        PROVE  f <= events'
    <3>1. f <= events \/ (f = events + 1 /\ f = e)
      BY <1>3, <2>1
    <3>2. events' \in Nat /\ events <= events'
      BY <1>1
    <3> QED
      BY <1>1, <3>1, <3>2 DEF Gone
  <2>2. ASSUME NEW i \in DOMAIN receivers, NEW j \in DOMAIN receivers,
               NEW f \in 1 .. MaxEvents,
               Has(Buffer(receivers'[i]), f), Has(Buffer(receivers'[j]), f)
        PROVE  receivers'[i].device = receivers'[j].device
    <3>1. CASE f <= events
      BY <1>2, <2>2, <3>1 DEF Tells, SendInv, EventsInv
    <3>2. CASE f = events + 1
      BY <1>1, <1>3, <2>2, <3>2 DEF Tells
    <3> QED
      BY <1>3, <2>2, <3>1, <3>2
  <2> QED
    BY <2>1, <2>2 DEF EventsInv, Tells
<1>5. SentInv'
  <2>1. ASSUME NEW x \in sent
        PROVE  /\ x.event <= events' /\ x.by \in DOMAIN receivers
               /\ x.cancelled => receivers'[x.by].cancelled /\ receivers'[x.by].stage \in Done
    BY <1>1 DEF SendInv, SentInv, Tells
  <2>2. ASSUME NEW x \in sent, NEW j \in DOMAIN receivers, ~x.cancelled, j # x.by,
               Has(Buffer(receivers'[j]), x.event)
        PROVE  receivers'[j].cancelled
    <3>1. Has(Buffer(receivers[j]), x.event)
      BY <1>1, <1>2, <2>2 DEF SendInv, SentInv
    <3> QED
      BY <2>2, <3>1 DEF SendInv, SentInv, Tells
  <2> QED
    BY <2>1, <2>2 DEF SentInv, Tells
<1>6. OneLateSend' /\ SentTwiceOnlyLate'
    BY DEF SendInv, OneLateSend, SentTwiceOnlyLate
<1> QED
    BY <1>4, <1>5, <1>6 DEF SendInv

LEMMA SentRead ==
    ASSUME SendInv, OrderInv, TableHasReceivers, NEW i \in DOMAIN receivers, Read(i),
           Shrinks, NEW e, Sends(i, e), receivers'[i].stage = "looping",
           receivers'[i].cancelled = receivers[i].cancelled
    PROVE  SendInv'
<1> DEFINE s == [event |-> e, by |-> i, cancelled |-> receivers[i].cancelled]
<1>1. /\ sent' = sent \cup {s} /\ events' = events
      /\ receivers[i].stage = "polling"
      /\ e \in 1 .. MaxEvents /\ Has(Buffer(receivers[i]), e)
    BY DEF Read, Sends
<1>2. s.event = e /\ s.by = i /\ s.cancelled = receivers[i].cancelled
    OBVIOUS
<1> HIDE DEF s
<1>3. EventsInv'
    BY <1>1, EventsShrink DEF SendInv
<1>4. \A j \in DOMAIN receivers : j # i /\ Has(Buffer(receivers[j]), e) =>
          receivers[i].cancelled \/ receivers[j].cancelled
    BY <1>1 DEF SendInv, EventsInv, TableHasReceivers
<1>5. SentInv'
  <2>1. ASSUME NEW x \in sent'
        PROVE  /\ x.event <= events' /\ x.by \in DOMAIN receivers'
               /\ x.cancelled => receivers'[x.by].cancelled /\ receivers'[x.by].stage \in Done
    <3>1. CASE x \in sent
      BY <1>1, <3>1 DEF SendInv, SentInv, Shrinks
    <3>2. CASE x = s
      BY <1>1, <1>2, <3>2 DEF SendInv, EventsInv, Shrinks, Done
    <3> QED
      BY <1>1, <3>1, <3>2
  <2>2. ASSUME NEW x \in sent', NEW j \in DOMAIN receivers', ~x.cancelled, j # x.by,
               Has(Buffer(receivers'[j]), x.event)
        PROVE  receivers'[j].cancelled
    <3>1. j \in DOMAIN receivers /\ Has(Buffer(receivers[j]), x.event)
      BY <2>2 DEF Shrinks
    <3>2. CASE x \in sent
      BY <2>2, <3>1, <3>2 DEF SendInv, SentInv, Shrinks
    <3>3. CASE x = s
      BY <1>2, <1>4, <2>2, <3>1, <3>3 DEF Shrinks
    <3> QED
      BY <1>1, <3>2, <3>3
  <2> QED
    BY <2>1, <2>2 DEF SentInv
<1>6. OneLateSend'
  <2>1. \A x \in sent : x.cancelled => x.by # i
    BY <1>1 DEF SendInv, SentInv, Done
  <2> QED
    BY <1>1, <1>2, <2>1 DEF OneLateSend, SendInv
<1>7. SentTwiceOnlyLate'
  <2>1. \A x \in sent : x.event = e /\ x.by # i => x.cancelled \/ receivers[i].cancelled
    BY <1>1 DEF SendInv, SentInv
  <2> QED
    BY <1>1, <1>2, <2>1 DEF SentTwiceOnlyLate, SendInv
<1> QED
    BY <1>3, <1>5, <1>6, <1>7 DEF SendInv

\* Two receivers of one device that came back faster than the monitor follows: an
\* event is sent twice only if one of the senders was cancelled before, and a cancelled
\* receiver sends one event at most.
THEOREM TwiceOnlyLate == Spec => [](SentTwiceOnlyLate /\ OneLateSend)
<1>1. Init => SendInv
    BY DEF Init, SendInv, EventsInv, SentInv, OneLateSend, SentTwiceOnlyLate
<1>2. SendInv /\ OrderInv /\ TableHasReceivers /\ [Next]_vars => SendInv'
  <2> SUFFICES ASSUME SendInv, OrderInv, TableHasReceivers, [Next]_vars PROVE SendInv'
    OBVIOUS
  <2>1. CASE UNCHANGED <<receivers, events, sent>>
    BY <2>1, SentShrink DEF Shrinks
  <2>2. ASSUME NEW d \in Devices, Plug(d) PROVE SendInv'
    BY <2>1, <2>2 DEF Plug
  <2>3. ASSUME NEW d \in Devices, Unplug(d) PROVE SendInv'
    <3>1. Tells(d, Gone) /\ Gone \in Values
      BY <2>3, TellEffect DEF Unplug, Gone, Values
    <3> QED
      BY <2>3, <3>1, SentTells DEF Unplug
  <2>4. ASSUME NEW d \in Devices, Scroll(d) PROVE SendInv'
    <3>1. events + 1 \in Values
      BY <2>4 DEF Scroll, Values, OrderInv, TypeOK
    <3>2. Tells(d, events + 1)
      BY <2>4, <3>1, TellEffect DEF Scroll
    <3> QED
      BY <2>4, <3>1, <3>2, SentTells DEF Scroll
  <2>5. CASE HandleAdded \/ HandleRemoved
    <3>1. Shrinks
      BY <2>5, AddedEffect, RemovedEffect
    <3> QED
      BY <2>5, <3>1, SentShrink DEF HandleAdded, HandleRemoved
  <2>6. ASSUME NEW i \in DOMAIN receivers, Receiver(i) \/ ReadFails(i) PROVE SendInv'
    <3>1. events' = events
      BY <2>6 DEF Receiver, Open, Check, Read, ReadFails
    <3> QED
      BY <2>6, <3>1, ReceiverEffect, SentShrink, SentRead
  <2> QED
    BY <2>1, <2>2, <2>3, <2>4, <2>5, <2>6 DEF Next, vars
<1>3. Spec => []OrderInv
    BY OrderInit, OrderStep, PTL DEF Spec
<1>4. SendInv => SentTwiceOnlyLate /\ OneLateSend
    BY DEF SendInv
<1> QED
    BY <1>1, <1>2, <1>3, <1>4, MonitorCanStop, PTL DEF Spec

-----------------------------------------------------------------------------
\* The monitor follows the devices.

\* The news of d that wait.
Waiting(d) == {k \in DOMAIN news : news[k].device = d}

\* A device comes and goes in turn, and the last news say where it is now.
Alternating(d) ==
    \A j, k \in Waiting(d) :
        j < k /\ (\A l \in Waiting(d) : ~(j < l /\ l < k)) => news[j].kind # news[k].kind
LastTells(d) ==
    \A k \in Waiting(d) :
        (\A l \in Waiting(d) : l <= k) => (news[k].kind = "Added" <=> attached[d] # 0)

\* The monitor is where the first news begin, or where the device is.
FirstTells(d) ==
    \A k \in Waiting(d) :
        (\A l \in Waiting(d) : k <= l) => (news[k].kind = "Added" <=> table[NameOf[d]] = 0)
NoneTells(d) ==
    Waiting(d) = {} => (table[NameOf[d]] # 0 <=> attached[d] # 0)

\* Receiver r reads d as it is plugged in now, or is about to open it.
Fresh(r, d) == r.stage = "starting" \/ (Reading(r) /\ r.plug = attached[d])

\* The receiver in the table is one of d, and after the last news it is fresh.
InTable(d) ==
    table[NameOf[d]] # 0 =>
        /\ receivers[table[NameOf[d]]].device = d
        /\ ~receivers[table[NameOf[d]]].cancelled
        /\ Waiting(d) = {} => Fresh(receivers[table[NameOf[d]]], d)

\* The table's entries are of their names.
TableNames ==
    \A n \in Names : table[n] # 0 => NameOf[receivers[table[n]].device] = n

NewsInv == \A d \in Devices : Alternating(d) /\ LastTells(d)
FollowInv ==
    \A d \in Devices : Captured(d) => FirstTells(d) /\ NoneTells(d) /\ InTable(d)

MonitorInv == OrderInv /\ TableHasReceivers /\ TableNames /\ NewsInv /\ FollowInv

\* News are appended with a number of their own.
LEMMA NewsAppended ==
    ASSUME news \in Seq(News), NEW d \in Devices, NEW kind \in {"Added", "Removed"},
           news' = Append(news, [kind |-> kind, device |-> d])
    PROVE  /\ Len(news) + 1 \notin DOMAIN news /\ DOMAIN news = 1 .. Len(news) /\ Len(news) \in Nat
           /\ Waiting(d)' = Waiting(d) \cup {Len(news) + 1}
           /\ \A e \in Devices \ {d} : Waiting(e)' = Waiting(e)
           /\ \A k \in DOMAIN news : news'[k] = news[k]
           /\ news'[Len(news) + 1].kind = kind
<1> DEFINE x == [kind |-> kind, device |-> d]
<1>1. x \in News /\ x.kind = kind /\ x.device = d
    BY DEF News
<1> HIDE DEF x
<1>2. /\ Len(news) \in Nat /\ DOMAIN news = 1 .. Len(news)
      /\ DOMAIN news' = DOMAIN news \cup {Len(news) + 1}
      /\ \A k \in DOMAIN news : news'[k] = news[k]
      /\ news'[Len(news) + 1] = x
    BY <1>1 DEF x
<1> QED
    BY <1>1, <1>2 DEF Waiting

\* Without the first news the others move up.
LEMMA NewsTaken ==
    ASSUME news \in Seq(News), news # << >>, news' = Tail(news)
    PROVE  /\ 1 \in DOMAIN news /\ news[1] = Head(news) /\ DOMAIN news \subseteq Nat \ {0}
           /\ \A e \in Devices : \A k \in Waiting(e)' : k + 1 \in Waiting(e) /\ k \in Nat \ {0}
           /\ \A e \in Devices : \A k \in Waiting(e) : k # 1 => k - 1 \in Waiting(e)'
           /\ \A e \in Devices : \A k \in Waiting(e)' : news'[k] = news[k + 1]
<1>1. /\ Len(news) \in Nat \ {0} /\ DOMAIN news = 1 .. Len(news)
      /\ DOMAIN news' = 1 .. (Len(news) - 1)
      /\ \A k \in DOMAIN news' : news'[k] = news[k + 1]
    OBVIOUS
<1>2. \A k \in DOMAIN news : k # 1 => k - 1 \in DOMAIN news' /\ news'[k - 1] = news[k]
    BY <1>1
<1> QED
    BY <1>1, <1>2 DEF Waiting

\* A device that comes or goes is news.
LEMMA NewsComes ==
    ASSUME MonitorInv, NEW d \in Devices, Plug(d) \/ Unplug(d)
    PROVE  /\ NewsInv'
           /\ \A e \in Devices : Captured(e) => FirstTells(e)' /\ NoneTells(e)'
<1> DEFINE kind == IF attached[d] = 0 THEN "Added" ELSE "Removed"
           L == Len(news)
<1>1. /\ news \in Seq(News) /\ attached \in [Devices -> 0 .. plugs] /\ plugs \in Nat
      /\ table' = table /\ news' = Append(news, [kind |-> kind, device |-> d])
    BY DEF MonitorInv, OrderInv, TypeOK, Plug, Unplug
<1>2. attached'[d] # 0 <=> attached[d] = 0
    BY <1>1 DEF Plug, Unplug
<1>3. \A e \in Devices \ {d} : attached'[e] = attached[e]
    BY <1>1 DEF Plug, Unplug
<1>4. /\ L + 1 \notin DOMAIN news /\ DOMAIN news = 1 .. L /\ L \in Nat
      /\ Waiting(d)' = Waiting(d) \cup {L + 1}
      /\ \A e \in Devices \ {d} : Waiting(e)' = Waiting(e)
      /\ \A k \in DOMAIN news : news'[k] = news[k]
      /\ news'[L + 1].kind = kind
    BY <1>1, NewsAppended
<1>5. \A e \in Devices : Waiting(e) \subseteq DOMAIN news
    BY DEF Waiting
<1>6. \A k \in Waiting(d) : k \in Nat /\ k < L + 1
    BY <1>4, <1>5
<1> HIDE DEF L
<1>7. ASSUME NEW e \in Devices \ {d}
      PROVE  /\ Alternating(e)' /\ LastTells(e)'
             /\ Captured(e) => FirstTells(e)' /\ NoneTells(e)'
    <2>1. /\ Alternating(e) /\ LastTells(e)
          /\ Captured(e) => FirstTells(e) /\ NoneTells(e)
        BY DEF MonitorInv, NewsInv, FollowInv
    <2>2. Waiting(e)' = Waiting(e) /\ \A k \in Waiting(e) : news'[k] = news[k]
        BY <1>4, <1>5
    <2>3. attached'[e] = attached[e] /\ table' = table
        BY <1>1, <1>3
    <2> QED
        BY <2>1, <2>2, <2>3 DEF Alternating, LastTells, FirstTells, NoneTells
<1>8. Alternating(d)' /\ LastTells(d)'
    <2>1. Alternating(d) /\ LastTells(d)
        BY DEF MonitorInv, NewsInv
    <2>2. LastTells(d)'
        <3> SUFFICES ASSUME NEW k \in Waiting(d)', \A l \in Waiting(d)' : l <= k
                     PROVE  news'[k].kind = "Added" <=> attached'[d] # 0
            BY DEF LastTells
        <3>1. k = L + 1
            BY <1>4, <1>6
        <3> QED BY <1>2, <1>4, <3>1
    <2>3. Alternating(d)'
        <3> SUFFICES ASSUME NEW j \in Waiting(d)', NEW k \in Waiting(d)', j < k,
                            \A l \in Waiting(d)' : ~(j < l /\ l < k)
                     PROVE  news'[j].kind # news'[k].kind
            BY DEF Alternating
        <3>1. j \in Waiting(d) /\ news'[j] = news[j]
            BY <1>4, <1>5, <1>6
        <3>2. CASE k \in Waiting(d)
            BY <1>4, <1>5, <2>1, <3>1, <3>2 DEF Alternating
        <3>3. CASE k = L + 1
            <4>1. ASSUME NEW l \in Waiting(d) PROVE l <= j
                <5>1. l \in Waiting(d)' /\ l < k /\ l \in Nat /\ j \in Nat
                    BY <1>4, <1>6, <3>1, <3>3
                <5> QED BY <5>1
            <4>2. news[j].kind = "Added" <=> attached[d] # 0
                BY <2>1, <3>1, <4>1 DEF LastTells
            <4> QED BY <1>4, <3>1, <3>3, <4>2
        <3> QED BY <1>4, <3>2, <3>3
    <2> QED BY <2>2, <2>3
<1>9. ASSUME Captured(d) PROVE FirstTells(d)' /\ NoneTells(d)'
    <2>1. FirstTells(d) /\ NoneTells(d)
        BY <1>9 DEF MonitorInv, FollowInv
    <2>2. NoneTells(d)'
        BY <1>4 DEF NoneTells
    <2>3. FirstTells(d)'
        <3> SUFFICES ASSUME NEW k \in Waiting(d)', \A l \in Waiting(d)' : k <= l
                     PROVE  news'[k].kind = "Added" <=> table[NameOf[d]] = 0
            BY <1>1 DEF FirstTells
        <3>1. CASE Waiting(d) = {}
            BY <1>4, <2>1, <3>1 DEF NoneTells
        <3>2. CASE Waiting(d) # {}
            <4>1. k \in Waiting(d) /\ \A l \in Waiting(d) : k <= l
                BY <1>4, <1>6, <3>2
            <4> QED BY <1>4, <1>5, <2>1, <4>1 DEF FirstTells
        <3> QED BY <3>1, <3>2
    <2> QED BY <2>2, <2>3
<1> QED
    BY <1>7, <1>8, <1>9 DEF NewsInv
\* The monitor takes the first news, those of d: the next news of d are the other
\* kind, and when there are none, they said where d is.
LEMMA NewsGoes ==
    ASSUME MonitorInv, news # << >>, news' = Tail(news), attached' = attached,
           NEW d \in Devices, d = Head(news).device
    PROVE  /\ NewsInv'
           /\ \A e \in Devices \ {d} : Waiting(e)' = {} <=> Waiting(e) = {}
           /\ \A e \in Devices \ {d} : FirstTells(e) =>
                \A k \in Waiting(e)' : (\A l \in Waiting(e)' : k <= l) =>
                    (news'[k].kind = "Added" <=> table[NameOf[e]] = 0)
           /\ \A k \in Waiting(d)' : (\A l \in Waiting(d)' : k <= l) =>
                  news'[k].kind # Head(news).kind
           /\ Waiting(d)' = {} => (Head(news).kind = "Added" <=> attached[d] # 0)
<1>1. /\ 1 \in DOMAIN news /\ news[1] = Head(news) /\ DOMAIN news \subseteq Nat \ {0}
      /\ \A e \in Devices : \A k \in Waiting(e)' : k + 1 \in Waiting(e) /\ k \in Nat \ {0}
      /\ \A e \in Devices : \A k \in Waiting(e) : k # 1 => k - 1 \in Waiting(e)'
      /\ \A e \in Devices : \A k \in Waiting(e)' : news'[k] = news[k + 1]
    BY NewsTaken DEF MonitorInv, OrderInv, TypeOK
<1>2. \A e \in Devices : \A k \in Waiting(e) : k \in Nat \ {0}
    BY <1>1 DEF Waiting
<1>3. d \in Devices /\ 1 \in Waiting(d)
    BY <1>1 DEF Waiting
<1>4. \A e \in Devices \ {d} : 1 \notin Waiting(e)
    BY <1>1 DEF Waiting
<1>5. \A e \in Devices : Alternating(e) /\ LastTells(e)
    BY DEF MonitorInv, NewsInv
<1>6. ASSUME NEW e \in Devices
      PROVE  Alternating(e)' /\ LastTells(e)'
    <2>1. ASSUME NEW j \in Waiting(e)', NEW k \in Waiting(e)', j < k,
                 \A l \in Waiting(e)' : ~(j < l /\ l < k)
          PROVE  news'[j].kind # news'[k].kind
        <3>1. /\ j + 1 \in Waiting(e) /\ k + 1 \in Waiting(e) /\ j + 1 < k + 1
              /\ j \in Nat /\ k \in Nat
            BY <1>1, <2>1
        <3>2. ASSUME NEW l \in Waiting(e), j + 1 < l, l < k + 1 PROVE FALSE
            <4>1. l \in Nat /\ l # 1
                BY <1>2, <3>1, <3>2
            <4>2. j < l - 1 /\ l - 1 < k
                BY <3>1, <3>2, <4>1
            <4>3. l - 1 \in Waiting(e)'
                BY <1>1, <4>1
            <4> QED BY <2>1, <4>2, <4>3
        <3>3. news[j + 1].kind # news[k + 1].kind
            <4>1. \A l \in Waiting(e) : ~(j + 1 < l /\ l < k + 1)
                BY <3>2
            <4> QED BY <1>5, <3>1, <4>1 DEF Alternating
        <3>4. news'[j] = news[j + 1] /\ news'[k] = news[k + 1]
            BY <1>1
        <3> QED BY <3>3, <3>4
    <2>2. ASSUME NEW k \in Waiting(e)', \A l \in Waiting(e)' : l <= k
          PROVE  news'[k].kind = "Added" <=> attached[e] # 0
        <3>1. k + 1 \in Waiting(e) /\ k \in Nat \ {0} /\ news'[k] = news[k + 1]
            BY <1>1
        <3>2. ASSUME NEW l \in Waiting(e) PROVE l <= k + 1
            <4>1. CASE l = 1
                BY <3>1, <4>1
            <4>2. CASE l # 1
                <5>1. l - 1 \in Waiting(e)' /\ l \in Nat
                    BY <1>1, <1>2, <4>2
                <5>2. l - 1 <= k
                    BY <2>2, <5>1
                <5> QED BY <3>1, <5>1, <5>2
            <4> QED BY <4>1, <4>2
        <3> QED BY <1>5, <3>1, <3>2 DEF LastTells
    <2> QED BY <2>1, <2>2 DEF Alternating, LastTells
<1>7. ASSUME NEW e \in Devices \ {d}
      PROVE  /\ Waiting(e)' = {} <=> Waiting(e) = {}
             /\ FirstTells(e) =>
                  \A k \in Waiting(e)' : (\A l \in Waiting(e)' : k <= l) =>
                      (news'[k].kind = "Added" <=> table[NameOf[e]] = 0)
    <2>1. Waiting(e)' = {} <=> Waiting(e) = {}
        BY <1>1, <1>4
    <2>2. ASSUME FirstTells(e), NEW k \in Waiting(e)', \A l \in Waiting(e)' : k <= l
          PROVE  news'[k].kind = "Added" <=> table[NameOf[e]] = 0
        <3>1. k + 1 \in Waiting(e) /\ k \in Nat /\ news'[k] = news[k + 1]
            BY <1>1
        <3>2. ASSUME NEW l \in Waiting(e) PROVE k + 1 <= l
            <4>1. l - 1 \in Waiting(e)' /\ l \in Nat
                BY <1>1, <1>2, <1>4
            <4>2. k <= l - 1
                BY <2>2, <4>1
            <4> QED BY <3>1, <4>1, <4>2
        <3> QED BY <2>2, <3>1, <3>2 DEF FirstTells
    <2> QED BY <2>1, <2>2
<1>8. ASSUME NEW k \in Waiting(d)', \A l \in Waiting(d)' : k <= l
      PROVE  news'[k].kind # Head(news).kind
    <2>0. k + 1 \in Waiting(d) /\ k \in Nat \ {0} /\ news'[k] = news[k + 1]
        BY <1>1
    <2>1. 1 < k + 1
        <3>1. \A x \in Nat \ {0} : 1 < x + 1
            OBVIOUS
        <3> QED BY <2>0, <3>1
    <2>2. ASSUME NEW l \in Waiting(d), 1 < l, l < k + 1 PROVE FALSE
        <3>0. l \in Nat /\ l # 1
            BY <1>2, <2>2
        <3>1. l - 1 \in Waiting(d)' /\ l \in Nat
            BY <1>1, <3>0
        <3>2. k <= l - 1
            BY <1>8, <3>1
        <3> QED BY <2>0, <2>2, <3>1, <3>2
    <2>3. news[1].kind # news[k + 1].kind
        BY <1>3, <1>5, <2>0, <2>1, <2>2 DEF Alternating
    <2> QED BY <1>1, <2>0, <2>3
<1>9. ASSUME Waiting(d)' = {}
      PROVE  Head(news).kind = "Added" <=> attached[d] # 0
    <2>1. \A l \in Waiting(d) : l <= 1
        BY <1>1, <1>3, <1>9
    <2> QED BY <1>1, <1>3, <1>5, <2>1 DEF LastTells
<1>10. NewsInv'
    BY <1>6 DEF NewsInv
<1> QED
    BY <1>7, <1>8, <1>9, <1>10
\* What the monitor and its receivers tell apart in receiver i stays.
Same(i) ==
    /\ receivers'[i].device = receivers[i].device /\ receivers'[i].cancelled = receivers[i].cancelled
    /\ receivers'[i].stage = receivers[i].stage /\ receivers'[i].plug = receivers[i].plug

LEMMA TableEntry ==
    ASSUME TypeOK, NEW n \in Names
    PROVE  table[n] # 0 => table[n] \in DOMAIN receivers
<1>1. table[n] \in 0 .. Len(receivers) /\ receivers \in Seq(Receivers)
    BY DEF TypeOK
<1> QED
    BY <1>1

LEMMA ToldSame ==
    ASSUME TypeOK, NEW d \in Devices, NEW e \in Values, receivers' = Tell(d, e)
    PROVE  DOMAIN receivers' = DOMAIN receivers /\ \A i \in DOMAIN receivers : Same(i)
<1>1. receivers \in Seq(Receivers)
    BY DEF TypeOK
<1>2. ASSUME NEW i \in DOMAIN receivers PROVE Same(i)
    <2>1. receivers[i] \in Receivers
        BY <1>1
    <2>2. \/ receivers'[i] = receivers[i]
          \/ receivers'[i] = [receivers[i] EXCEPT !.kernel = Append(@, e)]
        BY DEF Tell
    <2> QED
        BY <2>1, <2>2 DEF Same, Receivers
<1> QED
    BY <1>1, <1>2, TellType

\* A device whose news, entry and receiver stay keeps them.
LEMMA InTableKept ==
    ASSUME MonitorInv, NEW e \in Devices, Captured(e),
           table'[NameOf[e]] = table[NameOf[e]],
           table[NameOf[e]] # 0 => Same(table[NameOf[e]]),
           Waiting(e)' = {} => Waiting(e) = {} /\ attached'[e] = attached[e]
    PROVE  InTable(e)'
<1>1. InTable(e)
    BY DEF MonitorInv, FollowInv
<1> QED
    BY <1>1 DEF InTable, Same, Fresh, Reading

LEMMA NamesKept ==
    ASSUME MonitorInv, table' = table, \A i \in DOMAIN receivers : receivers'[i].device = receivers[i].device
    PROVE  TableNames'
BY TableEntry DEF MonitorInv, OrderInv, TableNames

LEMMA FollowDevices ==
    ASSUME MonitorInv, NEW d \in Devices, Plug(d) \/ Unplug(d) \/ Scroll(d)
    PROVE  TableNames' /\ NewsInv' /\ FollowInv'
<1>1. TypeOK /\ table' = table
    BY DEF MonitorInv, OrderInv, Plug, Unplug, Scroll
<1>2. \A i \in DOMAIN receivers : Same(i)
    <2>1. CASE Plug(d)
        BY <2>1 DEF Plug, Same
    <2>2. CASE Unplug(d)
        <3>1. Gone \in Values
            BY DEF Gone, Values
        <3> QED BY <1>1, <2>2, <3>1, ToldSame DEF Unplug
    <2>3. CASE Scroll(d)
        <3>1. events + 1 \in Values
            BY <1>1, <2>3 DEF Scroll, Values, TypeOK
        <3> QED BY <1>1, <2>3, <3>1, ToldSame DEF Scroll
    <2> QED BY <2>1, <2>2, <2>3
<1>3. TableNames'
    BY <1>1, <1>2, NamesKept DEF Same
<1>4. \A e \in Devices : NameOf[e] \in Names
    OBVIOUS
<1>5. CASE Scroll(d)
    <2>1. news' = news /\ attached' = attached
        BY <1>5 DEF Scroll
    <2>2. \A e \in Devices : Waiting(e)' = Waiting(e)
        BY <2>1 DEF Waiting
    <2>3. NewsInv'
        BY <2>1, <2>2 DEF MonitorInv, NewsInv, Alternating, LastTells
    <2>4. ASSUME NEW e \in Devices, Captured(e) PROVE FirstTells(e)' /\ NoneTells(e)' /\ InTable(e)'
        <3>1. FirstTells(e) /\ NoneTells(e)
            BY <2>4 DEF MonitorInv, FollowInv
        <3>2. InTable(e)'
            BY <1>1, <1>2, <1>4, <2>1, <2>2, <2>4, InTableKept, TableEntry
        <3> QED BY <1>1, <2>1, <2>2, <3>1, <3>2 DEF FirstTells, NoneTells
    <2> QED BY <1>3, <2>3, <2>4 DEF FollowInv
<1>6. CASE Plug(d) \/ Unplug(d)
    <2>1. /\ Waiting(d)' # {}
          /\ \A e \in Devices \ {d} : Waiting(e)' = Waiting(e) /\ attached'[e] = attached[e]
        <3>1. PICK kind \in {"Added", "Removed"} : news' = Append(news, [kind |-> kind, device |-> d])
            BY <1>6 DEF Plug, Unplug
        <3>2. news \in Seq(News) /\ attached \in [Devices -> 0 .. plugs]
            BY <1>1 DEF TypeOK
        <3>3. /\ Waiting(d)' = Waiting(d) \cup {Len(news) + 1}
              /\ \A e \in Devices \ {d} : Waiting(e)' = Waiting(e)
            BY <3>1, <3>2, NewsAppended
        <3> QED BY <1>6, <3>2, <3>3 DEF Plug, Unplug
    <2>2. ASSUME NEW e \in Devices, Captured(e) PROVE InTable(e)'
        BY <1>1, <1>2, <1>4, <2>1, <2>2, InTableKept, TableEntry
    <2> QED BY <1>3, <1>6, <2>2, NewsComes DEF FollowInv
<1> QED
    BY <1>5, <1>6

\* Captured devices have names of their own.
LEMMA OwnName ==
    ASSUME NEW d \in Devices, NEW e \in Devices, Captured(e), e # d
    PROVE  NameOf[d] # NameOf[e]
BY DEF Captured, Unshared
\* The monitor takes one piece of news.
LEMMA FollowTaken ==
    ASSUME MonitorInv, NEW d \in Devices, news # << >>, d = Head(news).device,
           news' = Tail(news), attached' = attached,
           \A n \in Names \ {NameOf[d]} :
               table'[n] = table[n] /\ (table[n] # 0 => Same(table[n])),
           Captured(d) => /\ Head(news).kind # "Added" <=> table'[NameOf[d]] = 0
                          /\ table'[NameOf[d]] # 0 =>
                               receivers'[table'[NameOf[d]]] = Started(d)
    PROVE  NewsInv' /\ FollowInv'
<1>1. /\ NewsInv'
      /\ \A e \in Devices \ {d} : Waiting(e)' = {} <=> Waiting(e) = {}
      /\ \A e \in Devices \ {d} : FirstTells(e) =>
           \A k \in Waiting(e)' : (\A l \in Waiting(e)' : k <= l) =>
               (news'[k].kind = "Added" <=> table[NameOf[e]] = 0)
      /\ \A k \in Waiting(d)' : (\A l \in Waiting(d)' : k <= l) =>
             news'[k].kind # Head(news).kind
      /\ Waiting(d)' = {} => (Head(news).kind = "Added" <=> attached[d] # 0)
    BY NewsGoes
<1>2. /\ news \in Seq(News) /\ Head(news) \in News
      /\ \A k \in Waiting(d)' : news'[k] \in News
    <2>1. news \in Seq(News)
        BY DEF MonitorInv, OrderInv, TypeOK
    <2>2. Tail(news) \in Seq(News) /\ Head(news) \in News
        BY <2>1, HeadTailProperties, Zenon
    <2>3. \A k \in DOMAIN news' : news'[k] \in News
        BY <2>2
    <2> QED BY <2>1, <2>2, <2>3 DEF Waiting
<1>3. ASSUME NEW e \in Devices \ {d}, Captured(e)
      PROVE  FirstTells(e)' /\ NoneTells(e)' /\ InTable(e)'
    <2>1. NameOf[e] \in Names \ {NameOf[d]}
        BY <1>3, OwnName
    <2>2. FirstTells(e) /\ NoneTells(e)
        BY <1>3 DEF MonitorInv, FollowInv
    <2>3. FirstTells(e)' /\ NoneTells(e)'
        BY <1>1, <2>1, <2>2 DEF FirstTells, NoneTells
    <2>4. InTable(e)'
        BY <1>1, <1>3, <2>1, InTableKept
    <2> QED BY <2>3, <2>4
<1>4. ASSUME Captured(d)
      PROVE  FirstTells(d)' /\ NoneTells(d)' /\ InTable(d)'
    <2>1. FirstTells(d)'
        <3> SUFFICES ASSUME NEW k \in Waiting(d)', \A l \in Waiting(d)' : k <= l
                     PROVE  news'[k].kind = "Added" <=> table'[NameOf[d]] = 0
            BY DEF FirstTells
        <3>1. news'[k].kind # Head(news).kind
            BY <1>1
        <3>2. {news'[k].kind, Head(news).kind} \subseteq {"Added", "Removed"}
            BY <1>2 DEF News
        <3> QED BY <1>4, <3>1, <3>2
    <2>2. NoneTells(d)'
        BY <1>1, <1>4 DEF NoneTells
    <2>3. InTable(d)'
        BY <1>4 DEF InTable, Started, Fresh
    <2> QED BY <2>1, <2>2, <2>3
<1> QED
    BY <1>1, <1>3, <1>4 DEF FollowInv

LEMMA FollowAdded ==
    ASSUME MonitorInv, HandleAdded
    PROVE  TableNames' /\ NewsInv' /\ FollowInv'
<1>1. PICK d \in Devices : d = Head(news).device
    BY NewsType DEF MonitorInv, OrderInv, HandleAdded
<1>2. /\ news # << >> /\ news' = Tail(news) /\ attached' = attached /\ Head(news).kind = "Added"
    BY DEF HandleAdded
<1>3. /\ receivers \in Seq(Receivers) /\ table \in [Names -> 0 .. Len(receivers)]
      /\ NameOf[d] \in Names /\ TypeOK
    BY DEF MonitorInv, OrderInv, TypeOK
<1>4. Starts(d) \/ (UNCHANGED <<receivers, table>> /\ ~(Matches(d) /\ table[NameOf[d]] = 0))
    BY <1>1 DEF HandleAdded, Starts
<1>5. \A n \in Names : table[n] # 0 => table[n] \in DOMAIN receivers
    BY <1>3, TableEntry
<1>6. \A n \in Names \ {NameOf[d]} :
          table'[n] = table[n] /\ (table[n] # 0 => Same(table[n]))
    <2>1. CASE Starts(d)
        <3>1. \A i \in DOMAIN receivers : receivers'[i] = receivers[i]
            BY <1>3, <2>1, StartEffect
        <3> QED BY <1>3, <1>5, <2>1, <3>1 DEF Starts, Same
    <2>2. CASE UNCHANGED <<receivers, table>>
        BY <2>2 DEF Same
    <2> QED BY <1>4, <2>1, <2>2
<1>7. Starts(d) => /\ table'[NameOf[d]] = Len(receivers) + 1 /\ Len(receivers) \in Nat
                   /\ receivers'[Len(receivers) + 1] = Started(d)
    BY <1>3, StartEffect DEF Starts
<1>8. Captured(d) => Starts(d)
    <2> SUFFICES ASSUME Captured(d) PROVE table[NameOf[d]] = 0
        BY <1>4 DEF Captured
    <2>1. FirstTells(d)
        BY DEF MonitorInv, FollowInv
    <2>2. 1 \in Waiting(d) /\ news[1] = Head(news) /\ \A l \in Waiting(d) : 1 <= l
        <3>1. /\ 1 \in DOMAIN news /\ news[1] = Head(news) /\ DOMAIN news \subseteq Nat \ {0}
            BY <1>2, NewsTaken DEF MonitorInv, OrderInv, TypeOK
        <3>2. \A l \in Nat \ {0} : 1 <= l
            OBVIOUS
        <3> QED BY <1>1, <3>1, <3>2 DEF Waiting
    <2> QED BY <1>2, <2>1, <2>2 DEF FirstTells
<1>9. TableNames'
    <2> SUFFICES ASSUME NEW n \in Names, table'[n] # 0
                 PROVE  NameOf[receivers'[table'[n]].device] = n
        BY DEF TableNames
    <2>1. CASE n # NameOf[d]
        BY <1>6, <2>1 DEF MonitorInv, TableNames, Same
    <2>2. CASE n = NameOf[d]
        <3>1. CASE Starts(d)
            BY <1>7, <2>2, <3>1 DEF Started
        <3>2. CASE UNCHANGED <<receivers, table>>
            BY <3>2 DEF MonitorInv, TableNames
        <3> QED BY <1>4, <3>1, <3>2
    <2> QED BY <2>1, <2>2
<1>10. Captured(d) => /\ table'[NameOf[d]] # 0
                      /\ receivers'[table'[NameOf[d]]] = Started(d)
    BY <1>7, <1>8
<1> QED
    BY <1>1, <1>2, <1>6, <1>9, <1>10, FollowTaken

LEMMA FollowRemoved ==
    ASSUME MonitorInv, HandleRemoved
    PROVE  TableNames' /\ NewsInv' /\ FollowInv'
<1>1. PICK d \in Devices : d = Head(news).device
    BY NewsType DEF MonitorInv, OrderInv, HandleRemoved
<1>2. /\ news # << >> /\ news' = Tail(news) /\ attached' = attached /\ Head(news).kind = "Removed"
    BY DEF HandleRemoved
<1> DEFINE n == NameOf[d]
<1>3. /\ receivers \in Seq(Receivers) /\ table \in [Names -> 0 .. Len(receivers)]
      /\ n \in Names /\ TypeOK
    BY DEF MonitorInv, OrderInv, TypeOK
<1>4. /\ table' = [table EXCEPT ![n] = 0]
      /\ receivers' = IF table[n] = 0 THEN receivers
                      ELSE [receivers EXCEPT ![table[n]].cancelled = TRUE]
    BY <1>1 DEF HandleRemoved
<1>5. \A m \in Names : table[m] # 0 => table[m] \in DOMAIN receivers
    BY <1>3, TableEntry
<1> HIDE DEF n
<1>6. /\ \A i \in DOMAIN receivers : i # table[n] => receivers'[i] = receivers[i]
      /\ \A i \in DOMAIN receivers : receivers'[i].device = receivers[i].device
    <2>1. CASE table[n] = 0
        BY <1>4, <2>1
    <2>2. CASE table[n] # 0
        <3>1. PICK r : /\ Becomes(table[n], r)
            BY <1>3, <1>4, <1>5, <2>2, CancelEffect DEF MonitorInv, OrderInv
        <3>2. /\ receivers'[table[n]] = r
              /\ \A j \in DOMAIN receivers : j # table[n] => receivers'[j] = receivers[j]
            BY <1>3, <3>1, Update DEF Becomes
        <3> QED BY <3>1, <3>2 DEF Becomes
    <2> QED BY <2>1, <2>2
<1>7. ASSUME NEW m \in Names \ {n}
      PROVE  table'[m] = table[m] /\ (table[m] # 0 => Same(table[m]))
    <2>1. table'[m] = table[m]
        BY <1>3, <1>4
    <2>2. table[m] # 0 => table[m] # table[n]
        BY <1>3 DEF MonitorInv, TableNames
    <2> QED BY <1>5, <1>6, <2>1, <2>2 DEF Same
<1>8. table'[n] = 0
    BY <1>3, <1>4
<1>9. TableNames'
    BY <1>7, <1>8 DEF MonitorInv, TableNames, Same
<1> QED
    BY <1>1, <1>2, <1>7, <1>8, <1>9, FollowTaken DEF n

\* A receiver of a captured device goes on: it opens what is there now, and nothing
\* ends it but its cancellation.
LEMMA FollowReceiver ==
    ASSUME MonitorInv, NEW i \in DOMAIN receivers, Receiver(i) \/ ReadFails(i)
    PROVE  TableNames' /\ NewsInv' /\ FollowInv'
<1>1. TypeOK /\ receivers \in Seq(Receivers) /\ receivers[i] \in Receivers
    BY DEF MonitorInv, OrderInv, TypeOK
<1>2. UNCHANGED <<plugs, attached, news, table, events>>
    BY DEF Receiver, Open, Check, Read, ReadFails
<1>3. \A e \in Devices : Waiting(e)' = Waiting(e)
    BY <1>2 DEF Waiting
<1>4. /\ DOMAIN receivers' = DOMAIN receivers
      /\ \A j \in DOMAIN receivers : j # i => receivers'[j] = receivers[j]
      /\ receivers'[i].device = receivers[i].device
      /\ receivers'[i].cancelled = receivers[i].cancelled
  <2>1. DOMAIN receivers[i] = {"device", "plug", "stage", "cancelled", "kernel", "queued"}
    BY <1>1 DEF Receivers
  <2>2. CASE Open(i)
    BY <1>1, <2>1, <2>2 DEF Open
  <2>3. CASE Check(i)
    BY <1>1, <2>1, <2>3 DEF Check
  <2>4. CASE Read(i)
    BY <1>1, <2>1, <2>4 DEF Read
  <2>5. CASE ReadFails(i)
    BY <1>1, <2>1, <2>5 DEF ReadFails
  <2> QED
    BY <2>2, <2>3, <2>4, <2>5 DEF Receiver
<1>5. NewsInv'
    BY <1>2, <1>3 DEF MonitorInv, NewsInv, Alternating, LastTells
<1>6. TableNames'
    BY <1>2, <1>4, NamesKept
<1>7. ASSUME NEW e \in Devices, Captured(e), Waiting(e) = {}, table[NameOf[e]] = i
      PROVE  Fresh(receivers'[i], e)
    <2>1. FirstTells(e) /\ NoneTells(e) /\ InTable(e)
        BY <1>7 DEF MonitorInv, FollowInv
    <2>2. i # 0
        BY <1>1
    <2>3. /\ receivers[i].device = e /\ ~receivers[i].cancelled /\ Fresh(receivers[i], e)
          /\ attached[e] # 0 /\ e \notin Failing
        BY <1>7, <2>1, <2>2 DEF InTable, NoneTells, Captured
    <2>4. CASE Open(i)
        <3>1. receivers' = [receivers EXCEPT ![i].stage = "looping", ![i].plug = attached[e]]
            BY <2>3, <2>4 DEF Open
        <3>2. receivers'[i].stage = "looping" /\ receivers'[i].plug = attached[e]
            BY <1>1, <3>1 DEF Receivers
        <3> QED BY <3>2 DEF Fresh, Reading
    <2>5. CASE Check(i)
        <3>1. receivers'[i].stage = "polling" /\ receivers'[i].plug = receivers[i].plug
            BY <1>1, <2>3, <2>5 DEF Check, Receivers
        <3> QED BY <2>3, <2>5, <3>1 DEF Check, Fresh, Reading
    <2>6. CASE Read(i)
        <3>1. receivers'[i].stage = "looping" /\ receivers'[i].plug = receivers[i].plug
            BY <1>1, <2>6 DEF Read, Receivers
        <3> QED BY <2>3, <2>6, <3>1 DEF Read, Fresh, Reading
    <2>7. CASE ReadFails(i)
        BY <2>3, <2>7 DEF ReadFails
    <2> QED BY <2>4, <2>5, <2>6, <2>7 DEF Receiver
<1>8. ASSUME NEW e \in Devices, Captured(e) PROVE FirstTells(e)' /\ NoneTells(e)' /\ InTable(e)'
    <2>1. FirstTells(e) /\ NoneTells(e) /\ InTable(e)
        BY <1>8 DEF MonitorInv, FollowInv
    <2>2. FirstTells(e)' /\ NoneTells(e)'
        BY <1>2, <1>3, <2>1 DEF FirstTells, NoneTells
    <2>3. InTable(e)'
        <3>1. CASE table[NameOf[e]] # i
            <4>0. NameOf[e] \in Names
                OBVIOUS
            <4>1. table[NameOf[e]] # 0 => Same(table[NameOf[e]])
                BY <1>1, <1>4, <3>1, <4>0, TableEntry DEF Same
            <4> QED BY <1>2, <1>3, <1>8, <4>1, InTableKept
        <3>2. CASE table[NameOf[e]] = i
            <4>1. Waiting(e)' = {} => Fresh(receivers'[i], e)
                BY <1>3, <1>7, <1>8, <3>2
            <4>2. i # 0 /\ table'[NameOf[e]] = i /\ attached' = attached
                BY <1>1, <1>2, <3>2
            <4>3. receivers'[i].device = e /\ ~receivers'[i].cancelled
                BY <1>4, <2>1, <3>2, <4>2 DEF InTable
            <4> QED BY <4>1, <4>2, <4>3 DEF InTable, Fresh, Reading
        <3> QED BY <3>1, <3>2
    <2> QED BY <2>2, <2>3
<1> QED
    BY <1>5, <1>6, <1>8 DEF FollowInv
LEMMA MonitorInit == Init => MonitorInv
<1> SUFFICES ASSUME Init PROVE MonitorInv
    OBVIOUS
<1>1. OrderInv /\ TableHasReceivers
    BY OrderInit DEF Init, TableHasReceivers
<1>2. /\ \A n \in Names : table[n] = 0
      /\ \A d \in Devices : Waiting(d) = {} /\ attached[d] = 0 /\ NameOf[d] \in Names
    BY DEF Init, Waiting
<1> QED
    BY <1>1, <1>2 DEF MonitorInv, TableNames, NewsInv, FollowInv, Alternating, LastTells,
                      FirstTells, NoneTells, InTable

LEMMA MonitorStep ==
    ASSUME MonitorInv, [Next]_vars, TableHasReceivers'
    PROVE  MonitorInv'
<1>1. OrderInv'
    BY OrderStep DEF MonitorInv
<1>2. CASE UNCHANGED vars
    BY <1>1, <1>2 DEF vars, MonitorInv, TableNames, NewsInv, FollowInv, Waiting, Alternating,
                      LastTells, FirstTells, NoneTells, InTable, Fresh, Reading
<1>3. ASSUME NEW d \in Devices, Plug(d) \/ Unplug(d) \/ Scroll(d)
      PROVE  TableNames' /\ NewsInv' /\ FollowInv'
    BY <1>3, FollowDevices
<1>4. ASSUME HandleAdded \/ HandleRemoved
      PROVE  TableNames' /\ NewsInv' /\ FollowInv'
    BY <1>4, FollowAdded, FollowRemoved
<1>5. ASSUME NEW i \in DOMAIN receivers, Receiver(i) \/ ReadFails(i)
      PROVE  TableNames' /\ NewsInv' /\ FollowInv'
    BY <1>5, FollowReceiver
<1> QED
    BY <1>1, <1>2, <1>3, <1>4, <1>5 DEF Next, MonitorInv

LEMMA Followed == MonitorInv => NamedDeviceHasReceiver
<1> SUFFICES ASSUME MonitorInv, NEW d \in Devices, Captured(d),
                    \A k \in DOMAIN news : news[k].device # d
             PROVE  IF attached[d] = 0
                    THEN \A i \in DOMAIN receivers :
                             receivers[i].device = d => receivers[i].cancelled
                    ELSE \/ IsRead(d)
                         \/ \E i \in DOMAIN receivers :
                               /\ receivers[i].device = d /\ ~receivers[i].cancelled
                               /\ receivers[i].stage = "starting"
    BY DEF NamedDeviceHasReceiver
<1>1. Waiting(d) = {} /\ NoneTells(d) /\ InTable(d) /\ TypeOK /\ NameOf[d] \in Names
    BY DEF Waiting, MonitorInv, OrderInv, FollowInv
<1>2. CASE attached[d] = 0
    <2>1. table[NameOf[d]] = 0
        BY <1>1, <1>2 DEF NoneTells
    <2>2. 0 \notin DOMAIN receivers
        BY <1>1 DEF TypeOK
    <2> QED BY <1>2, <2>1, <2>2 DEF MonitorInv, TableHasReceivers
<1>3. CASE attached[d] # 0
    <2>1. table[NameOf[d]] \in DOMAIN receivers
        BY <1>1, <1>3, TableEntry DEF NoneTells
    <2>2. /\ receivers[table[NameOf[d]]].device = d /\ ~receivers[table[NameOf[d]]].cancelled
          /\ Fresh(receivers[table[NameOf[d]]], d)
        BY <1>1, <1>3 DEF NoneTells, InTable
    <2> QED BY <1>3, <2>1, <2>2 DEF Fresh, Reading, IsRead
<1> QED
    BY <1>2, <1>3

\* When the monitor has caught up with a device that it captures by a name of its
\* own, and whose receivers work, the device as it is plugged in now is read or about
\* to be opened, and one that is gone has no receiver left that goes on: however
\* often it came and went, whatever the other devices do.
THEOREM NamedDevicesFollowed == Spec => []NamedDeviceHasReceiver
<1>1. Init => MonitorInv
    BY MonitorInit
<1>2. MonitorInv /\ [Next]_vars /\ TableHasReceivers' => MonitorInv'
    BY MonitorStep
<1> QED
    BY <1>1, <1>2, Followed, MonitorCanStop, PTL DEF Spec
=============================================================================
