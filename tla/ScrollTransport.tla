--------------------------- MODULE ScrollTransport ---------------------------
(***************************************************************************)
(* The way of a scroll event from the source's receiver to the sender of a *)
(* destination: main channel, router, one channel and one connection task  *)
(* per entry of the config (run_peer_connection), a client-streaming call, *)
(* and the inject channel of the destination.  Every channel is bounded; a *)
(* connection that fails is made again after a delay.                      *)
(*                                                                         *)
(* Nothing keeps a config from listing one public key twice: then two      *)
(* connections lead to one machine, and the router serves both.            *)
(*                                                                         *)
(* A stream is numbered by the connection attempt that opened it.  Its     *)
(* call runs in a task of its own (rpc_handle) that may still run after    *)
(* the connection task has given up on it, and the destination may still   *)
(* read the bytes of a stream that has broken at the source.               *)
(***************************************************************************)
EXTENDS Naturals, Sequences, SequencesExt

CONSTANTS
    Peers,      \* the entries of the scroll destinations in the source's config
    Keys,       \* their public keys; a key stands for the machine that has it
    Configs,    \* the configs: which key each entry has
    NoPeer,     \* active_peer when it is no destination: None, or the source itself
    Capacity,   \* of every channel (CHANNEL_CAPACITY, SCROLL_INJECT_CAPACITY: 32)
    MaxEvents,  \* bound: scroll events the receiver reads, numbered in order
    MaxStreams  \* bound: streams opened per entry; the last one stays up

ASSUME ScrollTransportAssumption ==
    /\ NoPeer \notin Keys
    /\ Configs \subseteq [Peers -> Keys]
    /\ Capacity \in Nat \ {0} /\ MaxEvents \in Nat /\ MaxStreams \in Nat \ {0}

VARIABLES
    keyOf,    \* the source's config, read at its start
    read,     \* how many events the receiver has read so far
    active,   \* get_active_peer on the source, a key
    main,     \* the main channel
    lane,     \* per peer, the channel of its connection task
    conn,     \* per peer, where its connection task stands
    pending,  \* per peer, the events (at most one) whose send on the stream awaits room
    stream,   \* per peer, the number of the stream it opened last
    call,     \* per peer and stream, the state of the call
    outbox,   \* per peer and stream, the channel that feeds the call
    wire,     \* per peer and stream, what was sent and not read yet
    status,   \* per peer, the status that Transport::status reports
    inject,   \* per key, the inject channel of the destination
    injected  \* per key, the events its sender was given

vars == <<keyOf, read, active, main, lane, conn, pending, stream, call, outbox, wire, status,
          inject, injected>>
sourceVars == <<keyOf, read, active, main>>
streamVars == <<stream, call, outbox, wire>>
serverVars == <<inject, injected>>

Streams == 1 .. MaxStreams
Items == 1 .. MaxEvents
Deliveries == [event : Items, entry : Peers, stream : Streams]
SameStream(d, e) == d.entry = e.entry /\ d.stream = e.stream
Destinations == {keyOf[p] : p \in Peers}

\* Faulty: an unbounded channel.
OfferedUnbounded(channel, e) == Append(channel, e)

\* try_send: a full channel drops the event.
Offered(channel, e) == IF Len(channel) < Capacity THEN Append(channel, e) ELSE channel

-----------------------------------------------------------------------------
\* The source's receiver thread: Transport::send_scroll.
ReadEvent ==
    /\ read < MaxEvents
    /\ read' = read + 1
    /\ main' = Offered(main, read + 1)
    /\ UNCHANGED <<keyOf, active, lane, conn, pending, streamVars, status, serverVars>>

\* ActiveTransport grants the scroll to another peer, or takes it back.
SetActive ==
    /\ active' \in (Destinations \cup {NoPeer}) \ {active}
    /\ UNCHANGED <<keyOf, read, main, lane, conn, pending, streamVars, status, serverVars>>

\* Faulty: the router sends to every peer.
RouteToAll ==
    /\ main # << >>
    /\ main' = Tail(main)
    /\ lane' = [p \in Peers |-> Offered(lane[p], Head(main))]
    /\ UNCHANGED <<keyOf, read, active, conn, pending, streamVars, status, serverVars>>

\* Faulty: the router keeps an event until somebody is active.
RouteWaits ==
    /\ main # << >> /\ active # NoPeer
    /\ main' = Tail(main)
    /\ lane' = [p \in Peers |->
                    IF keyOf[p] = active THEN Offered(lane[p], Head(main)) ELSE lane[p]]
    /\ UNCHANGED <<keyOf, read, active, conn, pending, streamVars, status, serverVars>>

\* The router: to every entry of the key that is active now, or to nobody.
Route ==
    /\ main # << >>
    /\ main' = Tail(main)
    /\ lane' = [p \in Peers |->
                    IF keyOf[p] = active THEN Offered(lane[p], Head(main)) ELSE lane[p]]
    /\ UNCHANGED <<keyOf, read, active, conn, pending, streamVars, status, serverVars>>

-----------------------------------------------------------------------------
\* run_peer_connection.

\* connect succeeds: the call's task is spawned and the state is CONNECTED
\* before that task can run.
ConnectOk(p) ==
    /\ conn[p] = "connecting"
    /\ stream[p] < MaxStreams
    /\ stream' = [stream EXCEPT ![p] = @ + 1]
    /\ call' = [call EXCEPT ![p][stream[p] + 1] = "open"]
    /\ conn' = [conn EXCEPT ![p] = "streaming"]
    /\ status' = [status EXCEPT ![p] = "CONNECTED"]
    /\ UNCHANGED <<sourceVars, lane, pending, outbox, wire, serverVars>>

ConnectFails(p) ==
    /\ conn[p] = "connecting"
    /\ conn' = [conn EXCEPT ![p] = "delay"]
    /\ status' = [status EXCEPT ![p] = "DISCONNECTED"]
    /\ UNCHANGED <<sourceVars, lane, pending, streamVars, serverVars>>

\* RECONNECT_DELAY_MS is over.
Retry(p) ==
    /\ conn[p] = "delay"
    /\ conn' = [conn EXCEPT ![p] = "connecting"]
    /\ status' = [status EXCEPT ![p] = "CONNECTING"]
    /\ UNCHANGED <<sourceVars, lane, pending, streamVars, serverVars>>

\* stream_tx.send(event).await on the current stream: the event enters the
\* channel, or waits for room, or is lost with the stream.
Send(p, e) ==
    LET s == stream[p] IN
    \/ /\ call[p][s] = "open" /\ Len(outbox[p][s]) < Capacity
       /\ outbox' = [outbox EXCEPT ![p][s] = Append(@, e)]
       /\ pending' = [pending EXCEPT ![p] = << >>]
       /\ conn' = [conn EXCEPT ![p] = "streaming"]
       /\ UNCHANGED status
    \/ /\ call[p][s] = "open" /\ Len(outbox[p][s]) = Capacity
       /\ pending' = [pending EXCEPT ![p] = <<e>>]
       /\ conn' = [conn EXCEPT ![p] = "sending"]
       /\ UNCHANGED <<outbox, status>>
    \/ /\ call[p][s] # "open"
       /\ pending' = [pending EXCEPT ![p] = << >>]
       /\ conn' = [conn EXCEPT ![p] = "delay"]
       /\ status' = [status EXCEPT ![p] = "DISCONNECTED"]
       /\ UNCHANGED outbox

\* The rx.recv branch of the select, which is taken at random when the call has
\* ended as well.
Take(p) ==
    /\ conn[p] = "streaming"
    /\ lane[p] # << >>
    /\ lane' = [lane EXCEPT ![p] = Tail(@)]
    /\ Send(p, Head(lane[p]))
    /\ UNCHANGED <<sourceVars, stream, call, wire, serverVars>>

\* A send that waited for room goes on: there is room, or the stream is gone.
Resume(p) ==
    /\ conn[p] = "sending"
    /\ Len(outbox[p][stream[p]]) < Capacity \/ call[p][stream[p]] # "open"
    /\ Send(p, pending[p][1])
    /\ UNCHANGED <<sourceVars, lane, stream, call, wire, serverVars>>

\* Faulty: the task returns where it should connect again.
NoticeEndReturns(p) ==
    /\ conn[p] = "streaming"
    /\ call[p][stream[p]] = "ended"
    /\ conn' = [conn EXCEPT ![p] = "returned"]
    /\ UNCHANGED <<sourceVars, lane, pending, streamVars, status, serverVars>>

\* The rpc_handle branch of the select.
NoticeEnd(p) ==
    /\ conn[p] = "streaming"
    /\ call[p][stream[p]] = "ended"
    /\ conn' = [conn EXCEPT ![p] = "delay"]
    /\ UNCHANGED <<sourceVars, lane, pending, streamVars, status, serverVars>>

-----------------------------------------------------------------------------
\* The call of a stream.

Transmit(p, s) ==
    /\ call[p][s] = "open"
    /\ outbox[p][s] # << >>
    /\ outbox' = [outbox EXCEPT ![p][s] = Tail(@)]
    /\ wire' = [wire EXCEPT ![p][s] = Append(@, Head(outbox[p][s]))]
    /\ UNCHANGED <<sourceVars, lane, conn, pending, stream, call, status, serverVars>>

\* The connection fails, or the destination ends the call: the request's body is
\* dropped, and of what was sent any part may still reach the destination.
StreamBreaks(p, s) ==
    /\ s < MaxStreams
    /\ call[p][s] = "open"
    /\ call' = [call EXCEPT ![p][s] = "broken"]
    /\ outbox' = [outbox EXCEPT ![p][s] = << >>]
    /\ \E n \in 0 .. Len(wire[p][s]) :
           wire' = [wire EXCEPT ![p][s] = SubSeq(@, 1, n)]
    /\ UNCHANGED <<sourceVars, lane, conn, pending, stream, status, serverVars>>

\* Faulty: the call's task does not store the status.
CallEndsSilently(p, s) ==
    /\ call[p][s] = "broken"
    /\ call' = [call EXCEPT ![p][s] = "ended"]
    /\ UNCHANGED <<sourceVars, lane, conn, pending, stream, outbox, wire, status, serverVars>>

\* The call's task comes to its end, whoever still waits for it.
CallEnds(p, s) ==
    /\ call[p][s] = "broken"
    /\ call' = [call EXCEPT ![p][s] = "ended"]
    /\ status' = [status EXCEPT ![p] = "DISCONNECTED"]
    /\ UNCHANGED <<sourceVars, lane, conn, pending, stream, outbox, wire, serverVars>>

-----------------------------------------------------------------------------
\* The destination.

\* try_send on the inject channel of the machine that entry p leads to.
SendInject(p, s, e) ==
    inject' = [inject EXCEPT ![keyOf[p]] =
                  Offered(@, [event |-> e, entry |-> p, stream |-> s])]

\* Faulty: a task for each event of a stream.
ServerReadsAny(p, s) ==
    /\ \E i \in DOMAIN wire[p][s] :
        /\ wire' = [wire EXCEPT ![p][s] = RemoveAt(@, i)]
        /\ SendInject(p, s, wire[p][s][i])
    /\ UNCHANGED <<sourceVars, lane, conn, pending, stream, call, outbox, status, injected>>

\* The scroll handler of a stream: a full inject channel drops the event.
ServerReads(p, s) ==
    /\ wire[p][s] # << >>
    /\ wire' = [wire EXCEPT ![p][s] = Tail(@)]
    /\ SendInject(p, s, Head(wire[p][s]))
    /\ UNCHANGED <<sourceVars, lane, conn, pending, stream, call, outbox, status, injected>>

\* run_scroll_inject hands an event to the sender.
Inject(k) ==
    /\ inject[k] # << >>
    /\ inject' = [inject EXCEPT ![k] = Tail(@)]
    /\ injected' = [injected EXCEPT ![k] = Append(@, Head(inject[k]))]
    /\ UNCHANGED <<sourceVars, lane, conn, pending, streamVars, status>>

\* The destination's process dies: what it had read is gone, and so are its
\* streams, at once or when the source's kernel notices.
DestRestart(k) ==
    LET Leads(p) == keyOf[p] = k IN
    /\ \A p \in Peers : Leads(p) => stream[p] < MaxStreams
    /\ inject' = [inject EXCEPT ![k] = << >>]
    /\ wire' = [p \in Peers |-> IF Leads(p) THEN [s \in Streams |-> << >>] ELSE wire[p]]
    /\ outbox' = [p \in Peers |-> IF Leads(p) THEN [s \in Streams |-> << >>] ELSE outbox[p]]
    /\ call' = [p \in Peers |-> [s \in Streams |->
                   IF Leads(p) /\ call[p][s] = "open" THEN "broken" ELSE call[p][s]]]
    /\ UNCHANGED <<sourceVars, lane, conn, pending, stream, status, injected>>

-----------------------------------------------------------------------------
Init ==
    /\ keyOf \in Configs
    /\ read = 0
    /\ active = NoPeer
    /\ main = << >>
    /\ lane = [p \in Peers |-> << >>]
    /\ conn = [p \in Peers |-> "connecting"]
    /\ pending = [p \in Peers |-> << >>]
    /\ stream = [p \in Peers |-> 0]
    /\ call = [p \in Peers |-> [s \in Streams |-> "none"]]
    /\ outbox = [p \in Peers |-> [s \in Streams |-> << >>]]
    /\ wire = [p \in Peers |-> [s \in Streams |-> << >>]]
    /\ status = [p \in Peers |-> "CONNECTING"]
    /\ inject = [k \in Keys |-> << >>]
    /\ injected = [k \in Keys |-> << >>]

Next ==
    \/ ReadEvent \/ SetActive \/ Route
    \/ \E k \in Keys : Inject(k) \/ DestRestart(k)
    \/ \E p \in Peers :
        \/ ConnectOk(p) \/ ConnectFails(p) \/ Retry(p)
        \/ Take(p) \/ Resume(p) \/ NoticeEnd(p)
        \/ \E s \in Streams :
            Transmit(p, s) \/ StreamBreaks(p, s) \/ CallEnds(p, s) \/ ServerReads(p, s)

\* Tasks run, bytes move, and a destination that is tried again and again is
\* reached some time.  Nothing obliges a stream to break or an event to come.
Fairness ==
    /\ WF_vars(Route)
    /\ \A k \in Keys : WF_vars(Inject(k))
    /\ \A p \in Peers :
        /\ SF_vars(ConnectOk(p)) /\ WF_vars(Retry(p))
        /\ WF_vars(Take(p)) /\ WF_vars(Resume(p)) /\ WF_vars(NoticeEnd(p))
        /\ \A s \in Streams :
            WF_vars(Transmit(p, s)) /\ WF_vars(CallEnds(p, s)) /\ WF_vars(ServerReads(p, s))

Spec == Init /\ [][Next]_vars /\ Fairness

-----------------------------------------------------------------------------
TypeOK ==
    /\ keyOf \in Configs
    /\ read \in 0 .. MaxEvents
    /\ active \in Keys \cup {NoPeer}
    /\ main \in Seq(Items) /\ Len(main) <= Capacity
    /\ stream \in [Peers -> 0 .. MaxStreams]
    /\ \A k \in Keys :
        /\ inject[k] \in Seq(Deliveries) /\ Len(inject[k]) <= Capacity
        /\ injected[k] \in Seq(Deliveries)
    /\ \A p \in Peers :
        /\ lane[p] \in Seq(Items) /\ Len(lane[p]) <= Capacity
        /\ conn[p] \in {"connecting", "delay", "streaming", "sending"}
        /\ pending[p] \in Seq(Items) /\ Len(pending[p]) = IF conn[p] = "sending" THEN 1 ELSE 0
        /\ status[p] \in {"CONNECTING", "CONNECTED", "DISCONNECTED"}
        /\ \A s \in Streams :
            /\ call[p][s] \in {"none", "open", "broken", "ended"}
            /\ outbox[p][s] \in Seq(Items) /\ Len(outbox[p][s]) <= Capacity
            /\ wire[p][s] \in Seq(Items)

\* All the places of an event, what is there, and the entry by which it came.
Channels ==
    {<<"main">>} \cup ({"lane", "pending"} \X Peers) \cup ({"inject", "injected"} \X Keys)
    \cup ({"outbox", "wire"} \X Peers \X Streams)
By(p, events) == [i \in DOMAIN events |-> [event |-> events[i], entry |-> p]]
Content(c) ==
    CASE c[1] = "main" -> By(NoPeer, main)
      [] c[1] = "lane" -> By(c[2], lane[c[2]])
      [] c[1] = "pending" -> By(c[2], pending[c[2]])
      [] c[1] = "outbox" -> By(c[2], outbox[c[2]][c[3]])
      [] c[1] = "wire" -> By(c[2], wire[c[2]][c[3]])
      [] c[1] = "inject" -> inject[c[2]]
      [] c[1] = "injected" -> injected[c[2]]

\* Two entries of the config with one key.
Twins(p, q) == p \in Peers /\ q \in Peers /\ p # q /\ keyOf[p] = keyOf[q]

\* No connection and no machine makes a second copy of an event: whatever breaks and is
\* made again, an event that is at two places came there by two entries of one key, to
\* which the router gives a copy each (router, run_peer_connection, scroll handler).
\* When no key is listed twice, an event is scrolled once at most, on one machine.
AtMostOnce ==
    \A c, d \in Channels : \A i \in DOMAIN Content(c), j \in DOMAIN Content(d) :
        Content(c)[i].event = Content(d)[j].event =>
            (c = d /\ i = j) \/ Twins(Content(c)[i].entry, Content(d)[j].entry)

\* A destination injects the events of one stream in the order the receiver read
\* them.  (Across a reconnect the destination may still read the old stream after
\* the new one: nothing in the code orders the two.)
InOrderPerStream ==
    \A k \in Keys : \A i, j \in DOMAIN injected[k] :
        i < j /\ SameStream(injected[k][i], injected[k][j])
            => injected[k][i].event < injected[k][j].event

\* CONNECTED is never reported for a stream whose end the source has seen: the
\* four stores of the status by two tasks agree with the connection at least in
\* this direction.
ConnectedHasStream ==
    \A p \in Peers : status[p] = "CONNECTED" =>
        /\ conn[p] \in {"streaming", "sending"}
        /\ call[p][stream[p]] \in {"open", "broken"}

\* The connection task never wedges: however a stream ends, the task comes back to
\* an open stream (as long as the destination can be reached again and again).
Reconnects ==
    \A p \in Peers : []<>(conn[p] = "streaming" /\ call[p][stream[p]] = "open")

\* Nothing accepted stays in the source: every channel up to the wire drains.
Drains ==
    <>[](/\ main = << >>
         /\ \A p \in Peers : lane[p] = << >> /\ pending[p] = << >>
                             /\ \A s \in Streams : outbox[p][s] = << >>)
=============================================================================
