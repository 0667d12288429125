--------------------------- MODULE ActiveTransport ---------------------------
(***************************************************************************)
(* Who receives the scroll events: the agreement between the one scroll    *)
(* source of a synq installation and its scroll destinations (the guests). *)
(* The source grants the scroll to one destination at a time and numbers   *)
(* its grants with a clock; a destination asks for the grant (Activate) or *)
(* gives it back to the source (Deactivate) through a bounded queue and a  *)
(* sequential handler task, and hears of the grants of others by           *)
(* active_state notifications, each sent once by a task of its own.        *)
(*                                                                         *)
(* Every daemon runs on a single-threaded runtime (src/main.rs,            *)
(* current_thread), so a handler is atomic between two awaits: one action  *)
(* below is one such stretch of code.                                      *)
(*                                                                         *)
(* When a destination asks is decided by its blockers and its sender       *)
(* (src/scroll); here it may ask whenever those threads' own tests of      *)
(* is_host_active let it.  Module ScrollFocus adds the decision.           *)
(***************************************************************************)
EXTENDS Naturals, Sequences, FiniteSets

CONSTANTS
    Dests,              \* the machines that run as scroll destinations
    Host,               \* the public key of the scroll source
    NoPeer,             \* active_peer = None
    ScrollDestinations, \* the peers the source's config marks scroll_destination
    WithSource,         \* the destinations whose config has a scroll_source peer
    QueueCap,           \* capacity of the ActiveRequestEvent channel (32 in the code)
    MaxClock,           \* bound: the source issues no grant beyond this clock
    MaxStarts,          \* bound: starts of the source process
    MaxStray,           \* bound: given-up requests that may still execute
    Faults              \* what may go wrong, a subset of FaultKinds

\* "lose":   a notification is sent but never handled
\* "fail":   an activate request fails for the destination, before the source
\*           executes it, after, or while it may still execute later
\* "dest":   a destination restarts
\* "source": the source starts or restarts while destinations run
FaultKinds == {"lose", "fail", "dest", "source"}

ASSUME DestsAssumption == {Host, NoPeer} \cap Dests = {} /\ Host # NoPeer
ASSUME ConfigAssumption == ScrollDestinations \subseteq Dests /\ WithSource \subseteq Dests
ASSUME BoundsAssumption ==
    /\ QueueCap \in Nat \ {0} /\ MaxStarts \in Nat \ {0}
    /\ MaxClock \in Nat /\ MaxStray \in Nat
ASSUME FaultsAssumption ==
    /\ Faults \subseteq FaultKinds
    /\ "source" \in Faults => "fail" \in Faults

VARIABLES
    source,  \* the source's ActiveState
    active,  \* per destination, its ActiveState
    queue,   \* per destination, the events its handler task has not taken yet
    handler, \* per destination, where its handler task stands
    answer,  \* per destination, the response on its way back to the handler
    notices, \* active_state calls in flight
    stray    \* activate requests given up by their sender, not executed yet

vars == <<source, active, queue, handler, answer, notices, stray>>

-----------------------------------------------------------------------------
\* A value of ActiveState: the peer that holds the scroll and the clock of the
\* grant.  `epoch' counts the starts of the source: it is no part of the code,
\* no guard reads it, and it is only there to state properties.
Grants == [peer : Dests \cup {Host, NoPeer}, clock : Nat, epoch : Nat]
Blank == [peer |-> NoPeer, clock |-> 0, epoch |-> 0]

Events == {"Activate", "Deactivate"}
HandlerStates == {"idle", "answered"} \cup Events
Notices == [to : Dests, grant : Grants]
Requests == [from : Dests, event : Events]

\* is_host_active, the flag that set_active and reset keep beside the peer.
HostActive(d) == active[d].peer = d

\* Faulty: an unbounded channel.
OfferUnbounded(d, event) == queue' = [queue EXCEPT ![d] = Append(@, event)]

\* try_send on a bounded channel: a full channel drops the event.
Offer(d, event) ==
    queue' = IF Len(queue[d]) < QueueCap
             THEN [queue EXCEPT ![d] = Append(@, event)]
             ELSE queue

\* A blocker saw an input event on a destination that does not hold the scroll.
SendActivateRequest(d) ==
    /\ ~HostActive(d)
    /\ Offer(d, "Activate")
    /\ UNCHANGED <<source, active, handler, answer, notices, stray>>

\* The sender decided that a destination which holds the scroll lost the focus.
SendDeactivateRequest(d) ==
    /\ HostActive(d)
    /\ Offer(d, "Deactivate")
    /\ UNCHANGED <<source, active, handler, answer, notices, stray>>

-----------------------------------------------------------------------------
\* Faulty: whoever knows a holder does not ask any more.
SkippedOnceHeld(d, event) == event = "Activate" /\ active[d].peer # NoPeer

\* Faulty: the comparison of the Deactivate branch is the wrong way round.
SkippedByHolder(d, event) ==
    \/ event = "Activate" /\ active[d].peer = d
    \/ event = "Deactivate" /\ active[d].peer = d

\* run_active_handler drops an event when there is no source peer to ask, or
\* when the destination's own state says the request is not needed any more.
Skipped(d, event) ==
    \/ d \notin WithSource
    \/ event = "Activate" /\ active[d].peer = d
    \/ event = "Deactivate" /\ active[d].peer \notin {NoPeer, d}

TakeRequest(d) ==
    /\ handler[d] = "idle"
    /\ queue[d] # << >>
    /\ queue' = [queue EXCEPT ![d] = Tail(@)]
    /\ handler' = IF Skipped(d, Head(queue[d]))
                  THEN handler
                  ELSE [handler EXCEPT ![d] = Head(queue[d])]
    /\ UNCHANGED <<source, active, answer, notices, stray>>

\* Faulty: giving the scroll back keeps the clock.
NextGrantSameClock(d, event) ==
    [peer  |-> IF event = "Activate" THEN d ELSE Host,
     clock |-> IF event = "Activate" THEN source.clock + 1 ELSE source.clock,
     epoch |-> source.epoch]

\* The grant that a request from d leads to: increment_and_set's new clock with
\* the requester, or with the source's own key when the request is Deactivate.
NextGrant(d, event) ==
    [peer  |-> IF event = "Activate" THEN d ELSE Host,
     clock |-> source.clock + 1,
     epoch |-> source.epoch]

\* Faulty: a grant to the source itself is not told.
NoticesOfActivation(g) ==
    IF g.peer = Host THEN {} ELSE {[to |-> e, grant |-> g] : e \in ScrollDestinations \ {g.peer}}

\* One notification to every scroll destination but the one the grant names.
NoticesOf(g) == {[to |-> e, grant |-> g] : e \in ScrollDestinations \ {g.peer}}

\* activate_request on the source, for a peer it lists.
Execute(d, event) ==
    /\ source.clock < MaxClock
    /\ source' = NextGrant(d, event)
    /\ notices' = notices \cup NoticesOf(NextGrant(d, event))

\* Faulty: the check that the peer is a scroll destination is missing.
HandleActivateRequestOfAny(d) ==
    /\ handler[d] \in Events
    /\ Execute(d, handler[d])
    /\ answer' = [answer EXCEPT ![d] = NextGrant(d, handler[d])]
    /\ handler' = [handler EXCEPT ![d] = "answered"]
    /\ UNCHANGED <<active, queue, stray>>

HandleActivateRequest(d) ==
    /\ handler[d] \in Events
    /\ d \in ScrollDestinations
    /\ Execute(d, handler[d])
    /\ answer' = [answer EXCEPT ![d] = NextGrant(d, handler[d])]
    /\ handler' = [handler EXCEPT ![d] = "answered"]
    /\ UNCHANGED <<active, queue, stray>>

\* permission_denied: the handler logs the error and takes the next event.
RejectActivateRequest(d) ==
    /\ handler[d] \in Events
    /\ d \notin ScrollDestinations
    /\ handler' = [handler EXCEPT ![d] = "idle"]
    /\ UNCHANGED <<source, active, queue, answer, notices, stray>>

\* A request whose sender is gone or saw its connection break reaches the source.
HandleStrayRequest(r) ==
    /\ r \in stray
    /\ r.from \in ScrollDestinations
    /\ Execute(r.from, r.event)
    /\ stray' = stray \ {r}
    /\ UNCHANGED <<active, queue, handler, answer>>

\* The handler's await returns Ok: set_active, whatever the clock.
ReceiveAnswer(d) ==
    /\ handler[d] = "answered"
    /\ active' = [active EXCEPT ![d] = answer[d]]
    /\ answer' = [answer EXCEPT ![d] = Blank]
    /\ handler' = [handler EXCEPT ![d] = "idle"]
    /\ UNCHANGED <<source, queue, notices, stray>>

\* Faulty: the clocks are not compared.
HandleAnyActiveState(m) ==
    /\ m \in notices
    /\ notices' = notices \ {m}
    /\ active' = [active EXCEPT ![m.to] = IF m.grant.clock = 0 THEN Blank ELSE m.grant]
    /\ UNCHANGED <<source, queue, handler, answer, stray>>

\* active_state on a destination: clock 0 resets, a clock that is not newer is
\* ignored, and any other notification replaces the state.
HandleActiveState(m) ==
    /\ m \in notices
    /\ notices' = notices \ {m}
    /\ active' = IF m.grant.clock = 0
                 THEN [active EXCEPT ![m.to] = Blank]
                 ELSE IF m.grant.clock <= active[m.to].clock
                 THEN active
                 ELSE [active EXCEPT ![m.to] = m.grant]
    /\ UNCHANGED <<source, queue, handler, answer, stray>>

-----------------------------------------------------------------------------
\* What the code handles by logging an error and going on.

\* send_active_state fails: nothing retries it.
LoseNotice(m) ==
    /\ "lose" \in Faults
    /\ m \in notices
    /\ notices' = notices \ {m}
    /\ UNCHANGED <<source, active, queue, handler, answer, stray>>

\* What remains of a request that is given up: nothing, or bytes the source
\* still reads.
LeftBehind(d) ==
    IF handler[d] \in Events /\ Cardinality(stray) < MaxStray
    THEN {stray, stray \cup {[from |-> d, event |-> handler[d]]}}
    ELSE {stray}

\* send_activate_request returns Err: the state stays as it is.
RequestFails(d) ==
    /\ "fail" \in Faults
    /\ handler[d] # "idle"
    /\ handler' = [handler EXCEPT ![d] = "idle"]
    /\ answer' = [answer EXCEPT ![d] = Blank]
    /\ stray' \in LeftBehind(d)
    /\ UNCHANGED <<source, active, queue, notices>>

\* The destination's process dies and starts again: Transport::new.
DestRestart(d) ==
    /\ "dest" \in Faults
    /\ active' = [active EXCEPT ![d] = Blank]
    /\ queue' = [queue EXCEPT ![d] = << >>]
    /\ handler' = [handler EXCEPT ![d] = "idle"]
    /\ answer' = [answer EXCEPT ![d] = Blank]
    /\ stray' \in LeftBehind(d)
    /\ UNCHANGED <<source, notices>>

\* run tells every listed destination, once, that the clock starts over.
Resets(epoch) == NoticesOf([peer |-> Host, clock |-> 0, epoch |-> epoch])

\* The source's process dies and starts again: its state is a new ActiveState.
SourceRestart ==
    /\ "source" \in Faults
    /\ source.epoch < MaxStarts
    /\ source' = [Blank EXCEPT !.epoch = source.epoch + 1]
    /\ notices' = notices \cup Resets(source.epoch + 1)
    /\ stray' = {}
    /\ UNCHANGED <<active, queue, handler, answer>>

-----------------------------------------------------------------------------
\* Without "source" in Faults the source was up before the destinations, which
\* its resets then did not reach.
Init ==
    /\ source = [Blank EXCEPT !.epoch = 1]
    /\ active = [d \in Dests |-> Blank]
    /\ queue = [d \in Dests |-> << >>]
    /\ handler = [d \in Dests |-> "idle"]
    /\ answer = [d \in Dests |-> Blank]
    /\ notices = IF "source" \in Faults THEN Resets(1) ELSE {}
    /\ stray = {}

\* The protocol's own steps, from the moment an event is queued.
Protocol ==
    \/ \E d \in Dests :
        \/ TakeRequest(d)
        \/ HandleActivateRequest(d)
        \/ RejectActivateRequest(d)
        \/ ReceiveAnswer(d)
    \/ \E m \in notices : HandleActiveState(m)

Fault ==
    \/ \E d \in Dests : RequestFails(d) \/ DestRestart(d)
    \/ \E m \in notices : LoseNotice(m)
    \/ \E r \in stray : HandleStrayRequest(r)
    \/ SourceRestart

Next ==
    \/ \E d \in Dests : SendActivateRequest(d) \/ SendDeactivateRequest(d)
    \/ Protocol
    \/ Fault

Spec == Init /\ [][Next]_vars
-----------------------------------------------------------------------------
\* Every variable holds values of its kind: the channel never exceeds its
\* capacity and only an answered request carries an answer.
TypeOK ==
    /\ source \in Grants
    /\ active \in [Dests -> Grants]
    /\ queue \in [Dests -> Seq(Events)]
    /\ \A d \in Dests : Len(queue[d]) <= QueueCap
    /\ handler \in [Dests -> HandlerStates]
    /\ answer \in [Dests -> Grants]
    /\ \A d \in Dests : handler[d] # "answered" => answer[d] = Blank
    /\ notices \subseteq Notices
    /\ stray \subseteq Requests

\* Every copy of a grant there is: the source's, those the destinations hold,
\* and those in flight to them.
Copies ==
    {source} \cup {active[d] : d \in Dests} \cup {answer[d] : d \in Dests}
             \cup {m.grant : m \in notices}

\* A clock value identifies a grant: within one start of the source, two copies
\* with the same clock name the same peer, whatever is lost, repeated, delayed
\* or restarted.  This is what lets active_state compare clocks and nothing else
\* (increment_and_set, activate_request, active_state).
GrantsAgree ==
    \A g, h \in Copies :
        g.epoch = h.epoch /\ g.clock = h.clock /\ g.clock > 0 => g.peer = h.peer

\* No destination ever knows, or will be told, of a grant the source has not
\* made: in the running source's own numbering it is the latest (the clock is
\* copied into the answer and the notifications before either is sent).
SourceIsLatest ==
    \A g \in Copies :
        /\ g.epoch <= source.epoch
        /\ g.epoch = source.epoch => g.clock <= source.clock

\* A machine the source's config does not list as a scroll destination never
\* holds the scroll, nor believes it does (the two permission checks of
\* activate_request), and neither does one that has no source to ask.
OnlyListedHold ==
    \A g \in Copies : g.peer \notin Dests \ (ScrollDestinations \cap WithSource)

\* The holder knows: when the source routes the scroll to d, then d holds exactly
\* that grant, or its answer is on its way to d's handler.  No notification, in
\* whatever order they arrive and however many are lost, takes a grant away from
\* its holder.  It needs calls that do not fail and processes that stay up.
HolderIsAware ==
    \A d \in Dests : source.peer = d =>
        \/ active[d] = source
        \/ handler[d] = "answered" /\ answer[d] = source

\* What the log of active_state promises, "Ignoring stale active state"
\* (src/src/transport/server.rs:188): no destination goes back to an older grant
\* of the same source process.
StaleStateIsIgnored ==
    [][\A d \in Dests :
        active'[d].peer # NoPeer /\ active'[d].epoch = active[d].epoch
            => active'[d].clock >= active[d].clock]_vars

=============================================================================
