------------------------------ MODULE GuestInput ------------------------------
(***************************************************************************)
(* The threads of a destination that share last_scroll and last_blur, on   *)
(* the daemon's clock (mono_time_ms):                                      *)
(*   - one blocker per device (src/scroll/blocker.rs) grabs the device,    *)
(*     keeps its scroll events from the guest and stamps last_scroll;      *)
(*   - the sender (src/scroll/sender.rs) replays the scroll events that    *)
(*     the source routes here, unless the guest's own devices have been    *)
(*     silent for SCROLL_TTL and the events go on for BLUR_TTL: then it    *)
(*     drops the event and gives the scroll back.                          *)
(* A scroll of the user reaches the guest twice, as an event of QEMU's     *)
(* device and as an event routed by the source.  BLUR_TTL is the grace for *)
(* the one that comes late.  ScrollFocus has the same threads without a    *)
(* clock.  Of the protocol (ActiveTransport has it in full) this module    *)
(* has the guest's end, run_active_handler and its awaited calls, and of   *)
(* the source whether it routes here.                                      *)
(***************************************************************************)
EXTENDS ScrollFrame

CONSTANTS
    Devices,    \* what resolve_devices yields: one blocker thread each
    Failing,    \* devices that cannot be grabbed, or whose reads or writes may fail
    SCROLL_TTL, \* how long after its last own scroll event a guest counts as used
    BLUR_TTL,   \* how long events may go on in a guest that does not
    Width,      \* bits of a time, for the 64 of the code
    RequestCap, \* capacity of the request channel
    OwnLag,     \* how long an own event waits for its blocker, at most
    RoutedLag,  \* how long a routed event waits for the sender, at most
    Pause,      \* the user's longest pause between two scrolls
    Prompt,     \* do the threads finish an event within the millisecond
    MaxMoves,   \* bound on the moves of the focus and of what others ask of the source
    MaxTime     \* bound on the clock

ASSUME GuestAssumption ==
    /\ Failing \subseteq Devices
    /\ {SCROLL_TTL, BLUR_TTL, Width, OwnLag, RoutedLag,
        MaxMoves} \subseteq Nat
    /\ {RequestCap, Pause, MaxTime} \subseteq Nat \ {0}
    /\ Prompt \in BOOLEAN
    /\ MaxTime < 2 ^ Width

VARIABLES
    clock,       \* mono_time_ms
    focus,       \* where the user points: "guest" is this guest
    moves,       \* how often the focus has moved, or others have moved the grant
    since,       \* history: when focus, granted or host_active last changed
    scrolledAt,  \* when the user last scrolled
    own,         \* per device, events its blocker has not read yet
    routed,      \* times of the events in the sender's channel (ScrollInjectRx)
    lastScroll,  \* ActiveState.last_scroll
    lastBlur,    \* ActiveState.last_blur
    granted,     \* does the source route the scroll here
    hostActive,  \* ActiveState.host_active
    requests,    \* the request channel
    handler,     \* what run_active_handler awaits: a call, which the source has executed or not
    failedAt,    \* history: when a call to give back the scroll last failed
    blocker,     \* per device, where its thread is
    stamp,       \* per device, the time its thread has read and not stored yet
    sender,      \* where the sender's thread is
    now          \* the sender's copy of the clock

userVars == <<focus, moves, since, scrolledAt>>
protocolVars == <<granted, hostActive, requests, handler, failedAt>>
blockerVars == <<own, blocker, stamp>>
senderVars == <<routed, sender, now, lastBlur>>
vars == <<clock, userVars, protocolVars, blockerVars, senderVars, lastScroll>>

Times == 0 .. MaxTime
Kinds == {"scroll", "other"}

\* u64 subtraction in a build without overflow checks (Cargo.toml:33).
Minus(a, b) == (a - b) % (2 ^ Width)

\* Faulty: a channel without a limit.
TrySendUnbounded(request) == requests' = Append(requests, request)

\* Transport::send_activate_request and send_deactivate_request: dropped when it is full.
TrySend(request) ==
    requests' = IF Len(requests) < RequestCap THEN Append(requests, request) ELSE requests

-----------------------------------------------------------------------------
\* What the threads may leave undone when a millisecond ends.
Waiting(queue, lag) == \A i \in DOMAIN queue : clock - queue[i] < lag

Tick ==
    /\ clock < MaxTime
    /\ clock - scrolledAt < Pause
    /\ Waiting(routed, RoutedLag)
    /\ \A d \in Devices : Waiting([i \in DOMAIN own[d] |-> own[d][i].at], OwnLag)
    /\ Prompt => /\ sender = "recv" /\ \A d \in Devices : blocker[d] \in {"read", "ended"}
                 /\ handler = "idle" => requests = <<>>
    /\ clock' = clock + 1
    /\ UNCHANGED <<userVars, protocolVars, blockerVars, senderVars, lastScroll>>

FocusMoves ==
    /\ moves < MaxMoves /\ moves' = moves + 1
    /\ focus' \in {"guest", "elsewhere"} \ {focus}
    /\ since' = clock
    /\ UNCHANGED <<clock, scrolledAt, protocolVars, blockerVars, senderVars, lastScroll>>

\* A device that is not grabbed reports to the guest directly.
Reported(d, kind) ==
    own' = IF blocker[d] \in {"new", "ended"} THEN own
           ELSE [own EXCEPT ![d] = Append(@, [kind |-> kind, at |-> clock])]

RouteScroll == routed' = IF granted THEN Append(routed, clock) ELSE routed

\* The user scrolls in this guest: QEMU's device reports it, and so does the source.
UserScrolls(d) ==
    /\ focus = "guest" /\ scrolledAt < clock
    /\ scrolledAt' = clock
    /\ Reported(d, "scroll")
    /\ RouteScroll
    /\ UNCHANGED <<clock, focus, moves, since, protocolVars, blocker, stamp, sender, now,
                   lastBlur, lastScroll>>

UserMoves(d) ==
    /\ focus = "guest" /\ own[d] = <<>> /\ blocker[d] = "read"
    /\ Reported(d, "other")
    /\ UNCHANGED <<clock, userVars, protocolVars, blocker, stamp, senderVars, lastScroll>>

\* The user scrolls on the host: no device of this guest reports that.
ScrollsElsewhere ==
    /\ focus = "elsewhere" /\ scrolledAt < clock
    /\ scrolledAt' = clock
    /\ RouteScroll
    /\ UNCHANGED <<clock, focus, moves, since, protocolVars, blockerVars, sender, now,
                   lastBlur, lastScroll>>

-----------------------------------------------------------------------------
\* ScrollBlocker::new: open the device and grab it, or log the error and end.
Grab(d) ==
    /\ blocker[d] = "new"
    /\ \/ blocker' = [blocker EXCEPT ![d] = "read"]
       \/ d \in Failing /\ blocker' = [blocker EXCEPT ![d] = "ended"]
    /\ UNCHANGED <<clock, userVars, protocolVars, own, stamp, senderVars, lastScroll>>

\* process_events, up to the type of the event it read.  A scroll event is kept from
\* the guest, any other is written through.
ReadEvent(d) ==
    /\ blocker[d] = "read" /\ own[d] # <<>>
    /\ own' = [own EXCEPT ![d] = Tail(@)]
    /\ \/ /\ Head(own[d]).kind = "scroll"
          /\ blocker' = [blocker EXCEPT ![d] = "store"]
          /\ stamp' = [stamp EXCEPT ![d] = clock]
       \/ /\ Head(own[d]).kind = "other"
          /\ blocker' = [blocker EXCEPT ![d] = "ask"]
          /\ UNCHANGED stamp
    /\ UNCHANGED <<clock, userVars, protocolVars, senderVars, lastScroll>>

\* set_last_scroll
StoreScroll(d) ==
    /\ blocker[d] = "store"
    /\ lastScroll' = stamp[d]
    /\ blocker' = [blocker EXCEPT ![d] = "ask"]
    /\ stamp' = [stamp EXCEPT ![d] = 0]
    /\ UNCHANGED <<clock, userVars, protocolVars, own, senderVars>>

\* The end of process_events: the callback of run_scroll_blocker.
Ask(d) ==
    /\ blocker[d] = "ask"
    /\ blocker' = [blocker EXCEPT ![d] = "read"]
    /\ IF hostActive THEN UNCHANGED requests ELSE TrySend("activate")
    /\ UNCHANGED <<clock, userVars, granted, hostActive, handler, failedAt, own, stamp,
                   senderVars, lastScroll>>

\* A read or a write fails: the thread ends, Drop releases the device.
BlockerEnds(d) ==
    /\ d \in Failing /\ blocker[d] = "read"
    /\ blocker' = [blocker EXCEPT ![d] = "ended"]
    /\ own' = [own EXCEPT ![d] = <<>>]
    /\ UNCHANGED <<clock, userVars, protocolVars, stamp, senderVars, lastScroll>>

-----------------------------------------------------------------------------
\* run_scroll_inject and the head of send: the frame is built, the clock read.
TakeRouted ==
    /\ sender = "recv" /\ routed # <<>>
    /\ routed' = Tail(routed)
    /\ now' = clock
    /\ sender' = "scroll"
    /\ UNCHANGED <<clock, userVars, protocolVars, blockerVars, lastBlur, lastScroll>>

\* Faulty: off by one.
UnusedAtTTL == lastScroll > 0 /\ Minus(now, lastScroll) >= SCROLL_TTL

\* The guest's own devices have been silent for longer than SCROLL_TTL.
Unused == lastScroll > 0 /\ Minus(now, lastScroll) > SCROLL_TTL

TestScroll ==
    /\ sender = "scroll"
    /\ \/ Unused /\ sender' = "blur" /\ UNCHANGED lastBlur
       \/ ~Unused /\ sender' = "write" /\ lastBlur' = 0
    /\ UNCHANGED <<clock, userVars, protocolVars, blockerVars, routed, now, lastScroll>>

\* The test of last_blur.  Only this thread writes it.
GraceOver == lastBlur # 0 /\ Minus(now, lastBlur) > BLUR_TTL

\* Faulty: every event begins the grace anew.
TestBlurRestarts ==
    /\ sender = "blur"
    /\ ~GraceOver
    /\ sender' = "write"
    /\ lastBlur' = now
    /\ UNCHANGED <<clock, userVars, protocolVars, blockerVars, routed, now, lastScroll>>

TestBlur ==
    /\ sender = "blur"
    /\ ~GraceOver
    /\ sender' = "write"
    /\ lastBlur' = IF lastBlur = 0 THEN now ELSE lastBlur
    /\ UNCHANGED <<clock, userVars, protocolVars, blockerVars, routed, now, lastScroll>>

\* send_deactivate_request, and the event is dropped.
GiveBack ==
    /\ sender = "blur"
    /\ GraceOver
    /\ sender' = "recv"
    /\ now' = 0
    /\ IF hostActive THEN TrySend("deactivate") ELSE UNCHANGED requests
    /\ UNCHANGED <<clock, userVars, granted, hostActive, handler, failedAt, blockerVars,
                   routed, lastBlur, lastScroll>>

\* write_raw: the frame reaches the guest, or an error is logged.
Replay ==
    /\ sender = "write"
    /\ sender' = "recv"
    /\ now' = 0
    /\ UNCHANGED <<clock, userVars, protocolVars, blockerVars, routed, lastBlur, lastScroll>>

-----------------------------------------------------------------------------
\* run_active_handler, up to the call it awaits.  An activate request is skipped in an
\* active guest, a deactivate request in one that knows of another active peer: after a
\* reset it knows of none.
TakeRequest ==
    /\ handler = "idle" /\ requests # <<>>
    /\ requests' = Tail(requests)
    /\ \/ (Head(requests) = "activate" => ~hostActive) /\ handler' = Head(requests)
       \/ (Head(requests) = "activate") = hostActive /\ handler' = "idle"
    /\ UNCHANGED <<clock, userVars, granted, hostActive, failedAt, blockerVars, senderVars,
                   lastScroll>>

\* activate_request of the source: the request gets there.
Execute ==
    /\ handler \in {"activate", "deactivate"}
    /\ granted' = (handler = "activate")
    /\ handler' = IF handler = "activate" THEN "activated" ELSE "deactivated"
    /\ since' = IF granted' # granted THEN clock ELSE since
    /\ UNCHANGED <<clock, focus, moves, scrolledAt, hostActive, requests, failedAt,
                   blockerVars, senderVars, lastScroll>>

\* The source grants or takes away for another reason: what another guest asks, a request
\* of this guest whose call had failed, a restart.
OthersDecide ==
    /\ moves < MaxMoves /\ moves' = moves + 1
    /\ granted' = ~granted
    /\ since' = clock
    /\ UNCHANGED <<clock, focus, scrolledAt, hostActive, requests, handler, failedAt,
                   blockerVars, senderVars, lastScroll>>

\* The call returns, and set_active stores the answer.
AnswerRequest ==
    /\ handler \in {"activated", "deactivated"}
    /\ hostActive' = (handler = "activated")
    /\ handler' = "idle"
    /\ since' = IF hostActive' # hostActive THEN clock ELSE since
    /\ UNCHANGED <<clock, focus, moves, scrolledAt, granted, requests, failedAt,
                   blockerVars, senderVars, lastScroll>>

\* The call returns an error, whether the source has executed the request or not: the
\* request is gone and host_active is what it was.
RequestFails ==
    /\ handler # "idle"
    /\ handler' = "idle"
    /\ failedAt' = IF handler \in {"deactivate", "deactivated"} THEN clock ELSE failedAt
    /\ UNCHANGED <<clock, userVars, granted, hostActive, requests, blockerVars, senderVars,
                   lastScroll>>

\* active_state: a notification of the source that another has the scroll, or a reset.
TakenAway ==
    /\ hostActive /\ ~granted
    /\ hostActive' = FALSE
    /\ since' = clock
    /\ UNCHANGED <<clock, focus, moves, scrolledAt, granted, requests, handler, failedAt,
                   blockerVars, senderVars, lastScroll>>

-----------------------------------------------------------------------------
Init ==
    /\ clock = 1
    /\ focus \in {"guest", "elsewhere"} /\ moves = 0 /\ since = 1 /\ scrolledAt = 0
    /\ own = [d \in Devices |-> <<>>]
    /\ routed = <<>>
    /\ lastScroll = 0 /\ lastBlur = 0
    /\ granted = FALSE /\ hostActive = FALSE
    /\ requests = <<>> /\ handler = "idle" /\ failedAt = 0
    /\ blocker = [d \in Devices |-> "new"]
    /\ stamp = [d \in Devices |-> 0]
    /\ sender = "recv" /\ now = 0

Blocker(d) ==
    Grab(d) \/ ReadEvent(d) \/ StoreScroll(d) \/ Ask(d) \/ BlockerEnds(d)

Sender == TakeRouted \/ TestScroll \/ TestBlur \/ GiveBack \/ Replay

Protocol ==
    TakeRequest \/ Execute \/ OthersDecide \/ AnswerRequest \/ RequestFails \/ TakenAway

Next ==
    \/ Tick \/ FocusMoves \/ ScrollsElsewhere
    \/ Protocol
    \/ Sender
    \/ \E d \in Devices : UserScrolls(d) \/ UserMoves(d) \/ Blocker(d)

Spec == Init /\ [][Next]_vars

-----------------------------------------------------------------------------
TypeOK ==
    /\ {clock, since, scrolledAt, lastScroll, lastBlur, now, failedAt} \subseteq Times
    /\ focus \in {"guest", "elsewhere"}
    /\ moves \in 0 .. MaxMoves
    /\ own \in [Devices -> Seq([kind : Kinds, at : Times])]
    /\ routed \in Seq(Times)
    /\ {granted, hostActive} \subseteq BOOLEAN
    /\ requests \in Seq({"activate", "deactivate"}) /\ Len(requests) <= RequestCap
    /\ handler \in {"idle", "activate", "activated", "deactivate", "deactivated"}
    /\ blocker \in [Devices -> {"new", "read", "store", "ask", "ended"}]
    /\ stamp \in [Devices -> Times]
    /\ sender \in {"recv", "scroll", "blur", "write"}

\* A program that counts clicks and one that counts v120 units see the same scroll, up to
\* less than a click, in the same direction, on the axis the user scrolled: whatever the
\* deltas of the routed event are, the frame that the sender is about to write says so.
FrameIsConsistent == sender = "write" => AllConsistent

\* The guest in use keeps the scroll: the sender does not drop an event and give back
\* the scroll (sender.rs:138-143) while the user has been in this guest, and the guest
\* active, for longer than an own event needs to come and be stamped.  It takes what the
\* two TTLs are made for: a user who goes on scrolling, threads that keep up, and
\* blockers that live.
Scrolling == Pause + OwnLag <= SCROLL_TTL

KeepsTheScroll ==
    [][Prompt /\ Scrolling /\ sender = "blur" /\ sender' = "recv" =>
        \/ focus = "elsewhere"
        \/ clock - since <= Pause + OwnLag
        \/ \E d \in Devices : blocker[d] = "ended"]_vars

\* The guest the user has left gives the scroll back in time: one SCROLL_TTL after the
\* last own event, the next routed event marks the blur, and the first one that comes
\* more than BLUR_TTL later sends the request (sender.rs:134-147).  From then on it is
\* queued or awaited, or its call has failed: then the next routed event asks again.  The
\* request finds room although blockers go on asking while the call that makes the guest
\* active is awaited, and may leave it active with the channel full: until its first own
\* request can follow, the handler has skipped them.  A guest that never had a scroll
\* event (last_scroll is 0) does not give the scroll back.
ReleaseTime == OwnLag + SCROLL_TTL + BLUR_TTL + 2 * (Pause + RoutedLag)

Requested ==
    \/ handler \in {"deactivate", "deactivated"}
    \/ \E i \in DOMAIN requests : requests[i] = "deactivate"

ReleasesInTime ==
    Prompt /\ focus = "elsewhere" /\ granted /\ hostActive /\ lastScroll > 0 =>
        \/ clock - since <= ReleaseTime
        \/ Requested
        \/ clock - failedAt <= Pause + RoutedLag
=============================================================================
