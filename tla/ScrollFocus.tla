----------------------------- MODULE ScrollFocus -----------------------------
(***************************************************************************)
(* Does the scroll follow the user?  ActiveTransport composed with what    *)
(* makes a destination ask for the scroll and give it back:                *)
(*   - its blockers (src/scroll/blocker.rs) read the events that QEMU      *)
(*     passes to the guest that has the user's focus.  They record when    *)
(*     the last scroll event came, keep it from the guest, and ask for the *)
(*     scroll on every event that finds the destination not active;        *)
(*   - its sender (src/scroll/sender.rs) injects the scroll events that    *)
(*     the source routes here.  When these keep coming although the        *)
(*     blockers have seen no scroll for a while, the user scrolls somewhere *)
(*     else: the sender gives the scroll back (Deactivate).                *)
(* Times are abstracted to what the code compares: last_scroll against     *)
(* SCROLL_TTL, last_blur against BLUR_TTL.  The pipeline from the source   *)
(* to a sender is a slot per destination; ScrollTransport models it.       *)
(***************************************************************************)
EXTENDS ActiveTransport

CONSTANTS
    OtherEvents, \* may guests get events that are no scroll events: motion, buttons
    Overtaking,  \* may a notification overtake an answer the source sent earlier
    MaxMoves     \* bound: moves of the user's focus

ASSUME FocusAssumption ==
    OtherEvents \in BOOLEAN /\ Overtaking \in BOOLEAN /\ MaxMoves \in Nat

VARIABLES
    focus,      \* the guest the user points at, or Host
    moves,      \* number of focus moves so far
    lastScroll, \* per destination, last_scroll: 0, or its age against SCROLL_TTL
    lastBlur,   \* per destination, last_blur: 0, or its age against BLUR_TTL
    routed      \* per destination, whether a scroll event is under way to its sender

focusVars == <<focus, moves, lastScroll, lastBlur, routed>>
allVars == <<vars, focusVars>>

LastScrolls == {"zero", "recent", "old"}
LastBlurs == {"zero", "recent", "old"}

-----------------------------------------------------------------------------
\* The user points at another guest, or at the host.
FocusMoves ==
    /\ moves < MaxMoves
    /\ moves' = moves + 1
    /\ focus' \in (Dests \cup {Host}) \ {focus}
    /\ UNCHANGED <<vars, lastScroll, lastBlur, routed>>

\* process_events ends with a request when the destination is not active.
AskUnlessActive(d) ==
    \/ SendActivateRequest(d)
    \/ HostActive(d) /\ UNCHANGED vars

\* process_events on a scroll event: the time is recorded, the event blocked.
BlockScroll(d) ==
    /\ focus = d
    /\ lastScroll' = [lastScroll EXCEPT ![d] = "recent"]
    /\ AskUnlessActive(d)
    /\ UNCHANGED <<focus, moves, lastBlur, routed>>

\* process_events on any other event: it is written through, and it asks for the
\* scroll just as well.
PassOther(d) ==
    /\ OtherEvents
    /\ focus = d
    /\ AskUnlessActive(d)
    /\ UNCHANGED focusVars

\* The source's receiver reads a scroll event and the router sends it to the
\* peer that holds the scroll.
RouteScroll(d) ==
    /\ source.peer = d
    /\ routed' = [routed EXCEPT ![d] = TRUE]
    /\ UNCHANGED <<vars, focus, moves, lastScroll, lastBlur>>

\* ScrollSender::send.  After BLUR_TTL of events that no scroll of this guest
\* explains, the event is dropped and the scroll given back.
Inject(d) ==
    /\ routed[d]
    /\ routed' = [routed EXCEPT ![d] = FALSE]
    /\ \/ /\ lastScroll[d] # "old"
          /\ lastBlur' = [lastBlur EXCEPT ![d] = "zero"]
          /\ UNCHANGED vars
       \/ /\ lastScroll[d] = "old"
          /\ lastBlur[d] \in {"zero", "recent"}
          /\ lastBlur' = [lastBlur EXCEPT ![d] = "recent"]
          /\ UNCHANGED vars
       \/ /\ lastScroll[d] = "old"
          /\ lastBlur[d] = "old"
          /\ SendDeactivateRequest(d) \/ (~HostActive(d) /\ UNCHANGED vars)
          /\ UNCHANGED lastBlur
    /\ UNCHANGED <<focus, moves, lastScroll>>

\* Time passes.  While the user scrolls in a guest, events follow each other
\* within SCROLL_TTL: last_scroll ages only where the focus is not.
ScrollAges(d) ==
    /\ focus # d
    /\ lastScroll[d] = "recent"
    /\ lastScroll' = [lastScroll EXCEPT ![d] = "old"]
    /\ UNCHANGED <<vars, focus, moves, lastBlur, routed>>

BlurAges(d) ==
    /\ lastBlur[d] = "recent"
    /\ lastBlur' = [lastBlur EXCEPT ![d] = "old"]
    /\ UNCHANGED <<vars, focus, moves, lastScroll, routed>>

\* The answer and the notification travel on connections of their own.
Arrives(m) ==
    /\ \/ Overtaking
       \/ handler[m.to] # "answered"
       \/ answer[m.to].clock > m.grant.clock
    /\ HandleActiveState(m)

-----------------------------------------------------------------------------
FocusInit ==
    /\ Init
    /\ focus = Host
    /\ moves = 0
    /\ lastScroll = [d \in Dests |-> "zero"]
    /\ lastBlur = [d \in Dests |-> "zero"]
    /\ routed = [d \in Dests |-> FALSE]

Handler(d) ==
    /\ TakeRequest(d) \/ HandleActivateRequest(d) \/ ReceiveAnswer(d)
    /\ UNCHANGED focusVars

Notified(d) ==
    /\ \E m \in notices : m.to = d /\ Arrives(m)
    /\ UNCHANGED focusVars

FocusNext ==
    \/ FocusMoves
    \/ \E d \in Dests :
        \/ BlockScroll(d)
        \/ PassOther(d)
        \/ RouteScroll(d)
        \/ Inject(d)
        \/ ScrollAges(d)
        \/ BlurAges(d)
        \/ Handler(d)
        \/ Notified(d)

\* The user never stops scrolling (BlockScroll where the focus is, RouteScroll
\* wherever the source routes to), tasks and threads run, calls arrive and time
\* passes.  Nothing obliges the focus to move or other events to come.
Fairness ==
    \A d \in Dests :
        /\ WF_allVars(BlockScroll(d)) /\ WF_allVars(RouteScroll(d))
        /\ WF_allVars(Inject(d))
        /\ WF_allVars(ScrollAges(d)) /\ WF_allVars(BlurAges(d))
        /\ WF_allVars(Handler(d)) /\ WF_allVars(Notified(d))

FocusSpec == FocusInit /\ [][FocusNext]_allVars /\ Fairness

-----------------------------------------------------------------------------
FocusTypeOK ==
    /\ TypeOK
    /\ focus \in Dests \cup {Host}
    /\ moves \in 0 .. MaxMoves
    /\ lastScroll \in [Dests -> LastScrolls]
    /\ lastBlur \in [Dests -> LastBlurs]
    /\ routed \in [Dests -> BOOLEAN]

\* Everybody is told: once a grant was made, each listed destination holds the
\* source's latest, or it is on its way there as an answer or a notification.  So
\* when nothing is in flight, is_host_active is true on one machine at most and
\* all agree on it.  It needs the order of arrival: where a notification may
\* overtake an answer, a destination can stay behind for good.
EveryoneIsTold ==
    \A d \in ScrollDestinations : source.clock > 0 =>
        \/ active[d] = source
        \/ handler[d] = "answered" /\ answer[d] = source
        \/ [to |-> d, grant |-> source] \in notices

\* What the README promises, "Multiple guests are supported by using QEMU virtual
\* device scroll events to detect the active guest" (src/README.md:14-15): a guest
\* that keeps the focus while the user scrolls gets the scroll, again and again.
ScrollFollowsFocus ==
    \A d \in Dests : <>[](focus = d) => []<>(source.peer = d)

\* A user who goes back to the host for good and scrolls there ends up scrolling
\* no guest: the holder notices that its own blockers see no scroll any more, and
\* gives the scroll back (the blur test of ScrollSender::send).  Only a guest that
\* never saw a scroll event, and got the scroll by other events, may keep it:
\* last_scroll is 0 there, and the test wants it positive.
HostFocusReleases ==
    <>[](focus = Host)
        => <>[](\A d \in Dests : source.peer = d => lastScroll[d] = "zero")
=============================================================================
