------------------------ MODULE ActiveTransportProofs ------------------------
(***************************************************************************)
(* Theorems about ActiveTransport, for every value of its constants.       *)
(*   TypeCorrect      every variable keeps its kind of value;              *)
(*   GrantsAreUnique  a clock names one grant, and the source's is latest; *)
(*   OnlyListed       who is not listed never holds the scroll;            *)
(*   HolderAware      the holder knows that it holds the scroll, as long   *)
(*                    as notifications are the only thing that gets lost.  *)
(***************************************************************************)
EXTENDS ActiveTransport, TLAPS

USE DestsAssumption, ConfigAssumption, BoundsAssumption

-----------------------------------------------------------------------------
\* Types.

\* The grant that a request leads to is a grant.
LEMMA NextGrantType ==
    ASSUME source \in Grants, NEW d \in Dests, NEW event
    PROVE  NextGrant(d, event) \in Grants
BY DEF Grants, NextGrant

\* Notifications of a grant are addressed to destinations and carry the grant.
LEMMA NoticesOfType ==
    ASSUME NEW g \in Grants
    PROVE  /\ NoticesOf(g) \subseteq Notices
           /\ \A m \in NoticesOf(g) : m.grant = g /\ m.to \in ScrollDestinations /\ m.to # g.peer
BY DEF NoticesOf, Notices

\* try_send keeps a channel within its capacity.
LEMMA OfferType ==
    ASSUME queue \in [Dests -> Seq(Events)],
           \A d \in Dests : Len(queue[d]) <= QueueCap,
           NEW d \in Dests, NEW event \in Events, Offer(d, event)
    PROVE  /\ queue' \in [Dests -> Seq(Events)]
           /\ \A e \in Dests : Len(queue'[e]) <= QueueCap
<1>1. CASE Len(queue[d]) < QueueCap
  <2>1. Append(queue[d], event) \in Seq(Events) /\ Len(Append(queue[d], event)) = Len(queue[d]) + 1
    OBVIOUS
  <2>2. Len(queue[d]) \in Nat
    OBVIOUS
  <2>3. queue' = [queue EXCEPT ![d] = Append(queue[d], event)]
    BY <1>1 DEF Offer
  <2> QED BY <1>1, <2>1, <2>2, <2>3
<1>2. CASE ~(Len(queue[d]) < QueueCap)
  BY <1>2 DEF Offer
<1> QED BY <1>1, <1>2

\* What a given-up request may leave behind is a set of requests.
LEMMA LeftBehindType ==
    ASSUME TypeOK, NEW d \in Dests, stray' \in LeftBehind(d)
    PROVE  stray' \subseteq Requests
BY DEF TypeOK, LeftBehind, Requests

\* One step keeps the types.
LEMMA TypeStep ==
    ASSUME TypeOK, [Next]_vars
    PROVE  TypeOK'
<1> USE DEF TypeOK, HandlerStates, Events
<1> Blank \in Grants
  BY DEF Blank, Grants
<1>1. ASSUME NEW d \in Dests, SendActivateRequest(d)
      PROVE  TypeOK'
  BY <1>1, OfferType DEF SendActivateRequest
<1>2. ASSUME NEW d \in Dests, SendDeactivateRequest(d)
      PROVE  TypeOK'
  BY <1>2, OfferType DEF SendDeactivateRequest
<1>3. ASSUME NEW d \in Dests, TakeRequest(d)
      PROVE  TypeOK'
  <2>1. Head(queue[d]) \in Events /\ Tail(queue[d]) \in Seq(Events)
    BY <1>3 DEF TakeRequest
  <2>2. Len(Tail(queue[d])) <= QueueCap
    <3>1. Len(queue[d]) \in Nat /\ Len(Tail(queue[d])) = Len(queue[d]) - 1
      BY <1>3 DEF TakeRequest
    <3> QED BY <3>1
  <2>3. /\ queue' \in [Dests -> Seq(Events)]
        /\ \A e \in Dests : Len(queue'[e]) <= QueueCap
    BY <1>3, <2>1, <2>2 DEF TakeRequest
  <2>4. handler' \in [Dests -> HandlerStates]
    BY <1>3, <2>1 DEF TakeRequest
  <2>5. \A e \in Dests : handler'[e] # "answered" => answer'[e] = Blank
    BY <1>3 DEF TakeRequest
  <2> QED BY <1>3, <2>3, <2>4, <2>5 DEF TakeRequest
<1>4. ASSUME NEW d \in Dests, HandleActivateRequest(d)
      PROVE  TypeOK'
  BY <1>4, NextGrantType, NoticesOfType DEF HandleActivateRequest, Execute
<1>5. ASSUME NEW d \in Dests, RejectActivateRequest(d)
      PROVE  TypeOK'
  BY <1>5 DEF RejectActivateRequest
<1>6. ASSUME NEW d \in Dests, ReceiveAnswer(d)
      PROVE  TypeOK'
  BY <1>6 DEF ReceiveAnswer
<1>7. ASSUME NEW m \in notices, HandleActiveState(m)
      PROVE  TypeOK'
  BY <1>7 DEF HandleActiveState, Notices
<1>8. ASSUME NEW d \in Dests, RequestFails(d)
      PROVE  TypeOK'
  BY <1>8, LeftBehindType DEF RequestFails
<1>9. ASSUME NEW d \in Dests, DestRestart(d)
      PROVE  TypeOK'
  <2>1. << >> \in Seq(Events) /\ Len(<< >>) = 0
    OBVIOUS
  <2> QED BY <1>9, <2>1, LeftBehindType DEF DestRestart
<1>10. ASSUME NEW m \in notices, LoseNotice(m)
       PROVE  TypeOK'
  BY <1>10 DEF LoseNotice
<1>11. ASSUME NEW r \in stray, HandleStrayRequest(r)
       PROVE  TypeOK'
  <2>1. r.from \in Dests
    BY DEF Requests
  <2> QED BY <1>11, <2>1, NextGrantType, NoticesOfType DEF HandleStrayRequest, Execute
<1>12. ASSUME SourceRestart
       PROVE  TypeOK'
  <2>1. source' \in Grants
    <3>1. source.epoch + 1 \in Nat
      BY DEF Grants
    <3>2. source' = [peer |-> NoPeer, clock |-> 0, epoch |-> source.epoch + 1]
      BY <1>12 DEF SourceRestart, Blank
    <3> QED BY <3>1, <3>2 DEF Grants
  <2>2. [peer |-> Host, clock |-> 0, epoch |-> source.epoch + 1] \in Grants
    BY DEF Grants
  <2> QED BY <1>12, <2>1, <2>2, NoticesOfType DEF SourceRestart, Resets
<1>13. CASE UNCHANGED vars
  BY <1>13 DEF vars
<1> QED
  BY <1>1, <1>2, <1>3, <1>4, <1>5, <1>6, <1>7, <1>8, <1>9, <1>10, <1>11, <1>12, <1>13
  DEF Next, Protocol, Fault

\* The initial states are well typed.
LEMMA TypeInit == Init => TypeOK
<1> SUFFICES ASSUME Init PROVE TypeOK
  OBVIOUS
<1>1. [peer |-> Host, clock |-> 0, epoch |-> 1] \in Grants
  BY DEF Grants
<1>2. Resets(1) \subseteq Notices
  BY <1>1, NoticesOfType DEF Resets
<1>3. << >> \in Seq(Events) /\ Len(<< >>) = 0
  OBVIOUS
<1> QED BY <1>2, <1>3 DEF Init, TypeOK, Grants, Blank, HandlerStates

\* Every variable always holds values of its kind, and no channel of
\* ActiveRequestEvents exceeds its capacity.
THEOREM TypeCorrect == Spec => []TypeOK
BY TypeInit, TypeStep, PTL DEF Spec

-----------------------------------------------------------------------------
\* A clock names one grant.

\* The source's state after a step: unchanged, the next grant, or a new start.
SourceMoves ==
    \/ source' = source
    \/ source'.epoch = source.epoch /\ source'.clock = source.clock + 1
    \/ source'.epoch = source.epoch + 1 /\ source'.clock = 0

\* A copy after a step: one from before, the source's new state, or one that
\* says nothing (clock 0).
CopyMoves(g) ==
    \/ g \in Copies
    \/ g = source'
    \/ g.clock = 0 /\ g.epoch <= source'.epoch

\* One step makes no copies but those.  The three parts of Copies other than the
\* source's own state are followed one by one.
LEMMA CopiesStep ==
    ASSUME TypeOK, [Next]_vars
    PROVE  /\ SourceMoves
           /\ \A d \in Dests : CopyMoves(active'[d]) /\ CopyMoves(answer'[d])
           /\ \A m \in notices' : CopyMoves(m.grant)
<1> DEFINE Goal ==
        /\ SourceMoves
        /\ \A d \in Dests : CopyMoves(active'[d]) /\ CopyMoves(answer'[d])
        /\ \A m \in notices' : CopyMoves(m.grant)
<1> SUFFICES Goal
  OBVIOUS
<1> TypeOK'
  BY TypeStep
<1>a. /\ source.epoch \in Nat /\ source.clock \in Nat
      /\ source'.epoch \in Nat /\ source'.clock \in Nat
  BY DEF TypeOK, Grants
<1>b. SourceMoves => source'.epoch >= 0 /\ CopyMoves(Blank)
  BY <1>a DEF CopyMoves, Blank
<1>c. /\ \A d \in Dests : CopyMoves(active[d]) /\ CopyMoves(answer[d])
      /\ \A m \in notices : CopyMoves(m.grant)
  BY DEF CopyMoves, Copies
<1>1. ASSUME NEW d \in Dests, \/ SendActivateRequest(d) \/ SendDeactivateRequest(d)
                              \/ TakeRequest(d) \/ RejectActivateRequest(d)
      PROVE  Goal
  BY <1>1, <1>c DEF SendActivateRequest, SendDeactivateRequest, TakeRequest,
                    RejectActivateRequest, SourceMoves
<1>2. ASSUME NEW d \in Dests, NEW event, Execute(d, event)
      PROVE  /\ SourceMoves
             /\ CopyMoves(NextGrant(d, event))
             /\ \A m \in notices' : CopyMoves(m.grant)
  <2>1. SourceMoves
    BY <1>2 DEF Execute, NextGrant, SourceMoves
  <2>2. CopyMoves(NextGrant(d, event))
    BY <1>2 DEF Execute, CopyMoves
  <2>3. \A m \in NoticesOf(NextGrant(d, event)) : m.grant = NextGrant(d, event)
    BY NoticesOfType, NextGrantType DEF TypeOK
  <2> QED BY <1>2, <1>c, <2>1, <2>2, <2>3 DEF Execute
<1>3. ASSUME NEW d \in Dests, HandleActivateRequest(d)
      PROVE  Goal
  BY <1>2, <1>3, <1>c DEF HandleActivateRequest, TypeOK
<1>4. ASSUME NEW r \in stray, HandleStrayRequest(r)
      PROVE  Goal
  <2>1. r.from \in Dests
    BY DEF TypeOK, Requests
  <2> QED BY <1>2, <1>4, <1>c, <2>1 DEF HandleStrayRequest
<1>5. ASSUME NEW d \in Dests, \/ ReceiveAnswer(d) \/ RequestFails(d) \/ DestRestart(d)
      PROVE  Goal
  <2>1. SourceMoves
    BY <1>5 DEF ReceiveAnswer, RequestFails, DestRestart, SourceMoves
  <2>2. \A e \in Dests : active'[e] \in {active[e], answer[e], Blank}
    BY <1>5 DEF ReceiveAnswer, RequestFails, DestRestart, TypeOK
  <2>3. \A e \in Dests : answer'[e] \in {answer[e], Blank}
    BY <1>5 DEF ReceiveAnswer, RequestFails, DestRestart, TypeOK
  <2>4. notices' = notices
    BY <1>5 DEF ReceiveAnswer, RequestFails, DestRestart
  <2> QED BY <1>b, <1>c, <2>1, <2>2, <2>3, <2>4
<1>6. ASSUME NEW m \in notices, HandleActiveState(m) \/ LoseNotice(m)
      PROVE  Goal
  <2>1. SourceMoves /\ answer' = answer /\ notices' \subseteq notices
    BY <1>6 DEF HandleActiveState, LoseNotice, SourceMoves
  <2>2. \A e \in Dests : active'[e] \in {active[e], m.grant, Blank}
    BY <1>6 DEF HandleActiveState, LoseNotice, TypeOK, Notices
  <2> QED BY <1>b, <1>c, <2>1, <2>2
<1>7. ASSUME SourceRestart
      PROVE  Goal
  <2> DEFINE reset == [peer |-> Host, clock |-> 0, epoch |-> source.epoch + 1]
  <2>1. SourceMoves /\ source'.epoch = source.epoch + 1
    BY <1>7 DEF SourceRestart, Blank, SourceMoves
  <2>2. reset \in Grants
    BY <1>a DEF Grants
  <2>3. \A m \in NoticesOf(reset) : m.grant = reset
    BY <2>2, NoticesOfType
  <2>4. CopyMoves(reset)
    BY <1>a, <2>1 DEF CopyMoves
  <2>5. /\ active' = active /\ answer' = answer
        /\ notices' = notices \cup NoticesOf(reset)
    BY <1>7 DEF SourceRestart, Resets
  <2> HIDE DEF reset
  <2> QED BY <1>c, <2>1, <2>3, <2>4, <2>5
<1>8. CASE UNCHANGED vars
  BY <1>8, <1>c DEF vars, SourceMoves
<1> QED
  BY <1>1, <1>3, <1>4, <1>5, <1>6, <1>7, <1>8 DEF Next, Protocol, Fault

\* GrantsAgree is not inductive alone: a grant is new because no copy is ahead of
\* the source.
UniqueInv == TypeOK /\ SourceIsLatest /\ GrantsAgree

LEMMA UniqueInit == Init => UniqueInv
<1> SUFFICES ASSUME Init PROVE UniqueInv
  OBVIOUS
<1>1. TypeOK
  BY TypeInit
<1>2. source.epoch = 1 /\ source.clock = 0
  BY DEF Init, Blank
<1>3. \A d \in Dests : active[d] = Blank /\ answer[d] = Blank
  BY DEF Init
<1>4. [peer |-> Host, clock |-> 0, epoch |-> 1] \in Grants
  BY DEF Grants
<1>5. \A m \in notices : m.grant.clock = 0 /\ m.grant.epoch = 1
  BY <1>4, NoticesOfType DEF Init, Resets
<1>6. \A g \in Copies : g.clock = 0 /\ g.epoch <= 1
  BY <1>2, <1>3, <1>5 DEF Copies, Blank
<1> QED BY <1>1, <1>2, <1>6 DEF UniqueInv, SourceIsLatest, GrantsAgree

LEMMA UniqueStep ==
    ASSUME UniqueInv, [Next]_vars
    PROVE  UniqueInv'
<1>1. TypeOK /\ TypeOK'
  BY TypeStep DEF UniqueInv
<1>2. SourceMoves
  BY <1>1, CopiesStep
<1>3. \A g \in Copies' : CopyMoves(g)
  BY <1>1, CopiesStep DEF Copies, CopyMoves
<1>4. \A g \in Copies \cup Copies' : g.clock \in Nat /\ g.epoch \in Nat
  BY <1>1 DEF TypeOK, Copies, Grants, Notices
<1>5. source \in Copies /\ source' \in Copies'
  BY DEF Copies
<1>6. SourceIsLatest'
  <2> SUFFICES ASSUME NEW g \in Copies'
               PROVE  /\ g.epoch <= source'.epoch
                      /\ g.epoch = source'.epoch => g.clock <= source'.clock
    BY DEF SourceIsLatest
  <2>1. CASE g \in Copies
    BY <1>2, <1>4, <1>5, <2>1 DEF UniqueInv, SourceIsLatest, SourceMoves
  <2>2. CASE ~(g \in Copies)
    BY <1>3, <1>4, <1>5, <2>2 DEF CopyMoves
  <2> QED BY <2>1, <2>2
<1>7. GrantsAgree'
  <2> SUFFICES ASSUME NEW g \in Copies', NEW h \in Copies',
                      g.epoch = h.epoch, g.clock = h.clock, g.clock > 0
               PROVE  g.peer = h.peer
    BY DEF GrantsAgree
  <2>1. \A k \in {g, h} : k \in Copies \/ k = source'
    BY <1>3, <1>4 DEF CopyMoves
  <2>2. CASE g \in Copies /\ h \in Copies
    BY <2>2 DEF UniqueInv, GrantsAgree
  <2>3. CASE g = h
    BY <2>3
  <2>4. ASSUME NEW k \in Copies, k.epoch = source'.epoch, k.clock = source'.clock,
               k.clock > 0
        PROVE  k.peer = source'.peer
    <3>1. source' = source
      BY <1>2, <1>4, <1>5, <2>4 DEF UniqueInv, SourceIsLatest, SourceMoves
    <3> QED BY <1>5, <2>4, <3>1 DEF UniqueInv, GrantsAgree
  <2> QED BY <1>4, <2>1, <2>2, <2>3, <2>4
<1> QED BY <1>1, <1>6, <1>7 DEF UniqueInv

\* Within one start of the source a clock names one grant, and the source's own
\* state is the latest of all copies, whatever is lost, delayed or restarted: the
\* clock comparison of active_state compares the right thing.
THEOREM GrantsAreUnique == Spec => [](SourceIsLatest /\ GrantsAgree)
<1>1. Spec => []UniqueInv
  BY UniqueInit, UniqueStep, PTL DEF Spec
<1>2. UniqueInv => SourceIsLatest /\ GrantsAgree
  BY DEF UniqueInv
<1> QED BY <1>1, <1>2, PTL

-----------------------------------------------------------------------------
\* Who may hold the scroll.

MayHold == ScrollDestinations \cap WithSource

\* A grant that names nobody who may not hold the scroll.
Lawful(g) == g.peer \notin Dests \ MayHold

\* OnlyListedHold follows each grant; where grants come from, requests, it needs
\* that nobody asks who has no source.
OnlyConnectedAsk ==
    /\ \A d \in Dests : handler[d] \in Events => d \in WithSource
    /\ \A r \in stray : r.from \in WithSource

ListedInv == TypeOK /\ OnlyListedHold /\ OnlyConnectedAsk

\* The parts of Copies, one by one.
LEMMA ListedParts ==
    OnlyListedHold <=> /\ Lawful(source)
                       /\ \A d \in Dests : Lawful(active[d]) /\ Lawful(answer[d])
                       /\ \A m \in notices : Lawful(m.grant)
BY DEF OnlyListedHold, Copies, Lawful, MayHold

\* What no destination holds may be told to everybody.
LEMMA LawfulGrants ==
    /\ Lawful(Blank)
    /\ \A k \in Nat : Lawful([Blank EXCEPT !.epoch = k])
    /\ \A k \in Nat : Lawful([peer |-> Host, clock |-> 0, epoch |-> k])
BY DEF Lawful, Blank

\* A request of a destination that may hold leads to a lawful grant, and to
\* notifications of it.
LEMMA ExecuteLawful ==
    ASSUME TypeOK, OnlyListedHold, NEW d \in MayHold, NEW event, Execute(d, event)
    PROVE  /\ Lawful(source') /\ Lawful(NextGrant(d, event))
           /\ \A m \in notices' : Lawful(m.grant)
<1>1. Lawful(NextGrant(d, event))
  BY DEF Lawful, NextGrant
<1>2. d \in Dests
  BY DEF MayHold
<1>3. \A m \in NoticesOf(NextGrant(d, event)) : m.grant = NextGrant(d, event)
  BY <1>2, NextGrantType, NoticesOfType DEF TypeOK
<1> QED BY <1>1, <1>3, ListedParts DEF Execute

\* What a given-up request leaves behind comes from a destination that has a source.
LEMMA LeftBehindConnected ==
    ASSUME OnlyConnectedAsk, NEW d \in Dests, stray' \in LeftBehind(d)
    PROVE  \A r \in stray' : r.from \in WithSource
BY DEF OnlyConnectedAsk, LeftBehind

LEMMA ListedInit == Init => ListedInv
<1> SUFFICES ASSUME Init PROVE ListedInv
  OBVIOUS
<1>1. [peer |-> Host, clock |-> 0, epoch |-> 1] \in Grants
  BY DEF Grants
<1>2. \A m \in notices : m.grant = [peer |-> Host, clock |-> 0, epoch |-> 1]
  BY <1>1, NoticesOfType DEF Init, Resets
<1>3. OnlyListedHold
  BY <1>2, ListedParts, LawfulGrants DEF Init
<1>4. OnlyConnectedAsk
  BY DEF Init, OnlyConnectedAsk, Events
<1> QED BY <1>3, <1>4, TypeInit DEF ListedInv

LEMMA ListedStep ==
    ASSUME ListedInv, [Next]_vars
    PROVE  ListedInv'
<1> DEFINE Goal == OnlyListedHold' /\ OnlyConnectedAsk'
<1> SUFFICES Goal
  BY TypeStep DEF ListedInv
<1> TypeOK /\ OnlyListedHold /\ OnlyConnectedAsk
  BY DEF ListedInv
<1>p. OnlyListedHold' <=> /\ Lawful(source')
                          /\ \A d \in Dests : Lawful(active'[d]) /\ Lawful(answer'[d])
                          /\ \A m \in notices' : Lawful(m.grant)
  BY DEF OnlyListedHold, Copies, Lawful, MayHold
<1>1. ASSUME NEW d \in Dests, \/ SendActivateRequest(d) \/ SendDeactivateRequest(d)
                              \/ RejectActivateRequest(d)
      PROVE  Goal
  BY <1>1, <1>p, ListedParts
  DEF SendActivateRequest, SendDeactivateRequest, RejectActivateRequest,
      OnlyConnectedAsk, TypeOK, Events
<1>2. ASSUME NEW d \in Dests, TakeRequest(d)
      PROVE  Goal
  BY <1>2, <1>p, ListedParts DEF TakeRequest, Skipped, OnlyConnectedAsk, TypeOK
<1>3. ASSUME NEW d \in Dests, HandleActivateRequest(d)
      PROVE  Goal
  <2>1. d \in MayHold
    BY <1>3 DEF HandleActivateRequest, MayHold, OnlyConnectedAsk
  <2>2. /\ Lawful(source') /\ Lawful(NextGrant(d, handler[d]))
        /\ \A m \in notices' : Lawful(m.grant)
    BY <1>3, <2>1, ExecuteLawful DEF HandleActivateRequest
  <2>3. OnlyConnectedAsk'
    BY <1>3 DEF HandleActivateRequest, OnlyConnectedAsk, TypeOK, Events
  <2> QED BY <1>3, <1>p, <2>2, <2>3, ListedParts DEF HandleActivateRequest, TypeOK
<1>4. ASSUME NEW r \in stray, HandleStrayRequest(r)
      PROVE  Goal
  <2>1. r.from \in MayHold
    BY <1>4 DEF HandleStrayRequest, MayHold, OnlyConnectedAsk
  <2>2. Lawful(source') /\ \A m \in notices' : Lawful(m.grant)
    BY <1>4, <2>1, ExecuteLawful DEF HandleStrayRequest
  <2> QED BY <1>4, <1>p, <2>2, ListedParts DEF HandleStrayRequest, OnlyConnectedAsk
<1>5. ASSUME NEW d \in Dests, ReceiveAnswer(d)
      PROVE  Goal
  BY <1>5, <1>p, ListedParts, LawfulGrants
  DEF ReceiveAnswer, OnlyConnectedAsk, TypeOK, Events
<1>6. ASSUME NEW d \in Dests, RequestFails(d) \/ DestRestart(d)
      PROVE  Goal
  <2>1. stray' \in LeftBehind(d)
    BY <1>6 DEF RequestFails, DestRestart
  <2>2. OnlyConnectedAsk'
    BY <1>6, <2>1, LeftBehindConnected
    DEF RequestFails, DestRestart, OnlyConnectedAsk, TypeOK, Events
  <2> QED
    BY <1>6, <1>p, <2>2, ListedParts, LawfulGrants DEF RequestFails, DestRestart, TypeOK
<1>7. ASSUME NEW m \in notices, HandleActiveState(m) \/ LoseNotice(m)
      PROVE  Goal
  <2>1. OnlyConnectedAsk' /\ UNCHANGED <<source, answer>> /\ notices' \subseteq notices
    BY <1>7 DEF HandleActiveState, LoseNotice, OnlyConnectedAsk
  <2>2. \A e \in Dests : active'[e] \in {active[e], m.grant, Blank}
    BY <1>7 DEF HandleActiveState, LoseNotice, TypeOK, Notices
  <2> QED BY <1>p, <2>1, <2>2, ListedParts, LawfulGrants
<1>8. ASSUME SourceRestart
      PROVE  Goal
  <2> DEFINE reset == [peer |-> Host, clock |-> 0, epoch |-> source.epoch + 1]
  <2>1. source.epoch + 1 \in Nat
    BY DEF TypeOK, Grants
  <2>2. Lawful(source')
    BY <1>8, <2>1, LawfulGrants DEF SourceRestart
  <2>3. reset \in Grants /\ Lawful(reset)
    BY <2>1, LawfulGrants DEF Grants
  <2>4. \A m \in NoticesOf(reset) : m.grant = reset
    BY <2>3, NoticesOfType
  <2>5. UNCHANGED <<active, answer>> /\ notices' = notices \cup NoticesOf(reset)
    BY <1>8 DEF SourceRestart, Resets
  <2>6. OnlyConnectedAsk'
    BY <1>8 DEF SourceRestart, OnlyConnectedAsk
  <2> HIDE DEF reset
  <2> QED BY <1>p, <2>2, <2>3, <2>4, <2>5, <2>6, ListedParts
<1>9. CASE UNCHANGED vars
  BY <1>9, <1>p, ListedParts DEF vars, OnlyConnectedAsk
<1> QED
  BY <1>1, <1>2, <1>3, <1>4, <1>5, <1>6, <1>7, <1>8, <1>9 DEF Next, Protocol, Fault

\* A machine that the source does not list as a scroll destination, or that has no
\* source to ask, never holds the scroll and is never said to: not even by a request
\* that executes late, or after restarts.
THEOREM OnlyListed == Spec => []OnlyListedHold
<1>1. ListedInv => OnlyListedHold
  BY DEF ListedInv
<1> QED BY <1>1, ListedInit, ListedStep, PTL DEF Spec

-----------------------------------------------------------------------------
\* The holder knows that it holds.

\* Only notifications get lost, so there is one start of the source and no
\* request is executed behind its sender's back.
SingleStart ==
    /\ source.epoch = 1
    /\ \A m \in notices : m.grant.epoch = 1
    /\ stray = {}

\* Notifications are about somebody else, never resets, and never ahead.
NoticesToOthers ==
    \A m \in notices :
        /\ m.grant.peer # m.to
        /\ m.grant.clock > 0
        /\ m.grant.clock <= source.clock

\* A destination that asks for the scroll does not believe it has it.
CallingNotActive ==
    \A d \in Dests : handler[d] = "Activate" => active[d].peer # d

\* A destination has one request under way: when the source still routes the
\* scroll to d, an answer on its way to d is that very grant.
AnswerIsGrant ==
    \A d \in Dests : handler[d] = "answered" /\ source.peer = d => answer[d] = source

\* The strengthening of HolderIsAware that a step preserves.
HolderInv ==
    /\ SingleStart
    /\ NoticesToOthers
    /\ CallingNotActive
    /\ AnswerIsGrant
    /\ HolderIsAware

LEMMA HolderInit ==
    ASSUME Init, Faults \subseteq {"lose"}
    PROVE  HolderInv
<1>1. source.epoch = 1 /\ source.peer = NoPeer /\ notices = {} /\ stray = {}
  BY DEF Init, Blank
<1>2. \A d \in Dests : handler[d] = "idle" /\ source.peer # d
  BY <1>1 DEF Init
<1> QED
  BY <1>1, <1>2 DEF HolderInv, SingleStart, NoticesToOthers, CallingNotActive,
                    AnswerIsGrant, HolderIsAware

LEMMA HolderStep ==
    ASSUME TypeOK, HolderInv, [Next]_vars, Faults \subseteq {"lose"}
    PROVE  HolderInv'
<1> USE DEF HolderInv
<1>a. /\ source \in Grants /\ active \in [Dests -> Grants] /\ answer \in [Dests -> Grants]
      /\ handler \in [Dests -> HandlerStates] /\ notices \subseteq Notices
      /\ source.clock \in Nat
  BY DEF TypeOK, Grants
<1>1. ASSUME NEW d \in Dests, SendActivateRequest(d) \/ SendDeactivateRequest(d)
      PROVE  HolderInv'
  BY <1>1 DEF SendActivateRequest, SendDeactivateRequest, SingleStart, NoticesToOthers,
              CallingNotActive, AnswerIsGrant, HolderIsAware
<1>2. ASSUME NEW d \in Dests, TakeRequest(d)
      PROVE  HolderInv'
  <2>1. UNCHANGED <<source, active, answer, notices, stray>>
    BY <1>2 DEF TakeRequest
  <2>2. handler[d] = "idle" /\ \A e \in Dests \ {d} : handler'[e] = handler[e]
    BY <1>2, <1>a DEF TakeRequest
  <2>3. Head(queue[d]) \in Events
    BY <1>2 DEF TakeRequest, TypeOK
  <2>4. handler'[d] \in {"idle"} \cup Events
    BY <1>2, <1>a, <2>2, <2>3 DEF TakeRequest, HandlerStates
  <2>5. handler'[d] = "Activate" => active[d].peer # d
    BY <1>2, <1>a, <2>2 DEF TakeRequest, Skipped
  <2>6. CallingNotActive'
    BY <2>1, <2>2, <2>5 DEF CallingNotActive
  <2>7. AnswerIsGrant'
    BY <2>1, <2>2, <2>4 DEF AnswerIsGrant, Events
  <2>8. HolderIsAware'
    BY <2>1, <2>2 DEF HolderIsAware
  <2> QED BY <2>1, <2>6, <2>7, <2>8 DEF SingleStart, NoticesToOthers
<1>3. ASSUME NEW d \in Dests, HandleActivateRequest(d)
      PROVE  HolderInv'
  <2> DEFINE g == NextGrant(d, handler[d])
  <2>1. /\ source' = g /\ notices' = notices \cup NoticesOf(g)
        /\ UNCHANGED <<active, queue, stray>>
        /\ handler[d] \in Events
    BY <1>3 DEF HandleActivateRequest, Execute
  <2>2. /\ answer'[d] = g /\ handler'[d] = "answered"
        /\ \A e \in Dests \ {d} : answer'[e] = answer[e] /\ handler'[e] = handler[e]
    BY <1>3, <1>a DEF HandleActivateRequest
  <2>3. /\ g.clock = source.clock + 1 /\ g.epoch = 1 /\ g.peer \in {d, Host}
        /\ g \in Grants
    BY NextGrantType, <1>a DEF NextGrant, SingleStart
  <2>4. \A m \in NoticesOf(g) : m.grant = g /\ m.to # g.peer
    BY <2>3, NoticesOfType
  <2> HIDE DEF g
  <2>5. SingleStart'
    BY <2>1, <2>3, <2>4 DEF SingleStart
  <2>6. NoticesToOthers'
    <3>1. \A m \in notices : m.grant.clock \in Nat
      BY <1>a DEF Notices, Grants
    <3> QED BY <1>a, <2>1, <2>3, <2>4, <3>1 DEF NoticesToOthers
  <2>7. CallingNotActive'
    BY <2>1, <2>2 DEF CallingNotActive
  <2>8. \A e \in Dests \ {d} : source'.peer # e
    BY <2>1, <2>3
  <2>9. AnswerIsGrant' /\ HolderIsAware'
    BY <2>1, <2>2, <2>8 DEF AnswerIsGrant, HolderIsAware
  <2> QED BY <2>5, <2>6, <2>7, <2>9
<1>4. ASSUME NEW d \in Dests, RejectActivateRequest(d)
      PROVE  HolderInv'
  <2>1. UNCHANGED <<source, active, queue, answer, notices, stray>>
    BY <1>4 DEF RejectActivateRequest
  <2>2. /\ handler[d] # "answered" /\ handler'[d] = "idle"
        /\ \A e \in Dests \ {d} : handler'[e] = handler[e]
    BY <1>4, <1>a DEF RejectActivateRequest, Events
  <2> QED BY <2>1, <2>2 DEF SingleStart, NoticesToOthers, CallingNotActive,
                            AnswerIsGrant, HolderIsAware
<1>5. ASSUME NEW d \in Dests, ReceiveAnswer(d)
      PROVE  HolderInv'
  <2>1. UNCHANGED <<source, queue, notices, stray>>
    BY <1>5 DEF ReceiveAnswer
  <2>2. handler[d] = "answered" /\ active'[d] = answer[d] /\ handler'[d] = "idle"
    BY <1>5, <1>a DEF ReceiveAnswer
  <2>3. \A e \in Dests \ {d} : /\ active'[e] = active[e] /\ answer'[e] = answer[e]
                               /\ handler'[e] = handler[e]
    BY <1>5, <1>a DEF ReceiveAnswer
  <2>4. source.peer = d => active'[d] = source
    BY <2>2 DEF AnswerIsGrant
  <2>5. CallingNotActive'
    BY <2>2, <2>3 DEF CallingNotActive
  <2>6. AnswerIsGrant'
    BY <2>1, <2>2, <2>3 DEF AnswerIsGrant
  <2>7. HolderIsAware'
    BY <2>1, <2>3, <2>4 DEF HolderIsAware
  <2> QED BY <2>1, <2>5, <2>6, <2>7 DEF SingleStart, NoticesToOthers
<1>6. ASSUME NEW m \in notices, HandleActiveState(m)
      PROVE  HolderInv'
  <2>1. /\ UNCHANGED <<source, queue, handler, answer, stray>>
        /\ notices' \subseteq notices
    BY <1>6 DEF HandleActiveState
  <2>2. m.to \in Dests /\ m.grant.clock \in Nat
    BY <1>a DEF Notices, Grants
  <2>3. /\ m.grant.peer # m.to /\ m.grant.clock > 0 /\ m.grant.clock <= source.clock
    BY DEF NoticesToOthers
  <2>4. \A e \in Dests \ {m.to} : active'[e] = active[e]
    BY <1>6, <1>a DEF HandleActiveState
  <2>5. active'[m.to] \in {active[m.to], m.grant}
    BY <1>6, <1>a, <2>2, <2>3 DEF HandleActiveState
  <2>6. active[m.to].clock >= m.grant.clock => active'[m.to] = active[m.to]
    BY <1>6, <2>2, <2>3 DEF HandleActiveState
  <2>7. active[m.to] = source => active'[m.to] = source
    BY <2>2, <2>3, <2>6, <1>a
  <2>8. CallingNotActive'
    BY <2>1, <2>3, <2>4, <2>5 DEF CallingNotActive
  <2>9. HolderIsAware'
    BY <2>1, <2>4, <2>7 DEF HolderIsAware
  <2> QED BY <2>1, <2>8, <2>9 DEF SingleStart, NoticesToOthers, AnswerIsGrant
<1>7. ASSUME NEW m \in notices, LoseNotice(m)
      PROVE  HolderInv'
  BY <1>7 DEF LoseNotice, SingleStart, NoticesToOthers, CallingNotActive,
              AnswerIsGrant, HolderIsAware
<1>8. ASSUME \/ \E d \in Dests : RequestFails(d) \/ DestRestart(d)
             \/ \E r \in stray : HandleStrayRequest(r)
             \/ SourceRestart
      PROVE  HolderInv'
  BY <1>8 DEF RequestFails, DestRestart, SourceRestart, SingleStart
<1>9. CASE UNCHANGED vars
  BY <1>9 DEF vars, SingleStart, NoticesToOthers, CallingNotActive,
              AnswerIsGrant, HolderIsAware
<1> QED
  BY <1>1, <1>2, <1>3, <1>4, <1>5, <1>6, <1>7, <1>8, <1>9 DEF Next, Protocol, Fault

\* As long as notifications are the only thing that gets lost, the destination
\* that receives the scroll has, or is about to have, exactly the source's grant:
\* notifications in flight never take it away, in whatever order they arrive.
THEOREM HolderAware ==
    ASSUME Faults \subseteq {"lose"}
    PROVE  Spec => []HolderIsAware
<1>1. Init => TypeOK /\ HolderInv
  BY TypeInit, HolderInit
<1>2. TypeOK /\ HolderInv /\ [Next]_vars => (TypeOK /\ HolderInv)'
  BY TypeStep, HolderStep
<1>3. TypeOK /\ HolderInv => HolderIsAware
  BY DEF HolderInv
<1> QED BY <1>1, <1>2, <1>3, PTL DEF Spec
=============================================================================
