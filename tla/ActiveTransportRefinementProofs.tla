--------------------- MODULE ActiveTransportRefinementProofs ----------------
(***************************************************************************)
(* What ActiveTransport implements, and what implements it, for every      *)
(* value of the constants and whatever goes wrong:                         *)
(*   Implements               the protocol, with the history of grants,    *)
(*                            implements GrantLog;                         *)
(*   GrantedInFlight          what is in flight was granted;               *)
(*   FocusImplementsProtocol  the composition with blockers and senders    *)
(*                            takes only the protocol's steps, so what is  *)
(*                            proved of the protocol holds for those of    *)
(*                            src/scroll (FocusKeepsGrants);               *)
(*   EveryoneTold             in the composition, with no restart of the   *)
(*                            source, every listed destination holds the   *)
(*                            latest grant or will hear of it.             *)
(***************************************************************************)
EXTENDS ActiveTransportHistory, ScrollFocus, ActiveTransportProofs

USE DestsAssumption, ConfigAssumption, BoundsAssumption

-----------------------------------------------------------------------------
\* GrantLog.

\* The history holds the source's own grant.
SourceIsGranted == source.clock > 0 => source \in granted

HistoryInv == TypeOK /\ SourceIsGranted /\ InFlightIsGranted

\* A stuttering step leaves everything in place.
LEMMA HistoryStutter ==
    ASSUME HistoryInv, UNCHANGED HVars
    PROVE  HistoryInv'
BY TypeStep DEF HistoryInv, HVars, vars, SourceIsGranted, InFlightIsGranted

LEMMA HistoryInit == HInit => HistoryInv
<1> SUFFICES ASSUME HInit PROVE HistoryInv
  OBVIOUS
<1>1. Init /\ TypeOK
  BY TypeInit DEF HInit
<1>2. source.clock = 0 /\ \A d \in Dests : handler[d] = "idle"
  BY <1>1 DEF Init, Blank
<1>3. [peer |-> Host, clock |-> 0, epoch |-> 1] \in Grants
  BY DEF Grants
<1>4. \A m \in notices : m.to \in Dests /\ m.grant.peer = Host /\ m.grant.clock = 0
  BY <1>1, <1>3, NoticesOfType DEF Init, Resets
<1>5. \A m \in notices : m.grant.peer # m.to
  BY <1>4
<1> QED BY <1>1, <1>2, <1>4, <1>5 DEF HistoryInv, SourceIsGranted, InFlightIsGranted

\* A grant the source executes enters the history, and so do its notifications.
LEMMA ExecuteStep ==
    ASSUME HistoryInv, NEW d \in Dests, NEW event, Execute(d, event), HNext
    PROVE  /\ source' = NextGrant(d, event)
           /\ source'.clock = source.clock + 1 /\ source'.epoch = source.epoch
           /\ source'.peer \in {d, Host}
           /\ granted' = granted \cup {source'}
           /\ \A m \in notices' :
                /\ m.grant.peer # m.to
                /\ m.grant.clock > 0 => m.grant \in granted'
<1> source.clock \in Nat
  BY DEF HistoryInv, TypeOK, Grants
<1>1. /\ source' = NextGrant(d, event)
      /\ source'.clock = source.clock + 1 /\ source'.epoch = source.epoch
      /\ source'.peer \in {d, Host}
  BY DEF Execute, NextGrant
<1>2. granted' = granted \cup {source'}
  BY <1>1 DEF HNext
<1>3. \A m \in NoticesOf(source') : m.grant = source' /\ m.to # source'.peer
  BY <1>1, NextGrantType, NoticesOfType DEF HistoryInv, TypeOK
<1>4. notices' = notices \cup NoticesOf(source')
  BY <1>1 DEF Execute
<1> QED BY <1>1, <1>2, <1>3, <1>4 DEF HistoryInv, InFlightIsGranted

\* A step that leaves the source alone leaves the history alone.
LEMMA HistoryIdle ==
    ASSUME HistoryInv, HNext, source' = source
    PROVE  granted' = granted
BY DEF HNext, HistoryInv, SourceIsGranted

LEMMA HistoryStep ==
    ASSUME HistoryInv, HNext
    PROVE  HistoryInv'
<1>a. TypeOK /\ TypeOK' /\ Next
  BY TypeStep DEF HistoryInv, HNext
<1>b. SourceIsGranted'
  BY DEF HNext, SourceIsGranted
<1>c. granted \subseteq granted'
  BY DEF HNext
<1> SUFFICES InFlightIsGranted'
  BY <1>a, <1>b DEF HistoryInv
<1> USE DEF InFlightIsGranted
<1>1. ASSUME NEW d \in Dests, HandleActivateRequest(d)
      PROVE  InFlightIsGranted'
  <2>1. Execute(d, handler[d])
    BY <1>1 DEF HandleActivateRequest
  <2>2. answer'[d] = source'
    BY <1>1, <2>1, <1>a, ExecuteStep DEF HandleActivateRequest, TypeOK
  <2>3. \A e \in Dests \ {d} : answer'[e] = answer[e] /\ handler'[e] = handler[e]
    BY <1>1, <1>a DEF HandleActivateRequest, TypeOK
  <2> QED BY <2>1, <2>2, <2>3, <1>c, ExecuteStep DEF HistoryInv
<1>2. ASSUME NEW r \in stray, HandleStrayRequest(r)
      PROVE  InFlightIsGranted'
  <2>1. r.from \in Dests /\ Execute(r.from, r.event) /\ UNCHANGED <<handler, answer>>
    BY <1>2, <1>a DEF HandleStrayRequest, TypeOK, Requests
  <2> QED BY <2>1, <1>c, ExecuteStep DEF HistoryInv
<1>3. ASSUME SourceRestart
      PROVE  InFlightIsGranted'
  <2> DEFINE reset == [peer |-> Host, clock |-> 0, epoch |-> source.epoch + 1]
  <2>1. reset \in Grants
    BY <1>a DEF TypeOK, Grants
  <2>2. \A m \in NoticesOf(reset) : m.grant = reset /\ m.to \in Dests
    BY <2>1, NoticesOfType
  <2>3. reset.clock = 0 /\ \A d \in Dests : reset.peer # d
    OBVIOUS
  <2>4. notices' = notices \cup NoticesOf(reset) /\ UNCHANGED <<handler, answer>>
    BY <1>3 DEF SourceRestart, Resets
  <2> HIDE DEF reset
  <2> QED BY <2>2, <2>3, <2>4, <1>c DEF HistoryInv
<1>4. ASSUME NEW d \in Dests, \/ SendActivateRequest(d) \/ SendDeactivateRequest(d)
                              \/ TakeRequest(d) \/ RejectActivateRequest(d)
                              \/ ReceiveAnswer(d) \/ RequestFails(d) \/ DestRestart(d)
      PROVE  InFlightIsGranted'
  <2>1. notices' = notices
    BY <1>4 DEF SendActivateRequest, SendDeactivateRequest, TakeRequest,
                RejectActivateRequest, ReceiveAnswer, RequestFails, DestRestart
  <2>2. \A e \in Dests : handler'[e] = "answered" =>
            handler[e] = "answered" /\ answer'[e] = answer[e]
    <3>1. CASE TakeRequest(d)
      <4>1. handler'[d] # "answered"
        <5>1. Head(queue[d]) \in Events
          BY <3>1, <1>a DEF TakeRequest, TypeOK
        <5> QED BY <3>1, <5>1, <1>a DEF TakeRequest, TypeOK, Events
      <4> QED BY <3>1, <4>1, <1>a DEF TakeRequest, TypeOK
    <3>2. CASE SendActivateRequest(d) \/ SendDeactivateRequest(d)
      BY <3>2 DEF SendActivateRequest, SendDeactivateRequest
    <3>3. CASE RejectActivateRequest(d) \/ ReceiveAnswer(d) \/ RequestFails(d) \/ DestRestart(d)
      BY <3>3, <1>a DEF RejectActivateRequest, ReceiveAnswer, RequestFails, DestRestart, TypeOK
    <3> QED BY <1>4, <3>1, <3>2, <3>3
  <2> QED BY <2>1, <2>2, <1>c DEF HistoryInv
<1>5. ASSUME NEW m \in notices, HandleActiveState(m) \/ LoseNotice(m)
      PROVE  InFlightIsGranted'
  BY <1>5, <1>c DEF HandleActiveState, LoseNotice, HistoryInv
<1> QED BY <1>a, <1>1, <1>2, <1>3, <1>4, <1>5 DEF Next, Protocol, Fault

-----------------------------------------------------------------------------
\* The initial states of the protocol are initial states of the log.
LEMMA RefinesInit == HInit => Log!Init
BY DEF HInit, Init, Log!Init, Log!Nothing, Blank

\* Every step of the protocol is a step of the log, or none.
LEMMA RefinesStep ==
    ASSUME HistoryInv, HNext
    PROVE  [Log!Next]_(Log!vars)
<1>a. TypeOK /\ Next
  BY DEF HistoryInv, HNext
<1>b. Log!Nothing = Blank
  BY DEF Log!Nothing, Blank
<1>1. ASSUME NEW d \in Dests, NEW event, Execute(d, event), active' = active
      PROVE  Log!Issue
  <2>1. source' = [peer |-> source'.peer, clock |-> source.clock + 1, epoch |-> source.epoch]
    BY <1>1 DEF Execute, NextGrant
  <2> QED BY <1>1, <2>1, ExecuteStep DEF Log!Issue
<1>2. ASSUME NEW d \in Dests, HandleActivateRequest(d)
      PROVE  Log!Issue
  BY <1>1, <1>2 DEF HandleActivateRequest
<1>3. ASSUME NEW r \in stray, HandleStrayRequest(r)
      PROVE  Log!Issue
  BY <1>1, <1>3, <1>a DEF HandleStrayRequest, TypeOK, Requests
<1>4. ASSUME SourceRestart
      PROVE  Log!Restart
  <2>1. source'.clock = 0 /\ active' = active
    BY <1>4 DEF SourceRestart, Blank
  <2>2. granted' = granted
    BY <2>1 DEF HNext
  <2> QED BY <1>b, <1>4, <2>1, <2>2 DEF SourceRestart, Log!Restart
<1>5. ASSUME NEW d \in Dests, \/ SendActivateRequest(d) \/ SendDeactivateRequest(d)
                              \/ TakeRequest(d) \/ RejectActivateRequest(d) \/ RequestFails(d)
      PROVE  UNCHANGED Log!vars
  <2>1. UNCHANGED <<source, active>>
    BY <1>5 DEF SendActivateRequest, SendDeactivateRequest, TakeRequest,
                RejectActivateRequest, RequestFails
  <2> QED BY <2>1, HistoryIdle DEF Log!vars
<1>6. ASSUME NEW d \in Dests, ReceiveAnswer(d)
      PROVE  Log!Adopt(d)
  <2>1. /\ source' = source /\ handler[d] = "answered"
        /\ active' = [active EXCEPT ![d] = answer[d]]
    BY <1>6 DEF ReceiveAnswer
  <2>2. answer[d] \in granted /\ answer[d].peer \in {d, Host}
    BY <2>1 DEF HistoryInv, InFlightIsGranted
  <2> QED BY <2>1, <2>2, HistoryIdle DEF Log!Adopt
<1>7. ASSUME NEW d \in Dests, DestRestart(d)
      PROVE  Log!Forget(d)
  BY <1>7, <1>b, HistoryIdle DEF DestRestart, Log!Forget
<1>8. ASSUME NEW m \in notices, HandleActiveState(m)
      PROVE  m.to \in Dests /\ (Log!Adopt(m.to) \/ Log!Forget(m.to) \/ UNCHANGED Log!vars)
  <2>1. source' = source /\ granted' = granted
    BY <1>8, HistoryIdle DEF HandleActiveState
  <2>2. m.to \in Dests /\ m.grant.clock \in Nat /\ active[m.to].clock \in Nat
    BY <1>a DEF TypeOK, Notices, Grants
  <2>3. CASE m.grant.clock = 0
    BY <1>8, <1>b, <2>1, <2>2, <2>3 DEF HandleActiveState, Log!Forget
  <2>4. CASE m.grant.clock # 0 /\ m.grant.clock <= active[m.to].clock
    BY <1>8, <2>1, <2>2, <2>4 DEF HandleActiveState, Log!vars
  <2>5. CASE m.grant.clock # 0 /\ m.grant.clock > active[m.to].clock
    <3>1. active' = [active EXCEPT ![m.to] = m.grant]
      BY <1>8, <2>2, <2>5 DEF HandleActiveState
    <3>2. m.grant \in granted
      BY <2>2, <2>5 DEF HistoryInv, InFlightIsGranted
    <3> QED BY <2>1, <2>2, <2>5, <3>1, <3>2 DEF Log!Adopt
  <2> QED BY <2>2, <2>3, <2>4, <2>5
<1>9. ASSUME NEW m \in notices, LoseNotice(m)
      PROVE  UNCHANGED Log!vars
  BY <1>9, HistoryIdle DEF LoseNotice, Log!vars
<1> QED
  BY <1>a, <1>2, <1>3, <1>4, <1>5, <1>6, <1>7, <1>8, <1>9
  DEF Next, Protocol, Fault, Log!Next

\* The protocol implements GrantLog: a destination holds only grants that the
\* source made, and it goes back to an older grant only when that answers a
\* request of its own.  No loss, delay, restart or late execution changes this.
THEOREM Implements == HSpec => ImplementsGrantLog
<1>1. HInit => HistoryInv /\ Log!Init
  BY HistoryInit, RefinesInit
<1>2. HistoryInv /\ [HNext]_HVars => HistoryInv'
  BY HistoryStep, HistoryStutter
<1>3. HistoryInv /\ [HNext]_HVars => [Log!Next]_(Log!vars)
  <2>1. UNCHANGED HVars => UNCHANGED Log!vars
    BY DEF HVars, vars, Log!vars
  <2> QED BY <2>1, RefinesStep
<1> QED BY <1>1, <1>2, <1>3, PTL DEF HSpec, ImplementsGrantLog, Log!Spec

\* In flight, too, there are only grants the source made; an answer is about its
\* requester, and a notification is never about its receiver.
THEOREM GrantedInFlight == HSpec => []InFlightIsGranted
<1>1. HistoryInv => InFlightIsGranted
  BY DEF HistoryInv
<1> QED BY <1>1, HistoryInit, HistoryStep, HistoryStutter, PTL DEF HSpec

-----------------------------------------------------------------------------
\* ScrollFocus.

\* The steps of the protocol that the composition takes.
ProtocolStep ==
    \/ \E d \in Dests : SendActivateRequest(d) \/ SendDeactivateRequest(d)
    \/ \E d \in Dests : TakeRequest(d) \/ HandleActivateRequest(d) \/ ReceiveAnswer(d)
    \/ \E m \in notices : Arrives(m)

LEMMA FocusStep == FocusNext => ProtocolStep \/ UNCHANGED vars
<1> SUFFICES ASSUME FocusNext PROVE ProtocolStep \/ UNCHANGED vars
    OBVIOUS
<1>1. CASE FocusMoves
    BY <1>1 DEF FocusMoves
<1>2. ASSUME NEW d \in Dests, AskUnlessActive(d) PROVE ProtocolStep \/ UNCHANGED vars
    BY <1>2 DEF AskUnlessActive, ProtocolStep
<1>3. ASSUME NEW d \in Dests, BlockScroll(d) \/ PassOther(d)
      PROVE  ProtocolStep \/ UNCHANGED vars
    BY <1>2, <1>3 DEF BlockScroll, PassOther
<1>4. ASSUME NEW d \in Dests, RouteScroll(d) \/ ScrollAges(d) \/ BlurAges(d)
      PROVE  UNCHANGED vars
    BY <1>4 DEF RouteScroll, ScrollAges, BlurAges
<1>5. ASSUME NEW d \in Dests, Inject(d) PROVE ProtocolStep \/ UNCHANGED vars
    BY <1>5 DEF Inject, ProtocolStep
<1>6. ASSUME NEW d \in Dests, Handler(d) PROVE ProtocolStep
    BY <1>6 DEF Handler, ProtocolStep
<1>7. ASSUME NEW d \in Dests, Notified(d) PROVE ProtocolStep
    BY <1>7 DEF Notified, ProtocolStep
<1> QED
    BY <1>1, <1>3, <1>4, <1>5, <1>6, <1>7 DEF FocusNext

LEMMA ProtocolStepIsNext == ProtocolStep => Next
BY DEF ProtocolStep, Arrives, Next, Protocol

\* The blockers and senders of src/scroll only use the protocol: the composition
\* implements it.
THEOREM FocusImplementsProtocol == FocusSpec => Spec
<1>1. FocusInit => Init
    BY DEF FocusInit
<1>2. [FocusNext]_allVars => [Next]_vars
    BY FocusStep, ProtocolStepIsNext DEF allVars
<1> QED
    BY <1>1, <1>2, PTL DEF FocusSpec, Spec

FocusTypesOnly ==
    /\ focus \in Dests \cup {Host}
    /\ moves \in 0 .. MaxMoves
    /\ lastScroll \in [Dests -> LastScrolls]
    /\ lastBlur \in [Dests -> LastBlurs]
    /\ routed \in [Dests -> BOOLEAN]

LEMMA FocusTypesStep == FocusTypesOnly /\ [FocusNext]_allVars => FocusTypesOnly'
<1> SUFFICES ASSUME FocusTypesOnly, [FocusNext]_allVars PROVE FocusTypesOnly'
    OBVIOUS
<1> USE FocusAssumption DEF FocusTypesOnly, LastScrolls, LastBlurs
<1>1. CASE FocusMoves
    BY <1>1 DEF FocusMoves
<1>2. ASSUME NEW d \in Dests, BlockScroll(d) PROVE FocusTypesOnly'
    BY <1>2 DEF BlockScroll
<1>3. ASSUME NEW d \in Dests, PassOther(d) \/ Handler(d) \/ Notified(d) PROVE FocusTypesOnly'
    BY <1>3 DEF PassOther, Handler, Notified, focusVars
<1>4. ASSUME NEW d \in Dests, RouteScroll(d) PROVE FocusTypesOnly'
    BY <1>4 DEF RouteScroll
<1>5. ASSUME NEW d \in Dests, Inject(d) PROVE FocusTypesOnly'
    BY <1>5 DEF Inject
<1>6. ASSUME NEW d \in Dests, ScrollAges(d) \/ BlurAges(d) PROVE FocusTypesOnly'
    BY <1>6 DEF ScrollAges, BlurAges
<1>7. CASE UNCHANGED allVars
    BY <1>7 DEF allVars, focusVars
<1> QED
    BY <1>1, <1>2, <1>3, <1>4, <1>5, <1>6, <1>7 DEF FocusNext

\* The variables of the composition keep their types: the times that blockers and
\* senders store, and the protocol's own variables.
THEOREM FocusTypes == FocusSpec => []FocusTypeOK
<1>1. FocusInit => FocusTypesOnly
    BY FocusAssumption DEF FocusInit, FocusTypesOnly, LastScrolls, LastBlurs
<1>2. FocusSpec => []FocusTypesOnly
    BY <1>1, FocusTypesStep, PTL DEF FocusSpec
<1>3. TypeOK /\ FocusTypesOnly => FocusTypeOK
    BY DEF FocusTypesOnly, FocusTypeOK
<1> QED
    BY <1>2, <1>3, FocusImplementsProtocol, TypeCorrect, PTL

\* While the user's focus moves, blockers ask and senders give back: grants stay
\* unique and, when nothing fails, the machine that the source routes the scroll to
\* knows it.
THEOREM FocusKeepsGrants ==
    ASSUME Faults \subseteq {"lose"}
    PROVE  FocusSpec => [](HolderIsAware /\ SourceIsLatest /\ GrantsAgree)
<1>1. Spec => []HolderIsAware
    BY HolderAware
<1> QED
    BY <1>1, GrantsAreUnique, FocusImplementsProtocol, PTL

-----------------------------------------------------------------------------
\* Everybody is told.

\* The source never restarts, and no reset is in flight: every grant there is
\* comes from one start.
OneEpoch == \A g \in Copies : g.clock > 0 => g.epoch = source.epoch
NoResets == \A m \in notices : m.grant.clock > 0

\* An answer that is not the latest grant is followed by a notification of it,
\* which does not overtake it.
AnsweredIsTold ==
    \A d \in ScrollDestinations : handler[d] = "answered" =>
        answer[d] = source \/ [to |-> d, grant |-> source] \in notices

ToldInv ==
    /\ UniqueInv
    /\ OneEpoch
    /\ NoResets
    /\ AnsweredIsTold
    /\ EveryoneIsTold

LEMMA ToldInit ==
    ASSUME Init, "source" \notin Faults
    PROVE  ToldInv
<1>1. UniqueInv /\ source.clock = 0 /\ notices = {}
    BY UniqueInit DEF Init, Blank
<1>2. \A d \in Dests : handler[d] = "idle" /\ active[d].clock = 0 /\ answer[d].clock = 0
    BY DEF Init, Blank
<1>3. \A g \in Copies : g.clock = 0
    BY <1>1, <1>2 DEF Copies
<1> QED
    BY <1>1, <1>2, <1>3 DEF ToldInv, OneEpoch, NoResets, AnsweredIsTold, EveryoneIsTold

\* Nobody but the source makes grants, and it goes on in its epoch.
LEMMA EpochStep ==
    ASSUME TypeOK, OneEpoch, NoResets, ProtocolStep
    PROVE  OneEpoch' /\ NoResets'
<1>1. source'.epoch = source.epoch
    <2>1. ASSUME NEW d \in Dests, HandleActivateRequest(d) PROVE source'.epoch = source.epoch
        BY <2>1 DEF HandleActivateRequest, Execute, NextGrant
    <2>2. ASSUME NEW d \in Dests, \/ SendActivateRequest(d) \/ SendDeactivateRequest(d)
                                  \/ TakeRequest(d) \/ ReceiveAnswer(d)
          PROVE  source' = source
        BY <2>2 DEF SendActivateRequest, SendDeactivateRequest, TakeRequest, ReceiveAnswer
    <2>3. ASSUME NEW m \in notices, Arrives(m) PROVE source' = source
        BY <2>3 DEF Arrives, HandleActiveState
    <2> QED BY <2>1, <2>2, <2>3 DEF ProtocolStep
<1>2. \A g \in Copies' : CopyMoves(g)
    BY CopiesStep, ProtocolStepIsNext DEF Copies, CopyMoves
<1>3. OneEpoch'
    <2> SUFFICES ASSUME NEW g \in Copies', g.clock > 0 PROVE g.epoch = source'.epoch
        BY DEF OneEpoch
    <2> QED BY <1>1, <1>2 DEF CopyMoves, OneEpoch
<1>4. NoResets'
    <2>1. ASSUME NEW d \in Dests, HandleActivateRequest(d) PROVE NoResets'
        <3>1. /\ NextGrant(d, handler[d]) \in Grants
              /\ notices' = notices \cup NoticesOf(NextGrant(d, handler[d]))
            BY <2>1, NextGrantType DEF TypeOK, HandleActivateRequest, Execute
        <3>2. NextGrant(d, handler[d]).clock > 0
            BY DEF NextGrant, TypeOK, Grants
        <3> QED BY <3>1, <3>2, NoticesOfType DEF NoResets
    <2>2. ASSUME NEW d \in Dests, \/ SendActivateRequest(d) \/ SendDeactivateRequest(d)
                                  \/ TakeRequest(d) \/ ReceiveAnswer(d)
          PROVE  NoResets'
        BY <2>2 DEF NoResets, SendActivateRequest, SendDeactivateRequest, TakeRequest, ReceiveAnswer
    <2>3. ASSUME NEW m \in notices, Arrives(m) PROVE NoResets'
        BY <2>3 DEF NoResets, Arrives, HandleActiveState
    <2> QED BY <2>1, <2>2, <2>3 DEF ProtocolStep
<1> QED BY <1>3, <1>4

\* A notification that tells of the latest grant leaves its receiver with it.
LEMMA LatestIsAdopted ==
    ASSUME ToldInv, NEW m \in notices, HandleActiveState(m)
    PROVE  /\ \A d \in Dests \ {m.to} : active'[d] = active[d]
           /\ active[m.to] = source => active'[m.to] = source
           /\ m.grant = source => active'[m.to] = source
<1> TypeOK
    BY DEF ToldInv, UniqueInv
<1>1. /\ m.to \in Dests /\ m.grant \in Grants /\ active[m.to] \in Grants /\ source \in Grants
    BY DEF TypeOK, Notices
<1>2. {m.grant, active[m.to], source} \subseteq Copies
    BY <1>1 DEF Copies
<1>3. m.grant.clock > 0
    BY DEF ToldInv, NoResets
<1>4. active' = IF m.grant.clock <= active[m.to].clock THEN active
                ELSE [active EXCEPT ![m.to] = m.grant]
    BY <1>1, <1>3 DEF HandleActiveState, Grants
<1>5. \A g \in Copies : g.clock > 0 => g.epoch = source.epoch
    BY DEF ToldInv, OneEpoch
<1>6. \A g \in Copies : g.epoch = source.epoch => g.clock <= source.clock
    BY DEF ToldInv, UniqueInv, SourceIsLatest
<1>7. \A g \in Copies : g.epoch = source.epoch /\ g.clock = source.clock /\ g.clock > 0
                            => g.peer = source.peer
    BY <1>2 DEF ToldInv, UniqueInv, GrantsAgree
<1>8. active[m.to] = source => active'[m.to] = source
    BY <1>1, <1>2, <1>3, <1>4, <1>5, <1>6 DEF Grants
<1>9. ASSUME m.grant = source PROVE active'[m.to] = source
    <2>1. CASE source.clock <= active[m.to].clock
        <3>1. active[m.to].clock > 0
            BY <1>1, <1>3, <1>9, <2>1 DEF Grants
        <3>2. active[m.to].epoch = source.epoch /\ active[m.to].clock = source.clock
            BY <1>1, <1>2, <1>5, <1>6, <2>1, <3>1 DEF Grants
        <3>3. active[m.to] = source
            BY <1>1, <1>2, <1>7, <3>1, <3>2 DEF Grants
        <3> QED BY <1>8, <3>3
    <2>2. CASE ~(source.clock <= active[m.to].clock)
        BY <1>1, <1>4, <1>9, <2>2 DEF TypeOK
    <2> QED BY <2>1, <2>2
<1>10. \A d \in Dests \ {m.to} : active'[d] = active[d]
    BY <1>4 DEF TypeOK
<1> QED BY <1>8, <1>9, <1>10

LEMMA ToldStep ==
    ASSUME ToldInv, ProtocolStep, ~Overtaking
    PROVE  ToldInv'
<1> DEFINE Goal == AnsweredIsTold' /\ EveryoneIsTold'
<1> TypeOK /\ AnsweredIsTold /\ EveryoneIsTold
    BY DEF ToldInv, UniqueInv
<1>0. ScrollDestinations \subseteq Dests
    OBVIOUS
<1>1. ASSUME NEW d \in Dests, SendActivateRequest(d) \/ SendDeactivateRequest(d)
      PROVE  Goal
    BY <1>1 DEF SendActivateRequest, SendDeactivateRequest, AnsweredIsTold, EveryoneIsTold
<1>2. ASSUME NEW d \in Dests, TakeRequest(d)
      PROVE  Goal
    <2>1. UNCHANGED <<source, active, answer, notices>>
        BY <1>2 DEF TakeRequest
    <2>2. handler[d] = "idle" /\ \A e \in Dests \ {d} : handler'[e] = handler[e]
        BY <1>2 DEF TakeRequest, TypeOK
    <2>3. handler'[d] # "answered"
        <3>1. Head(queue[d]) \in Events
            BY <1>2 DEF TakeRequest, TypeOK
        <3> QED BY <1>2, <2>2, <3>1 DEF TakeRequest, TypeOK, Events
    <2> QED BY <1>0, <2>1, <2>2, <2>3 DEF AnsweredIsTold, EveryoneIsTold
<1>3. ASSUME NEW d \in Dests, HandleActivateRequest(d)
      PROVE  Goal
    <2> DEFINE g == NextGrant(d, handler[d])
    <2>1. /\ source' = g /\ notices' = notices \cup NoticesOf(g)
          /\ answer'[d] = g /\ handler'[d] = "answered"
        BY <1>3 DEF HandleActivateRequest, Execute, TypeOK
    <2>2. g.peer \in {d, Host}
        BY DEF NextGrant
    <2>3. \A e \in ScrollDestinations \ {d} : [to |-> e, grant |-> g] \in NoticesOf(g)
        BY <2>2, <1>0 DEF NoticesOf
    <2> HIDE DEF g
    <2> QED BY <2>1, <2>3 DEF AnsweredIsTold, EveryoneIsTold
<1>4. ASSUME NEW d \in Dests, ReceiveAnswer(d)
      PROVE  Goal
    <2>1. /\ UNCHANGED <<source, notices>>
          /\ handler[d] = "answered" /\ handler'[d] = "idle" /\ active'[d] = answer[d]
        BY <1>4 DEF ReceiveAnswer, TypeOK
    <2>2. \A e \in Dests \ {d} : /\ active'[e] = active[e] /\ answer'[e] = answer[e]
                                 /\ handler'[e] = handler[e]
        BY <1>4 DEF ReceiveAnswer, TypeOK
    <2> QED BY <1>0, <2>1, <2>2 DEF AnsweredIsTold, EveryoneIsTold
<1>5. ASSUME NEW m \in notices, Arrives(m)
      PROVE  Goal
    <2>1. HandleActiveState(m) /\ (handler[m.to] = "answered" => answer[m.to].clock > m.grant.clock)
        BY <1>5 DEF Arrives
    <2>2. UNCHANGED <<source, handler, answer>> /\ notices' = notices \ {m}
        BY <2>1 DEF HandleActiveState
    <2>3. m.to \in Dests /\ source \in Grants /\ answer[m.to] \in Grants
        BY DEF TypeOK, Notices
    <2>4. ASSUME NEW d \in ScrollDestinations, m = [to |-> d, grant |-> source]
          PROVE  active'[d] = source /\ handler[d] # "answered"
        <3>1. m.to = d /\ m.grant = source
            BY <2>4
        <3>2. active'[d] = source
            BY <2>1, <3>1, LatestIsAdopted
        <3>3. ~(answer[d].clock > source.clock)
            <4>1. answer[d] \in Copies /\ (answer[d].clock > 0 => answer[d].epoch = source.epoch)
                BY <1>0 DEF Copies, ToldInv, OneEpoch
            <4> QED BY <2>3, <3>1, <4>1 DEF ToldInv, UniqueInv, SourceIsLatest, Grants
        <3> QED BY <2>1, <3>1, <3>2, <3>3
    <2>5. AnsweredIsTold'
        BY <2>2, <2>4 DEF AnsweredIsTold
    <2>6. EveryoneIsTold'
        <3> SUFFICES ASSUME NEW d \in ScrollDestinations, source.clock > 0
                     PROVE  \/ active'[d] = source
                            \/ handler[d] = "answered" /\ answer[d] = source
                            \/ [to |-> d, grant |-> source] \in notices'
            BY <2>2 DEF EveryoneIsTold
        <3>1. CASE active[d] = source
            BY <1>0, <2>1, <3>1, LatestIsAdopted
        <3>2. CASE active[d] # source
            BY <2>2, <2>4, <3>2 DEF EveryoneIsTold
        <3> QED BY <3>1, <3>2
    <2> QED BY <2>5, <2>6
<1>6. Goal
    BY <1>1, <1>2, <1>3, <1>4, <1>5 DEF ProtocolStep
<1> QED
    BY <1>6, UniqueStep, EpochStep, ProtocolStepIsNext DEF ToldInv

LEMMA ToldStutter ==
    ASSUME ToldInv, UNCHANGED vars
    PROVE  ToldInv'
<1>1. UniqueInv'
    BY UniqueStep DEF ToldInv
<1>2. Copies' = Copies
    BY DEF vars, Copies
<1> QED
    BY <1>1, <1>2 DEF ToldInv, vars, OneEpoch, NoResets, AnsweredIsTold, EveryoneIsTold

\* While nothing fails and no notification overtakes an answer, every listed
\* destination holds the latest grant or is about to be told of it: when nothing
\* is in flight all of them agree with the source on who has the scroll.
THEOREM EveryoneTold ==
    ASSUME "source" \notin Faults, ~Overtaking
    PROVE  FocusSpec => []EveryoneIsTold
<1>1. FocusInit => ToldInv
    BY ToldInit DEF FocusInit
<1>2. ToldInv /\ [FocusNext]_allVars => ToldInv'
    BY FocusStep, ToldStep, ToldStutter DEF allVars
<1>3. ToldInv => EveryoneIsTold
    BY DEF ToldInv
<1> QED
    BY <1>1, <1>2, <1>3, PTL DEF FocusSpec
=============================================================================
