--------------------------- MODULE GuestInputProofs ---------------------------
(***************************************************************************)
(* Theorems about GuestInput, for any devices, times and lags, those of    *)
(* the code among them:                                                    *)
(*   GuestTypes      the variables keep their types;                       *)
(*   ReleaseInTime   a guest that was left gives the scroll back within    *)
(*                   ReleaseTime: the sender finds it Unused, a routed     *)
(*                   event marks the blur (MarkedStep) and a later one     *)
(*                   makes the request (EndingStep);                       *)
(*   UsedGuestKeeps  a guest in use does not give it back: its own events  *)
(*                   are stamped in time (StampedStep).                    *)
(* The last two rest on Punctual: nothing waits for longer than its lag.   *)
(* ClicksAgree and ScrollingBackUndoes are about the numbers of a frame,   *)
(* FramesAgree about the frame that is written with them, for every delta, *)
(* and WrittenFramesAgree says so of the frames that the sender writes.    *)
(***************************************************************************)
EXTENDS GuestInput, SequenceTheorems, TLAPS

USE GuestAssumption

-----------------------------------------------------------------------------
\* Types.

Reports == [kind : Kinds, at : Times]
Steps == {"new", "read", "store", "ask", "ended"}
Requests == {"activate", "deactivate"}
Calls == {"idle", "activate", "activated", "deactivate", "deactivated"}

TimeTypes ==
    /\ clock \in Times /\ since \in Times /\ scrolledAt \in Times
    /\ lastScroll \in Times /\ lastBlur \in Times /\ now \in Times /\ failedAt \in Times
UserTypes == focus \in {"guest", "elsewhere"} /\ moves \in 0 .. MaxMoves
OwnTypes == own \in [Devices -> Seq(Reports)]
RoutedTypes == routed \in Seq(Times)
ThreadTypes ==
    /\ blocker \in [Devices -> Steps] /\ stamp \in [Devices -> Times]
    /\ sender \in {"recv", "scroll", "blur", "write"}
RequestTypes ==
    /\ granted \in BOOLEAN /\ hostActive \in BOOLEAN /\ handler \in Calls
    /\ requests \in Seq(Requests) /\ Len(requests) <= RequestCap

Types ==
    /\ TimeTypes /\ UserTypes /\ OwnTypes /\ RoutedTypes /\ ThreadTypes /\ RequestTypes

\* The numbers, without their bound.
LEMMA Numbers ==
    ASSUME Types
    PROVE  /\ clock \in Nat /\ since \in Nat /\ scrolledAt \in Nat
           /\ lastScroll \in Nat /\ lastBlur \in Nat /\ now \in Nat /\ failedAt \in Nat
           /\ SCROLL_TTL \in Nat /\ BLUR_TTL \in Nat /\ OwnLag \in Nat /\ RoutedLag \in Nat
           /\ Pause \in Nat /\ Pause > 0 /\ RequestCap \in Nat /\ RequestCap > 0
           /\ MaxTime \in Nat /\ MaxTime > 0
    BY DEF Types, TimeTypes, Times

\* What a queue gains and loses.
LEMMA Appended ==
    ASSUME NEW S, NEW q \in Seq(S), NEW x \in S
    PROVE  /\ Append(q, x) \in Seq(S) /\ Len(Append(q, x)) = Len(q) + 1
           /\ \A i \in DOMAIN q : i \in DOMAIN Append(q, x) /\ Append(q, x)[i] = q[i]
           /\ \E i \in DOMAIN Append(q, x) : Append(q, x)[i] = x
           /\ \A i \in DOMAIN Append(q, x) :
                Append(q, x)[i] = x \/ (i \in DOMAIN q /\ Append(q, x)[i] = q[i])
<1>1. /\ Len(q) \in Nat /\ DOMAIN q = 1 .. Len(q) /\ DOMAIN Append(q, x) = 1 .. Len(q) + 1
      /\ Append(q, x) \in Seq(S) /\ Len(Append(q, x)) = Len(q) + 1
    BY LenProperties
<1>2. \A i \in 1 .. Len(q) : Append(q, x)[i] = q[i]
    BY <1>1
<1>3. Append(q, x)[Len(q) + 1] = x
    BY <1>1
<1>4. \A i \in 1 .. Len(q) + 1 : i = Len(q) + 1 \/ i \in 1 .. Len(q)
    BY <1>1
<1> QED
    BY <1>1, <1>2, <1>3, <1>4

LEMMA AppendedItems ==
    ASSUME NEW S, NEW q \in Seq(S), NEW x \in S, NEW i \in DOMAIN Append(q, x)
    PROVE  Append(q, x)[i] = x \/ (i \in DOMAIN q /\ Append(q, x)[i] = q[i])
<1>1. /\ Len(q) \in Nat /\ DOMAIN q = 1 .. Len(q) /\ DOMAIN Append(q, x) = 1 .. Len(q) + 1
    BY LenProperties
<1>2. i = Len(q) + 1 \/ i \in 1 .. Len(q)
    BY <1>1
<1> QED
    BY <1>1, <1>2

LEMMA Taken ==
    ASSUME NEW S, NEW q \in Seq(S), q # << >>
    PROVE  /\ Head(q) \in S /\ Head(q) = q[1] /\ 1 \in DOMAIN q
           /\ Tail(q) \in Seq(S) /\ Len(Tail(q)) = Len(q) - 1 /\ Len(q) \in Nat
           /\ \A i \in DOMAIN Tail(q) : i + 1 \in DOMAIN q /\ Tail(q)[i] = q[i + 1]
           /\ \A i \in DOMAIN q : i # 1 => i - 1 \in DOMAIN Tail(q) /\ Tail(q)[i - 1] = q[i]
<1>1. Len(q) \in Nat /\ Len(q) # 0 /\ DOMAIN q = 1 .. Len(q)
    BY EmptySeq, LenProperties
<1>2. Tail(q) \in Seq(S) /\ Len(Tail(q)) = Len(q) - 1 /\ DOMAIN Tail(q) = 1 .. Len(q) - 1
    BY <1>1
<1>3. Head(q) \in S /\ Head(q) = q[1] /\ 1 \in DOMAIN q
    BY <1>1
<1>4. \A i \in 1 .. Len(q) - 1 : i + 1 \in DOMAIN q /\ Tail(q)[i] = q[i + 1]
    BY <1>1, <1>2
<1>5. ASSUME NEW i \in DOMAIN q, i # 1
      PROVE  i - 1 \in DOMAIN Tail(q) /\ Tail(q)[i - 1] = q[i]
  <2>1. i - 1 \in 1 .. Len(q) - 1 /\ (i - 1) + 1 = i
    BY <1>1, <1>5
  <2> QED
    BY <1>2, <1>4, <2>1
<1> QED
    BY <1>1, <1>2, <1>3, <1>4, <1>5

LEMMA TypesInit == Init => Types
<1> SUFFICES ASSUME Init PROVE Types
    OBVIOUS
<1>1. TimeTypes
    BY DEF Init, TimeTypes, Times
<1>2. UserTypes /\ ThreadTypes
  <2>1. 0 \in Times
    BY DEF Times
  <2> QED
    BY <2>1 DEF Init, UserTypes, ThreadTypes, Steps
<1>3. OwnTypes /\ RoutedTypes /\ RequestTypes
  <2>1. << >> \in Seq(Requests) /\ Len(<< >>) = 0 /\ 0 <= RequestCap
    OBVIOUS
  <2>2. RequestTypes
    BY <2>1 DEF Init, RequestTypes, Calls
  <2> QED
    BY <2>2 DEF Init, OwnTypes, RoutedTypes
<1> QED
    BY <1>1, <1>2, <1>3 DEF Types

LEMMA TrySendTypes ==
    ASSUME Types, NEW r \in Requests, TrySend(r), hostActive' = hostActive,
           granted' = granted, handler' = handler
    PROVE  RequestTypes'
<1>1. requests \in Seq(Requests) /\ Len(requests) <= RequestCap /\ Len(requests) \in Nat
    BY DEF Types, RequestTypes
<1>2. Append(requests, r) \in Seq(Requests) /\ Len(Append(requests, r)) = Len(requests) + 1
    BY <1>1, Appended
<1>3. requests' \in Seq(Requests) /\ Len(requests') <= RequestCap
    BY <1>1, <1>2, Numbers DEF TrySend
<1> QED
    BY <1>3 DEF Types, RequestTypes

LEMMA RouteTypes ==
    ASSUME Types, RouteScroll
    PROVE  RoutedTypes'
<1>1. Append(routed, clock) \in Seq(Times)
    BY Appended DEF Types, RoutedTypes, TimeTypes
<1> QED
    BY <1>1 DEF RouteScroll, Types, RoutedTypes

LEMMA ReportTypes ==
    ASSUME Types, NEW d \in Devices, NEW kind \in Kinds, Reported(d, kind)
    PROVE  OwnTypes'
<1> DEFINE e == [kind |-> kind, at |-> clock]
<1>1. e \in Reports
    BY DEF Reports, Types, TimeTypes
<1>2. own' = IF blocker[d] \in {"new", "ended"} THEN own
             ELSE [own EXCEPT ![d] = Append(own[d], e)]
    BY DEF Reported
<1> HIDE DEF e
<1>3. own[d] \in Seq(Reports)
    BY DEF Types, OwnTypes
<1>4. Append(own[d], e) \in Seq(Reports)
    BY <1>1, <1>3, Appended
<1> QED
    BY <1>2, <1>4 DEF Types, OwnTypes

LEMMA TypesStep == Types /\ [Next]_vars => Types'
<1> SUFFICES ASSUME Types, [Next]_vars PROVE Types'
    OBVIOUS
<1> USE DEF Types, userVars, protocolVars, blockerVars, senderVars
<1>1. CASE UNCHANGED vars
    BY <1>1 DEF TimeTypes, UserTypes, OwnTypes, RoutedTypes, ThreadTypes, RequestTypes, vars
<1>2. CASE Tick
  <2>1. TimeTypes'
    BY <1>2 DEF Tick, TimeTypes, Times
  <2> QED
    BY <1>2, <2>1 DEF Tick, UserTypes, OwnTypes, RoutedTypes, ThreadTypes, RequestTypes
<1>3. CASE FocusMoves
  <2>1. UserTypes' /\ TimeTypes'
    BY <1>3 DEF FocusMoves, UserTypes, TimeTypes
  <2> QED
    BY <1>3, <2>1 DEF FocusMoves, OwnTypes, RoutedTypes, ThreadTypes, RequestTypes
<1>4. ASSUME NEW d \in Devices, UserScrolls(d) PROVE Types'
  <2>1. OwnTypes' /\ RoutedTypes'
    BY <1>4, ReportTypes, RouteTypes DEF UserScrolls, Kinds
  <2> QED
    BY <1>4, <2>1 DEF UserScrolls, TimeTypes, UserTypes, ThreadTypes, RequestTypes
<1>5. ASSUME NEW d \in Devices, UserMoves(d) PROVE Types'
  <2>1. OwnTypes'
    BY <1>5, ReportTypes DEF UserMoves, Kinds
  <2> QED
    BY <1>5, <2>1 DEF UserMoves, TimeTypes, UserTypes, RoutedTypes, ThreadTypes, RequestTypes
<1>6. CASE ScrollsElsewhere
  <2>1. RoutedTypes'
    BY <1>6, RouteTypes DEF ScrollsElsewhere
  <2> QED
    BY <1>6, <2>1 DEF ScrollsElsewhere, TimeTypes, UserTypes, OwnTypes, ThreadTypes, RequestTypes
<1>7. ASSUME NEW d \in Devices, Grab(d) PROVE Types'
  <2>1. ThreadTypes'
    BY <1>7 DEF Grab, ThreadTypes, Steps
  <2> QED
    BY <1>7, <2>1 DEF Grab, TimeTypes, UserTypes, OwnTypes, RoutedTypes, RequestTypes
<1>8. ASSUME NEW d \in Devices, ReadEvent(d) PROVE Types'
  <2>1. OwnTypes'
    <3>1. own[d] \in Seq(Reports) /\ own[d] # << >> /\ own' = [own EXCEPT ![d] = Tail(own[d])]
      BY <1>8 DEF ReadEvent, OwnTypes
    <3>2. Tail(own[d]) \in Seq(Reports)
      BY <3>1, Taken
    <3> QED
      BY <3>1, <3>2 DEF OwnTypes
  <2>2. ThreadTypes'
    BY <1>8 DEF ReadEvent, ThreadTypes, Steps, TimeTypes
  <2> QED
    BY <1>8, <2>1, <2>2 DEF ReadEvent, TimeTypes, UserTypes, RoutedTypes, RequestTypes
<1>9. ASSUME NEW d \in Devices, StoreScroll(d) PROVE Types'
  <2>1. 0 \in Times
    BY DEF Times
  <2>2. ThreadTypes' /\ TimeTypes'
    BY <1>9, <2>1 DEF StoreScroll, ThreadTypes, Steps, TimeTypes
  <2> QED
    BY <1>9, <2>2 DEF StoreScroll, UserTypes, OwnTypes, RoutedTypes, RequestTypes
<1>10. ASSUME NEW d \in Devices, Ask(d) PROVE Types'
  <2>1. RequestTypes'
    BY <1>10, TrySendTypes DEF Ask, RequestTypes, Requests
  <2>2. ThreadTypes'
    BY <1>10 DEF Ask, ThreadTypes, Steps
  <2> QED
    BY <1>10, <2>1, <2>2 DEF Ask, TimeTypes, UserTypes, OwnTypes, RoutedTypes
<1>11. ASSUME NEW d \in Devices, BlockerEnds(d) PROVE Types'
  <2>1. OwnTypes' /\ ThreadTypes'
    BY <1>11 DEF BlockerEnds, OwnTypes, ThreadTypes, Steps
  <2> QED
    BY <1>11, <2>1 DEF BlockerEnds, TimeTypes, UserTypes, RoutedTypes, RequestTypes
<1>12. CASE TakeRouted
  <2>1. RoutedTypes'
    BY <1>12, Taken DEF TakeRouted, RoutedTypes
  <2>2. ThreadTypes' /\ TimeTypes'
    BY <1>12 DEF TakeRouted, ThreadTypes, TimeTypes
  <2> QED
    BY <1>12, <2>1, <2>2 DEF TakeRouted, UserTypes, OwnTypes, RequestTypes
<1>13. CASE TestScroll \/ TestBlur \/ Replay
  <2>1. 0 \in Times
    BY DEF Times
  <2>2. ThreadTypes' /\ TimeTypes'
    BY <1>13, <2>1 DEF TestScroll, TestBlur, Replay, ThreadTypes, TimeTypes
  <2> QED
    BY <1>13, <2>2 DEF TestScroll, TestBlur, Replay, UserTypes, OwnTypes, RoutedTypes, RequestTypes
<1>14. CASE GiveBack
  <2>1. 0 \in Times
    BY DEF Times
  <2>2. ThreadTypes' /\ TimeTypes'
    BY <1>14, <2>1 DEF GiveBack, ThreadTypes, TimeTypes
  <2>3. RequestTypes'
    BY <1>14, TrySendTypes DEF GiveBack, RequestTypes, Requests
  <2> QED
    BY <1>14, <2>2, <2>3 DEF GiveBack, UserTypes, OwnTypes, RoutedTypes
<1>15. CASE TakeRequest
  <2>1. requests \in Seq(Requests) /\ requests # << >> /\ Len(requests) <= RequestCap
    BY <1>15 DEF TakeRequest, RequestTypes
  <2>2. /\ Tail(requests) \in Seq(Requests) /\ Len(Tail(requests)) = Len(requests) - 1
        /\ Len(requests) \in Nat /\ Head(requests) \in Requests
    BY <2>1, Taken
  <2>3. requests' \in Seq(Requests) /\ Len(requests') <= RequestCap
    BY <1>15, <2>1, <2>2, Numbers DEF TakeRequest
  <2>4. handler' \in Calls
    BY <1>15, <2>2 DEF TakeRequest, Requests, Calls
  <2>5. RequestTypes'
    BY <1>15, <2>3, <2>4 DEF TakeRequest, RequestTypes
  <2>6. TimeTypes' /\ UserTypes' /\ OwnTypes' /\ RoutedTypes' /\ ThreadTypes'
    BY <1>15 DEF TakeRequest, TimeTypes, UserTypes, OwnTypes, RoutedTypes, ThreadTypes
  <2> QED
    BY <2>5, <2>6
<1>16. CASE Execute \/ OthersDecide \/ AnswerRequest \/ RequestFails \/ TakenAway
  <2>1. /\ granted' \in BOOLEAN /\ hostActive' \in BOOLEAN /\ requests' = requests
        /\ handler' \in {handler, "idle", "activated", "deactivated"}
    BY <1>16 DEF Execute, OthersDecide, AnswerRequest, RequestFails, TakenAway, RequestTypes
  <2>2. RequestTypes'
    BY <2>1 DEF RequestTypes, Calls
  <2>3. TimeTypes'
    BY <1>16 DEF Execute, OthersDecide, AnswerRequest, RequestFails, TakenAway, TimeTypes
  <2>4. UserTypes'
    BY <1>16 DEF Execute, OthersDecide, AnswerRequest, RequestFails, TakenAway, UserTypes
  <2>5. OwnTypes' /\ RoutedTypes' /\ ThreadTypes'
    BY <1>16 DEF Execute, OthersDecide, AnswerRequest, RequestFails, TakenAway, OwnTypes,
                 RoutedTypes, ThreadTypes
  <2> QED
    BY <2>2, <2>3, <2>4, <2>5
<1> QED
    BY <1>1, <1>2, <1>3, <1>4, <1>5, <1>6, <1>7, <1>8, <1>9, <1>10, <1>11, <1>12, <1>13, <1>14,
       <1>15, <1>16
    DEF Next, Protocol, Blocker, Sender

\* Whatever the threads and the user do, the variables keep their types and the request
\* channel its capacity (Transport::send_activate_request).
THEOREM GuestTypes == Spec => []TypeOK
<1>1. Types => TypeOK
    BY DEF Types, TimeTypes, UserTypes, OwnTypes, RoutedTypes, ThreadTypes, RequestTypes, TypeOK,
           Reports, Steps, Requests, Calls
<1> QED
    BY <1>1, TypesInit, TypesStep, PTL DEF Spec

-----------------------------------------------------------------------------
\* The protocol leaves the user, the clock and the threads alone.
LEMMA ProtocolLeaves ==
    ASSUME Protocol
    PROVE  /\ since' \in {since, clock} /\ clock' = clock /\ focus' = focus
           /\ UNCHANGED <<scrolledAt, lastScroll, lastBlur, sender, now, routed, own, blocker,
                          stamp>>
    BY DEF Protocol, TakeRequest, Execute, OthersDecide, AnswerRequest, RequestFails, TakenAway,
           userVars, blockerVars, senderVars

\* Time.

\* The subtraction of two times does not wrap when the later one comes first.
LEMMA MinusIsExact ==
    ASSUME NEW a \in Times, NEW b \in Times, b <= a
    PROVE  Minus(a, b) = a - b
<1>1. MaxTime \in Nat /\ MaxTime < 2 ^ Width /\ Width \in Nat
    OBVIOUS
<1>2. 2 ^ Width \in Nat
    BY <1>1
<1>3. ASSUME NEW x \in Nat, NEW n \in Nat, x < n PROVE x % n = x
    BY <1>3
<1>4. a - b \in Nat /\ a - b < 2 ^ Width
    BY <1>1, <1>2 DEF Times
<1> QED
    BY <1>1, <1>2, <1>3, <1>4 DEF Minus

\* With Prompt, what is under way was begun now, what waits has not waited for longer than
\* its lag, and an event or a stamp of a guest that was left is not later than that.
PastTimes ==
    /\ clock >= 1 /\ since <= clock /\ scrolledAt <= clock /\ clock <= scrolledAt + Pause
    /\ lastScroll <= clock /\ lastBlur <= clock
    /\ sender # "recv" => now = clock
    /\ focus = "guest" => since >= 1
    /\ focus = "elsewhere" => lastScroll <= since + OwnLag
RoutedTimes == \A i \in DOMAIN routed : routed[i] <= clock /\ clock <= routed[i] + RoutedLag
OwnTimes ==
    \A d \in Devices : \A i \in DOMAIN own[d] :
        /\ own[d][i].at <= clock /\ clock <= own[d][i].at + OwnLag
        /\ focus = "elsewhere" => own[d][i].at <= since
StampTimes ==
    \A d \in Devices :
        /\ blocker[d] = "new" => clock = 1
        /\ blocker[d] = "store" =>
            stamp[d] = clock /\ (focus = "elsewhere" => clock <= since + OwnLag)

Punctual == PastTimes /\ RoutedTimes /\ OwnTimes /\ StampTimes

LEMMA PunctualInit == Init => Punctual
BY DEF Init, Punctual, PastTimes, RoutedTimes, OwnTimes, StampTimes

\* Both queues, and what a step leaves of them.
LEMMA RoutedStep ==
    ASSUME Types, RoutedTimes, clock' = clock,
           routed' = routed \/ RouteScroll \/ (routed # << >> /\ routed' = Tail(routed))
    PROVE  RoutedTimes'
<1>1. CASE routed' = routed
    BY <1>1 DEF RoutedTimes
<1>2. CASE RouteScroll
  <2>1. routed \in Seq(Times) /\ clock \in Times
    BY DEF Types, RoutedTypes, TimeTypes
  <2>2. \A i \in DOMAIN Append(routed, clock) :
            Append(routed, clock)[i] = clock
                \/ (i \in DOMAIN routed /\ Append(routed, clock)[i] = routed[i])
    BY <2>1, Appended
  <2>3. routed' = routed \/ routed' = Append(routed, clock)
    BY <1>2 DEF RouteScroll
  <2>4. ASSUME NEW i \in DOMAIN routed'
        PROVE  routed'[i] = clock \/ (i \in DOMAIN routed /\ routed'[i] = routed[i])
    BY <2>2, <2>3, <2>4
  <2>5. clock <= clock /\ clock <= clock + RoutedLag
    BY Numbers
  <2> QED
    BY <2>4, <2>5 DEF RoutedTimes
<1>3. CASE routed # << >> /\ routed' = Tail(routed)
  <2>1. \A i \in DOMAIN Tail(routed) : i + 1 \in DOMAIN routed /\ Tail(routed)[i] = routed[i + 1]
    BY <1>3, Taken DEF Types, RoutedTypes
  <2> QED
    BY <1>3, <2>1 DEF RoutedTimes
<1> QED
    BY <1>1, <1>2, <1>3

LEMMA ReportedTimes ==
    ASSUME Types, OwnTimes, NEW d \in Devices, NEW kind \in Kinds, Reported(d, kind),
           focus = "guest", focus' = focus, clock' = clock
    PROVE  OwnTimes'
<1> DEFINE e == [kind |-> kind, at |-> clock]
<1>1. own[d] \in Seq(Reports) /\ e \in Reports /\ e.at = clock
    BY DEF Types, OwnTypes, TimeTypes, Reports
<1>2. own' = own \/ own' = [own EXCEPT ![d] = Append(own[d], e)]
    BY DEF Reported
<1> HIDE DEF e
<1>3. \A i \in DOMAIN Append(own[d], e) :
          Append(own[d], e)[i] = e
              \/ (i \in DOMAIN own[d] /\ Append(own[d], e)[i] = own[d][i])
    BY <1>1, AppendedItems
<1>4. ASSUME NEW c \in Devices, NEW i \in DOMAIN own'[c]
      PROVE  own'[c][i].at = clock \/ (i \in DOMAIN own[c] /\ own'[c][i] = own[c][i])
  <2>1. CASE own' = own
    BY <1>4, <2>1
  <2>2. CASE own' = [own EXCEPT ![d] = Append(own[d], e)]
    <3>1. own'[c] = IF c = d THEN Append(own[d], e) ELSE own[c]
      BY <2>2 DEF Types, OwnTypes
    <3> QED
      BY <1>1, <1>3, <1>4, <3>1
  <2> QED
    BY <1>2, <2>1, <2>2
<1>5. ASSUME NEW c \in Devices, NEW i \in DOMAIN own'[c]
      PROVE  own'[c][i].at <= clock /\ clock <= own'[c][i].at + OwnLag
    BY <1>4, <1>5, Numbers DEF OwnTimes
<1> QED
    BY <1>5 DEF OwnTimes

LEMMA ReadTimes ==
    ASSUME Types, OwnTimes, StampTimes, NEW d \in Devices, ReadEvent(d)
    PROVE  OwnTimes' /\ StampTimes'
<1>1. /\ own[d] \in Seq(Reports) /\ own[d] # << >> /\ own' = [own EXCEPT ![d] = Tail(own[d])]
      /\ clock' = clock /\ focus' = focus /\ since' = since
    BY DEF ReadEvent, Types, OwnTypes, userVars
<1>2. \A i \in DOMAIN Tail(own[d]) :
          i + 1 \in DOMAIN own[d] /\ Tail(own[d])[i] = own[d][i + 1]
    BY <1>1, Taken
<1>3. ASSUME NEW c \in Devices, NEW i \in DOMAIN own'[c]
      PROVE  \E j \in DOMAIN own[c] : own'[c][i] = own[c][j]
  <2>1. own'[c] = IF c = d THEN Tail(own[d]) ELSE own[c]
    BY <1>1 DEF Types, OwnTypes
  <2>2. CASE c = d
    BY <1>2, <1>3, <2>1, <2>2
  <2>3. CASE c # d
    BY <1>3, <2>1, <2>3
  <2> QED
    BY <2>2, <2>3
<1>4. OwnTimes'
    BY <1>1, <1>3 DEF OwnTimes
<1>5. focus = "elsewhere" => clock <= since + OwnLag
  <2>1. 1 \in DOMAIN own[d] /\ own[d][1] \in Reports
    BY <1>1, Taken
  <2>2. own[d][1].at \in Nat
    BY <2>1, Numbers DEF Reports, Times
  <2>3. clock <= own[d][1].at + OwnLag /\ (focus = "elsewhere" => own[d][1].at <= since)
    BY <2>1 DEF OwnTimes
  <2> QED
    BY <2>2, <2>3, Numbers
<1>6. StampTimes'
  <2> SUFFICES ASSUME NEW c \in Devices
               PROVE  /\ blocker'[c] = "new" => clock' = 1
                      /\ blocker'[c] = "store" =>
                          /\ stamp'[c] = clock'
                          /\ focus' = "elsewhere" => clock' <= since' + OwnLag
    BY DEF StampTimes
  <2>1. CASE c # d
    BY <1>1, <2>1 DEF ReadEvent, StampTimes, Types, ThreadTypes
  <2>2. CASE c = d
    BY <1>1, <1>5, <2>2 DEF ReadEvent, StampTimes, Types, ThreadTypes
  <2> QED
    BY <2>1, <2>2
<1> QED
    BY <1>4, <1>6

LEMMA TickTimes ==
    ASSUME Prompt, Types, Punctual, Tick
    PROVE  Punctual'
<1> USE DEF Punctual
<1>1. /\ clock' = clock + 1 /\ sender = "recv" /\ sender' = sender
      /\ clock - scrolledAt < Pause /\ routed' = routed /\ own' = own
      /\ focus' = focus /\ since' = since /\ scrolledAt' = scrolledAt
      /\ lastScroll' = lastScroll /\ lastBlur' = lastBlur /\ blocker' = blocker
      /\ \A d \in Devices : blocker[d] \in {"read", "ended"}
    BY DEF Tick, userVars, protocolVars, blockerVars, senderVars
<1>2. PastTimes'
    BY <1>1, Numbers DEF PastTimes
<1>3. RoutedTimes'
  <2>1. ASSUME NEW i \in DOMAIN routed PROVE routed[i] <= clock' /\ clock' <= routed[i] + RoutedLag
    <3>1. routed[i] \in Nat
      BY DEF Types, RoutedTypes, Times
    <3>2. clock - routed[i] < RoutedLag
      BY DEF Tick, Waiting
    <3>3. routed[i] <= clock
      BY DEF RoutedTimes
    <3> QED
      BY <1>1, <3>1, <3>2, <3>3, Numbers
  <2> QED
    BY <1>1, <2>1 DEF RoutedTimes
<1>4. OwnTimes'
  <2>1. ASSUME NEW d \in Devices, NEW i \in DOMAIN own[d]
        PROVE  own[d][i].at <= clock' /\ clock' <= own[d][i].at + OwnLag
    <3>1. own[d][i].at \in Nat
      <4>1. own[d] \in Seq(Reports)
        BY DEF Types, OwnTypes
      <4>2. own[d][i] \in Reports
        BY <4>1
      <4> QED
        BY <4>2 DEF Reports, Times
    <3>2. clock - own[d][i].at < OwnLag
      <4> DEFINE ats == [j \in DOMAIN own[d] |-> own[d][j].at]
      <4>1. Waiting(ats, OwnLag)
        BY DEF Tick
      <4>2. DOMAIN ats = DOMAIN own[d] /\ ats[i] = own[d][i].at
        OBVIOUS
      <4> HIDE DEF ats
      <4> QED
        BY <4>1, <4>2 DEF Waiting
    <3>3. own[d][i].at <= clock
      BY DEF OwnTimes
    <3> QED
      BY <1>1, <3>1, <3>2, <3>3, Numbers
  <2> QED
    BY <1>1, <2>1 DEF OwnTimes
<1>5. StampTimes'
    BY <1>1 DEF StampTimes
<1> QED
    BY <1>2, <1>3, <1>4, <1>5

LEMMA PunctualStep == Prompt /\ Types /\ Punctual /\ [Next]_vars => Punctual'
<1> SUFFICES ASSUME Prompt, Types, Punctual, [Next]_vars PROVE Punctual'
    OBVIOUS
<1> USE DEF Punctual, userVars, protocolVars, blockerVars, senderVars
<1>1. CASE UNCHANGED vars
    BY <1>1 DEF PastTimes, RoutedTimes, OwnTimes, StampTimes, vars
<1>2. CASE Tick
    BY <1>2, TickTimes
<1>3. CASE FocusMoves
  <2>1. /\ since' = clock /\ clock' = clock /\ focus' \in {"guest", "elsewhere"}
        /\ UNCHANGED <<scrolledAt, lastScroll, lastBlur, sender, now, routed, own, blocker, stamp>>
    BY <1>3 DEF FocusMoves
  <2>2. PastTimes'
    BY <2>1, Numbers DEF PastTimes
  <2>3. RoutedTimes' /\ OwnTimes'
    BY <2>1 DEF RoutedTimes, OwnTimes
  <2>4. StampTimes'
    BY <2>1, Numbers DEF StampTimes
  <2> QED
    BY <2>2, <2>3, <2>4
<1>4. ASSUME NEW d \in Devices, UserScrolls(d) PROVE Punctual'
  <2>1. OwnTimes'
    BY <1>4, ReportedTimes DEF UserScrolls, Kinds
  <2>2. RoutedTimes'
    BY <1>4, RoutedStep DEF UserScrolls
  <2>3. PastTimes'
    BY <1>4, Numbers DEF UserScrolls, PastTimes
  <2>4. StampTimes'
    BY <1>4 DEF UserScrolls, StampTimes
  <2> QED
    BY <2>1, <2>2, <2>3, <2>4
<1>5. ASSUME NEW d \in Devices, UserMoves(d) PROVE Punctual'
  <2>1. OwnTimes'
    BY <1>5, ReportedTimes DEF UserMoves, Kinds
  <2>2. RoutedTimes' /\ PastTimes' /\ StampTimes'
    BY <1>5 DEF UserMoves, RoutedTimes, PastTimes, StampTimes
  <2> QED
    BY <2>1, <2>2
<1>6. CASE ScrollsElsewhere
  <2>1. RoutedTimes'
    BY <1>6, RoutedStep DEF ScrollsElsewhere
  <2>2. PastTimes'
    BY <1>6, Numbers DEF ScrollsElsewhere, PastTimes
  <2>3. OwnTimes' /\ StampTimes'
    BY <1>6 DEF ScrollsElsewhere, OwnTimes, StampTimes
  <2> QED
    BY <2>1, <2>2, <2>3
<1>7. ASSUME NEW d \in Devices, Grab(d) \/ Ask(d) \/ BlockerEnds(d) PROVE Punctual'
  <2>1. PastTimes' /\ RoutedTimes'
    BY <1>7 DEF Grab, Ask, BlockerEnds, PastTimes, RoutedTimes
  <2>2. OwnTimes'
    <3>1. /\ own' = own \/ own' = [own EXCEPT ![d] = << >>]
          /\ clock' = clock /\ focus' = focus /\ since' = since
      BY <1>7 DEF Grab, Ask, BlockerEnds
    <3>2. \A c \in Devices : own'[c] = own[c] \/ own'[c] = << >>
      BY <3>1 DEF Types, OwnTypes
    <3>3. \A c \in Devices : \A i \in DOMAIN own'[c] : i \in DOMAIN own[c] /\ own'[c][i] = own[c][i]
      BY <3>2
    <3> QED
      BY <3>1, <3>3 DEF OwnTimes
  <2>3. StampTimes'
    BY <1>7 DEF Grab, Ask, BlockerEnds, StampTimes, Types, ThreadTypes
  <2> QED
    BY <2>1, <2>2, <2>3
<1>8. ASSUME NEW d \in Devices, ReadEvent(d) PROVE Punctual'
  <2>1. OwnTimes' /\ StampTimes'
    BY <1>8, ReadTimes
  <2>2. PastTimes' /\ RoutedTimes'
    BY <1>8 DEF ReadEvent, PastTimes, RoutedTimes
  <2> QED
    BY <2>1, <2>2
<1>9. ASSUME NEW d \in Devices, StoreScroll(d) PROVE Punctual'
  <2>1. lastScroll' = clock /\ (focus = "elsewhere" => clock <= since + OwnLag)
    BY <1>9 DEF StoreScroll, StampTimes
  <2>2. PastTimes'
    BY <1>9, <2>1, Numbers DEF StoreScroll, PastTimes
  <2>3. RoutedTimes' /\ OwnTimes'
    BY <1>9 DEF StoreScroll, RoutedTimes, OwnTimes
  <2>4. StampTimes'
    BY <1>9 DEF StoreScroll, StampTimes, Types, ThreadTypes
  <2> QED
    BY <2>2, <2>3, <2>4
<1>10. CASE TakeRouted
  <2>1. RoutedTimes'
    BY <1>10, RoutedStep DEF TakeRouted
  <2>2. PastTimes' /\ OwnTimes' /\ StampTimes'
    BY <1>10 DEF TakeRouted, PastTimes, OwnTimes, StampTimes
  <2> QED
    BY <2>1, <2>2
<1>11. CASE TestScroll \/ TestBlur \/ Replay \/ GiveBack
  <2>1. PastTimes'
    BY <1>11, Numbers DEF TestScroll, TestBlur, Replay, GiveBack, PastTimes
  <2>2. RoutedTimes' /\ OwnTimes' /\ StampTimes'
    BY <1>11 DEF TestScroll, TestBlur, Replay, GiveBack, RoutedTimes, OwnTimes, StampTimes
  <2> QED
    BY <2>1, <2>2
<1>12. CASE Protocol
  <2>1. /\ since' \in {since, clock} /\ clock' = clock /\ focus' = focus
        /\ UNCHANGED <<scrolledAt, lastScroll, lastBlur, sender, now, routed, own, blocker, stamp>>
    BY <1>12, ProtocolLeaves
  <2>2. PastTimes' /\ StampTimes'
    BY <2>1, Numbers DEF PastTimes, StampTimes
  <2>3. RoutedTimes'
    BY <2>1 DEF RoutedTimes
  <2>4. OwnTimes'
    <3>1. ASSUME NEW d \in Devices, NEW i \in DOMAIN own[d], focus = "elsewhere"
          PROVE  own[d][i].at <= since'
      BY <2>1, <3>1, Numbers DEF OwnTimes
    <3> QED
      BY <2>1, <3>1 DEF OwnTimes
  <2> QED
    BY <2>2, <2>3, <2>4
<1> QED
    BY <1>1, <1>2, <1>3, <1>4, <1>5, <1>6, <1>7, <1>8, <1>9, <1>10, <1>11, <1>12
    DEF Next, Blocker, Sender

-----------------------------------------------------------------------------
\* The guest that was left.

\* A call to become active is awaited in a guest that is not.
Inactive == handler \in {"activate", "activated"} => ~hostActive

\* While a guest is active its blockers request nothing, and within the millisecond the
\* handler has skipped what they requested before: until then, or in the millisecond in
\* which a call fails, the channel may be full of requests to become active.
Waits(request) == \E i \in DOMAIN requests : requests[i] = request

HasRoom ==
    hostActive /\ handler = "idle" /\ since < clock /\ failedAt < clock => ~Waits("activate")

LEMMA InactiveStep == Types /\ Inactive /\ [Next]_vars => Inactive'
<1> SUFFICES ASSUME Types, Inactive, [Next]_vars PROVE Inactive'
    OBVIOUS
<1> USE DEF userVars, protocolVars, blockerVars, senderVars, Inactive
<1>1. CASE Protocol
  <2>1. CASE TakeRequest
    <3>1. Head(requests) \in Requests
      BY <2>1, Taken DEF TakeRequest, Types, RequestTypes
    <3> QED
      BY <2>1, <3>1 DEF TakeRequest, Requests
  <2>2. CASE Execute \/ OthersDecide \/ AnswerRequest \/ RequestFails \/ TakenAway
    BY <2>2 DEF Execute, OthersDecide, AnswerRequest, RequestFails, TakenAway
  <2> QED
    BY <1>1, <2>1, <2>2 DEF Protocol
<1>2. ASSUME NEW d \in Devices, UserScrolls(d) \/ UserMoves(d) \/ Blocker(d)
      PROVE  UNCHANGED <<hostActive, handler>>
    BY <1>2 DEF UserScrolls, UserMoves, Blocker, Grab, ReadEvent, StoreScroll, Ask, BlockerEnds
<1>3. CASE UNCHANGED vars \/ Tick \/ FocusMoves \/ ScrollsElsewhere \/ Sender
    BY <1>3 DEF vars, Tick, FocusMoves, ScrollsElsewhere, Sender, TakeRouted, TestScroll,
                TestBlur, GiveBack, Replay
<1> QED
    BY <1>1, <1>2, <1>3 DEF Next

\* The sender's request to give back the scroll is there after it was sent.
LEMMA GiveBackRequests ==
    ASSUME Types, Inactive, HasRoom, GiveBack, hostActive, since < clock, failedAt < clock
    PROVE  hostActive' /\ Requested'
<1>1. requests \in Seq(Requests) /\ Len(requests) \in Nat /\ Len(requests) <= RequestCap
    BY DEF Types, RequestTypes
<1>2. hostActive' = hostActive /\ handler' = handler /\ TrySend("deactivate")
    BY DEF GiveBack
<1>3. CASE handler # "idle"
    BY <1>2, <1>3 DEF Requested, Inactive, Types, RequestTypes, Calls
<1>4. CASE Len(requests) < RequestCap
  <2> DEFINE r == "deactivate"
  <2>1. r \in Requests
    BY DEF Requests
  <2>2. requests' = Append(requests, r)
    BY <1>2, <1>4 DEF TrySend
  <2> HIDE DEF r
  <2>3. \E i \in DOMAIN Append(requests, r) : Append(requests, r)[i] = r
    BY <1>1, <2>1, Appended
  <2>4. \E i \in DOMAIN requests' : requests'[i] = "deactivate"
    BY <2>2, <2>3 DEF r
  <2> QED
    BY <1>2, <2>4 DEF Requested
<1>5. CASE handler = "idle" /\ ~(Len(requests) < RequestCap)
  <2>1. requests' = requests
    BY <1>2, <1>5 DEF TrySend
  <2>2. 1 \in DOMAIN requests /\ requests[1] \in Requests
    BY <1>1, <1>5, Numbers
  <2>3. requests[1] = "deactivate"
    BY <1>5, <2>2 DEF HasRoom, Waits, Requests
  <2> QED
    BY <1>2, <2>1, <2>2, <2>3 DEF Requested
<1> QED
    BY <1>3, <1>4, <1>5

LEMMA RoomStep == Prompt /\ Types /\ Inactive /\ HasRoom /\ [Next]_vars => HasRoom'
<1> SUFFICES ASSUME Prompt, Types, Inactive, HasRoom, [Next]_vars,
                    hostActive', handler' = "idle", since' < clock', failedAt' < clock'
             PROVE  ~Waits("activate")'
    BY DEF HasRoom
<1> USE DEF userVars, protocolVars, blockerVars, senderVars
<1>1. requests \in Seq(Requests) /\ clock \in Nat
    BY Numbers DEF Types, RequestTypes
<1>2. CASE UNCHANGED <<requests, hostActive, handler, since, failedAt, clock>>
    BY <1>2 DEF HasRoom, Waits
<1>3. CASE Tick
  <2>1. requests' = << >>
    BY <1>3 DEF Tick
  <2> QED
    BY <2>1 DEF Waits
<1>4. CASE FocusMoves \/ OthersDecide \/ TakenAway
  <2>1. since' = clock /\ clock' = clock
    BY <1>4 DEF FocusMoves, OthersDecide, TakenAway
  <2> QED
    BY <1>1, <2>1
<1>5. CASE TakeRequest
  <2>1. /\ requests # << >> /\ requests' = Tail(requests)
        /\ hostActive /\ handler = "idle" /\ since < clock /\ failedAt < clock
    BY <1>5 DEF TakeRequest
  <2>2. \A i \in DOMAIN Tail(requests) : i + 1 \in DOMAIN requests /\ Tail(requests)[i] = requests[i + 1]
    BY <1>1, <2>1, Taken
  <2> QED
    BY <2>1, <2>2 DEF HasRoom, Waits
<1>6. CASE Execute
    BY <1>6 DEF Execute
<1>7. CASE AnswerRequest
  <2>1. handler = "activated" /\ ~hostActive
    BY <1>7 DEF AnswerRequest, Inactive
  <2>2. since' = clock' /\ clock' = clock
    BY <1>7, <2>1 DEF AnswerRequest
  <2> QED
    BY <1>1, <2>2
<1>8. CASE RequestFails
  <2>1. handler \in {"deactivate", "deactivated"}
    BY <1>8 DEF RequestFails, Inactive, Types, RequestTypes, Calls
  <2>2. failedAt' = clock' /\ clock' = clock
    BY <1>8, <2>1 DEF RequestFails
  <2> QED
    BY <1>1, <2>2
<1>9. CASE GiveBack
  <2>1. /\ TrySend("deactivate")
        /\ hostActive /\ handler = "idle" /\ since < clock /\ failedAt < clock
    BY <1>9 DEF GiveBack
  <2>2. CASE requests' = requests
    BY <2>1, <2>2 DEF HasRoom, Waits
  <2>3. CASE requests' = Append(requests, "deactivate")
    <3> DEFINE r == "deactivate"
    <3>1. r \in Requests /\ r # "activate"
      BY DEF Requests
    <3> HIDE DEF r
    <3>2. \A i \in DOMAIN Append(requests, r) :
              \/ Append(requests, r)[i] = r
              \/ i \in DOMAIN requests /\ Append(requests, r)[i] = requests[i]
      BY <1>1, <3>1, AppendedItems
    <3>3. requests' = Append(requests, r)
      BY <2>3 DEF r
    <3> QED
      BY <2>1, <3>1, <3>2, <3>3 DEF HasRoom, Waits
  <2> QED
    BY <2>1, <2>2, <2>3 DEF TrySend
<1>10. ASSUME NEW d \in Devices, UserScrolls(d) \/ UserMoves(d) \/ Blocker(d)
       PROVE  UNCHANGED <<requests, hostActive, handler, since, failedAt, clock>>
    BY <1>10 DEF UserScrolls, UserMoves, Blocker, Grab, ReadEvent, StoreScroll, Ask, BlockerEnds
<1>11. ASSUME UNCHANGED vars \/ ScrollsElsewhere \/ TakeRouted \/ TestScroll \/ TestBlur \/ Replay
       PROVE  UNCHANGED <<requests, hostActive, handler, since, failedAt, clock>>
    BY <1>11 DEF vars, ScrollsElsewhere, TakeRouted, TestScroll, TestBlur, Replay
<1> QED
    BY <1>2, <1>3, <1>4, <1>5, <1>6, <1>7, <1>8, <1>9, <1>10, <1>11 DEF Next, Protocol, Sender

\* Nothing changes focus, the grant or host_active but with the time of the change.
LEMMA SinceStep ==
    ASSUME Types, Next
    PROVE  \/ /\ focus' = focus /\ granted' = granted /\ hostActive' = hostActive
              /\ since' = since
           \/ since' = clock /\ clock' = clock
<1> USE DEF userVars, protocolVars, blockerVars, senderVars
<1>1. CASE FocusMoves \/ Protocol
    BY <1>1 DEF FocusMoves, Protocol, TakeRequest, Execute, OthersDecide, AnswerRequest,
                RequestFails, TakenAway
<1>2. CASE Tick \/ ScrollsElsewhere \/ Sender
    BY <1>2 DEF Tick, ScrollsElsewhere, Sender, TakeRouted, TestScroll, TestBlur, GiveBack, Replay
<1>3. ASSUME NEW d \in Devices, UserScrolls(d) \/ UserMoves(d) \/ Blocker(d)
      PROVE  UNCHANGED <<focus, granted, hostActive, since>>
    BY <1>3 DEF UserScrolls, UserMoves, Blocker, Grab, ReadEvent, StoreScroll, Ask, BlockerEnds
<1> QED
    BY <1>1, <1>2, <1>3 DEF Next

\* The guest was left, still has the scroll and knows of an event of its own.
Left == focus = "elsewhere" /\ granted /\ hostActive /\ lastScroll > 0
\* The first moment at which its own devices count as silent.
Silent == since + OwnLag + SCROLL_TTL

RoutedIn(low, high) == \E i \in DOMAIN routed : low < routed[i] /\ routed[i] <= high

\* After t, a routed event reaches the sender within Pause and RoutedLag.
Awaits(t) ==
    \/ scrolledAt <= t
    \/ RoutedIn(t, t + Pause)
    \/ sender \in {"scroll", "blur"} /\ clock <= t + Pause + RoutedLag

\* The sender finds a guest that was left unused.
LEMMA LeftIsUnused ==
    ASSUME Types, Punctual, Left, clock > Silent, sender # "recv"
    PROVE  Unused /\ now = clock
<1>1. now = clock /\ lastScroll <= since + OwnLag /\ lastScroll <= clock
    BY DEF Punctual, PastTimes, Left
<1>2. Minus(now, lastScroll) = now - lastScroll
    BY <1>1, MinusIsExact DEF Types, TimeTypes
<1>3. now - lastScroll > SCROLL_TTL
    BY <1>1, Numbers DEF Silent
<1> QED
    BY <1>1, <1>2, <1>3 DEF Unused, Left

\* Long after it was left a guest does not come to know of its first event.
LEMMA LeftBefore ==
    ASSUME Types, Punctual, Next, Left', focus' = focus, granted' = granted,
           hostActive' = hostActive, clock > since + OwnLag
    PROVE  Left
<1> USE DEF userVars, protocolVars, blockerVars, senderVars
<1>1. ASSUME NEW d \in Devices, StoreScroll(d) PROVE FALSE
  <2>1. focus = "elsewhere"
    BY DEF Left
  <2>2. clock <= since + OwnLag
    BY <1>1, <2>1 DEF StoreScroll, Punctual, StampTimes
  <2> QED
    BY <2>2, Numbers
<1>2. ASSUME NEW d \in Devices, UserScrolls(d) \/ UserMoves(d) \/ Blocker(d)
      PROVE  lastScroll' = lastScroll
    BY <1>1, <1>2 DEF UserScrolls, UserMoves, Blocker, Grab, ReadEvent, Ask, BlockerEnds
<1>3. ASSUME Tick \/ FocusMoves \/ ScrollsElsewhere \/ Protocol \/ Sender
      PROVE  lastScroll' = lastScroll
    BY <1>3, ProtocolLeaves DEF Tick, FocusMoves, ScrollsElsewhere, Sender, TakeRouted,
                                TestScroll, TestBlur, GiveBack, Replay
<1> QED
    BY <1>2, <1>3 DEF Next, Left

\* Every step leaves what is awaited after t on its way, or it is the sender that gets it
\* and looks at last_blur.
LEMMA AwaitsStep ==
    ASSUME Prompt, Types, Punctual, Next, Left', focus' = focus, granted' = granted,
           hostActive' = hostActive, since' = since, NEW t \in Nat, t >= Silent, clock' > t,
           clock > t /\ Left => Awaits(t)
    PROVE  \/ Awaits(t)'
           \/ /\ TestBlur \/ GiveBack
              /\ sender = "blur" /\ clock <= t + Pause + RoutedLag
<1> USE DEF userVars, protocolVars, blockerVars, senderVars
<1>1. CASE Tick
  <2>1. clock' = clock + 1 /\ sender = "recv" /\ UNCHANGED <<routed, scrolledAt, lastScroll>>
    BY <1>1 DEF Tick
  <2>2. CASE clock > t
    BY <2>1, <2>2 DEF Awaits, RoutedIn, Left
  <2>3. CASE clock <= t
    BY <2>1, <2>3, Numbers DEF Punctual, PastTimes, Awaits
  <2> QED
    BY <2>2, <2>3, Numbers
<1>2. CASE ~Tick
  <2>1. clock' = clock /\ clock > t
    BY <1>2, ProtocolLeaves
       DEF Next, Blocker, Sender, FocusMoves, ScrollsElsewhere,
                UserScrolls, UserMoves, Grab, ReadEvent, StoreScroll, Ask, BlockerEnds,
                TakeRouted, TestScroll, TestBlur, GiveBack, Replay
  <2>2. clock > Silent /\ clock > since + OwnLag
    BY <2>1, Numbers DEF Silent
  <2>5. Left /\ Awaits(t)
    BY <2>1, <2>2, LeftBefore
  <2>6. CASE ScrollsElsewhere
    <3>1. routed' = Append(routed, clock) /\ scrolledAt' = clock /\ sender' = sender
      BY <2>5, <2>6 DEF ScrollsElsewhere, RouteScroll, Left
    <3>2. /\ \A i \in DOMAIN routed : i \in DOMAIN routed' /\ routed'[i] = routed[i]
          /\ \E i \in DOMAIN routed' : routed'[i] = clock
      <4>1. routed \in Seq(Times) /\ clock \in Times
        BY DEF Types, RoutedTypes, TimeTypes
      <4>2. /\ \A i \in DOMAIN routed :
                  /\ i \in DOMAIN Append(routed, clock)
                  /\ Append(routed, clock)[i] = routed[i]
            /\ \E i \in DOMAIN Append(routed, clock) : Append(routed, clock)[i] = clock
        BY <4>1, Appended
      <4> QED
        BY <3>1, <4>2
    <3>3. CASE scrolledAt <= t
      <4>1. clock <= t + Pause
        BY <3>3, Numbers DEF Punctual, PastTimes
      <4> QED
        BY <2>1, <3>2, <4>1 DEF Awaits, RoutedIn
    <3>4. CASE ~(scrolledAt <= t)
      BY <2>1, <2>5, <3>1, <3>2, <3>4 DEF Awaits, RoutedIn
    <3> QED
      BY <3>3, <3>4
  <2>7. CASE TakeRouted
    <3>1. /\ routed # << >> /\ routed' = Tail(routed) /\ sender = "recv" /\ sender' = "scroll"
          /\ scrolledAt' = scrolledAt
      BY <2>7 DEF TakeRouted
    <3>2. /\ 1 \in DOMAIN routed
          /\ \A i \in DOMAIN routed : i # 1 =>
                i - 1 \in DOMAIN Tail(routed) /\ Tail(routed)[i - 1] = routed[i]
      BY <3>1, Taken DEF Types, RoutedTypes
    <3>3. CASE RoutedIn(t, t + Pause)
      <4>1. PICK i \in DOMAIN routed : t < routed[i] /\ routed[i] <= t + Pause
        BY <3>3 DEF RoutedIn
      <4>2. CASE i = 1
        <5>1. routed[i] \in Nat /\ clock <= routed[i] + RoutedLag
          BY DEF Types, RoutedTypes, Times, Punctual, RoutedTimes
        <5>2. clock <= t + Pause + RoutedLag
          BY <4>1, <5>1, Numbers
        <5> QED
          BY <2>1, <3>1, <5>2 DEF Awaits
      <4>3. CASE i # 1
        BY <3>1, <3>2, <4>1, <4>3 DEF Awaits, RoutedIn
      <4> QED
        BY <4>2, <4>3
    <3>4. CASE scrolledAt <= t
      BY <3>1, <3>4 DEF Awaits
    <3> QED
      BY <2>5, <3>1, <3>3, <3>4 DEF Awaits
  <2>8. CASE TestScroll
    <3>1. Unused
      BY <2>2, <2>5, <2>8, LeftIsUnused DEF TestScroll
    <3>2. sender = "scroll" /\ sender' = "blur" /\ scrolledAt' = scrolledAt /\ routed' = routed
      BY <2>8, <3>1 DEF TestScroll
    <3> QED
      BY <2>1, <2>5, <3>2 DEF Awaits, RoutedIn
  <2>9. CASE TestBlur \/ GiveBack
    <3>1. sender = "blur" /\ scrolledAt' = scrolledAt /\ routed' = routed
      BY <2>9 DEF TestBlur, GiveBack
    <3> QED
      BY <2>5, <2>9, <3>1 DEF Awaits, RoutedIn
  <2>10. CASE /\ UNCHANGED <<scrolledAt, routed>>
              /\ sender' = sender \/ sender = "write"
    BY <2>1, <2>5, <2>10 DEF Awaits, RoutedIn
  <2>11. ASSUME NEW d \in Devices, UserScrolls(d) PROVE FALSE
    BY <2>5, <2>11 DEF UserScrolls, Left
  <2>12. ASSUME NEW d \in Devices, UserMoves(d) \/ Blocker(d)
         PROVE  UNCHANGED <<scrolledAt, routed, sender>>
    BY <2>12 DEF UserMoves, Blocker, Grab, ReadEvent, StoreScroll, Ask, BlockerEnds
  <2>13. CASE FocusMoves \/ Protocol \/ Replay
    BY <2>10, <2>13, ProtocolLeaves DEF FocusMoves, Replay
  <2> QED
    BY <1>2, <2>6, <2>7, <2>8, <2>9, <2>10, <2>11, <2>12, <2>13 DEF Next, Sender
<1> QED
    BY <1>1, <1>2

\* What Awaits waits for comes in time.
LEMMA AwaitsEnds ==
    ASSUME Types, Punctual, NEW t \in Nat, Awaits(t)
    PROVE  clock <= t + Pause + RoutedLag
<1>1. CASE scrolledAt <= t
    BY <1>1, Numbers DEF Punctual, PastTimes
<1>2. CASE RoutedIn(t, t + Pause)
  <2>1. PICK i \in DOMAIN routed : t < routed[i] /\ routed[i] <= t + Pause
    BY <1>2 DEF RoutedIn
  <2>2. routed[i] \in Nat /\ clock <= routed[i] + RoutedLag
    BY DEF Types, RoutedTypes, Times, Punctual, RoutedTimes
  <2> QED
    BY <2>1, <2>2, Numbers
<1> QED
    BY <1>1, <1>2 DEF Awaits

\* A blur that was marked stays marked.
LEMMA BlurStays ==
    ASSUME Types, Punctual, Next, Left, clock > Silent, lastBlur # 0
    PROVE  lastBlur' = lastBlur
<1> USE DEF userVars, protocolVars, blockerVars, senderVars
<1>1. CASE TestScroll
    BY <1>1, LeftIsUnused DEF TestScroll
<1>2. CASE TestBlur
    BY <1>2 DEF TestBlur
<1>3. ASSUME NEW d \in Devices, UserScrolls(d) \/ UserMoves(d) \/ Blocker(d)
      PROVE  lastBlur' = lastBlur
    BY <1>3 DEF UserScrolls, UserMoves, Blocker, Grab, ReadEvent, StoreScroll, Ask, BlockerEnds
<1>4. CASE Tick \/ FocusMoves \/ ScrollsElsewhere \/ Protocol \/ TakeRouted \/ GiveBack
               \/ Replay
    BY <1>4, ProtocolLeaves DEF Tick, FocusMoves, ScrollsElsewhere, TakeRouted, GiveBack, Replay
<1> QED
    BY <1>1, <1>2, <1>3, <1>4 DEF Next, Sender

\* The first moment at which the blur is marked for sure, and the one at which the
\* grace is over.
MarkedBy == Silent + Pause + RoutedLag
OverBy == MarkedBy + BLUR_TTL

Marked ==
    Left /\ clock > Silent =>
        Awaits(Silent) \/ (lastBlur # 0 /\ lastBlur <= MarkedBy)

\* Of any moment from then on, and from the last failure on, the next routed event asks.
Ending ==
    \A t \in Nat : Left /\ OverBy <= t /\ failedAt <= t /\ t < clock => Requested \/ Awaits(t)

LEMMA MarkedStep == Prompt /\ Types /\ Punctual /\ Marked /\ [Next]_vars => Marked'
<1> SUFFICES ASSUME Prompt, Types, Punctual, Marked, [Next]_vars, Left', clock' > Silent'
             PROVE  Awaits(Silent)' \/ (lastBlur # 0 /\ lastBlur <= MarkedBy)'
    BY DEF Marked
<1>1. CASE UNCHANGED vars
    BY <1>1 DEF vars, userVars, protocolVars, blockerVars, senderVars, Marked, Left, Silent,
                MarkedBy, Awaits, RoutedIn
<1>2. CASE Next
  <2>1. /\ focus' = focus /\ granted' = granted /\ hostActive' = hostActive
        /\ since' = since
    BY <1>2, SinceStep, Numbers DEF Silent
  <2>2. PICK t \in Nat : t = Silent /\ t = Silent'
    BY <2>1, Numbers DEF Silent
  <2>3. clock > t => Left
    BY <1>2, <2>1, <2>2, LeftBefore, Numbers DEF Silent
  <2>4. CASE clock > t /\ lastBlur # 0 /\ lastBlur <= MarkedBy
    <3>1. lastBlur' = lastBlur
      BY <1>2, <2>2, <2>3, <2>4, BlurStays
    <3> QED
      BY <2>1, <2>4, <3>1 DEF MarkedBy, Silent
  <2>5. CASE clock > t => Awaits(t)
    <3>1. \/ Awaits(t)'
          \/ (TestBlur \/ GiveBack) /\ sender = "blur" /\ clock <= t + Pause + RoutedLag
      BY <1>2, <2>1, <2>2, <2>5, AwaitsStep
    <3>2. CASE Awaits(t)'
      BY <2>2, <3>2 DEF Awaits, RoutedIn
    <3>3. CASE (TestBlur \/ GiveBack) /\ sender = "blur" /\ clock <= t + Pause + RoutedLag
      <4>1. now = clock /\ clock >= 1 /\ lastBlur <= clock
        BY <3>3 DEF Punctual, PastTimes
      <4>2. lastBlur' # 0 /\ lastBlur' <= clock
        BY <3>3, <4>1, Numbers DEF TestBlur, GiveBack, GraceOver, senderVars
      <4>3. lastBlur' <= t + Pause + RoutedLag
        BY <3>3, <4>1, <4>2, Numbers DEF TestBlur, GiveBack
      <4> QED
        BY <2>2, <4>2, <4>3 DEF MarkedBy
    <3> QED
      BY <3>1, <3>2, <3>3
  <2> QED
    BY <2>2, <2>3, <2>4, <2>5 DEF Marked, Awaits
<1> QED
    BY <1>1, <1>2

\* The request to give back is queued and then awaited until the guest is not active any
\* more or the call fails.
LEMMA RequestedStays ==
    ASSUME Types, Inactive, HasRoom, Next, hostActive, hostActive', Requested,
           since < clock, failedAt < clock
    PROVE  Requested' \/ failedAt' = clock'
<1> USE DEF userVars, protocolVars, blockerVars, senderVars
<1>1. requests \in Seq(Requests)
    BY DEF Types, RequestTypes
<1>2. CASE GiveBack
    BY <1>2, GiveBackRequests
<1>3. CASE TakeRequest
  <2>1. /\ requests # << >> /\ requests' = Tail(requests) /\ handler = "idle"
        /\ Head(requests) = "activate" \/ handler' = Head(requests)
    BY <1>3 DEF TakeRequest
  <2>2. PICK i \in DOMAIN requests : requests[i] = "deactivate"
    BY <2>1 DEF Requested
  <2>3. CASE Head(requests) = "activate"
    <3>1. i # 1
      BY <1>1, <2>1, <2>2, <2>3, Taken
    <3>2. i - 1 \in DOMAIN Tail(requests) /\ Tail(requests)[i - 1] = requests[i]
      BY <1>1, <2>1, <3>1, Taken
    <3> QED
      BY <2>1, <2>2, <3>2 DEF Requested
  <2>4. CASE Head(requests) # "activate"
    <3>1. Head(requests) = "deactivate"
      BY <1>1, <2>1, <2>4, Taken DEF Requests
    <3> QED
      BY <2>1, <2>4, <3>1 DEF Requested
  <2> QED
    BY <2>3, <2>4
<1>4. CASE Execute \/ AnswerRequest \/ RequestFails
  <2>1. requests' = requests /\ clock' = clock
    BY <1>4 DEF Execute, AnswerRequest, RequestFails
  <2>2. CASE handler \in {"deactivate", "deactivated"}
    BY <1>4, <2>1, <2>2 DEF Execute, AnswerRequest, RequestFails, Requested
  <2>3. CASE handler \notin {"deactivate", "deactivated"}
    BY <2>1, <2>3 DEF Requested
  <2> QED
    BY <2>2, <2>3
<1>5. ASSUME NEW d \in Devices, UserScrolls(d) \/ UserMoves(d) \/ Blocker(d)
      PROVE  UNCHANGED <<requests, handler>>
    BY <1>5 DEF UserScrolls, UserMoves, Blocker, Grab, ReadEvent, StoreScroll, Ask, BlockerEnds
<1>6. ASSUME Tick \/ FocusMoves \/ ScrollsElsewhere \/ OthersDecide \/ TakenAway \/ TakeRouted
                \/ TestScroll \/ TestBlur \/ Replay
      PROVE  UNCHANGED <<requests, handler>>
    BY <1>6 DEF Tick, FocusMoves, ScrollsElsewhere, OthersDecide, TakenAway, TakeRouted,
                TestScroll, TestBlur, Replay
<1>7. CASE UNCHANGED <<requests, handler>>
    BY <1>7 DEF Requested
<1> QED
    BY <1>2, <1>3, <1>4, <1>5, <1>6, <1>7 DEF Next, Protocol, Sender

\* When a call fails, the failure is of that moment.
LEMMA FailedStep ==
    ASSUME Types, Next
    PROVE  failedAt' = failedAt \/ failedAt' = clock'
<1> USE DEF userVars, protocolVars, blockerVars, senderVars
<1>1. ASSUME NEW d \in Devices, UserScrolls(d) \/ UserMoves(d) \/ Blocker(d)
      PROVE  failedAt' = failedAt
    BY <1>1 DEF UserScrolls, UserMoves, Blocker, Grab, ReadEvent, StoreScroll, Ask, BlockerEnds
<1>2. CASE Tick \/ FocusMoves \/ ScrollsElsewhere \/ Sender
    BY <1>2 DEF Tick, FocusMoves, ScrollsElsewhere, Sender, TakeRouted, TestScroll, TestBlur,
                GiveBack, Replay
<1>3. CASE Protocol
    BY <1>3 DEF Protocol, TakeRequest, Execute, OthersDecide, AnswerRequest, RequestFails,
                TakenAway
<1> QED
    BY <1>1, <1>2, <1>3 DEF Next

LEMMA EndingStep ==
    Prompt /\ Types /\ Punctual /\ Inactive /\ HasRoom /\ Marked /\ Ending /\ [Next]_vars
        => Ending'
<1> SUFFICES ASSUME Prompt, Types, Punctual, Inactive, HasRoom, Marked, Ending, [Next]_vars,
                    NEW t \in Nat, Left', OverBy' <= t, failedAt' <= t, t < clock'
             PROVE  Requested' \/ Awaits(t)'
    BY DEF Ending
<1>1. CASE UNCHANGED vars
    BY <1>1 DEF vars, userVars, protocolVars, blockerVars, senderVars, Ending, Left, Silent,
                MarkedBy, OverBy, Awaits, RoutedIn, Requested
<1>2. CASE Next
  <2> DEFINE s == Silent
  <2>0. s = since + OwnLag + SCROLL_TTL /\ s \in Nat
    BY Numbers DEF Silent
  <2> HIDE DEF s
  <2>1. failedAt' \in Nat /\ clock' \in Nat
    BY <1>2, TypesStep, Numbers DEF Types, TimeTypes, Times
  <2>2. /\ focus' = focus /\ granted' = granted /\ hostActive' = hostActive
        /\ since' = since /\ failedAt' = failedAt
    BY <1>2, <2>1, SinceStep, FailedStep, Numbers DEF OverBy, MarkedBy, Silent
  <2>3. OverBy <= t /\ OverBy = s + Pause + RoutedLag + BLUR_TTL /\ t >= s /\ t >= since
    BY <2>0, <2>2, Numbers DEF OverBy, MarkedBy, Silent
  <2>4. clock > t => Left /\ since < clock /\ failedAt < clock
    BY <1>2, <2>0, <2>2, <2>3, LeftBefore, Numbers
  <2>5. CASE clock > t /\ Requested
    BY <1>2, <2>1, <2>2, <2>4, <2>5, RequestedStays DEF Left
  <2>6. CASE clock > t => Awaits(t)
    <3>1. \/ Awaits(t)'
          \/ (TestBlur \/ GiveBack) /\ sender = "blur" /\ clock <= t + Pause + RoutedLag
      BY <1>2, <2>0, <2>2, <2>3, <2>6, AwaitsStep DEF s
    <3>2. CASE TestBlur \/ GiveBack
      <4>1. clock' = clock /\ sender = "blur"
        BY <3>2 DEF TestBlur, GiveBack
      <4>2. Left /\ clock > t /\ clock > s
        BY <2>0, <2>3, <2>4, <4>1, Numbers
      <4>3. ~Awaits(s)
        <5>1. ~(clock <= s + Pause + RoutedLag)
          BY <2>0, <2>3, <4>2, Numbers
        <5> QED
          BY <2>0, <5>1, AwaitsEnds
      <4>4. lastBlur # 0 /\ lastBlur <= s + Pause + RoutedLag
        BY <4>2, <4>3 DEF Marked, MarkedBy, s
      <4>5. GraceOver
        <5>1. now = clock /\ lastBlur <= clock
          BY <4>1 DEF Punctual, PastTimes
        <5>2. Minus(now, lastBlur) = now - lastBlur
          BY <5>1, MinusIsExact DEF Types, TimeTypes
        <5>3. now - lastBlur > BLUR_TTL
          BY <2>0, <2>3, <4>2, <4>4, <5>1, Numbers
        <5> QED
          BY <4>4, <5>2, <5>3 DEF GraceOver
      <4>6. GiveBack
        BY <3>2, <4>5 DEF TestBlur
      <4> QED
        BY <2>4, <4>2, <4>6, GiveBackRequests DEF Left
    <3> QED
      BY <3>1, <3>2
  <2> QED
    BY <2>2, <2>3, <2>4, <2>5, <2>6 DEF Ending
<1> QED
    BY <1>1, <1>2

\* The guest that the user has left gives the scroll back within ReleaseTime, as far as
\* the threads are prompt: the sender's last_blur is marked by the first routed event after
\* SCROLL_TTL and the request is made by the first one after BLUR_TTL (sender.rs:134-147),
\* and made again after a failed call.
THEOREM ReleaseInTime == Spec => []ReleasesInTime
<1>1. CASE ~Prompt
  <2>1. ReleasesInTime
    BY <1>1 DEF ReleasesInTime
  <2> QED
    BY <2>1, PTL
<1>2. CASE Prompt
  <2> DEFINE I == Types /\ Punctual /\ Inactive /\ HasRoom /\ Marked /\ Ending
  <2>1. Init => I
    <3> SUFFICES ASSUME Init PROVE I
      OBVIOUS
    <3>1. Inactive /\ HasRoom /\ Marked /\ Ending
      BY DEF Init, Inactive, HasRoom, Marked, Ending, Left
    <3> QED
      BY <3>1, TypesInit, PunctualInit
  <2>2. I /\ [Next]_vars => I'
    BY <1>2, TypesStep, PunctualStep, InactiveStep, RoomStep, MarkedStep, EndingStep
  <2>3. I => ReleasesInTime
    <3> SUFFICES ASSUME I, Left, clock - since > ReleaseTime,
                        clock - failedAt > Pause + RoutedLag
                 PROVE  Requested
      BY Numbers DEF ReleasesInTime, Left, ReleaseTime
    <3>1. PICK t \in Nat : OverBy <= t /\ failedAt <= t /\ clock > t + Pause + RoutedLag
      <4>1. OverBy \in Nat /\ clock > OverBy + Pause + RoutedLag
        BY Numbers DEF OverBy, MarkedBy, Silent, ReleaseTime
      <4>2. failedAt \in Nat /\ clock > failedAt + Pause + RoutedLag
        BY Numbers
      <4>3. CASE failedAt <= OverBy
        BY <4>1, <4>3
      <4>4. CASE OverBy <= failedAt
        BY <4>2, <4>4
      <4> QED
        BY <4>1, <4>2, <4>3, <4>4
    <3>2. ~Awaits(t)
      BY <3>1, AwaitsEnds, Numbers
    <3>3. t < clock
      BY <3>1, Numbers
    <3> QED
      BY <3>1, <3>2, <3>3 DEF Ending
  <2> HIDE DEF I
  <2> QED
    BY <2>1, <2>2, <2>3, PTL DEF Spec
<1> QED
    BY <1>1, <1>2

-----------------------------------------------------------------------------
\* The guest in use.

Used == focus = "guest" /\ \A d \in Devices : blocker[d] # "ended"

\* A scroll event between low and high waits for its blocker.
OwnIn(low, high) ==
    \E d \in Devices : \E i \in DOMAIN own[d] :
        own[d][i].kind = "scroll" /\ low < own[d][i].at /\ own[d][i].at <= high

\* An own event after t has been stamped, or is on its way and will be by Pause and OwnLag.
Stamped(t) ==
    \/ lastScroll > t
    \/ scrolledAt <= t
    \/ OwnIn(t, t + Pause)
    \/ \E d \in Devices : blocker[d] = "store" /\ clock <= t + Pause + OwnLag

Stamps == \A t \in Nat : Used /\ since <= t /\ t < clock => Stamped(t)

LEMMA EndedStays ==
    ASSUME Types, Next, NEW d \in Devices, blocker[d] = "ended"
    PROVE  blocker'[d] = "ended"
<1> USE DEF userVars, protocolVars, blockerVars, senderVars
<1>1. ASSUME NEW c \in Devices, UserScrolls(c) \/ UserMoves(c) \/ Blocker(c)
      PROVE  blocker'[d] = "ended"
  <2>1. blocker' = blocker \/ (c # d /\ \E x : blocker' = [blocker EXCEPT ![c] = x])
    BY <1>1 DEF UserScrolls, UserMoves, Blocker, Grab, ReadEvent, StoreScroll, Ask, BlockerEnds
  <2> QED
    BY <2>1 DEF Types, ThreadTypes
<1>2. ASSUME Tick \/ FocusMoves \/ ScrollsElsewhere \/ Protocol \/ Sender
      PROVE  blocker' = blocker
    BY <1>2, ProtocolLeaves DEF Tick, FocusMoves, ScrollsElsewhere, Sender, TakeRouted,
                                TestScroll, TestBlur, GiveBack, Replay
<1> QED
    BY <1>1, <1>2 DEF Next

\* An event that a device of a grabbed blocker reports is queued behind the others.
LEMMA ReportedIn ==
    ASSUME Types, NEW d \in Devices, NEW kind \in Kinds, Reported(d, kind),
           NEW low \in Nat, NEW high \in Nat
    PROVE  /\ OwnIn(low, high) => OwnIn(low, high)'
           /\ /\ kind = "scroll" /\ blocker[d] \notin {"new", "ended"}
              /\ low < clock /\ clock <= high
              => OwnIn(low, high)'
<1> DEFINE e == [kind |-> kind, at |-> clock]
<1>1. own[d] \in Seq(Reports) /\ e \in Reports /\ e.at = clock /\ e.kind = kind
    BY DEF Types, OwnTypes, TimeTypes, Reports
<1>2. own' = IF blocker[d] \in {"new", "ended"} THEN own
             ELSE [own EXCEPT ![d] = Append(own[d], e)]
    BY DEF Reported
<1> HIDE DEF e
<1>3. /\ \A i \in DOMAIN own[d] :
            i \in DOMAIN Append(own[d], e) /\ Append(own[d], e)[i] = own[d][i]
      /\ \E i \in DOMAIN Append(own[d], e) : Append(own[d], e)[i] = e
  <2> DEFINE q == own[d]
  <2>1. q \in Seq(Reports) /\ e \in Reports
    BY <1>1
  <2> HIDE DEF q
  <2>2. \A i \in DOMAIN q : i \in DOMAIN Append(q, e) /\ Append(q, e)[i] = q[i]
    BY <2>1, Appended
  <2>3. \E i \in DOMAIN Append(q, e) : Append(q, e)[i] = e
    BY <2>1, Appended
  <2> QED
    BY <2>2, <2>3 DEF q
<1>4. CASE blocker[d] \in {"new", "ended"}
    BY <1>2, <1>4 DEF OwnIn
<1>5. CASE blocker[d] \notin {"new", "ended"}
  <2>1. \A c \in Devices : own'[c] = IF c = d THEN Append(own[d], e) ELSE own[c]
    BY <1>2, <1>5 DEF Types, OwnTypes
  <2>2. \A c \in Devices : \A i \in DOMAIN own[c] :
            i \in DOMAIN own'[c] /\ own'[c][i] = own[c][i]
    BY <1>3, <2>1
  <2>3. OwnIn(low, high) => OwnIn(low, high)'
    BY <2>2 DEF OwnIn
  <2>4. PICK i \in DOMAIN own'[d] : own'[d][i] = e
    BY <1>3, <2>1
  <2>5. ASSUME kind = "scroll", low < clock, clock <= high PROVE OwnIn(low, high)'
    <3>1. own'[d][i].kind = "scroll" /\ low < own'[d][i].at /\ own'[d][i].at <= high
      BY <1>1, <2>4, <2>5
    <3> QED
      BY <3>1 DEF OwnIn
  <2> QED
    BY <2>3, <2>5
<1> QED
    BY <1>4, <1>5

\* An event that a blocker reads is the one waited for, or leaves it in the queue.
LEMMA ReadIn ==
    ASSUME Types, Punctual, NEW d \in Devices, ReadEvent(d), NEW t \in Nat,
           OwnIn(t, t + Pause)
    PROVE  \/ OwnIn(t, t + Pause)'
           \/ blocker'[d] = "store" /\ clock <= t + Pause + OwnLag
<1>1. own[d] \in Seq(Reports) /\ own[d] # << >>
    BY DEF ReadEvent, Types, OwnTypes
<1>2. /\ Head(own[d]) = own[d][1] /\ 1 \in DOMAIN own[d]
      /\ \A i \in DOMAIN own[d] : i # 1 =>
            i - 1 \in DOMAIN Tail(own[d]) /\ Tail(own[d])[i - 1] = own[d][i]
    BY <1>1, Taken
<1>3. \A c \in Devices : own'[c] = IF c = d THEN Tail(own[d]) ELSE own[c]
    BY DEF ReadEvent, Types, OwnTypes
<1>4. PICK c \in Devices : \E i \in DOMAIN own[c] :
          own[c][i].kind = "scroll" /\ t < own[c][i].at /\ own[c][i].at <= t + Pause
    BY DEF OwnIn
<1>5. PICK i \in DOMAIN own[c] :
          own[c][i].kind = "scroll" /\ t < own[c][i].at /\ own[c][i].at <= t + Pause
    BY <1>4
<1>6. CASE c # d
    BY <1>3, <1>5, <1>6 DEF OwnIn
<1>7. CASE c = d /\ i # 1
  <2>1. i - 1 \in DOMAIN own'[d] /\ own'[d][i - 1] = own[d][i]
    BY <1>2, <1>3, <1>7
  <2> QED
    BY <1>5, <1>7, <2>1 DEF OwnIn
<1>8. CASE c = d /\ i = 1
  <2>1. blocker'[d] = "store"
    BY <1>2, <1>5, <1>8 DEF ReadEvent, Types, ThreadTypes
  <2>2. own[d][1].at \in Nat
    <3>1. own[d][1] \in Reports
      BY <1>1, <1>2
    <3> QED
      BY <3>1 DEF Reports, Times
  <2>3. clock <= own[d][1].at + OwnLag
    BY <1>2 DEF Punctual, OwnTimes
  <2> QED
    BY <1>5, <1>8, <2>1, <2>2, <2>3, Numbers
<1> QED
    BY <1>6, <1>7, <1>8

LEMMA StampedStep ==
    ASSUME Prompt, Types, Punctual, Next, Used, Used', focus' = focus, since' = since,
           NEW t \in Nat, since <= t, t < clock', t < clock => Stamped(t)
    PROVE  Stamped(t)'
<1> USE DEF userVars, protocolVars, blockerVars, senderVars
<1>1. CASE Tick
  <2>1. /\ clock' = clock + 1 /\ UNCHANGED <<own, scrolledAt, lastScroll>>
        /\ \A d \in Devices : blocker[d] # "store"
    BY <1>1 DEF Tick
  <2>2. CASE t < clock
    BY <2>1, <2>2 DEF Stamped, OwnIn
  <2>3. CASE t = clock
    BY <2>1, <2>3 DEF Punctual, PastTimes, Stamped
  <2> QED
    BY <2>1, <2>2, <2>3, Numbers
<1>2. ASSUME UNCHANGED <<clock, own, scrolledAt, lastScroll, blocker>> PROVE Stamped(t)'
    BY <1>2 DEF Stamped, OwnIn
<1>3. CASE FocusMoves \/ Protocol \/ Sender
    BY <1>2, <1>3, ProtocolLeaves DEF FocusMoves, Sender, TakeRouted, TestScroll, TestBlur,
                      GiveBack, Replay
<1>4. CASE ScrollsElsewhere
    BY <1>4 DEF ScrollsElsewhere, Used
<1>5. ASSUME NEW d \in Devices, UserScrolls(d) PROVE Stamped(t)'
  <2>1. /\ Reported(d, "scroll") /\ "scroll" \in Kinds /\ t < clock
        /\ UNCHANGED <<clock, lastScroll, blocker>>
    BY <1>5 DEF UserScrolls, Kinds
  <2>2. OwnIn(t, t + Pause) => OwnIn(t, t + Pause)'
    BY <2>1, ReportedIn, Numbers
  <2>3. CASE scrolledAt <= t
    <3>1. clock <= t + Pause /\ clock # 1
      BY <2>1, <2>3, Numbers DEF Punctual, PastTimes, Used
    <3>2. blocker[d] \notin {"new", "ended"}
      BY <3>1 DEF Used, Punctual, StampTimes
    <3>3. OwnIn(t, t + Pause)'
      BY <2>1, <3>1, <3>2, ReportedIn, Numbers
    <3> QED
      BY <3>3 DEF Stamped
  <2>4. CASE ~(scrolledAt <= t)
    BY <2>1, <2>2, <2>4 DEF Stamped
  <2> QED
    BY <2>3, <2>4
<1>6. ASSUME NEW d \in Devices, UserMoves(d) PROVE Stamped(t)'
  <2>1. /\ Reported(d, "other") /\ "other" \in Kinds /\ t < clock
        /\ UNCHANGED <<clock, lastScroll, blocker, scrolledAt>>
    BY <1>6 DEF UserMoves, Kinds
  <2>2. OwnIn(t, t + Pause) => OwnIn(t, t + Pause)'
    BY <2>1, ReportedIn, Numbers
  <2> QED
    BY <2>1, <2>2 DEF Stamped
<1>7. ASSUME NEW d \in Devices, Grab(d) \/ Ask(d) PROVE Stamped(t)'
  <2>1. UNCHANGED <<clock, own, scrolledAt, lastScroll>> /\ t < clock
    BY <1>7 DEF Grab, Ask
  <2>2. \A c \in Devices : blocker[c] = "store" => blocker'[c] = "store"
    BY <1>7 DEF Grab, Ask, Types, ThreadTypes
  <2> QED
    BY <2>1, <2>2 DEF Stamped, OwnIn
<1>8. ASSUME NEW d \in Devices, ReadEvent(d) PROVE Stamped(t)'
  <2>1. UNCHANGED <<clock, scrolledAt, lastScroll>> /\ t < clock
    BY <1>8 DEF ReadEvent
  <2>2. \A c \in Devices : blocker[c] = "store" => blocker'[c] = "store"
    BY <1>8 DEF ReadEvent, Types, ThreadTypes
  <2>3. CASE OwnIn(t, t + Pause)
    BY <1>8, <2>1, <2>3, ReadIn DEF Stamped
  <2>4. CASE ~OwnIn(t, t + Pause)
    BY <2>1, <2>2, <2>4 DEF Stamped
  <2> QED
    BY <2>3, <2>4
<1>9. ASSUME NEW d \in Devices, StoreScroll(d) PROVE Stamped(t)'
    BY <1>9 DEF StoreScroll, Punctual, StampTimes, Stamped
<1>10. ASSUME NEW d \in Devices, BlockerEnds(d) PROVE FALSE
  <2>1. blocker'[d] = "ended"
    BY <1>10 DEF BlockerEnds, Types, ThreadTypes
  <2> QED
    BY <2>1 DEF Used
<1> QED
    BY <1>1, <1>3, <1>4, <1>5, <1>6, <1>7, <1>8, <1>9, <1>10 DEF Next, Blocker

LEMMA StampsStep == Prompt /\ Types /\ Punctual /\ Stamps /\ [Next]_vars => Stamps'
<1> SUFFICES ASSUME Prompt, Types, Punctual, Stamps, [Next]_vars, NEW t \in Nat,
                    Used', since' <= t, t < clock'
             PROVE  Stamped(t)'
    BY DEF Stamps
<1>1. CASE UNCHANGED vars
    BY <1>1 DEF vars, userVars, protocolVars, blockerVars, senderVars, Stamps, Used, Stamped,
                OwnIn
<1>2. CASE Next
  <2>1. focus' = focus /\ since' = since
    BY <1>2, SinceStep, Numbers
  <2>2. Used
    BY <1>2, <2>1, EndedStays DEF Used
  <2>3. t < clock => Stamped(t)
    BY <2>1, <2>2 DEF Stamps
  <2> QED
    BY <1>2, <2>1, <2>2, <2>3, StampedStep
<1> QED
    BY <1>1, <1>2

\* The sender finds a guest in use used.
LEMMA UsedIsNotUnused ==
    ASSUME Prompt, Scrolling, Types, Punctual, Stamps, Used, sender # "recv", Unused
    PROVE  clock - since <= Pause + OwnLag
<1> SUFFICES ASSUME ~(clock - since <= Pause + OwnLag) PROVE FALSE
    OBVIOUS
<1> DEFINE t == clock - Pause - OwnLag - 1
<1>1. t \in Nat /\ t + Pause + OwnLag + 1 = clock /\ since <= t /\ t < clock
    BY Numbers
<1> HIDE DEF t
<1>2. Stamped(t)
    BY <1>1 DEF Stamps
<1>3. CASE lastScroll > t
  <2>1. now = clock /\ lastScroll <= clock
    BY DEF Punctual, PastTimes
  <2>2. Minus(now, lastScroll) = now - lastScroll
    BY <2>1, MinusIsExact DEF Types, TimeTypes
  <2> QED
    BY <1>1, <1>3, <2>1, <2>2, Numbers DEF Unused, Scrolling
<1>4. CASE scrolledAt <= t
    BY <1>1, <1>4, Numbers DEF Punctual, PastTimes
<1>5. CASE OwnIn(t, t + Pause)
  <2>1. PICK d \in Devices : \E i \in DOMAIN own[d] :
            t < own[d][i].at /\ own[d][i].at <= t + Pause
    BY <1>5 DEF OwnIn
  <2>2. PICK i \in DOMAIN own[d] : t < own[d][i].at /\ own[d][i].at <= t + Pause
    BY <2>1
  <2>3. own[d][i].at \in Nat
    <3>1. own[d] \in Seq(Reports)
      BY DEF Types, OwnTypes
    <3>2. own[d][i] \in Reports
      BY <3>1
    <3> QED
      BY <3>2 DEF Reports, Times
  <2>4. clock <= own[d][i].at + OwnLag
    BY DEF Punctual, OwnTimes
  <2> QED
    BY <1>1, <2>2, <2>3, <2>4, Numbers
<1>6. CASE \E d \in Devices : blocker[d] = "store" /\ clock <= t + Pause + OwnLag
    BY <1>1, <1>6, Numbers
<1> QED
    BY <1>2, <1>3, <1>4, <1>5, <1>6 DEF Stamped

\* The sender tests last_blur in a guest in use only soon after the guest came into use.
Kept == Scrolling /\ sender = "blur" /\ Used => clock - since <= Pause + OwnLag

LEMMA KeptStep ==
    Prompt /\ Types /\ Punctual /\ Stamps /\ Kept /\ [Next]_vars => Kept'
<1> SUFFICES ASSUME Prompt, Types, Punctual, Stamps, Kept, [Next]_vars, Scrolling,
                    sender' = "blur", Used'
             PROVE  clock' - since' <= Pause + OwnLag
    BY DEF Kept, Scrolling
<1>1. CASE UNCHANGED vars
    BY <1>1 DEF vars, userVars, protocolVars, blockerVars, senderVars, Kept, Used
<1>2. CASE Next
  <2>1. CASE since' = clock /\ clock' = clock
    BY <2>1, Numbers
  <2>2. CASE focus' = focus /\ since' = since
    <3>1. Used
      BY <1>2, <2>2, EndedStays DEF Used
    <3>2. CASE TestScroll
      <4>1. sender = "scroll" /\ Unused /\ clock' = clock
        BY <3>2 DEF TestScroll
      <4> QED
        BY <2>2, <3>1, <4>1, UsedIsNotUnused
    <3>3. CASE ~TestScroll
      <4>1. sender' = sender /\ clock' = clock
        <5>1. ASSUME NEW d \in Devices, UserScrolls(d) \/ UserMoves(d) \/ Blocker(d)
              PROVE  sender' = sender /\ clock' = clock
          BY <5>1 DEF UserScrolls, UserMoves, Blocker, Grab, ReadEvent, StoreScroll, Ask,
                      BlockerEnds, senderVars
        <5>2. CASE Tick
          BY <5>2 DEF Tick, senderVars
        <5>3. CASE FocusMoves \/ ScrollsElsewhere \/ Protocol
          BY <5>3, ProtocolLeaves DEF FocusMoves, ScrollsElsewhere, senderVars
        <5>4. CASE TakeRouted \/ TestBlur \/ GiveBack \/ Replay
          BY <5>4 DEF TakeRouted, TestBlur, GiveBack, Replay
        <5> QED
          BY <1>2, <3>3, <5>1, <5>2, <5>3, <5>4 DEF Next, Sender
      <4> QED
        BY <2>2, <3>1, <4>1 DEF Kept
    <3> QED
      BY <3>2, <3>3
  <2> QED
    BY <1>2, <2>1, <2>2, SinceStep
<1> QED
    BY <1>1, <1>2

\* The sender does not drop an event and give back the scroll (sender.rs:138-143) in a guest
\* that the user scrolls in, if the user goes on for SCROLL_TTL, the threads are prompt and
\* the blockers live: their last_scroll is never too old.
THEOREM UsedGuestKeeps == Spec => KeepsTheScroll
<1>1. CASE ~Prompt
  <2>1. [Next]_vars =>
          [Prompt /\ Scrolling /\ sender = "blur" /\ sender' = "recv" =>
             \/ focus = "elsewhere"
             \/ clock - since <= Pause + OwnLag
             \/ \E d \in Devices : blocker[d] = "ended"]_vars
    BY <1>1
  <2> QED
    BY <2>1, PTL DEF Spec, KeepsTheScroll
<1>2. CASE Prompt
  <2> DEFINE I == Types /\ Punctual /\ Stamps /\ Kept
  <2>1. Init => I
    <3> SUFFICES ASSUME Init PROVE I
      OBVIOUS
    <3>1. Stamps /\ Kept
      BY DEF Init, Stamps, Used, Kept
    <3> QED
      BY <3>1, TypesInit, PunctualInit
  <2>2. I /\ [Next]_vars => I'
    BY <1>2, TypesStep, PunctualStep, StampsStep, KeptStep
  <2>3. I /\ [Next]_vars =>
          [Prompt /\ Scrolling /\ sender = "blur" /\ sender' = "recv" =>
             \/ focus = "elsewhere"
             \/ clock - since <= Pause + OwnLag
             \/ \E d \in Devices : blocker[d] = "ended"]_vars
    BY DEF Types, UserTypes, Kept, Used
  <2> HIDE DEF I
  <2> QED
    BY <2>1, <2>2, <2>3, PTL DEF Spec, KeepsTheScroll
<1> QED
    BY <1>1, <1>2

-----------------------------------------------------------------------------
\* The numbers of a frame.

\* The clicks of every i32 value agree with it, up to less than one click.
THEOREM ClicksAgree ==
    ASSUME NEW h \in Int
    PROVE  Agree(h, Clicks(h))
<1>1. CASE h >= 0
  <2> DEFINE c == h \div 120
  <2>1. c \in Nat /\ 120 * c <= h /\ h < 120 * c + 120
    BY <1>1
  <2>2. h * c >= 0
    BY <1>1, <2>1
  <2> QED
    BY <1>1, <2>1, <2>2 DEF Agree, Clicks, Truncated, Abs
<1>2. CASE h < 0
  <2> DEFINE c == (-h) \div 120
  <2>1. c \in Nat /\ 120 * c <= -h /\ -h < 120 * c + 120
    BY <1>2
  <2>2. h * (-c) >= 0
    BY <1>2, <2>1
  <2>3. Clicks(h) = -c
    BY <1>2 DEF Clicks, Truncated
  <2> QED
    BY <1>2, <2>1, <2>2, <2>3 DEF Agree, Abs
<1> QED
    BY <1>1, <1>2

\* Opposite values have opposite clicks, and opposite deltas opposite values below the
\* limit of an i32: nothing is left over when the user scrolls forth and back.
THEOREM ScrollingBackUndoes ==
    /\ \A h \in Int : Clicks(-h) = -Clicks(h)
    /\ \A d \in Int : InRange(d) => HiRes(-d) = -HiRes(d)
<1>1. \A h \in Int : Clicks(-h) = -Clicks(h)
    BY DEF Clicks, Truncated
<1>2. \A d \in Int : InRange(d) => HiRes(-d) = -HiRes(d)
    BY FrameAssumption DEF HiRes, Truncated, Abs, InRange
<1> QED
    BY <1>1, <1>2

\* A buffer carries h: of each axis code that h does not map to 0 it has an event, and all
\* of them have that value; of the others it has none.
AxisCodes == {"REL_WHEEL_HI_RES", "REL_HWHEEL_HI_RES", "REL_WHEEL", "REL_HWHEEL"}
InputEvents == [code : AxisCodes \cup {"SYN_REPORT"}, value : Int]
Carries(f, h) ==
    \A c \in AxisCodes :
        /\ \A i \in DOMAIN f : f[i].code = c => f[i].value = h[c]
        /\ (\E i \in DOMAIN f : f[i].code = c) <=> h[c] # 0

LEMMA CarriedIsSaid ==
    ASSUME NEW f, NEW h, Carries(f, h), NEW c \in AxisCodes
    PROVE  Says(f, c) = h[c]
<1> DEFINE i == CHOOSE j \in DOMAIN f : f[j].code = c
<1>1. CASE \E j \in DOMAIN f : f[j].code = c
  <2>1. i \in DOMAIN f /\ f[i].code = c
    BY <1>1
  <2> QED
    BY <1>1, <2>1 DEF Carries, Says
<1>2. CASE ~\E j \in DOMAIN f : f[j].code = c
    BY <1>2 DEF Carries, Says
<1> QED
    BY <1>1, <1>2

\* One event more.
Longer(f, g, e) ==
    /\ \A i \in DOMAIN f : i \in DOMAIN g /\ g[i] = f[i]
    /\ \E i \in DOMAIN g : g[i] = e
    /\ \A i \in DOMAIN g : g[i] = e \/ (i \in DOMAIN f /\ g[i] = f[i])

LEMMA EventAdded ==
    ASSUME NEW f \in Seq(InputEvents), NEW e \in InputEvents
    PROVE  f \o << e >> \in Seq(InputEvents) /\ Longer(f, f \o << e >>, e)
<1> DEFINE g == f \o << e >>
<1>1. /\ Len(f) \in Nat /\ DOMAIN f = 1 .. Len(f)
      /\ g \in Seq(InputEvents) /\ DOMAIN g = 1 .. Len(f) + 1
    BY LenProperties
<1>2. \A i \in 1 .. Len(f) : g[i] = f[i]
    BY <1>1
<1>3. g[Len(f) + 1] = e
    BY <1>1
<1> HIDE DEF g
<1>4. \A i \in 1 .. Len(f) + 1 : i = Len(f) + 1 \/ i \in 1 .. Len(f)
    BY <1>1
<1>5. \A i \in DOMAIN f : i \in DOMAIN g /\ g[i] = f[i]
    BY <1>1, <1>2
<1>6. \E i \in DOMAIN g : g[i] = e
    BY <1>1, <1>3
<1>7. \A i \in DOMAIN g : g[i] = e \/ (i \in DOMAIN f /\ g[i] = f[i])
    BY <1>1, <1>2, <1>3, <1>4
<1> QED
    BY <1>1, <1>5, <1>6, <1>7 DEF g, Longer

\* A value is pushed once: the buffer carries it in the place of 0.
LEMMA PushCarries ==
    ASSUME NEW f \in Seq(InputEvents), NEW h \in [AxisCodes -> Int], Carries(f, h),
           NEW code \in AxisCodes, h[code] = 0, NEW v \in Int
    PROVE  /\ f \o Pushed(code, v) \in Seq(InputEvents)
           /\ Carries(f \o Pushed(code, v), [h EXCEPT ![code] = v])
<1> DEFINE g == f \o Pushed(code, v)
           k == [h EXCEPT ![code] = v]
           e == Event(code, v)
<1>1. CASE v = 0
  <2>1. f \o << >> = f
    OBVIOUS
  <2>2. g = f /\ k = h
    BY <1>1, <2>1 DEF Pushed
  <2> QED
    BY <2>2
<1>2. CASE v # 0
  <2>1. e \in InputEvents /\ e.code = code /\ e.value = v
    BY DEF Event, InputEvents
  <2>2. g = f \o << e >>
    BY <1>2 DEF Pushed
  <2>3. \A c \in AxisCodes : k[c] = IF c = code THEN v ELSE h[c]
    OBVIOUS
  <2> HIDE DEF e, g, k
  <2>4. g \in Seq(InputEvents) /\ Longer(f, g, e)
    BY <2>1, <2>2, EventAdded
  <2>5. \A c \in AxisCodes : \A i \in DOMAIN g : g[i].code = c => g[i].value = k[c]
    <3> SUFFICES ASSUME NEW c \in AxisCodes, NEW i \in DOMAIN g, g[i].code = c
                 PROVE  g[i].value = k[c]
      OBVIOUS
    <3>1. CASE g[i] = e
      BY <2>1, <2>3, <3>1
    <3>2. CASE i \in DOMAIN f /\ g[i] = f[i]
      BY <2>3, <3>2 DEF Carries
    <3> QED
      BY <2>4, <3>1, <3>2 DEF Longer
  <2>6. ASSUME NEW c \in AxisCodes
        PROVE  (\E i \in DOMAIN g : g[i].code = c) <=> k[c] # 0
    <3>1. (\E i \in DOMAIN f : f[i].code = c) <=> h[c] # 0
      BY DEF Carries
    <3>2. CASE c = code
      BY <1>2, <2>1, <2>3, <2>4, <3>2 DEF Longer
    <3>3. CASE c # code
      <4>1. ASSUME NEW i \in DOMAIN g, g[i].code = c PROVE i \in DOMAIN f /\ f[i].code = c
        BY <2>1, <2>4, <3>3, <4>1 DEF Longer
      <4>2. ASSUME NEW i \in DOMAIN f, f[i].code = c PROVE i \in DOMAIN g /\ g[i].code = c
        BY <2>4, <4>2 DEF Longer
      <4> QED
        BY <2>3, <3>1, <3>3, <4>1, <4>2
    <3> QED
      BY <3>2, <3>3
  <2> QED
    BY <2>4, <2>5, <2>6 DEF g, k, Carries
<1> QED
    BY <1>1, <1>2

\* An i32 holds the units of a delta in range, to less than one.
LEMMA UnitsOfDelta ==
    ASSUME NEW d \in Int
    PROVE  HiRes(d) \in Int /\ (InRange(d) => Abs(16 * HiRes(d) - 8 * d) < 16)
<1>1. CASE d >= 0
  <2> DEFINE u == (8 * d) \div 16
  <2>1. u \in Nat /\ 16 * u <= 8 * d /\ 8 * d < 16 * u + 16 /\ Truncated(8 * d, 16) = u
    BY <1>1 DEF Truncated
  <2>2. HiRes(d) = IF u > MaxValue THEN MaxValue
                   ELSE IF u < -MaxValue - 1 THEN -MaxValue - 1 ELSE u
    BY <2>1 DEF HiRes
  <2> HIDE DEF u
  <2> QED
    BY <1>1, <2>1, <2>2, FrameAssumption DEF InRange, Abs
<1>2. CASE d < 0
  <2> DEFINE u == (-(8 * d)) \div 16
  <2>1. u \in Nat /\ 16 * u <= -(8 * d) /\ -(8 * d) < 16 * u + 16 /\ Truncated(8 * d, 16) = -u
    BY <1>2 DEF Truncated
  <2>2. HiRes(d) = IF -u > MaxValue THEN MaxValue
                   ELSE IF -u < -MaxValue - 1 THEN -MaxValue - 1 ELSE -u
    BY <2>1 DEF HiRes
  <2> HIDE DEF u
  <2> QED
    BY <1>2, <2>1, <2>2, FrameAssumption DEF InRange, Abs
<1> QED
    BY <1>1, <1>2

\* Each of the four codes of a frame says its value.
LEMMA FrameSays ==
    ASSUME NEW dx \in Int, NEW dy \in Int
    PROVE  /\ Says(Frame(dx, dy), "REL_WHEEL_HI_RES") = HiRes(dy)
           /\ Says(Frame(dx, dy), "REL_HWHEEL_HI_RES") = HiRes(dx)
           /\ Says(Frame(dx, dy), "REL_WHEEL") = Clicks(HiRes(dy))
           /\ Says(Frame(dx, dy), "REL_HWHEEL") = Clicks(HiRes(dx))
<1> DEFINE hx == HiRes(dx)
           hy == HiRes(dy)
           cx == Clicks(hx)
           cy == Clicks(hy)
           f1 == Pushed("REL_WHEEL_HI_RES", hy)
           f2 == f1 \o Pushed("REL_HWHEEL_HI_RES", hx)
           f3 == f2 \o Pushed("REL_WHEEL", cy)
           f4 == f3 \o Pushed("REL_HWHEEL", cx)
           syn == Event("SYN_REPORT", 0)
           h0 == [c \in AxisCodes |-> 0]
           h1 == [h0 EXCEPT !["REL_WHEEL_HI_RES"] = hy]
           h2 == [h1 EXCEPT !["REL_HWHEEL_HI_RES"] = hx]
           h3 == [h2 EXCEPT !["REL_WHEEL"] = cy]
           h4 == [h3 EXCEPT !["REL_HWHEEL"] = cx]
<1>1. hx \in Int /\ hy \in Int /\ cx \in Int /\ cy \in Int
    BY UnitsOfDelta DEF Clicks, Truncated
<1>2. Frame(dx, dy) = f4 \o << syn >>
    BY DEF Frame
<1> HIDE DEF hx, hy, cx, cy
<1>3. /\ h0 \in [AxisCodes -> Int] /\ h1 \in [AxisCodes -> Int]
      /\ h2 \in [AxisCodes -> Int] /\ h3 \in [AxisCodes -> Int]
      /\ h0["REL_WHEEL_HI_RES"] = 0 /\ h1["REL_HWHEEL_HI_RES"] = 0
      /\ h2["REL_WHEEL"] = 0 /\ h3["REL_HWHEEL"] = 0
    BY <1>1 DEF AxisCodes
<1>4. /\ h4["REL_WHEEL_HI_RES"] = hy /\ h4["REL_HWHEEL_HI_RES"] = hx
      /\ h4["REL_WHEEL"] = cy /\ h4["REL_HWHEEL"] = cx
    BY <1>1 DEF AxisCodes
<1>5. << >> \in Seq(InputEvents) /\ Carries(<< >>, h0)
    BY DEF Carries
<1>6. << >> \o f1 = f1
    BY DEF Pushed, Event
<1>7. /\ "REL_WHEEL_HI_RES" \in AxisCodes /\ "REL_HWHEEL_HI_RES" \in AxisCodes
      /\ "REL_WHEEL" \in AxisCodes /\ "REL_HWHEEL" \in AxisCodes
    BY DEF AxisCodes
<1>8. f1 \in Seq(InputEvents) /\ Carries(f1, h1)
  <2> HIDE DEF h0
  <2>1. << >> \o f1 \in Seq(InputEvents) /\ Carries(<< >> \o f1, h1)
    BY <1>1, <1>3, <1>5, <1>7, PushCarries
  <2> QED
    BY <1>6, <2>1
<1> HIDE DEF f1, h1
<1>9. f2 \in Seq(InputEvents) /\ Carries(f2, h2)
    BY <1>1, <1>3, <1>7, <1>8, PushCarries
<1> HIDE DEF f2, h2
<1>10. f3 \in Seq(InputEvents) /\ Carries(f3, h3)
    BY <1>1, <1>3, <1>7, <1>9, PushCarries
<1> HIDE DEF f3, h3
<1>11. f4 \in Seq(InputEvents) /\ Carries(f4, h4)
    BY <1>1, <1>3, <1>7, <1>10, PushCarries
<1> HIDE DEF f4, h4
<1>12. Carries(f4 \o << syn >>, h4)
  <2>1. syn \in InputEvents /\ syn.code \notin AxisCodes
    BY DEF Event, InputEvents, AxisCodes
  <2> HIDE DEF syn
  <2> DEFINE g == f4 \o << syn >>
  <2>2. Longer(f4, g, syn)
    BY <1>11, <2>1, EventAdded
  <2> HIDE DEF g
  <2>3. Carries(g, h4)
    BY <1>11, <2>1, <2>2 DEF Carries, Longer
  <2> QED
    BY <2>3 DEF g
<1> QED
    BY <1>2, <1>4, <1>7, <1>12, CarriedIsSaid DEF hx, hy, cx, cy

\* Whatever the deltas are, clicks and units of the frame say the same scroll: each axis
\* its own, in its direction, less than a click apart, and to a unit what was scrolled.
THEOREM FramesAgree == \A dx, dy \in Int : Consistent(dx, dy)
    BY FrameSays, UnitsOfDelta, ClicksAgree DEF Consistent

\* So every frame that the sender is about to write does.
THEOREM WrittenFramesAgree == Spec => []FrameIsConsistent
<1>1. AllConsistent
    BY FramesAgree, FrameAssumption DEF AllConsistent
<1>2. FrameIsConsistent
    BY <1>1 DEF FrameIsConsistent
<1> QED
    BY <1>2, PTL

=============================================================================
