-------------------------- MODULE ClipboardSyncProofs --------------------------
(***************************************************************************)
(* Theorems about ClipboardSync, for any machines, links, users and        *)
(* capacity:                                                               *)
(*   ClipboardTypes      the variables keep their types and the sender's   *)
(*                       channel its capacity, whatever fails;             *)
(*   OnlyCopiesAreRead   with Prompt, a machine reads its clipboard once   *)
(*                       per copy of its own user at most, whatever fails; *)
(*   NeverBack           with one user, sets in order and no call that is  *)
(*                       handled after it has failed, no clipboard goes    *)
(*                       back to an older content, whatever is lost;       *)
(*   LastCopyKept        if moreover nothing fails and the channel has     *)
(*                       room, the user's last copy is under way to every  *)
(*                       destination until it is there.                    *)
(***************************************************************************)
EXTENDS ClipboardSync, FiniteSetTheorems, SequenceTheorems, TLAPS

USE ClipboardAssumption

-----------------------------------------------------------------------------
\* Operators of the libraries.

LEMMA MinOfTwo ==
    ASSUME NEW a \in Int, NEW b \in Int
    PROVE  Min({a, b}) \in {a, b} /\ Min({a, b}) <= a /\ Min({a, b}) <= b
<1>1. \E x \in {a, b} : \A y \in {a, b} : x <= y
    OBVIOUS
<1> QED
    BY <1>1 DEF Min

LEMMA SetToSeqType ==
    ASSUME NEW S, IsFiniteSet(S)
    PROVE  SetToSeq(S) \in Seq(S)
<1>1. Cardinality(S) \in Nat /\ ExistsBijection(1 .. Cardinality(S), S)
    BY FS_CardinalityType
<1>2. PICK f \in [1 .. Cardinality(S) -> S] : IsInjective(f)
    BY <1>1 DEF ExistsBijection, Bijection, Injection
<1>3. SetToSeq(S) \in [1 .. Cardinality(S) -> S]
    BY <1>2 DEF SetToSeq
<1> QED
    BY <1>1, <1>3

LEMMA WiderSeq ==
    ASSUME NEW S, NEW T, S \subseteq T, NEW q \in Seq(S)
    PROVE  q \in Seq(T)
OBVIOUS

LEMMA TailType ==
    ASSUME NEW S, NEW q \in Seq(S), q # << >>
    PROVE  /\ Head(q) \in S /\ Head(q) = q[1] /\ Tail(q) \in Seq(S)
           /\ Len(Tail(q)) = Len(q) - 1 /\ Len(q) \in Nat /\ 1 \in DOMAIN q
           /\ \A i \in DOMAIN Tail(q) : i \in Nat /\ i >= 1 /\ Tail(q)[i] = q[i + 1]
           /\ DOMAIN q = 1 .. Len(q) /\ DOMAIN Tail(q) = 1 .. Len(q) - 1
<1>1. Len(q) \in Nat /\ Len(q) # 0 /\ DOMAIN q = 1 .. Len(q)
    BY EmptySeq, LenProperties
<1>2. Tail(q) \in Seq(S) /\ Len(Tail(q)) = Len(q) - 1 /\ DOMAIN Tail(q) = 1 .. Len(q) - 1
    BY <1>1
<1>3. Head(q) \in S /\ Head(q) = q[1] /\ 1 \in DOMAIN q
    BY <1>1
<1>4. \A i \in DOMAIN Tail(q) : i \in Nat /\ i >= 1 /\ Tail(q)[i] = q[i + 1]
    BY <1>1, <1>2
<1> QED
    BY <1>1, <1>2, <1>3, <1>4

LEMMA RemoveAtType ==
    ASSUME NEW S, NEW q \in Seq(S), NEW i \in DOMAIN q
    PROVE  RemoveAt(q, i) \in Seq(S) /\ q # << >> /\ q[i] \in S
<1>1. Len(q) \in Nat /\ i \in 1 .. Len(q) /\ q[i] \in S
    BY LenProperties
<1>2. SubSeq(q, 1, i - 1) \in Seq(S) /\ SubSeq(q, i + 1, Len(q)) \in Seq(S)
    BY <1>1
<1>3. q # << >>
    BY <1>1
<1> QED
    BY <1>1, <1>2, <1>3 DEF RemoveAt

\* The copies of the user among the changes that the watcher noticed.
Copied(q) == {i \in DOMAIN q : ~q[i]}
Number(q) == Cardinality(Copied(q))

LEMMA CopiedFinite ==
    ASSUME NEW q \in Seq(BOOLEAN)
    PROVE  IsFiniteSet(Copied(q)) /\ Number(q) \in Nat
<1>1. DOMAIN q = 1 .. Len(q) /\ Len(q) \in Nat
    BY LenProperties
<1>2. IsFiniteSet(1 .. Len(q)) /\ Copied(q) \in SUBSET (1 .. Len(q))
    BY <1>1, FS_Interval DEF Copied
<1> QED
    BY <1>2, FS_Subset, FS_CardinalityType DEF Number

LEMMA NumberAppend ==
    ASSUME NEW q \in Seq(BOOLEAN), NEW b \in BOOLEAN
    PROVE  /\ Append(q, b) \in Seq(BOOLEAN)
           /\ Number(Append(q, b)) = IF b THEN Number(q) ELSE Number(q) + 1
           /\ TRUE \in ToSet(Append(q, b)) => b \/ TRUE \in ToSet(q)
<1>1. /\ Len(q) \in Nat /\ DOMAIN q = 1 .. Len(q) /\ DOMAIN Append(q, b) = 1 .. Len(q) + 1
      /\ \A i \in 1 .. Len(q) : Append(q, b)[i] = q[i]
      /\ Append(q, b)[Len(q) + 1] = b /\ Append(q, b) \in Seq(BOOLEAN)
    BY LenProperties
<1>2. Copied(Append(q, b)) = IF b THEN Copied(q) ELSE Copied(q) \cup {Len(q) + 1}
    BY <1>1 DEF Copied
<1>3. Len(q) + 1 \notin Copied(q)
    BY <1>1 DEF Copied
<1>4. Number(Append(q, b)) = IF b THEN Number(q) ELSE Number(q) + 1
    BY <1>2, <1>3, CopiedFinite, FS_AddElement DEF Number
<1>5. ASSUME TRUE \in ToSet(Append(q, b)), b = FALSE
      PROVE  TRUE \in ToSet(q)
  <2>1. PICK i \in 1 .. Len(q) + 1 : Append(q, b)[i] = TRUE
    BY <1>1, <1>5 DEF ToSet
  <2>2. i # Len(q) + 1
    BY <1>1, <1>5, <2>1
  <2>3. i \in 1 .. Len(q) /\ q[i] = TRUE
    BY <1>1, <2>1, <2>2
  <2> QED
    BY <1>1, <2>3 DEF ToSet
<1> QED
    BY <1>1, <1>4, <1>5

LEMMA NumberTail ==
    ASSUME NEW q \in Seq(BOOLEAN), q # << >>
    PROVE  /\ Tail(q) \in Seq(BOOLEAN)
           /\ Number(q) = IF q[1] THEN Number(Tail(q)) ELSE Number(Tail(q)) + 1
           /\ q[1] => TRUE \in ToSet(q)
           /\ ToSet(Tail(q)) \subseteq ToSet(q)
<1>1. /\ Tail(q) \in Seq(BOOLEAN) /\ Len(q) \in Nat /\ 1 \in DOMAIN q
      /\ DOMAIN q = 1 .. Len(q) /\ DOMAIN Tail(q) = 1 .. Len(q) - 1
      /\ \A i \in DOMAIN Tail(q) : i \in Nat /\ i >= 1 /\ Tail(q)[i] = q[i + 1]
    BY TailType
<1> DEFINE f == [i \in Copied(Tail(q)) |-> i + 1]
<1>2. f \in Bijection(Copied(Tail(q)), Copied(q) \ {1})
  <2>1. f \in [Copied(Tail(q)) -> Copied(q) \ {1}]
    BY <1>1 DEF Copied
  <2>2. \A i, j \in DOMAIN f : f[i] = f[j] => i = j
    BY <1>1 DEF Copied
  <2>3. \A j \in Copied(q) \ {1} : \E i \in Copied(Tail(q)) : f[i] = j
    <3> SUFFICES ASSUME NEW j \in Copied(q) \ {1}
                 PROVE  j - 1 \in Copied(Tail(q)) /\ f[j - 1] = j
        OBVIOUS
    <3>1. j \in 2 .. Len(q) /\ ~q[j]
      BY <1>1 DEF Copied
    <3>2. j - 1 \in Copied(Tail(q))
      BY <1>1, <3>1 DEF Copied
    <3> QED
      BY <3>1, <3>2
  <2> QED
    BY <2>1, <2>2, <2>3 DEF Bijection, Injection, Surjection, IsInjective
<1>3. Cardinality(Copied(q) \ {1}) = Number(Tail(q)) /\ Number(Tail(q)) \in Nat
  <2>1. ExistsBijection(Copied(Tail(q)), Copied(q) \ {1})
    BY <1>2 DEF ExistsBijection
  <2> QED
    BY <1>1, <2>1, CopiedFinite, FS_Bijection DEF Number
<1>4. Cardinality(Copied(q) \ {1}) = IF 1 \in Copied(q) THEN Number(q) - 1 ELSE Number(q)
    BY CopiedFinite, FS_RemoveElement DEF Number
<1>5. 1 \in Copied(q) <=> ~q[1]
    BY <1>1 DEF Copied
<1>6. Number(q) = IF q[1] THEN Number(Tail(q)) ELSE Number(Tail(q)) + 1
    BY <1>3, <1>4, <1>5, CopiedFinite
<1>7. (q[1] => TRUE \in ToSet(q)) /\ ToSet(Tail(q)) \subseteq ToSet(q)
  <2>1. \A i \in DOMAIN Tail(q) : i + 1 \in DOMAIN q
    BY <1>1
  <2>2. q[1] \in BOOLEAN
    BY <1>1
  <2> QED
    BY <1>1, <2>1, <2>2 DEF ToSet
<1> QED
    BY <1>1, <1>6, <1>7

-----------------------------------------------------------------------------
\* Types.

ContentTypes ==
    /\ copies \in Contents
    /\ clip \in [Machines -> Contents] /\ copied \in [Machines -> Contents]
    /\ \A m \in Machines : copied[m] <= copies
FlagTypes ==
    /\ stamped \in [Machines -> BOOLEAN] /\ reading \in [Machines -> BOOLEAN]
    /\ recent \in [Machines -> BOOLEAN]
WatchTypes ==
    /\ changes \in [Machines -> Seq(BOOLEAN)]
    /\ reads \in [Machines -> 0 .. MaxReads]
QueueTypes ==
    /\ sendq \in [Machines -> Seq(Sends)]
    /\ \A m \in Machines : Len(sendq[m]) <= SendCap
AwaitTypes ==
    /\ call \in [Machines -> Seq(Sends)]
    /\ \A m \in Machines : Len(call[m]) <= 1
SetTypes == sets \in [Machines -> Seq(Contents)] /\ late \in [Machines -> Seq(Contents)]

Types == ContentTypes /\ FlagTypes /\ WatchTypes /\ QueueTypes /\ AwaitTypes /\ SetTypes

LEMMA ChangeTypes ==
    ASSUME Types, NEW m \in Machines, NEW c \in Contents, NEW own \in BOOLEAN, Change(m, c, own)
    PROVE  /\ clip' \in [Machines -> Contents] /\ stamped' \in [Machines -> BOOLEAN]
           /\ changes' \in [Machines -> Seq(BOOLEAN)]
<1>1. clip' \in [Machines -> Contents]
    BY DEF Types, ContentTypes, Change
<1>2. stamped' \in [Machines -> BOOLEAN]
    BY DEF Types, FlagTypes, Change
<1>3. changes' \in [Machines -> Seq(BOOLEAN)]
  <2>1. Append(changes[m], own) \in Seq(BOOLEAN)
    BY NumberAppend DEF Types, WatchTypes
  <2> QED
    BY <2>1 DEF Types, WatchTypes, Change
<1> QED
    BY <1>1, <1>2, <1>3

\* What a read puts behind what is queued already: the clipboard's content, for some of
\* the destinations.
LEMMA ReadQueues ==
    ASSUME Types, NEW m \in Machines, ReadClipboard(m)
    PROVE  \E s \in Seq(Sends) :
              /\ sendq' = [sendq EXCEPT ![m] = sendq[m] \o s]
              /\ sendq[m] \o s \in Seq(Sends) /\ Len(sendq[m] \o s) <= SendCap
              /\ \A i \in DOMAIN s : s[i].content = clip[m] /\ s[i].to \in Destinations(m)
<1> DEFINE S == {[to |-> n, content |-> clip[m], answered |-> FALSE] : n \in Destinations(m)}
           sends == SetToSeq(S)
           room == SendCap - Len(sendq[m])
           k == Min({room, Len(sends)})
           v == sendq[m] \o SubSeq(sends, 1, k)
<1>1. S \subseteq Sends
  <2>1. clip[m] \in Contents /\ Destinations(m) \subseteq Machines
    BY DEF Types, ContentTypes, Destinations
  <2>2. \A n \in Destinations(m) : [to |-> n, content |-> clip[m], answered |-> FALSE] \in Sends
    BY <2>1 DEF Sends
  <2> QED
    BY <2>2
<1>2. IsFiniteSet(S)
  <2> DEFINE f == [n \in Destinations(m) |-> [to |-> n, content |-> clip[m], answered |-> FALSE]]
  <2>1. f \in Surjection(Destinations(m), S)
    BY DEF Surjection
  <2>2. IsFiniteSet(Destinations(m))
    BY FS_Subset DEF Destinations
  <2> HIDE DEF f, S
  <2> QED
    BY <2>1, <2>2, FS_Surjection
<1>3. sendq' = [sendq EXCEPT ![m] = v]
    BY DEF ReadClipboard
<1>10. \A e \in S : e.content = clip[m] /\ e.to \in Destinations(m)
    OBVIOUS
<1> HIDE DEF S
<1>4. sends \in Seq(S) /\ sends \in Seq(Sends)
  <2>1. sends \in Seq(S)
    BY <1>2, SetToSeqType
  <2> QED
    BY <1>1, <2>1
<1>5. sendq[m] \in Seq(Sends) /\ Len(sendq[m]) \in Nat /\ Len(sendq[m]) <= SendCap
    BY DEF Types, QueueTypes
<1> HIDE DEF sends
<1>6. Len(sends) \in Nat /\ room \in Nat
    BY <1>4, <1>5
<1>7. k \in 0 .. Len(sends) /\ k <= room
  <2> HIDE DEF room
  <2>1. room \in Int /\ Len(sends) \in Int
    BY <1>6
  <2>2. k \in {room, Len(sends)} /\ k <= room /\ k <= Len(sends)
    BY <2>1, MinOfTwo, Zenon
  <2> QED
    BY <1>6, <2>2
<1> HIDE DEF k
<1>8. SubSeq(sends, 1, k) \in Seq(Sends) /\ Len(SubSeq(sends, 1, k)) = k
    BY <1>4, <1>6, <1>7
<1>9. v \in Seq(Sends) /\ Len(v) <= SendCap
  <2>1. v \in Seq(Sends) /\ Len(v) = Len(sendq[m]) + k
    BY <1>5, <1>8
  <2>2. k \in Nat /\ k <= SendCap - Len(sendq[m])
    BY <1>6, <1>7
  <2> HIDE DEF v
  <2>3. Len(v) <= SendCap
    BY <1>5, <2>1, <2>2
  <2> QED
    BY <2>1, <2>3
<1>11. /\ SubSeq(sends, 1, k) \in Seq(S)
      /\ \A i \in DOMAIN SubSeq(sends, 1, k) : SubSeq(sends, 1, k)[i] \in S
  <2>1. SubSeq(sends, 1, k) \in Seq(S)
    BY <1>4, <1>6, <1>7
  <2> QED
    BY <2>1
<1> QED
    BY <1>3, <1>8, <1>9, <1>10, <1>11

LEMMA ReadTypes ==
    ASSUME Types, NEW m \in Machines, ReadClipboard(m)
    PROVE  Types'
<1>1. QueueTypes'
  <2>1. PICK s \in Seq(Sends) :
              /\ sendq' = [sendq EXCEPT ![m] = sendq[m] \o s]
              /\ sendq[m] \o s \in Seq(Sends) /\ Len(sendq[m] \o s) <= SendCap
    BY ReadQueues
  <2> DEFINE v == sendq[m] \o s
  <2>2. sendq' = [sendq EXCEPT ![m] = v] /\ v \in Seq(Sends) /\ Len(v) <= SendCap
    BY <2>1
  <2> HIDE DEF v
  <2> QED
    BY <2>2 DEF Types, QueueTypes
<1>2. WatchTypes'
  <2>1. reads[m] \in Nat /\ MaxReads \in Nat
    BY DEF Types, WatchTypes, MaxReads
  <2>2. reads[m] + 1 \in Int /\ MaxReads \in Int
    BY <2>1
  <2>3. /\ Min({reads[m] + 1, MaxReads}) \in {reads[m] + 1, MaxReads}
        /\ Min({reads[m] + 1, MaxReads}) <= MaxReads
    BY <2>2, MinOfTwo, Zenon
  <2>4. Min({reads[m] + 1, MaxReads}) \in 0 .. MaxReads
    BY <2>1, <2>3
  <2> QED
    BY <2>4 DEF Types, WatchTypes, ReadClipboard
<1>3. FlagTypes' /\ ContentTypes' /\ AwaitTypes' /\ SetTypes'
    BY DEF Types, FlagTypes, ContentTypes, AwaitTypes, SetTypes, ReadClipboard
<1> QED
    BY <1>1, <1>2, <1>3 DEF Types

LEMMA AwaitingTypes ==
    ASSUME AwaitTypes, NEW m \in Machines, NEW v \in Seq(Sends), Len(v) <= 1,
           call' = [call EXCEPT ![m] = v]
    PROVE  AwaitTypes'
BY DEF AwaitTypes

\* The call that a sender task awaits.
LEMMA TheCall ==
    ASSUME Types, NEW m \in Machines, call[m] # << >>
    PROVE  Len(call[m]) = 1 /\ DOMAIN call[m] = {1} /\ call[m][1] \in Sends
<1>1. call[m] \in Seq(Sends) /\ Len(call[m]) <= 1
    BY DEF Types, AwaitTypes
<1>2. Len(call[m]) \in Nat /\ 1 \in DOMAIN call[m] /\ DOMAIN call[m] = 1 .. Len(call[m])
    BY <1>1, TailType
<1>3. 1 \in 1 .. Len(call[m])
    BY <1>2
<1>4. Len(call[m]) = 1
  <2>1. \A k \in Nat : k <= 1 /\ 1 \in 1 .. k => k = 1
    OBVIOUS
  <2> QED
    BY <1>1, <1>2, <1>3, <2>1
<1> QED
    BY <1>1, <1>2, <1>4

LEMMA CallTypes ==
    ASSUME Types, NEW m \in Machines, StartCall(m) \/ HandleClipboardEvent(m) \/ EndCall(m)
    PROVE  Types'
<1>1. CASE StartCall(m)
  <2>1. sendq[m] \in Seq(Sends) /\ sendq[m] # << >> /\ Len(sendq[m]) <= SendCap
    BY <1>1 DEF Types, QueueTypes, StartCall
  <2>2. /\ Head(sendq[m]) \in Sends /\ Tail(sendq[m]) \in Seq(Sends)
        /\ Len(Tail(sendq[m])) = Len(sendq[m]) - 1 /\ Len(sendq[m]) \in Nat
    BY <2>1, TailType
  <2>3. AwaitTypes'
    <3>1. <<Head(sendq[m])>> \in Seq(Sends) /\ Len(<<Head(sendq[m])>>) <= 1
      BY <2>2
    <3> QED
      BY <1>1, <3>1, AwaitingTypes DEF StartCall, Types
  <2>4. QueueTypes'
    <3> DEFINE v == Tail(sendq[m])
    <3>1. v \in Seq(Sends) /\ Len(v) <= SendCap /\ sendq' = [sendq EXCEPT ![m] = v]
      BY <1>1, <2>1, <2>2 DEF StartCall
    <3> HIDE DEF v
    <3> QED
      BY <3>1 DEF Types, QueueTypes
  <2>5. FlagTypes' /\ ContentTypes' /\ WatchTypes' /\ SetTypes'
    BY <1>1 DEF Types, FlagTypes, ContentTypes, WatchTypes, SetTypes, StartCall
  <2> QED
    BY <2>3, <2>4, <2>5 DEF Types
<1>2. CASE HandleClipboardEvent(m)
  <2>1. Len(call[m]) = 1 /\ DOMAIN call[m] = {1} /\ call[m][1] \in Sends
    BY <1>2, TheCall DEF HandleClipboardEvent
  <2>2. PICK n \in Machines, c \in Contents : n = call[m][1].to /\ c = call[m][1].content
    BY <2>1 DEF Sends
  <2>3. recent' = [recent EXCEPT ![n] = TRUE] /\ sets' = [sets EXCEPT ![n] = Append(sets[n], c)]
    BY <1>2, <2>2 DEF HandleClipboardEvent
  <2>4. FlagTypes'
    BY <1>2, <2>3 DEF Types, FlagTypes, HandleClipboardEvent
  <2>5. SetTypes'
    <3>1. Append(sets[n], c) \in Seq(Contents)
      BY DEF Types, SetTypes
    <3> QED
      BY <1>2, <2>3, <3>1 DEF Types, SetTypes, HandleClipboardEvent
  <2>6. AwaitTypes'
    <3> DEFINE e == [call[m][1] EXCEPT !.answered = TRUE]
               v == [call[m] EXCEPT ![1] = e]
    <3>1. call' = [call EXCEPT ![m] = v]
      BY <1>2 DEF HandleClipboardEvent
    <3>2. e \in Sends
      BY <2>1 DEF Sends
    <3> HIDE DEF e
    <3>3. call[m] \in Seq(Sends)
      BY DEF Types, AwaitTypes
    <3>4. v \in Seq(Sends) /\ Len(v) <= 1
      BY <2>1, <3>2, <3>3, ExceptSeq
    <3> HIDE DEF v
    <3> QED
      BY <3>1, <3>4, AwaitingTypes DEF Types
  <2>7. ContentTypes' /\ WatchTypes' /\ QueueTypes'
    BY <1>2 DEF Types, ContentTypes, WatchTypes, QueueTypes, HandleClipboardEvent
  <2> QED
    BY <2>4, <2>5, <2>6, <2>7 DEF Types
<1>3. CASE EndCall(m)
  <2>1. << >> \in Seq(Sends) /\ Len(<< >>) <= 1
    OBVIOUS
  <2>2. AwaitTypes'
    BY <1>3, <2>1, AwaitingTypes DEF EndCall, Types
  <2>3. FlagTypes' /\ ContentTypes' /\ WatchTypes' /\ QueueTypes'
    BY <1>3 DEF Types, FlagTypes, ContentTypes, WatchTypes, QueueTypes, EndCall
  <2>4. SetTypes'
    <3>1. call[m][1] \in Sends
      BY <1>3, TheCall DEF EndCall
    <3>2. PICK n \in Machines, c \in Contents : n = call[m][1].to /\ c = call[m][1].content
      BY <3>1 DEF Sends
    <3>3. sets' = sets /\ late' \in {late, [late EXCEPT ![n] = Append(late[n], c)]}
      BY <1>3, <3>2 DEF EndCall
    <3>4. Append(late[n], c) \in Seq(Contents)
      BY DEF Types, SetTypes
    <3> QED
      BY <3>3, <3>4 DEF Types, SetTypes
  <2> QED
    BY <2>2, <2>3, <2>4 DEF Types
<1> QED
    BY <1>1, <1>2, <1>3

LEMMA OtherTypes ==
    ASSUME Types, NEW m \in Machines,
           \/ UserCopies(m) \/ Millisecond(m) \/ TakeChange(m) \/ ReadFails(m)
           \/ RunSet(m) \/ SetFails(m) \/ TtlPasses(m)
    PROVE  Types'
<1>1. CASE UserCopies(m)
  <2>1. copies \in Nat /\ copies + 1 \in Contents
    BY <1>1 DEF UserCopies, Types, ContentTypes, Contents
  <2>2. /\ clip' \in [Machines -> Contents] /\ stamped' \in [Machines -> BOOLEAN]
        /\ changes' \in [Machines -> Seq(BOOLEAN)]
    BY <1>1, <2>1, ChangeTypes DEF UserCopies
  <2>3. copied' \in [Machines -> Contents] /\ \A n \in Machines : copied'[n] <= copies'
    <3>1. /\ copied \in [Machines -> 0 .. MaxCopies] /\ \A n \in Machines : copied[n] <= copies
          /\ copied' = [copied EXCEPT ![m] = copied[m] + 1] /\ copies' = copies + 1
          /\ copies < MaxCopies
      BY <1>1 DEF UserCopies, Types, ContentTypes, Contents
    <3>2. \A n \in Machines : copied[n] \in 0 .. MaxCopies /\ copied'[n] \in {copied[n], copied[n] + 1}
      BY <3>1
    <3>3. \A n \in Machines : copied'[n] \in 0 .. MaxCopies /\ copied'[n] <= copies'
      BY <2>1, <3>1, <3>2
    <3> QED
      BY <3>1, <3>3 DEF Contents
  <2>4. ContentTypes' /\ FlagTypes' /\ WatchTypes'
    BY <1>1, <2>1, <2>2, <2>3 DEF UserCopies, Types, ContentTypes, FlagTypes, WatchTypes
  <2>5. QueueTypes' /\ AwaitTypes' /\ SetTypes'
    BY <1>1 DEF Types, QueueTypes, AwaitTypes, SetTypes, UserCopies
  <2> QED
    BY <2>4, <2>5 DEF Types
<1>2. CASE Millisecond(m) \/ ReadFails(m) \/ TtlPasses(m)
  <2>1. FlagTypes'
    BY <1>2 DEF Types, FlagTypes, Millisecond, ReadFails, TtlPasses
  <2>2. ContentTypes' /\ WatchTypes' /\ QueueTypes' /\ AwaitTypes' /\ SetTypes'
    BY <1>2 DEF Types, ContentTypes, WatchTypes, QueueTypes, AwaitTypes, SetTypes,
                Millisecond, ReadFails, TtlPasses
  <2> QED
    BY <2>1, <2>2 DEF Types
<1>3. CASE TakeChange(m)
  <2>1. WatchTypes'
    <3>1. changes[m] \in Seq(BOOLEAN) /\ changes[m] # << >>
      BY <1>3 DEF Types, WatchTypes, TakeChange
    <3>2. Tail(changes[m]) \in Seq(BOOLEAN)
      BY <3>1, NumberTail
    <3> QED
      BY <1>3, <3>2 DEF Types, WatchTypes, TakeChange
  <2>2. FlagTypes'
    BY <1>3 DEF Types, FlagTypes, TakeChange
  <2>3. ContentTypes' /\ QueueTypes' /\ AwaitTypes' /\ SetTypes'
    BY <1>3 DEF Types, ContentTypes, QueueTypes, AwaitTypes, SetTypes, TakeChange
  <2> QED
    BY <2>1, <2>2, <2>3 DEF Types
<1>4. CASE RunSet(m)
  <2>1. PICK i \in DOMAIN sets[m] :
            Change(m, sets[m][i], TRUE) /\ sets' = [sets EXCEPT ![m] = RemoveAt(sets[m], i)]
    BY <1>4 DEF RunSet
  <2>2. RemoveAt(sets[m], i) \in Seq(Contents) /\ sets[m][i] \in Contents
    <3>1. sets[m] \in Seq(Contents)
      BY DEF Types, SetTypes
    <3> QED
      BY <3>1, RemoveAtType
  <2>3. /\ clip' \in [Machines -> Contents] /\ stamped' \in [Machines -> BOOLEAN]
        /\ changes' \in [Machines -> Seq(BOOLEAN)]
    BY <2>1, <2>2, ChangeTypes
  <2>4. ContentTypes' /\ FlagTypes' /\ WatchTypes'
    BY <1>4, <2>3 DEF RunSet, Types, ContentTypes, FlagTypes, WatchTypes
  <2>5. SetTypes'
    BY <1>4, <2>1, <2>2 DEF Types, SetTypes, RunSet
  <2>6. QueueTypes' /\ AwaitTypes'
    BY <1>4 DEF Types, QueueTypes, AwaitTypes, RunSet
  <2> QED
    BY <2>4, <2>5, <2>6 DEF Types
<1>5. CASE SetFails(m)
  <2>1. PICK i \in DOMAIN sets[m] : sets' = [sets EXCEPT ![m] = RemoveAt(sets[m], i)]
    BY <1>5 DEF SetFails
  <2>2. RemoveAt(sets[m], i) \in Seq(Contents)
    <3>1. sets[m] \in Seq(Contents)
      BY DEF Types, SetTypes
    <3> QED
      BY <3>1, RemoveAtType
  <2>3. SetTypes'
    BY <1>5, <2>1, <2>2 DEF Types, SetTypes, SetFails
  <2>4. ContentTypes' /\ FlagTypes' /\ WatchTypes' /\ QueueTypes' /\ AwaitTypes'
    BY <1>5 DEF Types, ContentTypes, FlagTypes, WatchTypes, QueueTypes, AwaitTypes, SetFails
  <2> QED
    BY <2>3, <2>4 DEF Types
<1> QED
    BY <1>1, <1>2, <1>3, <1>4, <1>5

LEMMA LateTypes ==
    ASSUME Types, NEW m \in Machines, HandleLateEvent(m)
    PROVE  Types'
<1>1. PICK i \in DOMAIN late[m] :
          /\ sets' = [sets EXCEPT ![m] = Append(sets[m], late[m][i])]
          /\ late' = [late EXCEPT ![m] = RemoveAt(late[m], i)]
    BY DEF HandleLateEvent
<1>2. late[m] \in Seq(Contents) /\ sets[m] \in Seq(Contents)
    BY DEF Types, SetTypes
<1>3. late[m][i] \in Contents /\ RemoveAt(late[m], i) \in Seq(Contents)
    BY <1>2, RemoveAtType
<1>4. Append(sets[m], late[m][i]) \in Seq(Contents)
    BY <1>2, <1>3
<1>5. SetTypes'
    BY <1>1, <1>3, <1>4 DEF Types, SetTypes
<1>6. FlagTypes' /\ ContentTypes' /\ WatchTypes' /\ QueueTypes' /\ AwaitTypes'
    BY DEF HandleLateEvent, Types, FlagTypes, ContentTypes, WatchTypes, QueueTypes, AwaitTypes
<1> QED
    BY <1>5, <1>6 DEF Types

LEMMA TypesInit == Init => Types
<1> SUFFICES ASSUME Init PROVE Types
    OBVIOUS
<1>1. ContentTypes
  <2>1. 0 \in Contents /\ \A m \in Machines : copied[m] = 0 /\ copies = 0
    BY DEF Contents, Init
  <2> QED
    BY <2>1 DEF ContentTypes, Init
<1>2. FlagTypes
    BY DEF FlagTypes, Init
<1>3. WatchTypes
    BY DEF WatchTypes, Init, MaxReads
<1>4. QueueTypes
    BY DEF QueueTypes, Init
<1>5. AwaitTypes
    BY DEF AwaitTypes, Init
<1>6. SetTypes
    BY DEF SetTypes, Init
<1> QED
    BY <1>1, <1>2, <1>3, <1>4, <1>5, <1>6 DEF Types

LEMMA TypesStep == Types /\ [Next]_vars => Types'
<1> SUFFICES ASSUME Types, [Next]_vars PROVE Types'
    OBVIOUS
<1>1. CASE UNCHANGED vars
    BY <1>1 DEF Types, ContentTypes, FlagTypes, WatchTypes, QueueTypes, AwaitTypes, SetTypes, vars
<1> QED
    BY <1>1, ReadTypes, CallTypes, OtherTypes, LateTypes DEF Next

\* Whatever calls, sets and reads fail, the variables keep their types, and the channel
\* to the sender task its capacity (send_clipboard's try_send).
THEOREM ClipboardTypes == Spec => []TypeOK
<1>1. Types => TypeOK
    BY DEF Types, ContentTypes, FlagTypes, WatchTypes, QueueTypes, AwaitTypes, SetTypes, TypeOK
<1> QED
    BY <1>1, TypesInit, TypesStep, PTL DEF Spec
-----------------------------------------------------------------------------
\* With Prompt, the user's copies bound the reads.  Stated for one machine: a set whose
\* change has still to be taken keeps its debounce, and each read, each read under way and
\* each of the user's changes that is still to be taken has a copy of its own.

Debounced(m) == sets[m] # << >> \/ TRUE \in ToSet(changes[m]) => recent[m]
Counted(m) ==
    reads[m] + (IF reading[m] THEN 1 ELSE 0) + Number(changes[m]) <= copied[m]

Accounts == \A m \in Machines : Debounced(m) /\ Counted(m)

\* What the step of another machine leaves alone, and a step that touches neither.
LEMMA Untouched ==
    ASSUME NEW m \in Machines, Debounced(m), Counted(m),
           sets'[m] = sets[m], changes'[m] = changes[m], recent'[m] = recent[m],
           reads'[m] = reads[m], reading'[m] = reading[m], copied'[m] = copied[m]
    PROVE  Debounced(m)' /\ Counted(m)'
BY DEF Debounced, Counted

\* The numbers of one machine.
LEMMA Numbers ==
    ASSUME Types, NEW m \in Machines
    PROVE  /\ reads[m] \in Nat /\ copied[m] \in Nat /\ reading[m] \in BOOLEAN
           /\ recent[m] \in BOOLEAN /\ stamped[m] \in BOOLEAN
           /\ changes[m] \in Seq(BOOLEAN) /\ Number(changes[m]) \in Nat
<1>1. changes[m] \in Seq(BOOLEAN) /\ reads[m] \in Nat
    BY DEF Types, WatchTypes, MaxReads
<1>2. copied[m] \in Nat
    BY DEF Types, ContentTypes, Contents
<1>3. reading[m] \in BOOLEAN /\ recent[m] \in BOOLEAN /\ stamped[m] \in BOOLEAN
    BY DEF Types, FlagTypes
<1> QED
    BY <1>1, <1>2, <1>3, CopiedFinite

LEMMA CopyCounts ==
    ASSUME Types, Accounts, NEW m \in Machines, UserCopies(m)
    PROVE  Accounts'
<1> SUFFICES ASSUME NEW n \in Machines PROVE Debounced(n)' /\ Counted(n)'
    BY DEF Accounts
<1>1. Debounced(n) /\ Counted(n)
    BY DEF Accounts
<1>2. /\ changes' = [changes EXCEPT ![m] = Append(changes[m], FALSE)]
      /\ copied' = [copied EXCEPT ![m] = copied[m] + 1]
      /\ sets' = sets /\ recent' = recent /\ reads' = reads /\ reading' = reading
    BY DEF UserCopies, Change
<1>3. CASE n # m
    BY <1>1, <1>2, <1>3, Untouched DEF Types, WatchTypes, ContentTypes
<1>4. CASE n = m
  <2>1. changes'[m] = Append(changes[m], FALSE) /\ copied'[m] = copied[m] + 1
    BY <1>2 DEF Types, WatchTypes, ContentTypes
  <2>2. /\ Number(Append(changes[m], FALSE)) = Number(changes[m]) + 1
        /\ TRUE \in ToSet(Append(changes[m], FALSE)) => TRUE \in ToSet(changes[m])
    BY Numbers, NumberAppend
  <2>3. Debounced(m)'
    BY <1>1, <1>2, <1>4, <2>1, <2>2 DEF Debounced
  <2>4. Counted(m)'
    <3> DEFINE k == reads[m] + (IF reading[m] THEN 1 ELSE 0)
    <3>1. k \in Nat
      BY Numbers
    <3>2. k + Number(changes[m]) <= copied[m]
      BY <1>1, <1>4 DEF Counted
    <3>3. Number(changes'[m]) = Number(changes[m]) + 1
      BY <2>1, <2>2
    <3> HIDE DEF k
    <3>4. k + Number(changes'[m]) <= copied'[m]
      <4>1. Number(changes[m]) \in Nat /\ copied[m] \in Nat /\ copied'[m] = copied[m] + 1
        BY <2>1, Numbers
      <4>2. k + (Number(changes[m]) + 1) <= copied[m] + 1
        BY <3>1, <3>2, <4>1
      <4> QED
        BY <3>3, <4>1, <4>2
    <3>5. k = reads'[m] + (IF reading'[m] THEN 1 ELSE 0)
      BY <1>2 DEF k
    <3> QED
      BY <3>4, <3>5 DEF Counted
  <2> QED
    BY <1>4, <2>3, <2>4
<1> QED
    BY <1>3, <1>4

LEMMA TakeCounts ==
    ASSUME Types, Accounts, NEW m \in Machines, TakeChange(m)
    PROVE  Accounts'
<1> SUFFICES ASSUME NEW n \in Machines PROVE Debounced(n)' /\ Counted(n)'
    BY DEF Accounts
<1>1. Debounced(n) /\ Counted(n)
    BY DEF Accounts
<1>2. /\ ~reading[m] /\ changes[m] # << >>
      /\ changes' = [changes EXCEPT ![m] = Tail(changes[m])]
      /\ reading' = [reading EXCEPT ![m] = ~recent[m]]
      /\ sets' = sets /\ recent' = recent /\ reads' = reads /\ copied' = copied
    BY DEF TakeChange
<1>3. CASE n # m
    BY <1>1, <1>2, <1>3, Untouched DEF Types, WatchTypes, FlagTypes
<1>4. CASE n = m
  <2>1. changes'[m] = Tail(changes[m]) /\ reading'[m] = ~recent[m]
    BY <1>2 DEF Types, WatchTypes, FlagTypes
  <2>2. /\ Tail(changes[m]) \in Seq(BOOLEAN)
        /\ Number(changes[m]) = IF changes[m][1] THEN Number(Tail(changes[m]))
                                ELSE Number(Tail(changes[m])) + 1
        /\ changes[m][1] => TRUE \in ToSet(changes[m])
        /\ ToSet(Tail(changes[m])) \subseteq ToSet(changes[m])
    BY <1>2, Numbers, NumberTail
  <2>3. Debounced(m)'
    BY <1>1, <1>2, <1>4, <2>1, <2>2 DEF Debounced
  <2>4. changes[m][1] => recent[m]
    BY <1>1, <1>4, <2>2 DEF Debounced
  <2>5. Number(Tail(changes[m])) \in Nat
    BY <2>2, CopiedFinite
  <2>6. Counted(m)'
    BY <1>1, <1>2, <1>4, <2>1, <2>2, <2>4, <2>5, Numbers DEF Counted
  <2> QED
    BY <1>4, <2>3, <2>6
<1> QED
    BY <1>3, <1>4

LEMMA ReadCounts ==
    ASSUME Types, Accounts, NEW m \in Machines, ReadClipboard(m) \/ ReadFails(m)
    PROVE  Accounts'
<1> SUFFICES ASSUME NEW n \in Machines PROVE Debounced(n)' /\ Counted(n)'
    BY DEF Accounts
<1>1. Debounced(n) /\ Counted(n)
    BY DEF Accounts
<1>2. /\ reading[m] /\ reading' = [reading EXCEPT ![m] = FALSE]
      /\ \/ reads' = reads
         \/ reads' = [reads EXCEPT ![m] = Min({reads[m] + 1, MaxReads})]
      /\ changes' = changes /\ sets' = sets /\ recent' = recent /\ copied' = copied
    BY DEF ReadClipboard, ReadFails
<1>3. CASE n # m
    BY <1>1, <1>2, <1>3, Untouched DEF Types, WatchTypes, FlagTypes
<1>4. CASE n = m
  <2>1. reads[m] + 1 \in Int /\ MaxReads \in Int
    BY Numbers DEF MaxReads
  <2>2. /\ Min({reads[m] + 1, MaxReads}) \in {reads[m] + 1, MaxReads}
        /\ Min({reads[m] + 1, MaxReads}) <= reads[m] + 1
    BY <2>1, MinOfTwo, Zenon
  <2>3. ~reading'[m] /\ reads'[m] \in Int /\ reads'[m] <= reads[m] + 1
    BY <1>2, <2>1, <2>2, Numbers DEF Types, WatchTypes, FlagTypes
  <2>4. Debounced(m)'
    BY <1>1, <1>2, <1>4 DEF Debounced
  <2>5. Counted(m)'
    BY <1>1, <1>2, <1>4, <2>3, Numbers DEF Counted
  <2> QED
    BY <1>4, <2>4, <2>5
<1> QED
    BY <1>3, <1>4

LEMMA SetCounts ==
    ASSUME Types, Accounts, NEW m \in Machines, RunSet(m) \/ SetFails(m)
    PROVE  Accounts'
<1> SUFFICES ASSUME NEW n \in Machines PROVE Debounced(n)' /\ Counted(n)'
    BY DEF Accounts
<1>1. Debounced(n) /\ Counted(n)
    BY DEF Accounts
<1>2. /\ \E i \in DOMAIN sets[m] : sets' = [sets EXCEPT ![m] = RemoveAt(sets[m], i)]
      /\ changes' \in {changes, [changes EXCEPT ![m] = Append(changes[m], TRUE)]}
      /\ recent' = recent /\ reads' = reads /\ reading' = reading /\ copied' = copied
    BY DEF RunSet, SetFails, Change
<1>3. CASE n # m
    BY <1>1, <1>2, <1>3, Untouched DEF Types, WatchTypes, SetTypes
<1>4. CASE n = m
  <2>1. sets[m] # << >>
    BY <1>2, RemoveAtType DEF Types, SetTypes
  <2>2. recent'[m]
    BY <1>1, <1>2, <1>4, <2>1 DEF Debounced
  <2>3. changes'[m] \in {changes[m], Append(changes[m], TRUE)}
    BY <1>2 DEF Types, WatchTypes
  <2>4. Number(changes'[m]) = Number(changes[m])
    BY <2>3, Numbers, NumberAppend
  <2>5. Debounced(m)'
    BY <2>2 DEF Debounced
  <2>6. Counted(m)'
    BY <1>1, <1>2, <1>4, <2>4 DEF Counted
  <2> QED
    BY <1>4, <2>5, <2>6
<1> QED
    BY <1>3, <1>4

LEMMA EventCounts ==
    ASSUME Types, Accounts, NEW m \in Machines, HandleClipboardEvent(m) \/ HandleLateEvent(m)
    PROVE  Accounts'
<1> SUFFICES ASSUME NEW n \in Machines PROVE Debounced(n)' /\ Counted(n)'
    BY DEF Accounts
<1>1. Debounced(n) /\ Counted(n)
    BY DEF Accounts
<1>2. PICK o \in Machines, c \in Contents :
          /\ recent' = [recent EXCEPT ![o] = TRUE]
          /\ sets' = [sets EXCEPT ![o] = Append(sets[o], c)]
  <2>1. CASE HandleClipboardEvent(m)
    <3>1. call[m][1] \in Sends
      BY <2>1, TheCall DEF HandleClipboardEvent
    <3>2. call[m][1].to \in Machines /\ call[m][1].content \in Contents
      BY <3>1 DEF Sends
    <3> QED
      BY <2>1, <3>2 DEF HandleClipboardEvent
  <2>2. CASE HandleLateEvent(m)
    <3>1. late[m] \in Seq(Contents)
      BY DEF Types, SetTypes
    <3>2. \A i \in DOMAIN late[m] : late[m][i] \in Contents
      BY <3>1
    <3> QED
      BY <2>2, <3>2 DEF HandleLateEvent
  <2> QED
    BY <2>1, <2>2
<1>3. changes' = changes /\ reads' = reads /\ reading' = reading /\ copied' = copied
    BY DEF HandleClipboardEvent, HandleLateEvent
<1>4. CASE n # o
    BY <1>1, <1>2, <1>3, <1>4, Untouched DEF Types, FlagTypes, SetTypes
<1>5. CASE n = o
  <2>1. recent'[n]
    BY <1>2, <1>5 DEF Types, FlagTypes
  <2> QED
    BY <1>1, <1>3, <2>1 DEF Debounced, Counted
<1> QED
    BY <1>4, <1>5

LEMMA TtlCounts ==
    ASSUME Prompt, Types, Accounts, NEW m \in Machines, TtlPasses(m)
    PROVE  Accounts'
<1> SUFFICES ASSUME NEW n \in Machines PROVE Debounced(n)' /\ Counted(n)'
    BY DEF Accounts
<1>1. Debounced(n) /\ Counted(n)
    BY DEF Accounts
<1>2. /\ sets[m] = << >> /\ TRUE \notin ToSet(changes[m])
      /\ recent' = [recent EXCEPT ![m] = FALSE]
      /\ sets' = sets /\ changes' = changes /\ reads' = reads /\ reading' = reading
      /\ copied' = copied
    BY DEF TtlPasses
<1>3. CASE n # m
    BY <1>1, <1>2, <1>3, Untouched DEF Types, FlagTypes
<1>4. CASE n = m
    BY <1>1, <1>2, <1>4 DEF Debounced, Counted
<1> QED
    BY <1>3, <1>4

LEMMA OthersCount ==
    ASSUME Accounts,
           UNCHANGED <<copied, changes, reading, reads, recent, sets>>
    PROVE  Accounts'
BY DEF Accounts, Debounced, Counted

LEMMA AccountsInit == Init => Accounts
<1> SUFFICES ASSUME Init, NEW m \in Machines PROVE Debounced(m) /\ Counted(m)
    BY DEF Accounts
<1>1. /\ sets[m] = << >> /\ changes[m] = << >> /\ reads[m] = 0 /\ ~reading[m] /\ copied[m] = 0
    BY DEF Init
<1>2. ToSet(<< >>) = {} /\ Copied(<< >>) = {}
    BY DEF ToSet, Copied
<1>3. Number(<< >>) = 0
    BY <1>2, FS_EmptySet DEF Number
<1>4. Debounced(m)
    BY <1>1, <1>2 DEF Debounced
<1>5. Number(changes[m]) = 0
    BY <1>1, <1>3
<1>6. reads[m] + (IF reading[m] THEN 1 ELSE 0) + Number(changes[m]) <= copied[m]
    BY <1>1, <1>5
<1> QED
    BY <1>4, <1>6 DEF Counted

LEMMA AccountsStep == ASSUME Prompt PROVE Types /\ Accounts /\ [Next]_vars => Accounts'
<1> SUFFICES ASSUME Types, Accounts, [Next]_vars PROVE Accounts'
    OBVIOUS
<1>1. CASE UNCHANGED vars
    BY <1>1, OthersCount DEF vars
<1>2. ASSUME NEW m \in Machines, Millisecond(m) \/ StartCall(m) \/ EndCall(m)
      PROVE  Accounts'
    BY <1>2, OthersCount DEF Millisecond, StartCall, EndCall
<1> QED
    BY <1>1, <1>2, CopyCounts, TakeCounts, ReadCounts, SetCounts, EventCounts, TtlCounts DEF Next

\* When a set and its change are handled within CLIPBOARD_TTL, a machine reads its
\* clipboard to send it at most once per copy of its own user, whatever other machines set
\* and whatever fails (the debounce of run_clipboard_source): it counts the reads.  What a
\* read finds and sends may have been set after the change that led to it.
THEOREM OnlyCopiesAreRead == ASSUME Prompt PROVE Spec => []ReadsFollowCopies
<1>1. Types /\ Accounts => ReadsFollowCopies
  <2> SUFFICES ASSUME Types, Accounts, NEW m \in Machines PROVE reads[m] <= copied[m]
    BY DEF ReadsFollowCopies
  <2>1. Counted(m)
    BY DEF Accounts
  <2> QED
    BY <2>1, Numbers DEF Counted
<1>2. Init => Types /\ Accounts
    BY TypesInit, AccountsInit
<1>3. Types /\ Accounts /\ [Next]_vars => (Types /\ Accounts)'
    BY TypesStep, AccountsStep
<1> QED
    BY <1>1, <1>2, <1>3, PTL DEF Spec

-----------------------------------------------------------------------------
\* With one user, contents go one way, and each one past all that are older.

User == CHOOSE m \in Users : TRUE
OneUser == Users = {User} /\ <<User, User>> \notin Links

Rising(s) == \A i, j \in DOMAIN s : i < j => s[i] <= s[j]
Newer(x, q) == \A i \in DOMAIN q : x <= q[i].content
SentInOrder(q) == \A i, j \in DOMAIN q : i < j => q[i].content <= q[j].content

\* No newer than what the user's machine has and is still to send.
Older(x) == x <= copies /\ Newer(x, sendq[User]) /\ Newer(x, call[User])

OlderNext(x) == x <= copies' /\ Newer(x, sendq'[User]) /\ Newer(x, call'[User])

OnlyUserSends ==
    \A m \in Machines \ {User} : copied[m] = 0 /\ sendq[m] = << >> /\ call[m] = << >>
OnItsWay ==
    /\ SentInOrder(sendq[User])
    /\ \A i \in DOMAIN sendq[User] :
          sendq[User][i].content <= copies /\ sendq[User][i].to # User
    /\ \A i \in DOMAIN call[User] : Older(call[User][i].content) /\ call[User][i].to # User
AtUser == clip[User] = copies /\ sets[User] = << >>
AtOthers ==
    \A n \in Machines \ {User} :
        /\ Older(clip[n]) /\ Rising(sets[n])
        /\ \A j \in DOMAIN sets[n] : Older(sets[n][j]) /\ clip[n] <= sets[n][j]

Flow == OnlyUserSends /\ OnItsWay /\ AtUser /\ AtOthers

LEMMA RisingAppend ==
    ASSUME NEW s \in Seq(Nat), NEW x \in Nat, Rising(s), \A i \in DOMAIN s : s[i] <= x
    PROVE  /\ Append(s, x) \in Seq(Nat) /\ Rising(Append(s, x))
           /\ \A i \in DOMAIN Append(s, x) :
                Append(s, x)[i] = x \/ (i \in DOMAIN s /\ Append(s, x)[i] = s[i])
<1>1. /\ Len(s) \in Nat /\ DOMAIN s = 1 .. Len(s) /\ Append(s, x) \in Seq(Nat)
      /\ DOMAIN Append(s, x) = 1 .. Len(s) + 1
    BY LenProperties
<1>2. \A i \in 1 .. Len(s) + 1 :
          Append(s, x)[i] = IF i = Len(s) + 1 THEN x ELSE s[i]
    BY <1>1
<1>3. \A i \in 1 .. Len(s) + 1 : i = Len(s) + 1 \/ i \in 1 .. Len(s)
    BY <1>1
<1>4. Rising(Append(s, x))
  <2> SUFFICES ASSUME NEW i \in 1 .. Len(s) + 1, NEW j \in 1 .. Len(s) + 1, i < j
               PROVE  Append(s, x)[i] <= Append(s, x)[j]
    BY <1>1 DEF Rising
  <2>1. i \in 1 .. Len(s) /\ Append(s, x)[i] = s[i]
    BY <1>1, <1>2
  <2>2. CASE j = Len(s) + 1
    BY <1>1, <1>2, <2>1, <2>2
  <2>3. CASE j \in 1 .. Len(s)
    BY <1>1, <1>2, <2>1, <2>3 DEF Rising
  <2> QED
    BY <1>3, <2>2, <2>3
<1> QED
    BY <1>1, <1>2, <1>3, <1>4

\* What is left of a sequence when one element is taken out.
LEMMA RemoveAtIs ==
    ASSUME NEW s \in Seq(Nat), NEW k \in DOMAIN s
    PROVE  /\ DOMAIN RemoveAt(s, k) = 1 .. Len(s) - 1
           /\ \A i \in 1 .. Len(s) - 1 : RemoveAt(s, k)[i] = s[IF i < k THEN i ELSE i + 1]
<1> DEFINE r == RemoveAt(s, k)
           At(i) == IF i < k THEN i ELSE i + 1
<1>1. Len(s) \in Nat /\ k \in 1 .. Len(s) /\ DOMAIN s = 1 .. Len(s)
    BY LenProperties
<1>2. /\ DOMAIN r = 1 .. Len(s) - 1
      /\ \A i \in 1 .. Len(s) - 1 : r[i] = s[At(i)]
  <2> DEFINE a == SubSeq(s, 1, k - 1)
             b == SubSeq(s, k + 1, Len(s))
  <2>1. a \in Seq(Nat) /\ Len(a) = k - 1 /\ \A i \in 1 .. k - 1 : a[i] = s[i]
    <3>1. \A i \in 1 .. k - 1 : s[i] \in Nat
      BY <1>1
    <3>2. /\ a \in Seq(Nat) /\ Len(a) = IF 1 <= k - 1 THEN (k - 1) - 1 + 1 ELSE 0
          /\ \A i \in 1 .. (k - 1) - 1 + 1 : a[i] = s[1 + i - 1]
      BY <1>1, <3>1, SubSeqProperties
    <3> HIDE DEF a
    <3>3. (k - 1) - 1 + 1 = k - 1 /\ \A i \in 1 .. k - 1 : 1 + i - 1 = i
      BY <1>1
    <3>4. Len(a) = k - 1
      BY <1>1, <3>2
    <3>5. \A i \in 1 .. k - 1 : a[i] = s[i]
      BY <3>2, <3>3
    <3> QED
      BY <3>2, <3>4, <3>5
  <2>2. b \in Seq(Nat) /\ Len(b) = Len(s) - k /\ \A i \in 1 .. Len(s) - k : b[i] = s[k + i]
    <3>1. \A i \in k + 1 .. Len(s) : s[i] \in Nat
      BY <1>1
    <3> DEFINE m == k + 1
    <3>2. m \in Int /\ Len(s) \in Int
      BY <1>1
    <3> HIDE DEF m
    <3>3. /\ SubSeq(s, m, Len(s)) \in Seq(Nat)
          /\ Len(SubSeq(s, m, Len(s))) = IF m <= Len(s) THEN Len(s) - m + 1 ELSE 0
          /\ \A i \in 1 .. Len(s) - m + 1 : SubSeq(s, m, Len(s))[i] = s[m + i - 1]
      BY <3>1, <3>2, SubSeqProperties DEF m
    <3>4. b = SubSeq(s, m, Len(s))
      BY DEF m
    <3> HIDE DEF b
    <3>5. Len(s) - m + 1 = Len(s) - k /\ \A i \in 1 .. Len(s) - k : m + i - 1 = k + i
      BY <1>1 DEF m
    <3>6. Len(b) = Len(s) - k
      BY <1>1, <3>3, <3>4 DEF m
    <3>7. \A i \in 1 .. Len(s) - k : b[i] = s[k + i]
      BY <3>3, <3>4, <3>5
    <3> QED
      BY <3>3, <3>4, <3>6, <3>7
  <2>3. r = a \o b
    BY DEF RemoveAt
  <2> HIDE DEF a, b, r
  <2>4. /\ a \o b \in Seq(Nat) /\ Len(a \o b) = Len(a) + Len(b)
        /\ \A i \in 1 .. Len(a) + Len(b) :
              (a \o b)[i] = IF i <= Len(a) THEN a[i] ELSE b[i - Len(a)]
    BY <2>1, <2>2, ConcatProperties
  <2>5. r \in Seq(Nat) /\ Len(r) = Len(s) - 1 /\ DOMAIN r = 1 .. Len(s) - 1
    <3>1. r \in Seq(Nat) /\ Len(r) = Len(s) - 1
      BY <1>1, <2>1, <2>2, <2>3, <2>4
    <3> QED
      BY <3>1
  <2>6. ASSUME NEW i \in 1 .. Len(s) - 1 PROVE r[i] = s[At(i)]
    <3>1. r[i] = IF i <= k - 1 THEN a[i] ELSE b[i - (k - 1)]
      <4>1. i \in 1 .. Len(a) + Len(b) /\ Len(a) = k - 1
        BY <1>1, <2>1, <2>2
      <4> QED
        BY <2>3, <2>4, <4>1
    <3>2. CASE i < k
      BY <1>1, <2>1, <3>1, <3>2
    <3>3. CASE ~(i < k)
      <4>1. i - (k - 1) \in 1 .. Len(s) - k /\ k + (i - (k - 1)) = i + 1 /\ ~(i <= k - 1)
        BY <1>1, <3>3
      <4>2. b[i - (k - 1)] = s[k + (i - (k - 1))]
        BY <2>2, <4>1
      <4> QED
        BY <3>1, <3>3, <4>1, <4>2
    <3> QED
      BY <3>2, <3>3
  <2> QED
    BY <2>5, <2>6
<1> QED
    BY <1>2

LEMMA RisingRemove ==
    ASSUME NEW s \in Seq(Nat), NEW k \in DOMAIN s, Rising(s)
    PROVE  /\ Rising(RemoveAt(s, k))
           /\ \A i \in DOMAIN RemoveAt(s, k) :
                \E j \in DOMAIN s : RemoveAt(s, k)[i] = s[j] /\ (k = 1 => s[1] <= s[j])
<1> DEFINE r == RemoveAt(s, k)
           At(i) == IF i < k THEN i ELSE i + 1
<1>1. Len(s) \in Nat /\ k \in 1 .. Len(s) /\ DOMAIN s = 1 .. Len(s)
    BY LenProperties
<1>2. /\ DOMAIN r = 1 .. Len(s) - 1
      /\ \A i \in 1 .. Len(s) - 1 : r[i] = s[At(i)]
    BY RemoveAtIs
<1> HIDE DEF r
<1>3. \A i \in 1 .. Len(s) - 1 : At(i) \in 1 .. Len(s) /\ (k = 1 => 1 < At(i))
    BY <1>1
<1>4. \A i, j \in 1 .. Len(s) - 1 : i < j => At(i) < At(j)
    BY <1>1
<1> HIDE DEF At
<1>5. Rising(r)
    BY <1>1, <1>2, <1>3, <1>4 DEF Rising
<1>6. \A i \in DOMAIN r : \E j \in DOMAIN s : r[i] = s[j] /\ (k = 1 => s[1] <= s[j])
    BY <1>1, <1>2, <1>3 DEF Rising
<1> QED
    BY <1>5, <1>6 DEF r

\* The values behind Flow are numbers.
LEMMA FlowNumbers ==
    ASSUME Types, NEW m \in Machines
    PROVE  /\ copies \in Nat /\ clip[m] \in Nat /\ sets[m] \in Seq(Nat)
           /\ sendq[m] \in Seq(Sends) /\ \A i \in DOMAIN sendq[m] : sendq[m][i].content \in Nat
           /\ call[m] \in Seq(Sends) /\ \A i \in DOMAIN call[m] : call[m][i].content \in Nat
           /\ \A i \in DOMAIN sets[m] : sets[m][i] \in Nat
<1>1. Contents \subseteq Nat /\ copies \in Contents /\ clip[m] \in Contents
    BY DEF Types, ContentTypes, Contents
<1>2. sets[m] \in Seq(Contents)
    BY DEF Types, SetTypes
<1>3. sendq[m] \in Seq(Sends) /\ call[m] \in Seq(Sends)
    BY DEF Types, QueueTypes, AwaitTypes
<1>4. \A e \in Sends : e.content \in Nat
    BY <1>1 DEF Sends
<1>5. /\ \A i \in DOMAIN sendq[m] : sendq[m][i] \in Sends
      /\ \A i \in DOMAIN call[m] : call[m][i] \in Sends
      /\ \A i \in DOMAIN sets[m] : sets[m][i] \in Contents
    BY <1>2, <1>3
<1>6. sets[m] \in Seq(Nat)
  <2>1. Contents \subseteq Nat
    BY <1>1
  <2> QED
    BY <1>2, <2>1, WiderSeq
<1> QED
    BY <1>1, <1>3, <1>4, <1>5, <1>6

\* A step that leaves the clipboards and the sets alone, as long as nothing overtakes.
LEMMA FlowOn ==
    ASSUME Types, Flow, sets' = sets, \A n \in Machines \ {User} : clip'[n] = clip[n],
           \A x \in Nat : Older(x) => OlderNext(x)
    PROVE  AtOthers'
<1>1. ASSUME NEW n \in Machines \ {User}
      PROVE  /\ OlderNext(clip[n]) /\ Rising(sets[n])
             /\ \A j \in DOMAIN sets[n] : OlderNext(sets[n][j]) /\ clip[n] <= sets[n][j]
  <2>1. clip[n] \in Nat /\ \A j \in DOMAIN sets[n] : sets[n][j] \in Nat
    BY FlowNumbers
  <2>2. /\ Older(clip[n]) /\ Rising(sets[n])
        /\ \A j \in DOMAIN sets[n] : Older(sets[n][j]) /\ clip[n] <= sets[n][j]
    BY DEF Flow, AtOthers
  <2> QED
    BY <2>1, <2>2
<1> QED
    BY <1>1 DEF AtOthers, Older, OlderNext

LEMMA CopyFlows ==
    ASSUME OneUser, Types, Flow, NEW m \in Machines, UserCopies(m)
    PROVE  Flow'
<1>1. m = User
    BY DEF UserCopies, OneUser
<1>2. /\ copies' = copies + 1 /\ copied' = [copied EXCEPT ![User] = copied[User] + 1]
      /\ clip' = [clip EXCEPT ![User] = copies + 1] /\ UNCHANGED <<sendq, call, sets>>
    BY <1>1 DEF UserCopies, Change
<1>3. copies \in Nat
    BY FlowNumbers
<1>4. \A x \in Nat : Older(x) => OlderNext(x)
    BY <1>2, <1>3 DEF Older, OlderNext, Newer
<1>5. OnlyUserSends'
    BY <1>2 DEF Flow, OnlyUserSends, Types, ContentTypes
<1>6. OnItsWay'
  <2>1. \A i \in DOMAIN sendq[User] : sendq[User][i].content \in Nat
    BY <1>1, FlowNumbers
  <2>2. \A i \in DOMAIN call[User] : call[User][i].content \in Nat
    BY <1>1, FlowNumbers
  <2>3. \A i \in DOMAIN sendq[User] :
            sendq[User][i].content <= copies' /\ sendq[User][i].to # User
    BY <1>2, <1>3, <2>1 DEF Flow, OnItsWay
  <2>4. \A i \in DOMAIN call[User] : OlderNext(call[User][i].content) /\ call[User][i].to # User
    BY <1>4, <2>2 DEF Flow, OnItsWay
  <2> QED
    BY <1>2, <2>3, <2>4 DEF Flow, OnItsWay, Older, OlderNext
<1>7. AtUser'
    BY <1>1, <1>2 DEF Flow, AtUser, Types, ContentTypes
<1>8. AtOthers'
    BY <1>2, <1>4, FlowOn DEF Types, ContentTypes
<1> QED
    BY <1>5, <1>6, <1>7, <1>8 DEF Flow

LEMMA OnlyUserReads ==
    ASSUME OneUser, Types, Accounts, Flow, NEW m \in Machines, reading[m]
    PROVE  m = User
<1> SUFFICES ASSUME m # User PROVE FALSE
    OBVIOUS
<1>1. copied[m] = 0
    BY DEF Flow, OnlyUserSends
<1>2. reads[m] + 1 + Number(changes[m]) <= 0
    BY <1>1 DEF Accounts, Counted
<1> QED
    BY <1>2, Numbers

LEMMA ReadFlows ==
    ASSUME OneUser, Types, Accounts, Flow, NEW m \in Machines, ReadClipboard(m)
    PROVE  Flow'
<1>1. m = User
    BY OnlyUserReads DEF ReadClipboard
<1>2. PICK s \in Seq(Sends) :
          /\ sendq' = [sendq EXCEPT ![m] = sendq[m] \o s]
          /\ \A i \in DOMAIN s : s[i].content = clip[m] /\ s[i].to \in Destinations(m)
    BY ReadQueues
<1>3. \A i \in DOMAIN s : s[i].content = copies /\ s[i].to # User
    BY <1>1, <1>2 DEF Flow, AtUser, OneUser, Destinations
<1> DEFINE q == sendq[User]
           v == q \o s
<1>4. sendq'[User] = v /\ \A n \in Machines \ {User} : sendq'[n] = sendq[n]
    BY <1>1, <1>2 DEF Types, QueueTypes
<1>5. q \in Seq(Sends) /\ copies \in Nat
    BY <1>1, FlowNumbers
<1>6. /\ SentInOrder(q)
      /\ \A i \in DOMAIN q : q[i].content <= copies /\ q[i].to # User
    BY DEF Flow, OnItsWay
<1>7. \A i \in DOMAIN q : q[i].content \in Nat
    BY <1>1, FlowNumbers
<1> HIDE DEF q
<1>8. /\ DOMAIN q = 1 .. Len(q) /\ DOMAIN s = 1 .. Len(s) /\ Len(q) \in Nat /\ Len(s) \in Nat
      /\ DOMAIN v = 1 .. Len(q) + Len(s)
      /\ \A i \in 1 .. Len(q) + Len(s) : v[i] = IF i <= Len(q) THEN q[i] ELSE s[i - Len(q)]
    BY <1>5, ConcatProperties
<1> HIDE DEF v
<1>9. ASSUME NEW i \in DOMAIN v
      PROVE  \/ i \in DOMAIN q /\ v[i] = q[i]
             \/ i > Len(q) /\ v[i].content = copies /\ v[i].to # User
  <2>1. CASE i <= Len(q)
    BY <1>8, <1>9, <2>1
  <2>2. CASE ~(i <= Len(q))
    <3>1. i - Len(q) \in DOMAIN s /\ v[i] = s[i - Len(q)] /\ i > Len(q)
      BY <1>8, <1>9, <2>2
    <3> QED
      BY <1>3, <3>1
  <2> QED
    BY <2>1, <2>2
<1>10. SentInOrder(v)
  <2> SUFFICES ASSUME NEW i \in DOMAIN v, NEW j \in DOMAIN v, i < j
               PROVE  v[i].content <= v[j].content
    BY DEF SentInOrder
  <2>1. CASE j \in DOMAIN q /\ v[j] = q[j]
    <3>1. i \in DOMAIN q /\ v[i] = q[i]
      BY <1>8, <1>9, <2>1
    <3> QED
      BY <1>6, <2>1, <3>1 DEF SentInOrder
  <2>2. CASE v[j].content = copies
    BY <1>5, <1>6, <1>9, <2>2
  <2> QED
    BY <1>9, <2>1, <2>2
<1>11. \A i \in DOMAIN v : v[i].content <= copies /\ v[i].to # User
    BY <1>5, <1>6, <1>9
<1>12. UNCHANGED <<clip, copies, copied, call, sets>>
    BY DEF ReadClipboard
<1>13. \A x \in Nat : Older(x) => OlderNext(x)
  <2> SUFFICES ASSUME NEW x \in Nat, Older(x) PROVE OlderNext(x)
    OBVIOUS
  <2>1. x <= copies /\ \A i \in DOMAIN q : x <= q[i].content
    BY DEF Older, Newer, q
  <2>2. \A i \in DOMAIN v : x <= v[i].content
    BY <1>9, <2>1
  <2> QED
    BY <1>4, <1>12, <2>2 DEF Older, OlderNext, Newer
<1>14. OnlyUserSends'
    BY <1>4, <1>12 DEF Flow, OnlyUserSends
<1>15. OnItsWay'
  <2>1. \A i \in DOMAIN call[User] : call[User][i].content \in Nat
    BY <1>1, FlowNumbers
  <2>2. \A i \in DOMAIN call[User] : OlderNext(call[User][i].content) /\ call[User][i].to # User
    BY <1>13, <2>1 DEF Flow, OnItsWay
  <2> QED
    BY <1>4, <1>10, <1>11, <1>12, <2>2 DEF OnItsWay, Older, OlderNext
<1>16. AtUser' /\ AtOthers'
    BY <1>12, <1>13, FlowOn DEF Flow, AtUser
<1> QED
    BY <1>14, <1>15, <1>16 DEF Flow

LEMMA StartFlows ==
    ASSUME OneUser, Types, Flow, NEW m \in Machines, StartCall(m)
    PROVE  Flow'
<1>1. m = User
    BY DEF StartCall, Flow, OnlyUserSends
<1> DEFINE q == sendq[User]
           e == Head(q)
<1>2. /\ q # << >> /\ call' = [call EXCEPT ![User] = <<e>>]
      /\ sendq' = [sendq EXCEPT ![User] = Tail(q)]
      /\ UNCHANGED <<clip, copies, copied, sets>>
    BY <1>1 DEF StartCall
<1>3. q \in Seq(Sends) /\ copies \in Nat
    BY <1>1, FlowNumbers
<1>4. /\ SentInOrder(q) /\ \A i \in DOMAIN q : q[i].content <= copies /\ q[i].to # User
    BY DEF Flow, OnItsWay
<1>5. /\ sendq'[User] = Tail(q) /\ call'[User] = <<e>>
      /\ \A n \in Machines \ {User} : sendq'[n] = sendq[n] /\ call'[n] = call[n]
    BY <1>1, <1>2 DEF Types, QueueTypes, AwaitTypes
<1>6. \A x : Older(x) => x <= copies /\ \A i \in DOMAIN q : x <= q[i].content
    BY DEF Older, Newer
<1> HIDE DEF q
<1>7. /\ e = q[1] /\ 1 \in DOMAIN q
      /\ \A i \in DOMAIN Tail(q) : i + 1 \in DOMAIN q /\ 1 < i + 1 /\ Tail(q)[i] = q[i + 1]
      /\ \A i, j \in DOMAIN Tail(q) : i < j => i + 1 < j + 1
  <2>1. /\ Head(q) = q[1] /\ 1 \in DOMAIN q /\ Len(q) \in Nat
        /\ \A i \in DOMAIN Tail(q) : i \in Nat /\ i >= 1 /\ Tail(q)[i] = q[i + 1]
        /\ DOMAIN q = 1 .. Len(q) /\ DOMAIN Tail(q) = 1 .. Len(q) - 1
    BY <1>2, <1>3, TailType
  <2> QED
    BY <2>1
<1> HIDE DEF e
<1>8. DOMAIN <<e>> = {1} /\ <<e>>[1] = e
    OBVIOUS
<1>9. \A x \in Nat : Older(x) => OlderNext(x)
  <2> SUFFICES ASSUME NEW x \in Nat, Older(x) PROVE OlderNext(x)
    OBVIOUS
  <2>1. x <= copies /\ \A i \in DOMAIN q : x <= q[i].content
    BY <1>6
  <2>2. \A i \in DOMAIN Tail(q) : x <= Tail(q)[i].content
    BY <1>7, <2>1
  <2>3. \A i \in DOMAIN <<e>> : x <= <<e>>[i].content
    BY <1>7, <1>8, <2>1
  <2> QED
    BY <1>2, <1>5, <2>1, <2>2, <2>3 DEF Older, OlderNext, Newer
<1>10. OnlyUserSends'
    BY <1>2, <1>5 DEF Flow, OnlyUserSends
<1>11. OnItsWay'
  <2>1. SentInOrder(Tail(q))
    BY <1>4, <1>7 DEF SentInOrder
  <2>2. \A i \in DOMAIN Tail(q) : Tail(q)[i].content <= copies /\ Tail(q)[i].to # User
    BY <1>4, <1>7
  <2>3. e.content <= copies /\ e.to # User /\ \A i \in DOMAIN Tail(q) : e.content <= Tail(q)[i].content
    BY <1>4, <1>7 DEF SentInOrder
  <2>4. e.content <= e.content
    <3>1. e.content \in Nat
      BY <1>1, <1>7, FlowNumbers DEF q
    <3> QED
      BY <3>1
  <2>5. OlderNext(e.content)
    BY <1>2, <1>5, <1>8, <2>3, <2>4 DEF OlderNext, Newer
  <2>6. \A i \in DOMAIN <<e>> : OlderNext(<<e>>[i].content) /\ <<e>>[i].to # User
    BY <1>8, <2>3, <2>5
  <2> QED
    BY <1>2, <1>5, <2>1, <2>2, <2>6 DEF OnItsWay, Older, OlderNext
<1>12. AtUser' /\ AtOthers'
    BY <1>2, <1>9, FlowOn DEF Flow, AtUser
<1> QED
    BY <1>10, <1>11, <1>12 DEF Flow

LEMMA EventFlows ==
    ASSUME OneUser, Types, Flow, NEW m \in Machines, HandleClipboardEvent(m)
    PROVE  Flow'
<1>1. m = User /\ call[m] # << >>
    BY DEF HandleClipboardEvent, Flow, OnlyUserSends
<1>2. Len(call[m]) = 1 /\ DOMAIN call[m] = {1} /\ call[m][1] \in Sends
    BY <1>1, TheCall
<1>3. PICK n \in Machines, c \in Nat : n = call[m][1].to /\ c = call[m][1].content
    BY <1>2 DEF Sends, Contents
<1>4. n # User /\ Older(c)
    BY <1>1, <1>2, <1>3 DEF Flow, OnItsWay
<1>5. /\ sets' = [sets EXCEPT ![n] = Append(sets[n], c)]
      /\ UNCHANGED <<clip, copies, copied, sendq>>
    BY <1>3 DEF HandleClipboardEvent
<1>6. /\ DOMAIN call'[User] = {1} /\ call'[User][1].content = c /\ call'[User][1].to = n
      /\ \A k \in Machines \ {User} : call'[k] = call[k]
  <2> DEFINE e == [call[m][1] EXCEPT !.answered = TRUE]
             v == [call[m] EXCEPT ![1] = e]
  <2>1. call' = [call EXCEPT ![m] = v]
    BY DEF HandleClipboardEvent
  <2>2. e.content = c /\ e.to = n
    BY <1>2, <1>3 DEF Sends
  <2> HIDE DEF e
  <2>3. DOMAIN v = {1} /\ v[1] = e
    BY <1>2
  <2> HIDE DEF v
  <2> QED
    BY <1>1, <2>1, <2>2, <2>3 DEF Types, AwaitTypes
<1>7. /\ DOMAIN call[User] = {1} /\ call[User][1].content = c
    BY <1>1, <1>2, <1>3
<1>8. \A x \in Nat : Older(x) => OlderNext(x)
    BY <1>5, <1>6, <1>7 DEF Older, OlderNext, Newer
<1>9. OnlyUserSends' /\ AtUser'
  <2>1. OnlyUserSends'
    BY <1>5, <1>6 DEF Flow, OnlyUserSends
  <2>2. sets'[User] = sets[User]
    BY <1>1, <1>4, <1>5 DEF Types, SetTypes
  <2> QED
    BY <1>5, <2>1, <2>2 DEF Flow, AtUser
<1>10. OnItsWay'
  <2>1. OlderNext(c)
    BY <1>3, <1>4, <1>8
  <2>2. \A i \in DOMAIN call'[User] :
            OlderNext(call'[User][i].content) /\ call'[User][i].to # User
    BY <1>4, <1>6, <2>1
  <2> QED
    BY <1>5, <2>2 DEF Flow, OnItsWay, Older, OlderNext
<1>11. AtOthers'
  <2>1. ASSUME NEW k \in Machines \ {User}
        PROVE  /\ OlderNext(clip[k]) /\ Rising(sets'[k])
               /\ \A j \in DOMAIN sets'[k] : OlderNext(sets'[k][j]) /\ clip[k] <= sets'[k][j]
    <3>1. /\ clip[k] \in Nat /\ \A j \in DOMAIN sets[k] : sets[k][j] \in Nat
          /\ sets[k] \in Seq(Nat)
      BY FlowNumbers
    <3>2. /\ Older(clip[k]) /\ Rising(sets[k])
          /\ \A j \in DOMAIN sets[k] : Older(sets[k][j]) /\ clip[k] <= sets[k][j]
      BY DEF Flow, AtOthers
    <3>3. CASE k # n
      BY <1>5, <1>8, <3>1, <3>2, <3>3 DEF Types, SetTypes
    <3>4. CASE k = n
      <4>1. sets'[k] = Append(sets[k], c)
        BY <1>5, <3>4 DEF Types, SetTypes
      <4>2. clip[k] <= c /\ \A j \in DOMAIN sets[k] : sets[k][j] <= c
        BY <1>7, <3>2 DEF Older, Newer
      <4>3. /\ Rising(Append(sets[k], c))
            /\ \A i \in DOMAIN Append(sets[k], c) :
                  \/ Append(sets[k], c)[i] = c
                  \/ i \in DOMAIN sets[k] /\ Append(sets[k], c)[i] = sets[k][i]
        BY <3>1, <3>2, <4>2, RisingAppend
      <4>4. ASSUME NEW j \in DOMAIN sets'[k]
            PROVE  OlderNext(sets'[k][j]) /\ clip[k] <= sets'[k][j]
        <5>1. sets'[k][j] = c \/ (j \in DOMAIN sets[k] /\ sets'[k][j] = sets[k][j])
          BY <4>1, <4>3
        <5> QED
          BY <1>3, <1>4, <1>8, <3>1, <3>2, <4>2, <5>1
      <4> QED
        BY <1>8, <3>1, <3>2, <4>1, <4>3, <4>4
    <3> QED
      BY <3>3, <3>4
  <2> QED
    BY <1>5, <2>1 DEF AtOthers, Older, OlderNext
<1> QED
    BY <1>9, <1>10, <1>11 DEF Flow

LEMMA EndFlows ==
    ASSUME OneUser, Types, Flow, NEW m \in Machines, EndCall(m)
    PROVE  Flow'
<1>1. m = User
    BY DEF EndCall, Flow, OnlyUserSends
<1>2. /\ call' = [call EXCEPT ![User] = << >>]
      /\ UNCHANGED <<clip, copies, copied, sendq, sets>>
    BY <1>1 DEF EndCall
<1>3. call'[User] = << >> /\ \A n \in Machines \ {User} : call'[n] = call[n]
    BY <1>1, <1>2 DEF Types, AwaitTypes
<1>4. \A x \in Nat : Older(x) => OlderNext(x)
    BY <1>2, <1>3 DEF Older, OlderNext, Newer
<1>5. OnlyUserSends' /\ OnItsWay' /\ AtUser'
    BY <1>2, <1>3 DEF Flow, OnlyUserSends, OnItsWay, AtUser
<1>6. AtOthers'
    BY <1>2, <1>4, FlowOn
<1> QED
    BY <1>5, <1>6 DEF Flow

\* A set that runs, or fails, on the one machine that has one.
LEMMA SetFlows ==
    ASSUME SetsInOrder, OneUser, Types, Flow, NEW m \in Machines, RunSet(m) \/ SetFails(m)
    PROVE  Flow' /\ \A n \in Machines : clip'[n] >= clip[n]
<1>1. PICK k \in DOMAIN sets[m] :
          /\ sets' = [sets EXCEPT ![m] = RemoveAt(sets[m], k)]
          /\ clip' = clip \/ (k = 1 /\ clip' = [clip EXCEPT ![m] = sets[m][1]])
    BY DEF RunSet, SetFails, Change
<1>2. m # User
    BY <1>1 DEF Flow, AtUser
<1>3. UNCHANGED <<copies, copied, sendq, call>>
    BY DEF RunSet, SetFails
<1>4. /\ clip[m] \in Nat /\ \A j \in DOMAIN sets[m] : sets[m][j] \in Nat
      /\ sets[m] \in Seq(Nat) /\ \A n \in Machines : clip[n] \in Nat
    BY FlowNumbers
<1>5. /\ Older(clip[m]) /\ Rising(sets[m])
      /\ \A j \in DOMAIN sets[m] : Older(sets[m][j]) /\ clip[m] <= sets[m][j]
    BY <1>2 DEF Flow, AtOthers
<1> DEFINE r == RemoveAt(sets[m], k)
<1>6. /\ Rising(r)
      /\ \A i \in DOMAIN r :
            \E j \in DOMAIN sets[m] : r[i] = sets[m][j] /\ (k = 1 => sets[m][1] <= sets[m][j])
    BY <1>1, <1>4, <1>5, RisingRemove
<1> HIDE DEF r
<1>7. sets'[m] = r /\ \A n \in Machines \ {m} : sets'[n] = sets[n]
    BY <1>1 DEF Types, SetTypes, r
<1>8. /\ clip'[m] = clip[m] \/ (k = 1 /\ clip'[m] = sets[m][1])
      /\ \A n \in Machines \ {m} : clip'[n] = clip[n]
    BY <1>1 DEF Types, ContentTypes
<1>9. OnlyUserSends' /\ OnItsWay' /\ AtUser'
  <2>1. OnlyUserSends' /\ OnItsWay'
    BY <1>3 DEF Flow, OnlyUserSends, OnItsWay, Older
  <2>2. sets'[User] = sets[User] /\ clip'[User] = clip[User]
    BY <1>2, <1>7, <1>8 DEF OneUser
  <2> QED
    BY <1>3, <2>1, <2>2 DEF Flow, AtUser
<1>10. Older(clip'[m]) /\ clip'[m] >= clip[m]
    BY <1>1, <1>4, <1>5, <1>8
<1>11. \A i \in DOMAIN r : Older(r[i]) /\ clip'[m] <= r[i]
    BY <1>4, <1>5, <1>6, <1>8
<1>12. AtOthers'
  <2>1. ASSUME NEW n \in Machines \ {User}
        PROVE  /\ Older(clip'[n]) /\ Rising(sets'[n])
               /\ \A j \in DOMAIN sets'[n] : Older(sets'[n][j]) /\ clip'[n] <= sets'[n][j]
    <3>1. CASE n = m
      BY <1>6, <1>7, <1>10, <1>11, <3>1
    <3>2. CASE n # m
      BY <1>7, <1>8, <3>2 DEF Flow, AtOthers
    <3> QED
      BY <3>1, <3>2
  <2> QED
    BY <1>3, <2>1 DEF AtOthers, Older
<1>13. \A n \in Machines : clip'[n] >= clip[n]
    BY <1>4, <1>8, <1>10
<1> QED
    BY <1>9, <1>12, <1>13 DEF Flow

LEMMA FlowStep ==
    ASSUME ~Late, SetsInOrder, OneUser, Types, Accounts, Flow, Next
    PROVE  Flow' /\ \A n \in Machines : clip'[n] >= clip[n]
<1>1. \A n \in Machines : clip[n] \in Nat /\ clip[n] >= clip[n]
    BY FlowNumbers
<1>2. ASSUME NEW m \in Machines, UserCopies(m) PROVE \A n \in Machines : clip'[n] >= clip[n]
  <2>1. clip' = [clip EXCEPT ![m] = copies + 1] /\ m = User /\ copies \in Nat
    BY <1>2, FlowNumbers DEF UserCopies, Change, OneUser
  <2>2. clip[m] = copies
    BY <2>1 DEF Flow, AtUser
  <2> QED
    BY <1>1, <2>1, <2>2 DEF Types, ContentTypes
<1>3. ASSUME NEW m \in Machines, ReadClipboard(m) \/ StartCall(m) \/ HandleClipboardEvent(m) \/ EndCall(m)
      PROVE  clip' = clip
    BY <1>3 DEF ReadClipboard, StartCall, HandleClipboardEvent, EndCall
<1>4. ASSUME NEW m \in Machines, Millisecond(m) \/ TakeChange(m) \/ ReadFails(m) \/ TtlPasses(m)
      PROVE  Flow' /\ clip' = clip
  <2>1. UNCHANGED <<clip, copies, copied, sendq, call, sets>>
    BY <1>4 DEF Millisecond, TakeChange, ReadFails, TtlPasses
  <2> QED
    BY <2>1 DEF Flow, OnlyUserSends, OnItsWay, AtUser, AtOthers, Older
<1>5. \A m \in Machines : ~HandleLateEvent(m)
    BY DEF HandleLateEvent
<1> QED
    BY <1>1, <1>2, <1>3, <1>4, <1>5, CopyFlows, ReadFlows, StartFlows, EventFlows, EndFlows, SetFlows
    DEF Next

LEMMA FlowInit == OneUser /\ Init => Flow
<1> SUFFICES ASSUME OneUser, Init PROVE Flow
    OBVIOUS
<1>1. User \in Machines
    BY DEF OneUser
<1>2. 0 <= 0 /\ DOMAIN << >> = {}
    OBVIOUS
<1> QED
    BY <1>1, <1>2 DEF Init, Flow, OnlyUserSends, OnItsWay, AtUser, AtOthers, Older, Newer,
                      SentInOrder, Rising

\* With one user, whose machine does not send to itself, no clipboard goes back to an older
\* content, whatever is lost on the way: the sender task makes one call at a time
\* (ClipboardTransport), and only the user's machine reads its clipboard.  A call that
\* fails is lost then, never handled late.
THEOREM NeverBack ==
    ASSUME Prompt, SetsInOrder, OneUser, ~Late
    PROVE  Spec => NewestWins
<1> DEFINE I == Types /\ Accounts /\ Flow
<1>1. Init => I
    BY TypesInit, AccountsInit, FlowInit
<1>2. I /\ [Next]_vars => I'
  <2>1. Flow /\ UNCHANGED vars => Flow'
    BY DEF vars, Flow, OnlyUserSends, OnItsWay, AtUser, AtOthers, Older
  <2> QED
    BY <2>1, TypesStep, AccountsStep, FlowStep
<1>3. I /\ [Next]_vars => [\A m \in Machines : clip'[m] >= clip[m]]_vars
    BY FlowStep
<1> HIDE DEF I
<1> QED
    BY <1>1, <1>2, <1>3, PTL DEF Spec, NewestWins

-----------------------------------------------------------------------------
\* Nothing failing, the user's last copy is never lost on its way.

\* The channel has room for every send that the copies can lead to.
Room == MaxCopies * Cardinality(Destinations(User)) <= SendCap

Unanswered == \A i \in DOMAIN sendq[User] : ~sendq[User][i].answered
Filled == Len(sendq[User]) <= reads[User] * Cardinality(Destinations(User))
Kept ==
    changes[User] # << >> \/ reading[User] \/ \A n \in Destinations(User) : UnderWay(User, n)

OnTheWay == ~recent[User] /\ Unanswered /\ Filled /\ Kept

\* The sequence of a set has all its members, and is as long as they are many.
LEMMA SetToSeqOnto ==
    ASSUME NEW S, IsFiniteSet(S)
    PROVE  /\ SetToSeq(S) \in Seq(S) /\ Len(SetToSeq(S)) = Cardinality(S)
           /\ \A e \in S : \E i \in DOMAIN SetToSeq(S) : SetToSeq(S)[i] = e
<1> DEFINE N == Cardinality(S)
           D == 1 .. N
<1>1. N \in Nat /\ ExistsBijection(1 .. N, S)
    BY FS_CardinalityType
<1>2. PICK f \in [1 .. N -> S] : IsInjective(f)
    BY <1>1 DEF ExistsBijection, Bijection, Injection
<1>3. SetToSeq(S) \in [1 .. N -> S] /\ IsInjective(SetToSeq(S))
    BY <1>2 DEF SetToSeq
<1>4. IsFiniteSet(1 .. N) /\ Cardinality(1 .. N) = N
  <2>1. 1 \in Int /\ N \in Int
    BY <1>1
  <2> HIDE DEF N
  <2>2. IsFiniteSet(1 .. N) /\ Cardinality(1 .. N) = IF 1 > N THEN 0 ELSE N - 1 + 1
    BY <2>1, FS_Interval
  <2> QED
    BY <1>1, <2>2
<1>5. SetToSeq(S) \in Injection(D, S)
    BY <1>3 DEF Injection
<1>6. Cardinality(D) = Cardinality(S)
    BY <1>4
<1> HIDE DEF D
<1>7. SetToSeq(S) \in Surjection(D, S)
    BY <1>5, <1>6, FS_Injection
<1>8. \A e \in S : \E i \in D : SetToSeq(S)[i] = e
    BY <1>7 DEF Surjection
<1>9. DOMAIN SetToSeq(S) = D
    BY <1>3 DEF D
<1> QED
    BY <1>1, <1>3, <1>8, <1>9

\* A read that finds room queues what the clipboard holds for every destination.
LEMMA ReadReaches ==
    ASSUME Types, User \in Machines, ReadClipboard(User),
           Len(sendq[User]) + Cardinality(Destinations(User)) <= SendCap
    PROVE  \E s \in Seq(Sends) :
              /\ sendq' = [sendq EXCEPT ![User] = sendq[User] \o s]
              /\ Len(s) <= Cardinality(Destinations(User))
              /\ \A i \in DOMAIN s : ~s[i].answered
              /\ \A n \in Destinations(User) :
                    \E i \in DOMAIN s : s[i].to = n /\ s[i].content = clip[User]
<1> DEFINE D == Destinations(User)
           S == {[to |-> n, content |-> clip[User], answered |-> FALSE] : n \in D}
           sends == SetToSeq(S)
           room == SendCap - Len(sendq[User])
           k == Min({room, Len(sends)})
<1>1. S \subseteq Sends
  <2>1. clip[User] \in Contents /\ D \subseteq Machines
    BY DEF Types, ContentTypes, Destinations
  <2>2. \A n \in D : [to |-> n, content |-> clip[User], answered |-> FALSE] \in Sends
    BY <2>1 DEF Sends
  <2> QED
    BY <2>2
<1>2. IsFiniteSet(S) /\ Cardinality(S) <= Cardinality(D) /\ Cardinality(D) \in Nat
  <2> DEFINE f == [n \in D |-> [to |-> n, content |-> clip[User], answered |-> FALSE]]
  <2>1. f \in Surjection(D, S)
    BY DEF Surjection
  <2>2. IsFiniteSet(D)
    BY FS_Subset DEF Destinations
  <2> HIDE DEF f, S, D
  <2> QED
    BY <2>1, <2>2, FS_Surjection, FS_CardinalityType
<1>3. sendq' = [sendq EXCEPT ![User] = sendq[User] \o SubSeq(sends, 1, k)]
    BY DEF ReadClipboard
<1>4. /\ \A e \in S : ~e.answered
      /\ \A n \in D : \E e \in S : e.to = n /\ e.content = clip[User]
  <2>1. \A e \in S : ~e.answered
    OBVIOUS
  <2>2. ASSUME NEW n \in D
        PROVE  \E e \in S : e.to = n /\ e.content = clip[User]
    <3> DEFINE e == [to |-> n, content |-> clip[User], answered |-> FALSE]
    <3>1. e \in S /\ e.to = n /\ e.content = clip[User]
      OBVIOUS
    <3> HIDE DEF S, e
    <3> QED
      BY <3>1
  <2> HIDE DEF S, D
  <2> QED
    BY <2>1, <2>2
<1> HIDE DEF S, D
<1>5. /\ sends \in Seq(S) /\ Len(sends) = Cardinality(S)
      /\ \A e \in S : \E i \in DOMAIN sends : sends[i] = e
    BY <1>2, SetToSeqOnto
<1> HIDE DEF sends
<1>6. Len(sends) \in Nat /\ Len(sendq[User]) \in Nat /\ SendCap \in Nat
    BY <1>5 DEF Types, QueueTypes
<1>7. Len(sends) <= room /\ room \in Int
    BY <1>2, <1>5, <1>6 DEF D
<1>8. k = Len(sends)
  <2> HIDE DEF room
  <2>1. room \in Int /\ Len(sends) \in Int
    BY <1>6, <1>7
  <2>2. k \in {room, Len(sends)} /\ k <= room /\ k <= Len(sends)
    BY <2>1, MinOfTwo, Zenon
  <2> HIDE DEF k
  <2> QED
    BY <1>6, <1>7, <2>1, <2>2
<1> HIDE DEF k
<1>9. SubSeq(sends, 1, k) = sends
    BY <1>5, <1>6, <1>8
<1>10. sends \in Seq(Sends) /\ \A i \in DOMAIN sends : sends[i] \in S
    BY <1>1, <1>5
<1>11. \A n \in D : \E i \in DOMAIN sends : sends[i].to = n /\ sends[i].content = clip[User]
    BY <1>4, <1>5
<1>12. \A i \in DOMAIN sends : ~sends[i].answered
    BY <1>4, <1>10
<1>13. Len(sends) <= Cardinality(D) /\ sendq' = [sendq EXCEPT ![User] = sendq[User] \o sends]
    BY <1>2, <1>3, <1>5, <1>9
<1> QED
    BY <1>10, <1>11, <1>12, <1>13 DEF D

LEMMA Products ==
    ASSUME NEW a \in Nat, NEW b \in Nat, NEW d \in Nat, a + 1 <= b
    PROVE  (a + 1) * d = a * d + d /\ a * d + d <= b * d /\ a * d \in Nat /\ b * d \in Nat
<1>1. (a + 1) * d = a * d + d /\ a * d \in Nat /\ b * d \in Nat
    OBVIOUS
<1>2. b * d = (a + 1) * d + (b - (a + 1)) * d /\ (b - (a + 1)) * d >= 0
  <2>1. b - (a + 1) \in Nat
    OBVIOUS
  <2>2. \A c \in Nat : (a + 1 + c) * d = (a + 1) * d + c * d /\ c * d >= 0
    OBVIOUS
  <2>3. b = a + 1 + (b - (a + 1))
    OBVIOUS
  <2> QED
    BY <2>1, <2>2, <2>3
<1> QED
    BY <1>1, <1>2

\* Room for one more read.
LEMMA RoomToRead ==
    ASSUME OneUser, Types, Accounts, Flow, Filled, Room, reading[User]
    PROVE  /\ reads[User] \in Nat /\ reads[User] + 1 <= MaxCopies
           /\ Cardinality(Destinations(User)) \in Nat /\ Len(sendq[User]) \in Nat
           /\ Len(sendq[User]) + Cardinality(Destinations(User)) <= SendCap
           /\ Len(sendq[User]) + Cardinality(Destinations(User)) <=
                 (reads[User] + 1) * Cardinality(Destinations(User))
<1> DEFINE d == Cardinality(Destinations(User))
           r == reads[User]
<1>1. User \in Machines
    BY DEF OneUser
<1>2. d \in Nat
  <2>1. IsFiniteSet(Destinations(User))
    BY FS_Subset DEF Destinations
  <2> QED
    BY <2>1, FS_CardinalityType
<1>3. Len(sendq[User]) \in Nat
    BY <1>1 DEF Types, QueueTypes
<1>4. r \in Nat /\ r + 1 <= MaxCopies
  <2>1. r + 1 + Number(changes[User]) <= copied[User]
    BY <1>1 DEF Accounts, Counted
  <2>2. copied[User] <= copies /\ copies \in 0 .. MaxCopies
    BY <1>1 DEF Types, ContentTypes, Contents
  <2>3. r \in Nat /\ copied[User] \in Nat /\ Number(changes[User]) \in Nat
    BY <1>1, Numbers
  <2> QED
    BY <2>1, <2>2, <2>3
<1>5. Len(sendq[User]) <= r * d /\ MaxCopies * d <= SendCap /\ SendCap \in Nat /\ MaxCopies \in Nat
    BY DEF Filled, Room
<1> HIDE DEF d, r
<1>6. (r + 1) * d = r * d + d /\ r * d + d <= MaxCopies * d /\ r * d \in Nat /\ MaxCopies * d \in Nat
    BY <1>2, <1>4, <1>5, Products
<1>7. Len(sendq[User]) + d <= SendCap /\ Len(sendq[User]) + d <= (r + 1) * d
    BY <1>2, <1>3, <1>5, <1>6
<1> QED
    BY <1>2, <1>3, <1>4, <1>7 DEF d, r

LEMMA ReadKeeps ==
    ASSUME OneUser, Types, Accounts, Flow, OnTheWay, Room, NEW m \in Machines, ReadClipboard(m)
    PROVE  OnTheWay'
<1>1. m = User /\ reading[User]
    BY OnlyUserReads DEF ReadClipboard
<1> DEFINE d == Cardinality(Destinations(User))
           q == sendq[User]
<1>2. /\ reads[User] \in Nat /\ reads[User] + 1 <= MaxCopies /\ d \in Nat /\ Len(q) \in Nat
      /\ Len(q) + d <= SendCap /\ Len(q) + d <= (reads[User] + 1) * d
    BY <1>1, RoomToRead DEF OnTheWay
<1>3. PICK s \in Seq(Sends) :
          /\ sendq' = [sendq EXCEPT ![User] = sendq[User] \o s]
          /\ Len(s) <= d
          /\ \A i \in DOMAIN s : ~s[i].answered
          /\ \A n \in Destinations(User) :
                \E i \in DOMAIN s : s[i].to = n /\ s[i].content = clip[User]
    BY <1>1, <1>2, ReadReaches
<1> DEFINE v == q \o s
<1>4. q \in Seq(Sends) /\ sendq'[User] = v
    BY <1>1, <1>3 DEF Types, QueueTypes
<1>5. \A i \in DOMAIN q : ~q[i].answered
    BY DEF OnTheWay, Unanswered
<1> HIDE DEF q
<1>6. /\ DOMAIN q = 1 .. Len(q) /\ DOMAIN s = 1 .. Len(s) /\ Len(s) \in Nat
      /\ Len(v) = Len(q) + Len(s) /\ DOMAIN v = 1 .. Len(q) + Len(s)
      /\ \A i \in 1 .. Len(q) + Len(s) : v[i] = IF i <= Len(q) THEN q[i] ELSE s[i - Len(q)]
    BY <1>4, ConcatProperties
<1> HIDE DEF v
<1>7. \A i \in DOMAIN v : ~v[i].answered
  <2> SUFFICES ASSUME NEW i \in DOMAIN v PROVE ~v[i].answered
    OBVIOUS
  <2>1. CASE i <= Len(q)
    BY <1>2, <1>5, <1>6, <2>1
  <2>2. CASE ~(i <= Len(q))
    <3>1. i - Len(q) \in DOMAIN s /\ v[i] = s[i - Len(q)]
      BY <1>2, <1>6, <2>2
    <3> QED
      BY <1>3, <3>1
  <2> QED
    BY <2>1, <2>2
<1>8. ASSUME NEW n \in Destinations(User)
      PROVE  \E i \in DOMAIN v : v[i].to = n /\ v[i].content = clip[User]
  <2>1. PICK i \in DOMAIN s : s[i].to = n /\ s[i].content = clip[User]
    BY <1>3
  <2>2. i + Len(q) \in DOMAIN v /\ v[i + Len(q)] = s[i]
    <3>1. /\ i + Len(q) \in 1 .. Len(q) + Len(s) /\ ~(i + Len(q) <= Len(q))
          /\ (i + Len(q)) - Len(q) = i
      BY <1>2, <1>6
    <3> QED
      BY <1>6, <3>1
  <2> QED
    BY <2>1, <2>2
<1>9. reads'[User] = reads[User] + 1
  <2>1. reads[User] + 1 \in Int /\ MaxReads \in Int /\ reads[User] + 1 < MaxReads
    BY <1>2 DEF MaxReads
  <2>2. /\ Min({reads[User] + 1, MaxReads}) \in {reads[User] + 1, MaxReads}
        /\ Min({reads[User] + 1, MaxReads}) <= reads[User] + 1
    BY <2>1, MinOfTwo, Zenon
  <2>3. Min({reads[User] + 1, MaxReads}) = reads[User] + 1
    BY <2>1, <2>2
  <2> QED
    BY <1>1, <2>3 DEF ReadClipboard, Types, WatchTypes
<1>10. recent' = recent /\ clip' = clip
    BY DEF ReadClipboard
<1>11. Filled'
  <2>1. Len(v) <= (reads[User] + 1) * d
    <3>1. Len(v) <= Len(q) + d /\ Len(v) \in Nat
      BY <1>2, <1>3, <1>6
    <3> DEFINE x == (reads[User] + 1) * d
    <3>2. x \in Int
      BY <1>2
    <3>3. Len(q) + d <= x
      BY <1>2
    <3> HIDE DEF d, x
    <3>4. Len(v) <= x
      BY <1>2, <3>1, <3>2, <3>3
    <3> QED
      BY <3>4 DEF x
  <2> QED
    BY <1>4, <1>9, <2>1 DEF Filled, v
<1>12. Kept'
    BY <1>4, <1>8, <1>10 DEF Kept, UnderWay
<1>13. Unanswered'
    BY <1>4, <1>7 DEF Unanswered, v
<1> QED
    BY <1>10, <1>11, <1>12, <1>13 DEF OnTheWay

LEMMA StartKeeps ==
    ASSUME OneUser, Types, Flow, OnTheWay, NEW m \in Machines, StartCall(m)
    PROVE  OnTheWay'
<1>1. m = User
    BY DEF StartCall, Flow, OnlyUserSends
<1> DEFINE q == sendq[User]
           e == Head(q)
<1>2. /\ q # << >> /\ call[User] = << >> /\ call' = [call EXCEPT ![User] = <<e>>]
      /\ sendq' = [sendq EXCEPT ![User] = Tail(q)]
      /\ UNCHANGED <<clip, changes, reading, reads, recent, sets>>
    BY <1>1 DEF StartCall
<1>3. q \in Seq(Sends) /\ sendq'[User] = Tail(q) /\ call'[User] = <<e>>
    BY <1>1, <1>2 DEF Types, QueueTypes, AwaitTypes
<1>4. \A i \in DOMAIN q : ~q[i].answered
    BY DEF OnTheWay, Unanswered
<1>5. Len(q) <= reads[User] * Cardinality(Destinations(User))
    BY DEF OnTheWay, Filled
<1>6. Kept
    BY DEF OnTheWay
<1>7. /\ e = q[1] /\ 1 \in DOMAIN q /\ Len(Tail(q)) = Len(q) - 1 /\ Len(q) \in Nat
      /\ \A i \in DOMAIN Tail(q) : i + 1 \in DOMAIN q /\ Tail(q)[i] = q[i + 1]
      /\ \A i \in DOMAIN q : i = 1 \/ (i - 1 \in DOMAIN Tail(q) /\ Tail(q)[i - 1] = q[i])
  <2>1. /\ Head(q) = q[1] /\ 1 \in DOMAIN q /\ Len(q) \in Nat /\ Len(Tail(q)) = Len(q) - 1
        /\ \A i \in DOMAIN Tail(q) : i \in Nat /\ i >= 1 /\ Tail(q)[i] = q[i + 1]
        /\ DOMAIN q = 1 .. Len(q) /\ DOMAIN Tail(q) = 1 .. Len(q) - 1
    BY <1>2, <1>3, TailType
  <2> HIDE DEF q
  <2> QED
    BY <2>1
<1>8. ASSUME NEW n \in Destinations(User), UnderWay(User, n)
      PROVE  UnderWay(User, n)'
  <2>1. CASE \E i \in DOMAIN q : q[i].to = n /\ q[i].content = clip[User]
    <3>1. PICK i \in DOMAIN q : q[i].to = n /\ q[i].content = clip[User]
      BY <2>1
    <3>2. CASE i = 1
      <4>1. DOMAIN <<e>> = {1} /\ <<e>>[1] = e
        OBVIOUS
      <4>2. e.to = n /\ e.content = clip'[User] /\ ~e.answered
        BY <1>2, <1>4, <1>7, <3>1, <3>2
      <4> HIDE DEF e
      <4> QED
        BY <1>3, <4>1, <4>2 DEF UnderWay
    <3>3. CASE i # 1
      <4>1. i - 1 \in DOMAIN Tail(q) /\ Tail(q)[i - 1] = q[i]
        BY <1>7, <3>3
      <4> HIDE DEF q
      <4> QED
        BY <1>2, <1>3, <3>1, <4>1 DEF UnderWay
    <3> QED
      BY <3>2, <3>3
  <2>2. CASE (\E i \in DOMAIN sets[n] : sets[n][i] = clip[User]) \/ clip[n] = clip[User]
    BY <1>2, <2>2 DEF UnderWay
  <2>3. DOMAIN call[User] = {}
    BY <1>2
  <2> QED
    BY <1>8, <2>1, <2>2, <2>3 DEF UnderWay
<1>9. Kept'
    BY <1>2, <1>6, <1>8 DEF Kept
<1> HIDE DEF q, e
<1>10. Unanswered'
    BY <1>3, <1>4, <1>7 DEF Unanswered
<1>11. Filled'
  <2> DEFINE x == reads[User] * Cardinality(Destinations(User))
  <2>1. x \in Int
    <3>1. reads[User] \in Nat /\ IsFiniteSet(Destinations(User))
      BY <1>1, Numbers, FS_Subset DEF Destinations
    <3>2. Cardinality(Destinations(User)) \in Nat
      BY <3>1, FS_CardinalityType
    <3> QED
      BY <3>1, <3>2
  <2>2. Len(q) <= x
    BY <1>5
  <2> HIDE DEF x
  <2>3. Len(Tail(q)) <= x
    BY <1>7, <2>1, <2>2
  <2> QED
    BY <1>2, <1>3, <2>3 DEF Filled, x
<1> QED
    BY <1>2, <1>9, <1>10, <1>11 DEF OnTheWay

\* The answer to a call comes after its content is with a set thread.
LEMMA EventKeeps ==
    ASSUME OneUser, Types, Flow, OnTheWay, NEW m \in Machines, HandleClipboardEvent(m)
    PROVE  OnTheWay'
<1>1. m = User /\ call[m] # << >>
    BY DEF HandleClipboardEvent, Flow, OnlyUserSends
<1>2. DOMAIN call[User] = {1} /\ call[User][1] \in Sends
    BY <1>1, TheCall
<1>3. PICK o \in Machines, c \in Contents : o = call[User][1].to /\ c = call[User][1].content
    BY <1>2 DEF Sends
<1>4. o # User
    BY <1>2, <1>3 DEF Flow, OnItsWay
<1>5. /\ sets' = [sets EXCEPT ![o] = Append(sets[o], c)]
      /\ recent' = [recent EXCEPT ![o] = TRUE]
      /\ UNCHANGED <<clip, changes, reading, reads, sendq>>
    BY <1>1, <1>3 DEF HandleClipboardEvent
<1>6. recent'[User] = recent[User]
    BY <1>1, <1>4, <1>5 DEF Types, FlagTypes
<1>7. /\ \E i \in DOMAIN sets'[o] : sets'[o][i] = c
      /\ \A n \in Machines : \A i \in DOMAIN sets[n] :
            i \in DOMAIN sets'[n] /\ sets'[n][i] = sets[n][i]
  <2> DEFINE q == sets[o]
  <2>1. q \in Seq(Contents) /\ sets'[o] = Append(q, c)
    BY <1>5 DEF Types, SetTypes
  <2>2. \A n \in Machines \ {o} : sets'[n] = sets[n]
    BY <1>5 DEF Types, SetTypes
  <2> HIDE DEF q
  <2>3. /\ Len(q) \in Nat /\ DOMAIN q = 1 .. Len(q) /\ DOMAIN Append(q, c) = 1 .. Len(q) + 1
        /\ Append(q, c)[Len(q) + 1] = c /\ \A i \in 1 .. Len(q) : Append(q, c)[i] = q[i]
    BY <2>1
  <2>4. Len(q) + 1 \in DOMAIN Append(q, c) /\ \A i \in DOMAIN q : i \in DOMAIN Append(q, c)
    BY <2>3
  <2>5. \E i \in DOMAIN sets'[o] : sets'[o][i] = c
    BY <2>1, <2>3, <2>4
  <2>6. \A i \in DOMAIN sets[o] : i \in DOMAIN sets'[o] /\ sets'[o][i] = sets[o][i]
    BY <2>1, <2>3, <2>4 DEF q
  <2> QED
    BY <2>2, <2>5, <2>6
<1>8. ASSUME NEW n \in Destinations(User), UnderWay(User, n)
      PROVE  UnderWay(User, n)'
  <2>1. n \in Machines
    BY DEF Destinations
  <2>2. CASE \E i \in DOMAIN call[User] : call[User][i].to = n /\ call[User][i].content = clip[User]
    <3>1. n = o /\ c = clip'[User]
      BY <1>2, <1>3, <1>5, <2>2
    <3> QED
      BY <1>7, <3>1 DEF UnderWay
  <2>3. CASE \E i \in DOMAIN sets[n] : sets[n][i] = clip[User]
    BY <1>5, <1>7, <2>1, <2>3 DEF UnderWay
  <2>4. CASE (\E i \in DOMAIN sendq[User] : sendq[User][i].to = n /\ sendq[User][i].content = clip[User])
             \/ clip[n] = clip[User]
    BY <1>5, <2>4 DEF UnderWay
  <2> QED
    BY <1>8, <2>2, <2>3, <2>4 DEF UnderWay
<1>9. Kept'
    BY <1>5, <1>8 DEF OnTheWay, Kept
<1> QED
    BY <1>5, <1>6, <1>9 DEF OnTheWay, Unanswered, Filled

\* Nothing failing, a call ends with its answer.
LEMMA EndKeeps ==
    ASSUME ~Failures, OneUser, Types, Flow, OnTheWay, NEW m \in Machines, EndCall(m)
    PROVE  OnTheWay'
<1>1. m = User /\ call[m] # << >> /\ call[m][1].answered
    BY DEF EndCall, Flow, OnlyUserSends
<1>2. DOMAIN call[User] = {1}
    BY <1>1, TheCall
<1>3. UNCHANGED <<clip, changes, reading, reads, sendq, recent, sets>>
    BY DEF EndCall
<1>4. ASSUME NEW n \in Destinations(User), UnderWay(User, n)
      PROVE  UnderWay(User, n)'
    BY <1>1, <1>2, <1>3, <1>4 DEF UnderWay
<1>5. Kept'
    BY <1>3, <1>4 DEF OnTheWay, Kept
<1> QED
    BY <1>3, <1>5 DEF OnTheWay, Unanswered, Filled

\* A set that runs puts its content into the clipboard, or leaves the newer one behind it.
LEMMA SetKeeps ==
    ASSUME SetsInOrder, OneUser, Types, Flow, OnTheWay, NEW m \in Machines, RunSet(m)
    PROVE  OnTheWay'
<1>1. /\ 1 \in DOMAIN sets[m] /\ Change(m, sets[m][1], TRUE)
      /\ sets' = [sets EXCEPT ![m] = RemoveAt(sets[m], 1)]
    BY DEF RunSet
<1>2. m # User
    BY <1>1 DEF Flow, AtUser
<1>3. /\ clip' = [clip EXCEPT ![m] = sets[m][1]]
      /\ changes' \in {changes, [changes EXCEPT ![m] = Append(changes[m], TRUE)]}
      /\ UNCHANGED <<reading, reads, sendq, call, recent>>
    BY <1>1 DEF RunSet, Change
<1>4. changes'[User] = changes[User] /\ clip'[User] = clip[User] /\ User \in Machines
    BY <1>2, <1>3 DEF Types, WatchTypes, ContentTypes, OneUser
<1>5. \A n \in Machines \ {m} : clip'[n] = clip[n] /\ sets'[n] = sets[n]
    BY <1>1, <1>3 DEF Types, ContentTypes, SetTypes
<1>6. /\ clip'[m] = sets[m][1] /\ sets'[m] = RemoveAt(sets[m], 1)
    BY <1>1, <1>3 DEF Types, ContentTypes, SetTypes
<1>7. \A j \in DOMAIN sets[m] :
          j = 1 \/ \E i \in DOMAIN sets'[m] : sets'[m][i] = sets[m][j]
  <2> DEFINE s == sets[m]
             r == RemoveAt(s, 1)
  <2>1. s \in Seq(Nat) /\ 1 \in DOMAIN s
    BY <1>1, FlowNumbers
  <2> HIDE DEF s
  <2>2. /\ DOMAIN r = 1 .. Len(s) - 1
        /\ \A i \in 1 .. Len(s) - 1 : r[i] = s[IF i < 1 THEN i ELSE i + 1]
    BY <2>1, RemoveAtIs
  <2>3. Len(s) \in Nat /\ DOMAIN s = 1 .. Len(s)
    BY <2>1
  <2> HIDE DEF r
  <2>4. ASSUME NEW j \in DOMAIN s, j # 1
        PROVE  j - 1 \in DOMAIN r /\ r[j - 1] = s[j]
    <3>1. j - 1 \in 1 .. Len(s) - 1 /\ ~(j - 1 < 1) /\ (j - 1) + 1 = j
      BY <2>3, <2>4
    <3> QED
      BY <2>2, <3>1
  <2> QED
    BY <1>6, <2>4 DEF r, s
<1>8. ASSUME NEW n \in Destinations(User), UnderWay(User, n)
      PROVE  UnderWay(User, n)'
  <2>1. n \in Machines
    BY DEF Destinations
  <2>2. CASE n # m
    BY <1>3, <1>4, <1>5, <1>8, <2>1, <2>2 DEF UnderWay
  <2>3. CASE n = m
    <3>1. CASE \E j \in DOMAIN sets[m] : sets[m][j] = clip[User]
      BY <1>4, <1>6, <1>7, <2>3, <3>1 DEF UnderWay
    <3>2. CASE clip[m] = clip[User]
      <4>1. clip[m] <= sets[m][1] /\ sets[m][1] <= copies /\ clip[User] = copies
        BY <1>1, <1>2 DEF Flow, AtUser, AtOthers, Older
      <4>2. clip[m] \in Nat /\ sets[m][1] \in Nat /\ copies \in Nat
        BY <1>1, FlowNumbers
      <4>3. sets[m][1] = clip[User]
        BY <3>2, <4>1, <4>2
      <4> QED
        BY <1>4, <1>6, <2>3, <4>3 DEF UnderWay
    <3>3. CASE (\E i \in DOMAIN sendq[User] : sendq[User][i].to = n /\ sendq[User][i].content = clip[User])
               \/ (\E i \in DOMAIN call[User] :
                      call[User][i].to = n /\ call[User][i].content = clip[User] /\ ~call[User][i].answered)
      BY <1>3, <1>4, <3>3 DEF UnderWay
    <3> QED
      BY <1>8, <2>3, <3>1, <3>2, <3>3 DEF UnderWay
  <2> QED
    BY <2>2, <2>3
<1>9. Kept'
    BY <1>3, <1>4, <1>8 DEF OnTheWay, Kept
<1> QED
    BY <1>3, <1>9 DEF OnTheWay, Unanswered, Filled

\* The user's copy is noticed; the debounce, which no set has started, lets it through.
LEMMA NoticeKeeps ==
    ASSUME OneUser, Types, OnTheWay, NEW m \in Machines,
           UserCopies(m) \/ TakeChange(m) \/ Millisecond(m) \/ TtlPasses(m)
    PROVE  OnTheWay'
<1>1. User \in Machines /\ UNCHANGED <<reads, sendq, call, sets>>
    BY DEF OneUser, UserCopies, TakeChange, Millisecond, TtlPasses
<1>2. ~recent'[User]
    BY <1>1 DEF OnTheWay, UserCopies, TakeChange, Millisecond, TtlPasses, Types, FlagTypes
<1>3. Kept'
  <2>1. CASE UserCopies(m)
    <3>1. m = User /\ changes' = [changes EXCEPT ![User] = Append(changes[User], FALSE)]
      BY <2>1 DEF UserCopies, Change, OneUser
    <3> DEFINE q == changes[User]
    <3>2. q \in Seq(BOOLEAN) /\ changes'[User] = Append(q, FALSE)
      BY <1>1, <3>1 DEF Types, WatchTypes
    <3> HIDE DEF q
    <3>3. Append(q, FALSE) # << >>
      <4>1. Len(Append(q, FALSE)) = Len(q) + 1 /\ Len(q) \in Nat
        BY <3>2
      <4>2. Len(Append(q, FALSE)) # Len(<< >>)
        BY <4>1
      <4> QED
        BY <4>2
    <3> QED
      BY <3>2, <3>3 DEF Kept
  <2>2. CASE TakeChange(m)
    <3>1. CASE m = User
      <4>1. reading'[User]
        BY <1>1, <2>2, <3>1 DEF TakeChange, OnTheWay, Types, FlagTypes
      <4> QED
        BY <4>1 DEF Kept
    <3>2. CASE m # User
      <4>1. changes'[User] = changes[User] /\ reading'[User] = reading[User] /\ clip' = clip
        BY <1>1, <2>2, <3>2 DEF TakeChange, Types, FlagTypes, WatchTypes
      <4> QED
        BY <1>1, <4>1 DEF OnTheWay, Kept, UnderWay
    <3> QED
      BY <3>1, <3>2
  <2>3. CASE Millisecond(m) \/ TtlPasses(m)
    <3>1. UNCHANGED <<changes, reading, clip>>
      BY <2>3 DEF Millisecond, TtlPasses
    <3> QED
      BY <1>1, <3>1 DEF OnTheWay, Kept, UnderWay
  <2> QED
    BY <2>1, <2>2, <2>3
<1> QED
    BY <1>1, <1>2, <1>3 DEF OnTheWay, Unanswered, Filled

LEMMA KeptInit == OneUser /\ ~JustStarted /\ Init => OnTheWay
<1> SUFFICES ASSUME OneUser, ~JustStarted, Init PROVE OnTheWay
    OBVIOUS
<1>1. User \in Machines
    BY DEF OneUser
<1>2. /\ ~recent[User] /\ sendq[User] = << >> /\ reads[User] = 0
      /\ \A n \in Machines : clip[n] = 0
    BY <1>1 DEF Init
<1>3. Filled
  <2>1. Cardinality(Destinations(User)) \in Nat
    <3>1. IsFiniteSet(Destinations(User))
      BY FS_Subset DEF Destinations
    <3> QED
      BY <3>1, FS_CardinalityType
  <2>2. Len(sendq[User]) = 0 /\ 0 * Cardinality(Destinations(User)) = 0
    BY <1>2, <2>1
  <2> QED
    BY <1>2, <2>2 DEF Filled
<1>4. Kept
    BY <1>1, <1>2 DEF Kept, UnderWay, Destinations
<1>5. Unanswered
    BY <1>2 DEF Unanswered
<1> QED
    BY <1>2, <1>3, <1>4, <1>5 DEF OnTheWay

LEMMA KeptStep ==
    ASSUME ~Failures, ~Late, SetsInOrder, OneUser, Room
    PROVE  Types /\ Accounts /\ Flow /\ OnTheWay /\ [Next]_vars => OnTheWay'
<1> SUFFICES ASSUME Types, Accounts, Flow, OnTheWay, [Next]_vars PROVE OnTheWay'
    OBVIOUS
<1>1. CASE UNCHANGED vars
    BY <1>1 DEF vars, OnTheWay, Unanswered, Filled, Kept, UnderWay
<1>2. \A m \in Machines : ~ReadFails(m) /\ ~SetFails(m) /\ ~HandleLateEvent(m)
    BY DEF ReadFails, SetFails, HandleLateEvent
<1> QED
    BY <1>1, <1>2, NoticeKeeps, ReadKeeps, StartKeeps, EventKeeps, EndKeeps, SetKeeps DEF Next

\* With one user, no failure, sets prompt and in order, and a start longer ago than
\* CLIPBOARD_TTL, the user's last copy is under way to every destination until it is there,
\* if the channel has room for all that the copies lead to: neither the debounce nor
\* handle_clipboard_event nor a set that runs late loses it.
THEOREM LastCopyKept ==
    ASSUME Prompt, SetsInOrder, OneUser, ~Failures, ~Late, ~JustStarted, Room
    PROVE  Spec => []LastCopyIsUnderWay
<1> DEFINE I == Types /\ Accounts /\ Flow /\ OnTheWay
<1>1. Init => I
    BY TypesInit, AccountsInit, FlowInit, KeptInit
<1>2. I /\ [Next]_vars => I'
  <2>1. Flow /\ UNCHANGED vars => Flow'
    BY DEF vars, Flow, OnlyUserSends, OnItsWay, AtUser, AtOthers, Older
  <2> QED
    BY <2>1, TypesStep, AccountsStep, FlowStep, KeptStep
<1>3. I => LastCopyIsUnderWay
    BY DEF OnTheWay, Kept, LastCopyIsUnderWay, OneUser
<1> HIDE DEF I
<1> QED
    BY <1>1, <1>2, <1>3, PTL DEF Spec
=============================================================================
