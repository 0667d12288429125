------------------------- MODULE HostDiscoveryProofs -------------------------
(***************************************************************************)
(* Theorems about HostDiscovery, for any machines, addresses, configured   *)
(* peers and answers:                                                      *)
(*   DiscoveryTypes  the variables keep their types, and only valid keys   *)
(*                   become peers;                                         *)
(*   OwnKeyLeftOut   the machine is no peer of its own;                    *)
(*   DistinctPeers   only an entry repeats the key of a peer;              *)
(*   MergeIsClean    what is saved names no address twice and keeps no     *)
(*                   configured peer beside one added with its key;        *)
(*   NobodyAskedTwice  no machine is asked about again.                    *)
(***************************************************************************)
EXTENDS HostDiscovery, SequenceTheorems, TLAPS

USE HostDiscoveryAssumption

PeersOK == peers \in Seq(AnyLine) /\ \A i \in DOMAIN peers : peers[i].key \in ValidKeys

EnvTypes ==
    /\ up \in [Others -> {<< >>} \cup {<<a>> : a \in Addresses}]
    /\ discovered \in Seq(Hosts) /\ Len(discovered) <= MaxQueued
    /\ lines \in Seq(Lines) /\ Len(lines) <= MaxAhead
    /\ closed \in BOOLEAN /\ interrupted \in BOOLEAN

DialogueTypes ==
    /\ at \in Adding \cup Merging \cup Ended /\ reading \in BOOLEAN
    /\ subject \in AnyLine
    /\ seen \subseteq Addresses \cup Machines
    /\ PeersOK
    /\ asked \subseteq Hosts
    /\ left \in Seq(Hosts) /\ kept \in Seq(Hosts)

\* While hosts are added, every peer was seen.  The host that a question may still
\* make a peer has an address of its own, and the key of a peer only if it was entered.
Asking ==
    /\ at \in Adding => \A i \in DOMAIN peers : peers[i].address \in seen /\ peers[i].key \in seen
    /\ at \in {"Fetch", "AskKey"} => subject.address \notin seen /\ subject.entered
    /\ at \in {"AskAdd", "AskSettings"} =>
          /\ subject.key \in ValidKeys \ {Me}
          /\ subject.address \in seen /\ subject.key \in seen
          /\ \A i \in DOMAIN peers :
                /\ peers[i].address # subject.address
                /\ peers[i].key = subject.key => subject.entered

\* The configured peers that are kept, and those that are left, differ.
Merged ==
    /\ at \in Adding => kept = << >>
    /\ at \in KeepQuestions => left # << >> /\ ~Added(Head(left))
    /\ \A i, j \in DOMAIN left : i # j => left[i].address # left[j].address
    /\ \A i, j \in DOMAIN kept : i # j => kept[i].address # kept[j].address
    /\ \A i \in DOMAIN kept, j \in DOMAIN left : kept[i].address # left[j].address
    /\ \A i \in DOMAIN kept, j \in DOMAIN peers :
          kept[i].address # peers[j].address /\ kept[i].key # peers[j].key

Facts == DialogueTypes /\ Asking /\ OwnKeyIsNoPeer /\ PeersAreDistinct /\ Merged

-----------------------------------------------------------------------------
\* Sequences.

LEMMA Appended ==
    ASSUME NEW S, NEW s \in Seq(S), NEW x \in S
    PROVE  /\ Append(s, x) \in Seq(S)
           /\ \A i \in DOMAIN Append(s, x) :
                \/ i \in DOMAIN s /\ Append(s, x)[i] = s[i] /\ i < Len(s) + 1
                \/ i = Len(s) + 1 /\ Append(s, x)[i] = x
<1>1. Append(s, x) \in Seq(S) /\ Len(Append(s, x)) = Len(s) + 1 /\ Len(s) \in Nat
    OBVIOUS
<1>2. ASSUME NEW i \in DOMAIN Append(s, x)
      PROVE  \/ i \in DOMAIN s /\ Append(s, x)[i] = s[i] /\ i < Len(s) + 1
             \/ i = Len(s) + 1 /\ Append(s, x)[i] = x
  <2>1. i \in 1 .. Len(s) + 1
    BY <1>1, <1>2
  <2>2. CASE i = Len(s) + 1
    BY <2>2
  <2>3. CASE i \in 1 .. Len(s)
    BY <1>1, <2>3
  <2> QED
    BY <1>1, <2>1, <2>2, <2>3
<1> QED
    BY <1>1, <1>2

LEMMA Rest ==
    ASSUME NEW S, NEW s \in Seq(S), s # << >>
    PROVE  /\ Head(s) \in S /\ Tail(s) \in Seq(S) /\ Len(Tail(s)) = Len(s) - 1
           /\ 1 \in DOMAIN s /\ Head(s) = s[1] /\ Len(s) \in Nat
           /\ \A i \in DOMAIN Tail(s) : /\ i + 1 \in DOMAIN s /\ Tail(s)[i] = s[i + 1]
                                        /\ i + 1 # 1 /\ i \in Nat
<1>1. Len(s) \in Nat /\ Len(s) # 0
    BY EmptySeq, LenProperties
<1>2. Tail(s) \in Seq(S) /\ Len(Tail(s)) = Len(s) - 1 /\ DOMAIN Tail(s) = 1 .. Len(s) - 1
    BY <1>1
<1>3. 1 \in DOMAIN s
    BY <1>1
<1>4. Head(s) \in S /\ Head(s) = s[1]
    BY <1>3
<1>5. \A i \in DOMAIN Tail(s) : /\ i + 1 \in DOMAIN s /\ Tail(s)[i] = s[i + 1]
                                /\ i + 1 # 1 /\ i \in Nat
    BY <1>1, <1>2
<1> QED
    BY <1>1, <1>2, <1>3, <1>4, <1>5

-----------------------------------------------------------------------------
\* Steps that leave the peers alone.

LEMMA SameDialogue ==
    ASSUME Facts, UNCHANGED dialogue
    PROVE  Facts'
    BY DEF Facts, dialogue, DialogueTypes, PeersOK, Asking, OwnKeyIsNoPeer,
           PeersAreDistinct, Merged, Added

LEMMA OutsideStep ==
    ASSUME EnvTypes, Facts, Next, ~Dialogue, ~Interrupt
    PROVE  EnvTypes' /\ Facts'
<1>1. ASSUME NEW h \in Others, OtherEnds(h) \/ \E a \in AddressesOf(h) : OtherStarts(h, a)
      PROVE  EnvTypes' /\ UNCHANGED dialogue
  <2>1. \E v \in {<< >>} \cup {<<a>> : a \in Addresses} : up' = [up EXCEPT ![h] = v]
    BY <1>1 DEF OtherEnds, OtherStarts, AddressesOf
  <2>2. up' \in [Others -> {<< >>} \cup {<<a>> : a \in Addresses}]
    BY <2>1 DEF EnvTypes
  <2>3. UNCHANGED <<discovered, lines, closed, interrupted, dialogue>>
    BY <1>1 DEF OtherEnds, OtherStarts
  <2> QED
    BY <2>2, <2>3 DEF EnvTypes, Hosts, Lines
<1>2. ASSUME NEW h \in Machines, NEW a \in Addresses, Announce(h, a)
      PROVE  EnvTypes' /\ UNCHANGED dialogue
  <2>1. [address |-> a, key |-> h] \in Hosts
    BY DEF Hosts
  <2>2. discovered' \in Seq(Hosts) /\ Len(discovered') <= MaxQueued
    BY <1>2, <2>1 DEF Announce, EnvTypes
  <2> QED
    BY <1>2, <2>2 DEF Announce, EnvTypes, Lines
<1>3. ASSUME NEW l \in Lines, TypeLine(l)
      PROVE  EnvTypes' /\ UNCHANGED dialogue
  <2>1. lines' \in Seq(Lines) /\ Len(lines') <= MaxAhead
    BY <1>3 DEF TypeLine, EnvTypes
  <2> QED
    BY <1>3, <2>1 DEF TypeLine, EnvTypes, Hosts
<1>4. CASE CloseInput
  <2>1. EnvTypes' /\ UNCHANGED dialogue
    BY <1>4 DEF CloseInput, EnvTypes, Hosts, Lines
  <2> QED
    BY <2>1, SameDialogue
<1> QED
    BY <1>1, <1>2, <1>3, <1>4, SameDialogue DEF Next

\* The dialogue goes from one point to another where nothing is asked about a host
\* that could become a peer, and nothing is merged.
LEMMA MoveOn ==
    ASSUME Facts, UNCHANGED <<seen, peers, asked, left, kept>>,
           at' \in (Adding \ {"Fetch", "AskKey", "AskAdd", "AskSettings"})
                     \cup {"Merge", "Failed", "Saved"},
           at' \in Adding => at \in Adding,
           reading' \in BOOLEAN, subject' \in AnyLine
    PROVE  Facts'
<1>1. DialogueTypes'
    BY DEF Facts, DialogueTypes, PeersOK, Adding, AddQuestions, Merging, Ended
<1>2. Asking'
    BY DEF Facts, Asking, Adding, AddQuestions
<1>3. Merged'
    BY DEF Facts, Merged, Added, KeepQuestions, Adding, AddQuestions
<1>4. (OwnKeyIsNoPeer /\ PeersAreDistinct)'
    BY DEF Facts, OwnKeyIsNoPeer, PeersAreDistinct
<1> QED
    BY <1>1, <1>2, <1>3, <1>4 DEF Facts

\* The same question is put again, or waited for.
LEMMA StayThere ==
    ASSUME Facts, UNCHANGED <<at, subject, seen, peers, asked, left, kept>>,
           reading' \in BOOLEAN
    PROVE  Facts'
    BY DEF Facts, DialogueTypes, PeersOK, Asking, OwnKeyIsNoPeer,
           PeersAreDistinct, Merged, Added

LEMMA SubjectType ==
    /\ NoSubject \in AnyLine
    /\ \A a \in Addresses, k \in Machines \cup {Nobody}, e \in BOOLEAN :
          /\ Subject(a, k, e) \in AnyLine
          /\ Subject(a, k, e).address = a /\ Subject(a, k, e).key = k
          /\ Subject(a, k, e).entered = e
    BY DEF NoSubject, Subject, AnyLine

LEMMA LineType ==
    ASSUME EnvTypes, NEW q, ReadLine(q)
    PROVE  Head(lines) \in Lines /\ EnvTypes'
<1>1. lines \in Seq(Lines) /\ lines # << >> /\ Len(lines) <= MaxAhead /\ lines' = Tail(lines)
    BY DEF EnvTypes, ReadLine
<1>2. Head(lines) \in Lines /\ Tail(lines) \in Seq(Lines) /\ Len(Tail(lines)) <= MaxAhead
  <2>1. Len(Tail(lines)) = Len(lines) - 1 /\ Len(lines) \in Nat
    BY <1>1, Rest
  <2> QED
    BY <1>1, <2>1, Rest
<1> QED
    BY <1>1, <1>2 DEF EnvTypes, ReadLine, Hosts

LEMMA EndAddingStep ==
    ASSUME EnvTypes, Facts, EndAdding, UNCHANGED <<up, lines, closed, peers, left, kept>>
    PROVE  EnvTypes' /\ Facts'
<1>1. at' = "Merge" /\ seen' = {} /\ asked' = {} /\ reading' = FALSE /\ subject' = NoSubject
      /\ discovered' = << >> /\ interrupted' = FALSE
    BY DEF EndAdding, GoTo
<1>2. << >> \in Seq(Hosts) /\ Len(<< >>) = 0 /\ 0 <= MaxQueued
    OBVIOUS
<1>3. EnvTypes'
    BY <1>1, <1>2 DEF EnvTypes, Lines, Hosts
<1>4. DialogueTypes'
    BY <1>1, SubjectType DEF Facts, DialogueTypes, PeersOK, Merging
<1>5. Asking'
    BY <1>1 DEF Asking, Adding, AddQuestions
<1>6. Merged'
    BY <1>1 DEF Facts, Merged, Adding, AddQuestions, KeepQuestions
<1>7. (OwnKeyIsNoPeer /\ PeersAreDistinct)'
    BY DEF Facts, OwnKeyIsNoPeer, PeersAreDistinct
<1> QED
    BY <1>3, <1>4, <1>5, <1>6, <1>7 DEF Facts

LEMMA QuietSteps ==
    ASSUME EnvTypes, Facts,
           \/ Interrupt \/ LookUp \/ TimeOut \/ Cancel \/ InputEnds
           \/ Top \/ Drained \/ NoMoreInput \/ Save
    PROVE  EnvTypes' /\ Facts'
<1>1. CASE Interrupt
  <2>1. EnvTypes'
    BY <1>1 DEF Interrupt, EnvTypes, environment, Hosts, Lines
  <2>2. CASE UNCHANGED dialogue
    BY <2>1, <2>2, SameDialogue
  <2>3. CASE at' = "Failed" /\ UNCHANGED <<reading, subject, seen, peers, asked, left, kept>>
    BY <2>1, <2>3, MoveOn DEF Facts, DialogueTypes, Adding, AddQuestions
  <2> QED
    BY <1>1, <2>2, <2>3 DEF Interrupt
<1>2. CASE LookUp
    BY <1>2, StayThere DEF LookUp, EnvTypes, environment, Hosts, Lines
<1>3. CASE TimeOut
  <2>1. EnvTypes' /\ UNCHANGED <<subject, seen, peers, asked, left, kept>>
    BY <1>3 DEF TimeOut, EnvTypes, environment, Hosts, Lines
  <2>2. CASE reading' = FALSE /\ at' = at
    BY <2>1, <2>2, StayThere
  <2>3. CASE at = "Wait" /\ at' = "Top" /\ reading' = reading
    BY <2>1, <2>3, MoveOn DEF Facts, DialogueTypes, Adding, AddQuestions
  <2> QED
    BY <1>3, <2>2, <2>3 DEF TimeOut
<1>4. CASE EndAdding
  <2>1. UNCHANGED <<up, lines, closed, peers, left, kept>>
    BY <1>4 DEF EndAdding
  <2> QED
    BY <1>4, <2>1, EndAddingStep
<1>5. ASSUME NEW p \in {"Failed", "Drain", "Wait", "Saved"}, GoTo(p),
             p \in Adding => at \in Adding,
             UNCHANGED <<environment, seen, peers, asked, left, kept>>
      PROVE  EnvTypes' /\ Facts'
  <2>1. at' = p /\ reading' = FALSE /\ subject' \in AnyLine
    BY <1>5, SubjectType DEF GoTo
  <2>2. EnvTypes'
    BY <1>5 DEF EnvTypes, environment, Hosts, Lines
  <2> QED
    BY <1>5, <2>1, <2>2, MoveOn DEF Adding, AddQuestions
<1>6. CASE InputEnds
    BY <1>5, <1>6 DEF InputEnds, Adding, AddQuestions
<1>7. CASE Drained
    BY <1>5, <1>7 DEF Drained, Adding, AddQuestions
<1>8. CASE Save
    BY <1>5, <1>8 DEF Save, Adding, AddQuestions
<1>9. CASE Top
    BY <1>4, <1>5, <1>9 DEF Top, Adding, AddQuestions
<1> QED
    BY <1>1, <1>2, <1>3, <1>4, <1>6, <1>7, <1>8, <1>9 DEF Cancel, NoMoreInput

-----------------------------------------------------------------------------
\* Hosts that may become peers.

\* A question about host s, which has no peer's address, and no peer's key unless it
\* was entered.
LEMMA Ask ==
    ASSUME Facts, NEW q \in {"AskAdd", "AskSettings"}, NEW s \in AnyLine, Put(q, s),
           at \in Adding, s.key \in ValidKeys \ {Me},
           s.address \in seen', s.key \in seen', seen \subseteq seen',
           seen' \subseteq Addresses \cup Machines, asked' \subseteq Hosts,
           \A i \in DOMAIN peers : /\ peers[i].address # s.address
                                   /\ peers[i].key = s.key => s.entered,
           UNCHANGED <<peers, left, kept>>
    PROVE  Facts'
<1>1. at' = q /\ subject' = s /\ reading' = FALSE
    BY DEF Put
<1>2. DialogueTypes'
    BY <1>1 DEF Facts, DialogueTypes, PeersOK, Adding, AddQuestions
<1>3. Asking'
    BY <1>1 DEF Facts, Asking, Adding, AddQuestions
<1>4. Merged'
    BY <1>1 DEF Facts, Merged, KeepQuestions, Adding, AddQuestions
<1>5. (OwnKeyIsNoPeer /\ PeersAreDistinct)'
    BY DEF Facts, OwnKeyIsNoPeer, PeersAreDistinct
<1> QED
    BY <1>2, <1>3, <1>4, <1>5 DEF Facts

LEMMA DrainStep ==
    ASSUME EnvTypes, Facts, Drain
    PROVE  EnvTypes' /\ Facts'
<1> DEFINE host == Head(discovered)
<1>1. discovered \in Seq(Hosts) /\ discovered # << >> /\ Len(discovered) <= MaxQueued
    BY DEF EnvTypes, Drain
<1>2. /\ host \in Hosts /\ Tail(discovered) \in Seq(Hosts)
      /\ Len(Tail(discovered)) <= MaxQueued
  <2>1. Len(Tail(discovered)) = Len(discovered) - 1 /\ Len(discovered) \in Nat
    BY <1>1, Rest
  <2> QED
    BY <1>1, <2>1, Rest
<1>3. EnvTypes'
    BY <1>2 DEF Drain, EnvTypes, Lines, Hosts
<1>4. /\ host.address \in Addresses /\ host.key \in Machines
      /\ UNCHANGED <<peers, left, kept>> /\ at = "Drain" /\ at \in Adding
    BY <1>2 DEF Hosts, Drain, Adding
<1> HIDE DEF host
<1>5. seen' \subseteq Addresses \cup Machines /\ seen \subseteq seen'
    BY <1>4 DEF Drain, host, Handled, Facts, DialogueTypes
<1>6. asked' \subseteq Hosts
    BY <1>2 DEF Drain, host, Facts, DialogueTypes
<1>7. CASE ~Known(host) /\ host.key \in ValidKeys
  <2> DEFINE s == Subject(host.address, host.key, FALSE)
  <2>1. Put("AskAdd", s) /\ seen' = Handled(host)
    BY <1>7 DEF Drain, host
  <2>2. s \in AnyLine /\ s.address = host.address /\ s.key = host.key
    BY <1>4 DEF Subject, AnyLine
  <2> HIDE DEF s
  <2>3. s.key # Me /\ s.address \notin seen /\ s.key \notin seen
    BY <1>7, <2>2 DEF Known
  <2>4. s.address \in seen' /\ s.key \in seen'
    BY <2>1, <2>2 DEF Handled
  <2>5. \A i \in DOMAIN peers : peers[i].address # s.address /\ peers[i].key # s.key
    BY <1>4, <2>3 DEF Facts, Asking
  <2> QED
    BY <1>3, <1>4, <1>5, <1>6, <1>7, <2>1, <2>2, <2>3, <2>4, <2>5, Ask
<1>8. CASE ~(~Known(host) /\ host.key \in ValidKeys)
  <2>1. at' = "Drain" /\ reading' = FALSE /\ subject' = NoSubject
    BY <1>8 DEF Drain, host, GoTo
  <2>2. DialogueTypes'
    BY <1>4, <1>5, <1>6, <2>1, SubjectType DEF Facts, DialogueTypes, PeersOK, Adding
  <2>3. Asking'
    BY <1>4, <1>5, <2>1 DEF Facts, Asking, Adding, AddQuestions
  <2>4. Merged'
    BY <1>4, <2>1 DEF Facts, Merged, Adding, AddQuestions, KeepQuestions
  <2>5. (OwnKeyIsNoPeer /\ PeersAreDistinct)'
    BY <1>4 DEF Facts, OwnKeyIsNoPeer, PeersAreDistinct
  <2> QED
    BY <1>3, <2>2, <2>3, <2>4, <2>5 DEF Facts
<1> QED
    BY <1>7, <1>8

\* An entered address, of which nothing is known.
LEMMA AskForKey ==
    ASSUME Facts, NEW q \in {"Fetch", "AskKey"}, NEW s \in AnyLine, Put(q, s),
           at \in Adding, s.address \notin seen, s.entered,
           UNCHANGED <<seen, peers, asked, left, kept>>
    PROVE  Facts'
<1>1. at' = q /\ subject' = s /\ reading' = FALSE
    BY DEF Put
<1>2. DialogueTypes'
    BY <1>1 DEF Facts, DialogueTypes, PeersOK, Adding, AddQuestions
<1>3. Asking'
    BY <1>1 DEF Facts, Asking, Adding, AddQuestions
<1>4. Merged'
    BY <1>1 DEF Facts, Merged, KeepQuestions, Adding, AddQuestions
<1>5. (OwnKeyIsNoPeer /\ PeersAreDistinct)'
    BY DEF Facts, OwnKeyIsNoPeer, PeersAreDistinct
<1> QED
    BY <1>2, <1>3, <1>4, <1>5 DEF Facts

LEMMA EnterStep ==
    ASSUME Facts, at \in {"Fetch", "AskKey"}, NEW k \in ValidKeys, Enter(k),
           UNCHANGED <<peers, asked, left, kept>>
    PROVE  Facts'
<1>1. subject.address \notin seen /\ subject.entered /\ subject \in AnyLine /\ at \in Adding
    BY DEF Facts, Asking, DialogueTypes, Adding, AddQuestions
<1>2. CASE k = Me
    BY <1>1, <1>2, MoveOn, SubjectType DEF Enter, GoTo, Adding, AddQuestions
<1>3. CASE k # Me
  <2> DEFINE s == [subject EXCEPT !.key = k]
  <2>1. /\ s \in AnyLine /\ s.address = subject.address /\ s.key = k
        /\ s.entered = subject.entered
    BY <1>1 DEF AnyLine
  <2>2. Put("AskSettings", s) /\ seen' = seen \cup {subject.address, k}
    BY <1>3 DEF Enter
  <2> HIDE DEF s
  <2>3. subject.address \in Addresses /\ k \in Machines
    BY <1>1 DEF AnyLine
  <2>4. seen' \subseteq Addresses \cup Machines
    BY <2>2, <2>3 DEF Facts, DialogueTypes
  <2>5. \A i \in DOMAIN peers : peers[i].address # s.address
    BY <1>1, <2>1 DEF Facts, Asking
  <2>6. asked' \subseteq Hosts
    BY DEF Facts, DialogueTypes
  <2> QED
    BY <1>1, <1>3, <2>1, <2>2, <2>4, <2>5, <2>6, Ask
<1> QED
    BY <1>2, <1>3

LEMMA EnteringSteps ==
    ASSUME EnvTypes, Facts, EnterAddress \/ Fetch \/ AnswerKey
    PROVE  EnvTypes' /\ Facts'
<1>1. CASE EnterAddress
  <2> DEFINE l == Head(lines)
             a == WithPort[l]
             s == Subject(a, Nobody, TRUE)
  <2>1. lines \in Seq(Lines) /\ lines # << >> /\ Len(lines) <= MaxAhead /\ lines' = Tail(lines)
    BY <1>1 DEF EnvTypes, EnterAddress
  <2>2. l \in Lines /\ Tail(lines) \in Seq(Lines) /\ Len(Tail(lines)) <= MaxAhead
    <3>1. Len(Tail(lines)) = Len(lines) - 1 /\ Len(lines) \in Nat
      BY <2>1, Rest
    <3> QED
      BY <2>1, <3>1, Rest
  <2>3. EnvTypes'
    BY <1>1, <2>1, <2>2 DEF EnvTypes, EnterAddress, Hosts
  <2>4. at = "Wait" /\ at \in Adding /\ UNCHANGED <<seen, peers, asked, left, kept>>
    BY <1>1 DEF EnterAddress, Adding
  <2>5. CASE GoTo("Top")
    BY <2>3, <2>4, <2>5, MoveOn, SubjectType DEF GoTo, Adding, AddQuestions
  <2>6. CASE l # "" /\ a \notin seen /\ Put("Fetch", s)
    <3>0. a \in Addresses
      BY <2>2, <2>6, EntryAssumption DEF Lines
    <3> HIDE DEF a
    <3>1. s \in AnyLine /\ s.address = a /\ s.entered
      BY <3>0 DEF Subject, AnyLine
    <3> HIDE DEF s
    <3> QED
      BY <2>3, <2>4, <2>6, <3>1, AskForKey
  <2> QED
    BY <1>1, <2>5, <2>6 DEF EnterAddress
<1>2. CASE Fetch
  <2>1. EnvTypes' /\ UNCHANGED <<peers, asked, left, kept>> /\ at = "Fetch" /\ at \in Adding
    BY <1>2 DEF Fetch, EnvTypes, environment, Hosts, Lines, Adding
  <2>2. ASSUME NEW k \in ValidKeys, Enter(k) PROVE Facts'
    BY <2>1, <2>2, EnterStep
  <2>3. CASE Put("AskKey", subject) /\ seen' = seen
    <3>1. subject \in AnyLine /\ subject.address \notin seen /\ subject.entered
      BY <2>1 DEF Facts, Asking, DialogueTypes
    <3> QED
      BY <2>1, <2>3, <3>1, AskForKey
  <2> QED
    BY <1>2, <2>1, <2>2, <2>3 DEF Fetch
<1>3. CASE AnswerKey
  <2>1. EnvTypes' /\ UNCHANGED <<peers, asked, left, kept>> /\ at = "AskKey" /\ at \in Adding
    BY <1>3, LineType DEF AnswerKey, ReadLine, Adding, AddQuestions
  <2>2. CASE GoTo("Top") /\ seen' = seen
    BY <2>1, <2>2, MoveOn, SubjectType DEF GoTo, Adding, AddQuestions
  <2>3. ASSUME Head(lines) \in ValidKeys, Enter(Head(lines)) PROVE Facts'
    BY <2>1, <2>3, EnterStep
  <2>4. CASE Put("AskKey", subject) /\ seen' = seen
    BY <2>1, <2>4, StayThere DEF Put
  <2> QED
    BY <1>3, <2>1, <2>2, <2>3, <2>4 DEF AnswerKey
<1> QED
    BY <1>1, <1>2, <1>3

\* The host asked about becomes a peer.
LEMMA Becomes ==
    ASSUME Facts, at = "AskSettings", peers' = Append(peers, subject),
           NEW p \in {"Top", "Drain"}, GoTo(p), UNCHANGED <<seen, asked, left, kept>>
    PROVE  Facts'
<1>1. at' = p /\ reading' = FALSE /\ subject' = NoSubject /\ at \in Adding
    BY DEF GoTo, Adding, AddQuestions
<1>2. subject \in AnyLine /\ peers \in Seq(AnyLine)
    BY DEF Facts, DialogueTypes, PeersOK
<1>3. /\ peers' \in Seq(AnyLine)
      /\ \A i \in DOMAIN peers' :
            \/ i \in DOMAIN peers /\ peers'[i] = peers[i] /\ i < Len(peers) + 1
            \/ i = Len(peers) + 1 /\ peers'[i] = subject
    BY <1>2, Appended
<1>4. /\ subject.key \in ValidKeys \ {Me} /\ subject.address \in seen /\ subject.key \in seen
      /\ \A i \in DOMAIN peers : /\ peers[i].address # subject.address
                                 /\ peers[i].key = subject.key => subject.entered
    BY DEF Facts, Asking
<1>5. PeersOK'
    BY <1>3, <1>4 DEF Facts, DialogueTypes, PeersOK
<1>6. DialogueTypes'
    BY <1>1, <1>5, SubjectType DEF Facts, DialogueTypes, Adding
<1>7. Asking'
    BY <1>1, <1>3, <1>4 DEF Facts, Asking, Adding, AddQuestions
<1>8. Merged'
  <2>1. kept = << >>
    BY <1>1 DEF Facts, Merged
  <2> QED
    BY <1>1, <2>1 DEF Facts, Merged, Adding, AddQuestions, KeepQuestions
<1>9. OwnKeyIsNoPeer'
    BY <1>3, <1>4 DEF Facts, OwnKeyIsNoPeer
<1>10. PeersAreDistinct'
  <2> SUFFICES ASSUME NEW i \in DOMAIN peers', NEW j \in DOMAIN peers', i < j
               PROVE  /\ peers'[i].address # peers'[j].address
                      /\ peers'[i].key = peers'[j].key => peers'[j].entered
    BY DEF PeersAreDistinct
  <2>1. Len(peers) \in Nat /\ i \in Nat /\ j \in Nat
    BY <1>2, <1>3, LenProperties
  <2>2. i \in DOMAIN peers /\ peers'[i] = peers[i]
    BY <1>3, <2>1
  <2>3. CASE j \in DOMAIN peers /\ peers'[j] = peers[j]
    BY <2>2, <2>3 DEF Facts, PeersAreDistinct
  <2>4. CASE peers'[j] = subject
    BY <1>4, <2>2, <2>4
  <2> QED
    BY <1>3, <2>3, <2>4
<1> QED
    BY <1>6, <1>7, <1>8, <1>9, <1>10 DEF Facts

LEMMA AnsweringSteps ==
    ASSUME EnvTypes, Facts, AnswerAdd \/ AnswerSettings
    PROVE  EnvTypes' /\ Facts'
<1>1. CASE AnswerAdd
  <2>1. EnvTypes' /\ UNCHANGED <<seen, peers, asked, left, kept>> /\ at = "AskAdd" /\ at \in Adding
    BY <1>1, LineType DEF AnswerAdd, ReadLine, Adding, AddQuestions
  <2>2. CASE Put("AskSettings", subject)
    <3>1. subject \in AnyLine /\ seen' \subseteq Addresses \cup Machines
          /\ asked' \subseteq Hosts
      BY <2>1 DEF Facts, DialogueTypes
    <3>2. /\ subject.key \in ValidKeys \ {Me} /\ subject.address \in seen' /\ subject.key \in seen'
          /\ \A i \in DOMAIN peers : /\ peers[i].address # subject.address
                                     /\ peers[i].key = subject.key => subject.entered
      BY <2>1 DEF Facts, Asking
    <3> QED
      BY <2>1, <2>2, <3>1, <3>2, Ask
  <2>3. CASE GoTo("Drain")
    BY <2>1, <2>3, MoveOn, SubjectType DEF GoTo, Adding, AddQuestions
  <2>4. CASE Again
    BY <2>1, <2>4, StayThere DEF Again, Put
  <2> QED
    BY <1>1, <2>2, <2>3, <2>4 DEF AnswerAdd
<1>2. CASE AnswerSettings
  <2>1. EnvTypes' /\ UNCHANGED <<seen, asked, left, kept>> /\ at = "AskSettings"
    BY <1>2, LineType DEF AnswerSettings, ReadLine
  <2>2. CASE /\ peers' = Append(peers, subject)
             /\ GoTo(IF subject.entered THEN "Top" ELSE "Drain")
    BY <2>1, <2>2, Becomes
  <2>3. CASE Again /\ peers' = peers
    BY <2>1, <2>3, StayThere DEF Again, Put
  <2> QED
    BY <1>2, <2>2, <2>3 DEF AnswerSettings
<1> QED
    BY <1>1, <1>2

-----------------------------------------------------------------------------
\* Merging.

LEMMA MergeSteps ==
    ASSUME EnvTypes, Facts, Merge \/ AnswerKeep \/ AnswerKeptSettings
    PROVE  EnvTypes' /\ Facts'
<1>1. /\ EnvTypes' /\ UNCHANGED <<seen, peers, asked>>
      /\ at \in {"Merge", "AskKeep", "AskKeptSettings"}
    BY LineType DEF Merge, AnswerKeep, AnswerKeptSettings, ReadLine, EnvTypes, environment,
                    Hosts, Lines
<1>2. left \in Seq(Hosts) /\ kept \in Seq(Hosts)
    BY DEF Facts, DialogueTypes
<1>3. ASSUME NEW q \in {"AskKeep", "AskKeptSettings"}, NEW s \in AnyLine, Put(q, s),
             left # << >>, ~Added(Head(left)), UNCHANGED <<left, kept>>
      PROVE  Facts'
  <2>1. at' = q /\ subject' = s /\ reading' = FALSE
    BY <1>3 DEF Put
  <2>2. DialogueTypes'
    BY <1>1, <1>3, <2>1 DEF Facts, DialogueTypes, PeersOK, Merging, KeepQuestions
  <2>3. Asking'
    BY <1>3, <2>1 DEF Asking, Adding, AddQuestions
  <2>4. Merged'
    BY <1>1, <1>3, <2>1 DEF Facts, Merged, Added, KeepQuestions, Adding, AddQuestions
  <2>5. (OwnKeyIsNoPeer /\ PeersAreDistinct)'
    BY <1>1 DEF Facts, OwnKeyIsNoPeer, PeersAreDistinct
  <2> QED
    BY <2>2, <2>3, <2>4, <2>5 DEF Facts
<1>4. ASSUME GoTo("Merge"), left # << >>, left' = Tail(left),
             \/ kept' = kept
             \/ kept' = Append(kept, Head(left)) /\ ~Added(Head(left))
      PROVE  Facts'
  <2>1. at' = "Merge" /\ subject' = NoSubject /\ reading' = FALSE
    BY <1>4 DEF GoTo
  <2>2. /\ Head(left) \in Hosts /\ left' \in Seq(Hosts)
        /\ 1 \in DOMAIN left /\ Head(left) = left[1]
        /\ \A j \in DOMAIN left' : /\ j + 1 \in DOMAIN left /\ left'[j] = left[j + 1]
                                   /\ j + 1 # 1 /\ j \in Nat
    BY <1>2, <1>4, Rest
  <2>3. /\ kept' \in Seq(Hosts)
        /\ \A i \in DOMAIN kept' :
              \/ i \in DOMAIN kept /\ kept'[i] = kept[i]
              \/ i = Len(kept) + 1 /\ kept'[i] = left[1] /\ ~Added(left[1])
    <3>1. CASE kept' = kept
      BY <1>2, <3>1
    <3>2. CASE kept' = Append(kept, Head(left)) /\ ~Added(Head(left))
      BY <1>2, <2>2, <3>2, Appended
    <3> QED
      BY <1>4, <3>1, <3>2
  <2>4. DialogueTypes'
    BY <1>1, <2>1, <2>2, <2>3, SubjectType DEF Facts, DialogueTypes, PeersOK, Merging
  <2>5. Asking'
    BY <2>1 DEF Asking, Adding, AddQuestions
  <2>6. (OwnKeyIsNoPeer /\ PeersAreDistinct)'
    BY <1>1 DEF Facts, OwnKeyIsNoPeer, PeersAreDistinct
  <2>7. Merged'
    <3>1. \A i, j \in DOMAIN left' : i # j => left'[i].address # left'[j].address
      <4> SUFFICES ASSUME NEW i \in DOMAIN left', NEW j \in DOMAIN left', i # j
                   PROVE  left'[i].address # left'[j].address
        OBVIOUS
      <4>1. i + 1 # j + 1
        BY <2>2
      <4> QED
        BY <2>2, <4>1 DEF Facts, Merged
    <3>2. \A j \in DOMAIN left' : left'[j].address # left[1].address
      BY <2>2 DEF Facts, Merged
    <3>3. \A i \in DOMAIN kept : kept[i].address # left[1].address
      BY <2>2 DEF Facts, Merged
    <3>4. \A i, j \in DOMAIN kept' : i # j => kept'[i].address # kept'[j].address
      BY <2>3, <3>3 DEF Facts, Merged
    <3>5. \A i \in DOMAIN kept', j \in DOMAIN left' : kept'[i].address # left'[j].address
      BY <2>2, <2>3, <3>2 DEF Facts, Merged
    <3>6. \A i \in DOMAIN kept', j \in DOMAIN peers :
              kept'[i].address # peers[j].address /\ kept'[i].key # peers[j].key
      BY <2>3 DEF Facts, Merged, Added
    <3> QED
      BY <1>1, <2>1, <3>1, <3>4, <3>5, <3>6 DEF Merged, Adding, AddQuestions, KeepQuestions
  <2> QED
    BY <2>4, <2>5, <2>6, <2>7 DEF Facts
<1>5. CASE Merge
  <2>1. CASE Added(Head(left))
    BY <1>1, <1>4, <1>5, <2>1 DEF Merge
  <2>2. CASE ~Added(Head(left))
    <3> DEFINE s == Subject(Head(left).address, Head(left).key, FALSE)
    <3>1. Head(left) \in Hosts
      BY <1>2, <1>5, Rest DEF Merge
    <3>2. s \in AnyLine
      BY <3>1 DEF Subject, AnyLine, Hosts
    <3> HIDE DEF s
    <3>3. Put("AskKeep", s) /\ left # << >> /\ UNCHANGED <<left, kept>>
      BY <1>5, <2>2 DEF Merge, s
    <3> QED
      BY <1>1, <1>3, <2>2, <3>2, <3>3
  <2> QED
    BY <2>1, <2>2
<1>6. CASE AnswerKeep \/ AnswerKeptSettings
  <2>1. left # << >> /\ ~Added(Head(left)) /\ subject \in AnyLine
    BY <1>6 DEF AnswerKeep, AnswerKeptSettings, ReadLine, Facts, Merged, KeepQuestions,
                DialogueTypes
  <2>2. CASE Put("AskKeptSettings", subject) /\ UNCHANGED <<left, kept>>
    BY <1>1, <1>3, <2>1, <2>2
  <2>3. CASE GoTo("Merge") /\ left' = Tail(left) /\ kept' = kept
    BY <1>1, <1>4, <2>1, <2>3
  <2>4. CASE GoTo("Merge") /\ left' = Tail(left) /\ kept' = Append(kept, Head(left))
    BY <1>1, <1>4, <2>1, <2>4
  <2>5. CASE Again /\ UNCHANGED <<left, kept>>
    BY <1>1, <2>5, StayThere DEF Again, Put
  <2> QED
    BY <1>6, <2>2, <2>3, <2>4, <2>5 DEF AnswerKeep, AnswerKeptSettings
<1> QED
    BY <1>1, <1>5, <1>6

-----------------------------------------------------------------------------
LEMMA DiscoveryInit == Init => EnvTypes /\ Facts
<1> SUFFICES ASSUME Init PROVE EnvTypes /\ Facts
    OBVIOUS
<1>1. << >> \in Seq(Hosts) /\ << >> \in Seq(Lines) /\ << >> \in Seq(AnyLine) /\ Len(<< >>) = 0
      /\ DOMAIN << >> = {}
    OBVIOUS
<1>2. EnvTypes
  <2>1. up \in [Others -> {<< >>} \cup {<<a>> : a \in Addresses}]
    BY DEF Init
  <2>2. 0 <= MaxQueued /\ 0 <= MaxAhead
    OBVIOUS
  <2> QED
    BY <1>1, <2>1, <2>2 DEF Init, EnvTypes
<1>3. DialogueTypes
    BY <1>1, SubjectType DEF Init, DialogueTypes, PeersOK, Adding
<1>4. Asking /\ OwnKeyIsNoPeer /\ PeersAreDistinct
    BY <1>1 DEF Init, Asking, OwnKeyIsNoPeer, PeersAreDistinct
<1>5. Merged
    BY <1>1 DEF Init, Merged, Adding, KeepQuestions
<1> QED
    BY <1>2, <1>3, <1>4, <1>5 DEF Facts

LEMMA DiscoveryStep == EnvTypes /\ Facts /\ [Next]_vars => (EnvTypes /\ Facts)'
<1> SUFFICES ASSUME EnvTypes, Facts, [Next]_vars PROVE EnvTypes' /\ Facts'
    OBVIOUS
<1>1. CASE UNCHANGED vars
    BY <1>1, SameDialogue DEF vars, dialogue, EnvTypes, Hosts, Lines
<1>2. CASE Next /\ ~Dialogue /\ ~Interrupt
    BY <1>2, OutsideStep
<1>3. CASE Dialogue \/ Interrupt
    BY <1>3, QuietSteps, DrainStep, EnteringSteps, AnsweringSteps, MergeSteps DEF Dialogue
<1> QED
    BY <1>1, <1>2, <1>3

LEMMA DiscoveryInv == Spec => [](EnvTypes /\ Facts)
    BY DiscoveryInit, DiscoveryStep, PTL DEF Spec

\* The variables keep their types: whatever is announced, served and typed, the peers
\* have keys that were validated.
THEOREM DiscoveryTypes == Spec => []TypeOK
<1>1. EnvTypes /\ Facts => TypeOK
  <2> SUFFICES ASSUME EnvTypes, Facts PROVE TypeOK
    OBVIOUS
  <2>1. \A i \in DOMAIN peers : peers[i] \in AnyLine /\ peers[i].key \in ValidKeys
    BY DEF Facts, DialogueTypes, PeersOK
  <2> QED
    BY <2>1 DEF EnvTypes, Facts, DialogueTypes, TypeOK
<1> QED
    BY <1>1, DiscoveryInv, PTL

\* The machine does not become a peer of its own, though it receives what it announces.
THEOREM OwnKeyLeftOut == Spec => []OwnKeyIsNoPeer
<1>1. Facts => OwnKeyIsNoPeer
    BY DEF Facts
<1> QED
    BY <1>1, DiscoveryInv, PTL

\* However detection and entering interleave, no two peers have an address, and only
\* an entered one has the key of another.
THEOREM DistinctPeers == Spec => []PeersAreDistinct
<1>1. Facts => PeersAreDistinct
    BY DEF Facts
<1> QED
    BY <1>1, DiscoveryInv, PTL

\* What is saved has every address once, and no configured peer with the address or
\* the key of one that was added.
THEOREM MergeIsClean == Spec => []SavedIsMerged
<1>1. Facts => SavedIsMerged
    BY DEF Facts, Merged, SavedIsMerged
<1> QED
    BY <1>1, DiscoveryInv, PTL

-----------------------------------------------------------------------------
\* Who was asked about was seen.

AskedSeen == \A q \in asked : q.address \in seen /\ q.key \in seen

LEMMA SeenGrows ==
    ASSUME Next, ~Drain, ~EndAdding
    PROVE  asked' = asked /\ seen \subseteq seen'
<1>1. CASE Next /\ ~Dialogue
    BY <1>1 DEF Next, OtherStarts, OtherEnds, Announce, TypeLine, CloseInput, Interrupt,
                dialogue
<1>2. ASSUME NEW k, Enter(k) PROVE seen \subseteq seen'
    BY <1>2 DEF Enter
<1>3. CASE EnterAddress \/ Fetch \/ AnswerKey
    BY <1>2, <1>3 DEF EnterAddress, Fetch, AnswerKey
<1>4. CASE Dialogue /\ ~(EnterAddress \/ Fetch \/ AnswerKey)
    BY <1>4 DEF Dialogue, LookUp, TimeOut, Cancel, InputEnds, Top, Drained, NoMoreInput,
                AnswerAdd, AnswerSettings, Merge, AnswerKeep, AnswerKeptSettings, Save
<1> QED
    BY <1>1, <1>3, <1>4

LEMMA AskedSeenStep == AskedSeen /\ [Next]_vars => AskedSeen'
<1> SUFFICES ASSUME AskedSeen, [Next]_vars PROVE AskedSeen'
    OBVIOUS
<1>1. CASE UNCHANGED vars
    BY <1>1 DEF vars, AskedSeen
<1>2. CASE Drain
    BY <1>2 DEF Drain, AskedSeen, Handled
<1>3. CASE EndAdding
    BY <1>3 DEF EndAdding, AskedSeen
<1>4. CASE Next /\ ~Drain /\ ~EndAdding
    BY <1>4, SeenGrows DEF AskedSeen
<1> QED
    BY <1>1, <1>2, <1>3, <1>4

\* Only an announcement opens the question whether to add a host.
LEMMA OnlyDrainAsks ==
    ASSUME Next, at # "AskAdd", at' = "AskAdd"
    PROVE  Drain
<1>1. CASE Next /\ ~Dialogue
    BY <1>1 DEF Next, OtherStarts, OtherEnds, Announce, TypeLine, CloseInput, Interrupt,
                dialogue
<1>2. ASSUME NEW k, Enter(k) PROVE at' # "AskAdd"
    BY <1>2 DEF Enter, GoTo, Put
<1>3. CASE EnterAddress \/ Fetch \/ AnswerKey
    BY <1>2, <1>3 DEF EnterAddress, Fetch, AnswerKey, GoTo, Put
<1>4. CASE Dialogue /\ ~(EnterAddress \/ Fetch \/ AnswerKey \/ Drain)
    BY <1>4 DEF Dialogue, LookUp, TimeOut, Cancel, EndAdding, InputEnds, Top, Drained,
                NoMoreInput, AnswerAdd, AnswerSettings, Merge, AnswerKeep,
                AnswerKeptSettings, Save, ReadLine, Again, GoTo, Put
<1> QED
    BY <1>1, <1>3, <1>4

\* The user is asked about a machine once, however often it is announced and whatever
\* was answered or entered meanwhile.
THEOREM NobodyAskedTwice == Spec => AskedOnce
<1> DEFINE Fresh ==
        /\ \A q \in asked : q.address # subject'.address /\ q.key # subject'.key
        /\ \A i \in DOMAIN peers :
              peers[i].address # subject'.address /\ peers[i].key # subject'.key
           Once == at # "AskAdd" /\ at' = "AskAdd" => Fresh
<1>1. Init => AskedSeen
    BY DEF Init, AskedSeen
<1>2. Facts /\ AskedSeen /\ [Next]_vars => [Once]_vars
  <2> SUFFICES ASSUME Facts, AskedSeen, Next, at # "AskAdd", at' = "AskAdd"
               PROVE  Fresh
    BY DEF vars
  <2> DEFINE host == Head(discovered)
  <2>1. Drain
    BY OnlyDrainAsks
  <2>2. ~Known(host) /\ Put("AskAdd", Subject(host.address, host.key, FALSE)) /\ at = "Drain"
    BY <2>1 DEF Drain, GoTo
  <2>3. subject'.address \notin seen /\ subject'.key \notin seen
    BY <2>2 DEF Known, Put, Subject
  <2>4. \A i \in DOMAIN peers : peers[i].address \in seen /\ peers[i].key \in seen
    BY <2>2 DEF Facts, Asking, Adding
  <2> QED
    BY <2>3, <2>4 DEF AskedSeen
<1>3. Spec => [][Once]_vars
    BY <1>1, <1>2, AskedSeenStep, DiscoveryInv, PTL DEF Spec
<1> QED
    BY <1>3 DEF AskedOnce
=============================================================================
