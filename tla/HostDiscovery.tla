---------------------------- MODULE HostDiscovery ----------------------------
(***************************************************************************)
(* How `synq configure` finds the peers of a machine.  Machines that run   *)
(* the command announce their address and public key by UDP broadcasts,    *)
(* which come back to the sender too, and serve the key over TCP.  The     *)
(* dialogue asks about each host that it detects, takes addresses that the *)
(* user enters, and merges what was added with the peers already           *)
(* configured.                                                             *)
(*                                                                         *)
(* Three threads meet here: stdin is read into one channel, datagrams into *)
(* another, and the dialogue reads both.  A line answers the question that *)
(* is open when it is read, which need not be the one it was typed for.    *)
(* Ctrl+C only sets a flag while hosts are added; before and after it ends *)
(* the process.                                                            *)
(*                                                                         *)
(* The module has one dialogue; of other machines it sees what they        *)
(* announce and serve.  A machine stands for its public key.               *)
(***************************************************************************)
EXTENDS Naturals, Sequences

CONSTANTS
    Me,        \* this machine, and its public key
    Others,    \* the other machines, and their public keys
    ValidKeys, \* the keys that validate_public_key accepts
    Addresses, \* addresses with their port
    WithPort,  \* ensure_port: the address that an entry becomes
    Own,       \* the address that this machine announces
    Where,     \* the machine an address leads to, or Nobody
    Nobody,
    Existing,  \* the peers in the configuration file, of other machines
    Entries,   \* what the user may type besides an empty line, as "y" or "n"
    MaxAhead,  \* bound: lines that wait to be read
    MaxQueued  \* bound: datagrams that wait to be read

Machines == Others \cup {Me}
Lines == Entries \cup {""}
Hosts == [address : Addresses, key : Machines]

ASSUME HostDiscoveryAssumption ==
    /\ Me \notin Others /\ Me \in ValidKeys /\ ValidKeys \subseteq Machines
    /\ Own \in Addresses /\ Where \in [Addresses -> Machines \cup {Nobody}]
    /\ Where[Own] = Me
    /\ Nobody \notin Machines
    /\ Existing \in Seq(Hosts)
    /\ \A i \in DOMAIN Existing : Existing[i].key # Me
    /\ \A i, j \in DOMAIN Existing : i # j =>
          /\ Existing[i].address # Existing[j].address
          /\ Existing[i].key # Existing[j].key
    /\ MaxAhead \in Nat \ {0} /\ MaxQueued \in Nat \ {0}

ASSUME EntryAssumption ==
    /\ Addresses \cap Machines = {}
    /\ WithPort \in [Entries -> Addresses]
    /\ \A a \in Entries \cap Addresses : WithPort[a] = a
    /\ "" \notin Entries

VARIABLES
    up,          \* per other machine that runs the command, the address it announces
    discovered,  \* the channel of received announcements
    lines,       \* the channel of lines typed
    closed,      \* has stdin ended
    interrupted, \* INTERRUPTED
    at,          \* where the dialogue is
    reading,     \* in a question: it waits for a line, having seen no interrupt
    subject,     \* in a question or a fetch: the host that it is about
    seen,        \* addresses and keys that were dealt with
    peers,       \* the hosts added, and whether each was entered by hand
    asked,       \* history, while hosts are added: who the user was asked about
    left,        \* the configured peers still to be merged
    kept         \* the configured peers kept

vars == <<up, discovered, lines, closed, interrupted, at, reading, subject, seen,
          peers, asked, left, kept>>
environment == <<up, discovered, lines, closed, interrupted>>
dialogue == <<at, reading, subject, seen, peers, asked, left, kept>>

AddQuestions == {"AskAdd", "AskSettings", "AskKey"}
KeepQuestions == {"AskKeep", "AskKeptSettings"}
Questions == AddQuestions \cup KeepQuestions
Adding == AddQuestions \cup {"Top", "Drain", "Wait", "Fetch"}
Merging == KeepQuestions \cup {"Merge"}
Ended == {"Saved", "Failed"}

AnyLine == [address : Addresses, key : Machines \cup {Nobody}, entered : BOOLEAN]
AddressesOf(h) == {a \in Addresses : Where[a] = h}
NoSubject == [address |-> Own, key |-> Nobody, entered |-> FALSE]
Subject(a, k, e) == [address |-> a, key |-> k, entered |-> e]

-----------------------------------------------------------------------------
\* The network, the user and the operating system.

Running(h, a) == IF h = Me THEN a = Own ELSE up[h] = <<a>>

\* Another machine runs the command, or ends it: it announces an address and serves
\* its key meanwhile.
OtherStarts(h, a) ==
    /\ at \in Adding /\ up[h] = << >>
    /\ up' = [up EXCEPT ![h] = <<a>>]
    /\ UNCHANGED <<discovered, lines, closed, interrupted, dialogue>>
OtherEnds(h) ==
    /\ at \in Adding /\ up[h] # << >>
    /\ up' = [up EXCEPT ![h] = << >>]
    /\ UNCHANGED <<discovered, lines, closed, interrupted, dialogue>>

\* One of h's announcements, repeated every second, is received; the others are lost.
Announce(h, a) ==
    /\ at \in Adding /\ Running(h, a)
    /\ Len(discovered) < MaxQueued
    /\ discovered' = Append(discovered, [address |-> a, key |-> h])
    /\ UNCHANGED <<up, lines, closed, interrupted, dialogue>>

TypeLine(l) ==
    /\ at \notin Ended /\ ~closed /\ Len(lines) < MaxAhead
    /\ lines' = Append(lines, l)
    /\ UNCHANGED <<up, discovered, closed, interrupted, dialogue>>

CloseInput ==
    /\ at \notin Ended /\ ~closed
    /\ closed' = TRUE
    /\ UNCHANGED <<up, discovered, lines, interrupted, dialogue>>

\* Ctrl+C: the flag while hosts are added, else the end of the process.
Interrupt ==
    \/ /\ at \in Adding /\ ~interrupted
       /\ interrupted' = TRUE
       /\ UNCHANGED <<up, discovered, lines, closed, dialogue>>
    \/ /\ at \in Merging
       /\ at' = "Failed"
       /\ UNCHANGED <<environment, reading, subject, seen, peers, asked, left, kept>>

-----------------------------------------------------------------------------
\* Questions.

\* Question q about host s is put.
Put(q, s) ==
    /\ at' = q
    /\ subject' = s
    /\ reading' = FALSE

\* The dialogue goes on at p, which is no question.
GoTo(p) ==
    /\ at' = p
    /\ subject' = NoSubject
    /\ reading' = FALSE

\* Prompt::line looks at the flag before it waits for a line, and every time it has
\* waited for HOST_POLL_INTERVAL.
LookUp ==
    /\ at \in Questions /\ ~reading /\ ~interrupted
    /\ reading' = TRUE
    /\ UNCHANGED <<environment, at, subject, seen, peers, asked, left, kept>>

\* Faulty: the dialogue waits for an address for as long as it takes.
TimeOutInQuestions ==
    /\ at \in Questions /\ reading /\ lines = << >> /\ ~closed
    /\ reading' = FALSE
    /\ UNCHANGED <<environment, at, subject, seen, peers, asked, left, kept>>

TimeOut ==
    /\ \/ at \in Questions /\ reading /\ lines = << >> /\ ~closed
          /\ reading' = FALSE /\ at' = at
       \/ at = "Wait" /\ lines = << >> /\ ~closed
          /\ at' = "Top" /\ reading' = reading
    /\ UNCHANGED <<environment, subject, seen, peers, asked, left, kept>>

\* add_hosts returns the peers; what it knew besides is forgotten.
EndAdding ==
    /\ GoTo("Merge")
    /\ interrupted' = FALSE
    /\ discovered' = << >> /\ seen' = {} /\ asked' = {}
    /\ UNCHANGED <<up, lines, closed, peers, left, kept>>

\* An interrupt in a question ends the adding, without the host asked about.
Cancel ==
    /\ at \in AddQuestions /\ ~reading /\ interrupted
    /\ EndAdding

\* A question meets the end of the input: nothing is saved.
InputEnds ==
    /\ at \in Questions /\ reading /\ lines = << >> /\ closed
    /\ GoTo("Failed")
    /\ UNCHANGED <<environment, seen, peers, asked, left, kept>>

\* The next line is read, in question q.
ReadLine(q) ==
    /\ at = q /\ reading
    /\ lines # << >>
    /\ lines' = Tail(lines)
    /\ UNCHANGED <<up, discovered, closed, interrupted>>

\* yes_no_default, where the default is yes.
Yes == Head(lines) \in {"", "y"}
No == Head(lines) = "n"
Again == ~Yes /\ ~No /\ Put(at, subject)

-----------------------------------------------------------------------------
\* add_hosts_loop.

\* The flag is looked at once per round.
Top ==
    /\ at = "Top"
    /\ \/ interrupted /\ EndAdding
       \/ /\ ~interrupted /\ GoTo("Drain")
          /\ UNCHANGED <<environment, seen, peers, asked, left, kept>>

\* Faulty: the own announcement is not told from others.
KnownButOwn(host) == host.address \in seen \/ host.key \in seen

Known(host) == host.key = Me \/ host.address \in seen \/ host.key \in seen

\* Faulty: a detected host is known by its address.
HandledAddress(host) == seen \cup {host.address}

Handled(host) == seen \cup {host.address, host.key}

\* try_recv: an announcement of a host that is not known leads to a question.
Drain ==
    /\ at = "Drain" /\ discovered # << >>
    /\ discovered' = Tail(discovered)
    /\ LET host == Head(discovered)
           asks == ~Known(host) /\ host.key \in ValidKeys
       IN  /\ seen' = IF Known(host) THEN seen ELSE Handled(host)
           /\ asked' = IF asks THEN asked \cup {host} ELSE asked
           /\ IF asks THEN Put("AskAdd", Subject(host.address, host.key, FALSE))
              ELSE GoTo("Drain")
    /\ UNCHANGED <<up, lines, closed, interrupted, peers, left, kept>>

Drained ==
    /\ at = "Drain" /\ discovered = << >>
    /\ GoTo("Wait")
    /\ UNCHANGED <<environment, seen, peers, asked, left, kept>>

AnswerAdd ==
    /\ ReadLine("AskAdd")
    /\ \/ Yes /\ Put("AskSettings", subject)
       \/ No /\ GoTo("Drain")
       \/ Again
    /\ UNCHANGED <<seen, peers, asked, left, kept>>

\* prompt_peer_settings: one question stands for the two to four it asks.  Then the
\* host becomes a peer.
AnswerSettings ==
    /\ ReadLine("AskSettings")
    /\ \/ /\ Yes \/ No
          /\ peers' = Append(peers, subject)
          /\ GoTo(IF subject.entered THEN "Top" ELSE "Drain")
       \/ Again /\ peers' = peers
    /\ UNCHANGED <<seen, asked, left, kept>>

\* A line while no question is open is an address, whatever it says: an answer that comes
\* late, or a key.
EnterAddress ==
    /\ at = "Wait" /\ lines # << >>
    /\ lines' = Tail(lines)
    /\ IF Head(lines) = "" \/ WithPort[Head(lines)] \in seen
       THEN GoTo("Top")
       ELSE Put("Fetch", Subject(WithPort[Head(lines)], Nobody, TRUE))
    /\ UNCHANGED <<up, discovered, closed, interrupted, seen, peers, asked, left, kept>>

NoMoreInput ==
    /\ at = "Wait" /\ lines = << >> /\ closed
    /\ EndAdding

\* Faulty: an entered host may be detected again.
EnterUnseen(k) ==
    IF k = Me THEN GoTo("Top") /\ seen' = seen
    ELSE /\ seen' = seen
         /\ Put("AskSettings", [subject EXCEPT !.key = k])

\* The key k of the entered host is known.  Whether a peer has it is not looked at.
Enter(k) ==
    IF k = Me THEN GoTo("Top") /\ seen' = seen
    ELSE /\ seen' = seen \cup {subject.address, k}
         /\ Put("AskSettings", [subject EXCEPT !.key = k])

\* fetch_host_info asks the machine that is there.  It fails if nobody serves a valid
\* key, and may fail if somebody does.
Serves(a, k) ==
    /\ k = Where[a] /\ k \in ValidKeys
    /\ k # Me => up[k] # << >>
Fetch ==
    /\ at = "Fetch"
    /\ \/ \E k \in ValidKeys : Serves(subject.address, k) /\ Enter(k)
       \/ Put("AskKey", subject) /\ seen' = seen
    /\ UNCHANGED <<environment, peers, asked, left, kept>>

\* Faulty: the key is not validated.
AnswerAnyKey ==
    /\ ReadLine("AskKey")
    /\ IF Head(lines) = "" THEN GoTo("Top") /\ seen' = seen ELSE Enter(Head(lines))
    /\ UNCHANGED <<peers, asked, left, kept>>

AnswerKey ==
    /\ ReadLine("AskKey")
    /\ LET l == Head(lines) IN
       \/ l = "" /\ GoTo("Top") /\ seen' = seen
       \/ l \in ValidKeys /\ Enter(l)
       \/ l # "" /\ l \notin ValidKeys /\ Put("AskKey", subject) /\ seen' = seen
    /\ UNCHANGED <<peers, asked, left, kept>>

-----------------------------------------------------------------------------
\* configure: what was added goes before what was configured.

\* Faulty: hosts are told apart by their address.
AddedAddress(old) == \E i \in DOMAIN peers : peers[i].address = old.address

Added(old) == \E i \in DOMAIN peers :
    peers[i].address = old.address \/ peers[i].key = old.key

Merge ==
    /\ at = "Merge" /\ left # << >>
    /\ IF Added(Head(left))
       THEN GoTo("Merge") /\ left' = Tail(left)
       ELSE /\ Put("AskKeep", Subject(Head(left).address, Head(left).key, FALSE))
            /\ left' = left
    /\ UNCHANGED <<environment, seen, peers, asked, kept>>

AnswerKeep ==
    /\ ReadLine("AskKeep")
    /\ \/ Yes /\ Put("AskKeptSettings", subject) /\ left' = left
       \/ No /\ GoTo("Merge") /\ left' = Tail(left)
       \/ Again /\ left' = left
    /\ UNCHANGED <<seen, peers, asked, kept>>

AnswerKeptSettings ==
    /\ ReadLine("AskKeptSettings")
    /\ \/ /\ Yes \/ No
          /\ kept' = Append(kept, Head(left)) /\ left' = Tail(left)
          /\ GoTo("Merge")
       \/ Again /\ UNCHANGED <<kept, left>>
    /\ UNCHANGED <<seen, peers, asked>>

Save ==
    /\ at = "Merge" /\ left = << >>
    /\ GoTo("Saved")
    /\ UNCHANGED <<environment, seen, peers, asked, left, kept>>

-----------------------------------------------------------------------------
Init ==
    /\ up = [h \in Others |-> << >>]
    /\ discovered = << >> /\ lines = << >>
    /\ closed = FALSE /\ interrupted = FALSE
    /\ at = "Top" /\ reading = FALSE /\ subject = NoSubject
    /\ seen = {} /\ peers = << >> /\ asked = {}
    /\ left = Existing /\ kept = << >>

Dialogue ==
    \/ LookUp \/ TimeOut \/ Cancel \/ InputEnds
    \/ Top \/ Drain \/ Drained \/ EnterAddress \/ NoMoreInput \/ Fetch
    \/ AnswerAdd \/ AnswerSettings \/ AnswerKey
    \/ Merge \/ AnswerKeep \/ AnswerKeptSettings \/ Save

Next ==
    \/ Dialogue
    \/ \E h \in Others : OtherEnds(h) \/ \E a \in AddressesOf(h) : OtherStarts(h, a)
    \/ \E h \in Machines, a \in Addresses : Announce(h, a)
    \/ \E l \in Lines : TypeLine(l)
    \/ CloseInput \/ Interrupt

\* The dialogue's thread runs, and some of the announcements that a machine repeats
\* arrive.  Nothing is assumed of the user.
Fairness ==
    /\ WF_vars(Dialogue)
    /\ \A h \in Others : \A a \in AddressesOf(h) : SF_vars(Announce(h, a))

Spec == Init /\ [][Next]_vars /\ Fairness

-----------------------------------------------------------------------------
TypeOK ==
    /\ up \in [Others -> {<< >>} \cup {<<a>> : a \in Addresses}]
    /\ discovered \in Seq(Hosts) /\ Len(discovered) <= MaxQueued
    /\ lines \in Seq(Lines) /\ Len(lines) <= MaxAhead
    /\ closed \in BOOLEAN /\ interrupted \in BOOLEAN
    /\ at \in Adding \cup Merging \cup Ended /\ reading \in BOOLEAN
    /\ subject \in AnyLine
    /\ seen \subseteq Addresses \cup Machines
    /\ \A i \in DOMAIN peers : peers[i] \in AnyLine /\ peers[i].key \in ValidKeys
    /\ asked \subseteq Hosts
    /\ left \in Seq(Hosts) /\ kept \in Seq(Hosts)

\* The machine never becomes a peer of its own, though its broadcasts come back to it
\* and one of its addresses may be entered.
OwnKeyIsNoPeer == \A i \in DOMAIN peers : peers[i].key # Me

\* A host that was detected is no second peer of its address or of its key, however
\* detection and entering interleave and whatever address it announces when it runs
\* again.  Only an entry may repeat the key of a peer, at another address.
PeersAreDistinct ==
    \A i, j \in DOMAIN peers : i < j =>
        /\ peers[i].address # peers[j].address
        /\ peers[i].key = peers[j].key => peers[j].entered

\* The user is asked about a machine once, whatever the answer was: never about an
\* address or a key that was asked about, entered or added before.
AskedOnce ==
    [][at # "AskAdd" /\ at' = "AskAdd" =>
          /\ \A q \in asked : q.address # subject'.address /\ q.key # subject'.key
          /\ \A i \in DOMAIN peers :
                peers[i].address # subject'.address /\ peers[i].key # subject'.key]_vars

\* What is saved has every address once, and a configured peer never beside a host
\* that was added with its key: the entry it replaces is gone.
SavedIsMerged ==
    at = "Saved" =>
        /\ \A i, j \in DOMAIN kept : i # j => kept[i].address # kept[j].address
        /\ \A i \in DOMAIN kept, j \in DOMAIN peers :
              kept[i].address # peers[j].address /\ kept[i].key # peers[j].key

\* A machine that goes on announcing itself is dealt with, whatever the user does
\* meanwhile, if the dialogue goes on: however often it comes back to its rounds,
\* with lines typed or none.
AnnouncedIsDealtWith ==
    \A h \in Others : \A a \in AddressesOf(h) :
        <>[](up[h] = <<a>> /\ at \in Adding) /\ []<>(at \in {"Top", "Drain", "Wait"})
            => <>(a \in seen \/ h \in seen)
=============================================================================
