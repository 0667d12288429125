------------------------------ MODULE ConfigFile ------------------------------
(***************************************************************************)
(* The configuration file, and the commands of main.rs that load, change   *)
(* and save it.  Each command is a process of its own: nothing locks the   *)
(* file, a save truncates it before it writes (fs::write), and a process   *)
(* may end between any two steps.  What a cut write leaves either does not *)
(* parse or, the peers being last in the file, is a configuration that     *)
(* lacks peers or the end of one.  Two saves at a time both write from the *)
(* first byte: the end of the longer one stays behind the shorter one.     *)
(* A key pair is a number; private and public keys carry the number of     *)
(* their pair.                                                             *)
(***************************************************************************)
EXTENDS Integers, Sequences

CONSTANTS
    Procs,   \* processes that may run at a time
    Peers,   \* machines that configure may add
    Names,   \* names of scroll devices
    CutPeer, \* what the end of a cut peer entry parses as
    Absent,  \* no file
    Empty,   \* a file that a save has truncated and not written yet
    Broken,  \* a file that does not parse
    Default, \* marks an empty field
    MaxPeers, \* bound: peers in a file
    MaxDevices, \* bound: devices in a file
    MaxKeys,  \* bound: key pairs generated
    MaxStarts, \* bound: commands started
    MaxEdits  \* bound: edits by hand

VARIABLES
    file,      \* Absent, Empty, Broken or a configuration
    command,   \* per process, the command it runs, or "none"
    step,      \* per process, where it is
    config,    \* per process, its Config
    modified,  \* per process, Config.modified
    keys,      \* key pairs generated so far
    starts,    \* commands started so far
    edits,     \* edits by hand so far
    shown,     \* history: the public key others were shown last, until it is replaced
    overlapped \* history: did a command load while another was going to save

vars == <<file, command, step, config, modified, keys, starts, edits, shown, overlapped>>
bounds == <<starts, edits>>

Commands == {"daemon", "configure", "detect-devices", "generate-key"}
Steps == {"end", "loaded", "write", "ready", "running"}
Keys == 1 .. MaxKeys

PeerLists == UNION {[1 .. n -> Peers \cup {CutPeer}] : n \in 0 .. MaxPeers}

DeviceLists ==
    {names \in UNION {[1 .. n -> Names] : n \in 0 .. MaxDevices} :
        \A i, j \in DOMAIN names : names[i] = names[j] => i = j}

Configs ==
    [private : Keys \cup {Default}, public : Keys \cup {Default},
     peers : PeerLists, devices : DeviceLists, bind : BOOLEAN]

ASSUME ConfigAssumption ==
    /\ CutPeer \notin Peers
    /\ Absent \notin Configs /\ Empty \notin Configs /\ Broken \notin Configs
    /\ Absent # Empty /\ Absent # Broken
    /\ {MaxPeers, MaxDevices, MaxKeys, MaxStarts, MaxEdits} \subseteq Nat
    /\ Default \notin 1 .. MaxKeys

\* The Config of load_or_create, before normalize.
NewConfig == [private |-> Default, public |-> Default, peers |-> <<>>, devices |-> <<>>,
              bind |-> TRUE]

\* validate; the fields of a peer are what add_hosts and the parser leave in them.
Valid(c) == c.bind /\ c.private # Default /\ c.public # Default

\* Faulty: a public key that is there is left alone.
NormalizedPrivate(c, fresh) ==
    LET d == IF c.private = Default THEN [c EXCEPT !.private = fresh] ELSE c
    IN IF d.public = Default THEN [d EXCEPT !.public = d.private] ELSE d

\* normalize: no private key, a new pair; no public key, the one of the private key.
Normalized(c, fresh) ==
    IF c.private = Default THEN [c EXCEPT !.private = fresh, !.public = fresh]
    ELSE IF c.public = Default THEN [c EXCEPT !.public = c.private]
    ELSE c

\* Does load succeed?
Loads(f) == f \notin {Absent, Empty, Broken} /\ f.bind

\* What a write of c that is cut short may leave: fields before peers are all there, or
\* the file does not parse.
CutShort(c) ==
    {Broken} \cup
    {[c EXCEPT !.peers = SubSeq(c.peers, 1, n)] : n \in 0 .. Len(c.peers)} \cup
    {[c EXCEPT !.peers = Append(SubSeq(c.peers, 1, n - 1), CutPeer)] : n \in DOMAIN c.peers}

\* What a write of c leaves when f is in the file by then: its end may follow c.
Written(c, f) ==
    LET tails == IF Loads(f) THEN {SubSeq(f.peers, n, Len(f.peers)) : n \in DOMAIN f.peers} ELSE {}
    IN IF f \in {Absent, Empty} THEN {c}
       ELSE {c, Broken} \cup
            {d \in {[c EXCEPT !.peers = @ \o tail] : tail \in tails \cup {<<CutPeer>>}} :
                Len(d.peers) <= MaxPeers}

-----------------------------------------------------------------------------
\* p has loaded the file, and has not used or may yet save what it loaded.
Pending(p) ==
    step[p] \in {"loaded", "write", "ready"} \/ command[p] \in {"configure", "detect-devices"}

\* Faulty: configure begins anew when the file does not load.
StartAnew(p, cmd) ==
    /\ step[p] = "end" /\ starts < MaxStarts
    /\ Loads(file) \/ cmd = "configure"
    /\ LET loaded == IF Loads(file) THEN file ELSE NewConfig
           fresh == IF loaded.private = Default THEN keys + 1 ELSE keys
           used == Normalized(loaded, fresh)
       IN /\ fresh <= MaxKeys
          /\ keys' = fresh
          /\ config' = [config EXCEPT ![p] = used]
          /\ modified' = [modified EXCEPT ![p] = ~Loads(file) \/ used # loaded]
    /\ command' = [command EXCEPT ![p] = cmd]
    /\ step' = [step EXCEPT ![p] = "loaded"]
    /\ starts' = starts + 1
    /\ overlapped' = (overlapped \/ \E q \in Procs : Pending(q))
    /\ UNCHANGED <<file, edits, shown>>

\* load, or load_or_create, at the start of a command.  A load that fails ends the
\* command: nothing changes.
Start(p, cmd) ==
    /\ step[p] = "end" /\ starts < MaxStarts
    /\ Loads(file) \/ (file = Absent /\ cmd = "configure")
    /\ LET loaded == IF file = Absent THEN NewConfig ELSE file
           fresh == IF loaded.private = Default THEN keys + 1 ELSE keys
           used == Normalized(loaded, fresh)
       IN /\ fresh <= MaxKeys
          /\ keys' = fresh
          /\ config' = [config EXCEPT ![p] = used]
          /\ modified' = [modified EXCEPT ![p] = file = Absent \/ used # loaded]
    /\ command' = [command EXCEPT ![p] = cmd]
    /\ step' = [step EXCEPT ![p] = "loaded"]
    /\ starts' = starts + 1
    /\ overlapped' = (overlapped \/ \E q \in Procs : Pending(q))
    /\ UNCHANGED <<file, edits, shown>>

\* save: validate and serialize, then open the file, which truncates it.
BeginSave(p, c) ==
    /\ Valid(c)
    /\ config' = [config EXCEPT ![p] = c]
    /\ step' = [step EXCEPT ![p] = "write"]
    /\ file' = Empty

\* main: what load changed is saved before the command begins.
SaveModified(p) ==
    /\ step[p] = "loaded" /\ command[p] # "generate-key" /\ modified[p]
    /\ BeginSave(p, config[p])
    /\ UNCHANGED <<command, modified, keys, bounds, shown, overlapped>>

\* Faulty: the command begins with what load changed in memory only.
BeginUnsaved(p) ==
    /\ step[p] = "loaded" /\ command[p] # "generate-key"
    /\ step' = [step EXCEPT ![p] = "ready"]
    /\ UNCHANGED <<file, command, config, modified, keys, bounds, shown, overlapped>>

Begin(p) ==
    /\ step[p] = "loaded" /\ command[p] # "generate-key" /\ ~modified[p]
    /\ step' = [step EXCEPT ![p] = "ready"]
    /\ UNCHANGED <<file, command, config, modified, keys, bounds, shown, overlapped>>

\* generate-key: a new pair whatever load made of the file; others stop using the old one.
GenerateKey(p) ==
    /\ step[p] = "loaded" /\ command[p] = "generate-key" /\ keys < MaxKeys
    /\ keys' = keys + 1
    /\ BeginSave(p, [config[p] EXCEPT !.private = keys + 1, !.public = keys + 1])
    /\ shown' = Default
    /\ UNCHANGED <<command, modified, bounds, overlapped>>

\* The write succeeds, and the command goes on: generate-key prints the public key and
\* ends, and so does configure when it has saved what was configured.
WriteDone(p) ==
    /\ step[p] = "write"
    /\ file' \in Written(config[p], file)
    /\ LET last == command[p] = "generate-key" \/ (command[p] = "configure" /\ ~modified[p])
       IN /\ step' = [step EXCEPT ![p] =
               IF last THEN "end" ELSE IF modified[p] THEN "ready" ELSE "running"]
          /\ command' = [command EXCEPT ![p] = IF last THEN "none" ELSE @]
    /\ modified' = [modified EXCEPT ![p] = FALSE]
    /\ shown' = IF command[p] = "generate-key" THEN config[p].public ELSE shown
    /\ UNCHANGED <<config, keys, bounds, overlapped>>

\* The write fails, or the process is killed in it.
WriteCut(p) ==
    /\ step[p] = "write"
    /\ file' \in {file} \cup CutShort(config[p])
    /\ step' = [step EXCEPT ![p] = "end"]
    /\ command' = [command EXCEPT ![p] = "none"]
    /\ UNCHANGED <<config, modified, keys, bounds, shown, overlapped>>

\* Any other end: Ctrl+C, a signal, an error.
Ends(p) ==
    /\ step[p] \in {"loaded", "ready", "running"}
    /\ step' = [step EXCEPT ![p] = "end"]
    /\ command' = [command EXCEPT ![p] = "none"]
    /\ UNCHANGED <<file, config, modified, keys, bounds, shown, overlapped>>

-----------------------------------------------------------------------------
\* daemon::run: the peers meet this key.
Run(p) ==
    /\ step[p] = "ready" /\ command[p] = "daemon"
    /\ step' = [step EXCEPT ![p] = "running"]
    /\ shown' = config[p].public
    /\ UNCHANGED <<file, command, config, modified, keys, bounds, overlapped>>

\* configure: the host broadcasts its public key while the dialogue goes on ...
Broadcast(p) ==
    /\ step[p] = "ready" /\ command[p] = "configure"
    /\ shown' = config[p].public
    /\ UNCHANGED <<file, command, step, config, modified, keys, bounds, overlapped>>

\* ... and saves the peers and devices that are kept or added at its end (HostDiscovery
\* has the dialogue).
SaveConfigured(p) ==
    /\ step[p] = "ready" /\ command[p] = "configure"
    /\ \E peers \in PeerLists, devices \in DeviceLists :
        /\ \A i \in DOMAIN peers :
            peers[i] \in Peers \cup {config[p].peers[j] : j \in DOMAIN config[p].peers}
        /\ BeginSave(p, [config[p] EXCEPT !.peers = peers, !.devices = devices])
    /\ UNCHANGED <<command, modified, keys, bounds, shown, overlapped>>

\* What detect_scroll_devices has detected; its first save replaces what was configured.
Detected(p) == IF step[p] = "ready" THEN <<>> ELSE config[p].devices

\* Faulty: every scroll event detects its device, the second one too.
SaveDetectedAgain(p) ==
    /\ step[p] \in {"ready", "running"} /\ command[p] = "detect-devices"
    /\ \E name \in Names :
        /\ Len(Detected(p)) < MaxDevices
        /\ BeginSave(p, [config[p] EXCEPT !.devices = Append(Detected(p), name)])
    /\ UNCHANGED <<command, modified, keys, bounds, shown, overlapped>>

\* detect_scroll_devices: every device it detects is saved at once.
SaveDetected(p) ==
    /\ step[p] \in {"ready", "running"} /\ command[p] = "detect-devices"
    /\ \E name \in Names \ {Detected(p)[i] : i \in DOMAIN Detected(p)} :
        /\ Len(Detected(p)) < MaxDevices
        /\ BeginSave(p, [config[p] EXCEPT !.devices = Append(Detected(p), name)])
    /\ UNCHANGED <<command, modified, keys, bounds, shown, overlapped>>

\* The user writes a file without keys, without bind, or one that does not parse; takes
\* one of its keys out; or deletes it.
EditByHand ==
    /\ edits < MaxEdits
    /\ edits' = edits + 1
    /\ \/ file' \in {Absent, Broken, NewConfig, [NewConfig EXCEPT !.bind = FALSE]}
       \/ Loads(file) /\ file' \in {[file EXCEPT !.public = Default], [file EXCEPT !.private = Default]}
    /\ shown' = IF Loads(file') /\ file'.private = shown THEN shown ELSE Default
    /\ overlapped' = (overlapped \/ \E q \in Procs : Pending(q))
    /\ UNCHANGED <<command, step, config, modified, keys, starts>>

-----------------------------------------------------------------------------
Init ==
    /\ file \in {Absent, NewConfig}
    /\ command = [p \in Procs |-> "none"]
    /\ step = [p \in Procs |-> "end"]
    /\ config = [p \in Procs |-> NewConfig]
    /\ modified = [p \in Procs |-> FALSE]
    /\ keys = 0 /\ starts = 0 /\ edits = 0
    /\ shown = Default
    /\ overlapped = FALSE

Process(p) ==
    \/ \E cmd \in Commands : Start(p, cmd)
    \/ SaveModified(p) \/ Begin(p) \/ GenerateKey(p)
    \/ WriteDone(p) \/ WriteCut(p) \/ Ends(p)
    \/ Run(p) \/ Broadcast(p) \/ SaveConfigured(p) \/ SaveDetected(p)

Next == EditByHand \/ \E p \in Procs : Process(p)

Spec == Init /\ [][Next]_vars

-----------------------------------------------------------------------------
TypeOK ==
    /\ file \in Configs \cup {Absent, Empty, Broken}
    /\ command \in [Procs -> Commands \cup {"none"}]
    /\ step \in [Procs -> Steps]
    /\ config \in [Procs -> Configs]
    /\ modified \in [Procs -> BOOLEAN]
    /\ keys \in 0 .. MaxKeys /\ shown \in Keys \cup {Default}
    /\ starts \in 0 .. MaxStarts /\ edits \in 0 .. MaxEdits
    /\ overlapped \in BOOLEAN

\* The keys of c are a pair, or the next load makes them one.
Paired(c) == c.private = Default \/ c.public \in {Default, c.private}

\* Whatever commands overlap and wherever one is cut, a host never runs with, and never
\* finds in its file, a private key and the public key of another one: peers that are
\* given this public key could not decrypt or address anything.
KeysMatch ==
    /\ Loads(file) => Paired(file)
    /\ \A p \in Procs :
        step[p] # "end" => config[p].private # Default /\ config[p].public = config[p].private

\* A public key that was shown to peers (by the daemon, configure or generate-key) is
\* the one of the file for good: whatever ends a command, only generate-key and the user
\* replace it.  Commands that overlap can lose each other's saves, and are left out.
ShownKeyIsKept == ~overlapped /\ Loads(file) /\ shown # Default => file.private = shown

\* No command saves over a file that does not load: what the user mistyped, or what is
\* left of a cut write, stays for the user to repair.
UnreadableIsLeftAlone ==
    [][\A p \in Procs :
        step[p] # "write" /\ step'[p] = "write"
            => overlapped \/ file = Absent \/ Loads(file)]_vars
=============================================================================
