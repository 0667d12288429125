-------------------------- MODULE ConfigFileProofs --------------------------
(***************************************************************************)
(* Theorems about ConfigFile, for any number of processes, peers, devices  *)
(* and edits.                                                              *)
(*   ConfigTypes      the variables keep their types;                      *)
(*   KeysArePairs     keys stay pairs, whatever overlaps and is cut;       *)
(*   ShownKeyKept     a key that was shown is kept, and                    *)
(*   UnreadableKept   what does not load is not overwritten, while         *)
(*                    commands do not overlap.                             *)
(***************************************************************************)
EXTENDS ConfigFile, SequenceTheorems, TLAPS

USE ConfigAssumption

-----------------------------------------------------------------------------
\* Peer lists are the sequences of peers up to the bound.
LEMMA PeerListsAreSequences ==
    ASSUME NEW s
    PROVE  s \in PeerLists <=> s \in Seq(Peers \cup {CutPeer}) /\ Len(s) <= MaxPeers
<1> DEFINE P == Peers \cup {CutPeer}
<1>1. Seq(P) = UNION {[1 .. n -> P] : n \in Nat}
    BY SeqDef
<1>2. ASSUME s \in PeerLists PROVE s \in Seq(P) /\ Len(s) <= MaxPeers
  <2>1. PICK n \in 0 .. MaxPeers : s \in [1 .. n -> P]
    BY <1>2 DEF PeerLists
  <2>2. s \in Seq(P)
    BY <1>1, <2>1
  <2> QED
    BY <2>1, <2>2, LenProperties
<1>3. ASSUME s \in Seq(P), Len(s) <= MaxPeers PROVE s \in PeerLists
  <2>1. s \in [1 .. Len(s) -> P] /\ Len(s) \in 0 .. MaxPeers
    BY <1>3, LenProperties
  <2> QED
    BY <2>1 DEF PeerLists
<1> QED
    BY <1>2, <1>3

\* A configuration with other peers is one, with the same keys and devices.
LEMMA WithPeers ==
    ASSUME NEW c \in Configs, NEW peers \in PeerLists
    PROVE  /\ [c EXCEPT !.peers = peers] \in Configs
           /\ [c EXCEPT !.peers = peers].private = c.private
           /\ [c EXCEPT !.peers = peers].public = c.public
BY DEF Configs

\* What a cut write leaves has the keys of what was to be written.
LEMMA CutShortKeeps ==
    ASSUME NEW c \in Configs, NEW f \in CutShort(c)
    PROVE  \/ f = Broken
           \/ f \in Configs /\ f.private = c.private /\ f.public = c.public
<1> DEFINE P == Peers \cup {CutPeer}
<1>1. c.peers \in Seq(P) /\ Len(c.peers) <= MaxPeers /\ Len(c.peers) \in Nat
    BY PeerListsAreSequences DEF Configs
<1>2. ASSUME NEW n \in 0 .. Len(c.peers)
      PROVE  /\ SubSeq(c.peers, 1, n) \in Seq(P)
             /\ Len(SubSeq(c.peers, 1, n)) = n
    BY <1>1, SubSeqProperties
<1>3. ASSUME NEW n \in 0 .. Len(c.peers)
      PROVE  SubSeq(c.peers, 1, n) \in PeerLists
  <2>1. SubSeq(c.peers, 1, n) \in Seq(P) /\ Len(SubSeq(c.peers, 1, n)) <= MaxPeers
    BY <1>1, <1>2
  <2> QED
    BY <2>1, PeerListsAreSequences, Zenon
<1>4. ASSUME NEW n \in DOMAIN c.peers
      PROVE  Append(SubSeq(c.peers, 1, n - 1), CutPeer) \in PeerLists
  <2>1. n \in 1 .. Len(c.peers) /\ n - 1 \in 0 .. Len(c.peers)
    BY <1>1, LenProperties
  <2>2. /\ SubSeq(c.peers, 1, n - 1) \in Seq(P)
        /\ Len(SubSeq(c.peers, 1, n - 1)) = n - 1
    BY <1>2, <2>1
  <2>3. /\ Append(SubSeq(c.peers, 1, n - 1), CutPeer) \in Seq(P)
        /\ Len(Append(SubSeq(c.peers, 1, n - 1), CutPeer)) = n
    BY <2>1, <2>2
  <2>4. Len(Append(SubSeq(c.peers, 1, n - 1), CutPeer)) <= MaxPeers
    BY <1>1, <2>1, <2>3
  <2> QED
    BY <2>3, <2>4, PeerListsAreSequences, Zenon
<1>5. CASE f = Broken
    BY <1>5
<1>6. ASSUME NEW n \in 0 .. Len(c.peers), f = [c EXCEPT !.peers = SubSeq(c.peers, 1, n)]
      PROVE  f \in Configs /\ f.private = c.private /\ f.public = c.public
    BY <1>3, <1>6, WithPeers
<1>7. ASSUME NEW n \in DOMAIN c.peers,
             f = [c EXCEPT !.peers = Append(SubSeq(c.peers, 1, n - 1), CutPeer)]
      PROVE  f \in Configs /\ f.private = c.private /\ f.public = c.public
    BY <1>4, <1>7, WithPeers
<1> QED
    BY <1>5, <1>6, <1>7 DEF CutShort

\* So has what two writes at a time leave, and a write alone leaves what is written.
LEMMA WrittenKeeps ==
    ASSUME NEW c \in Configs, NEW f \in Configs \cup {Absent, Empty, Broken},
           NEW g \in Written(c, f)
    PROVE  /\ \/ g = Broken
              \/ g \in Configs /\ g.private = c.private /\ g.public = c.public
           /\ f = Empty => g = c
<1> DEFINE P == Peers \cup {CutPeer}
           tails == IF Loads(f) THEN {SubSeq(f.peers, n, Len(f.peers)) : n \in DOMAIN f.peers}
                    ELSE {}
<1>1. c.peers \in Seq(P)
    BY PeerListsAreSequences DEF Configs
<1>2. \A tail \in tails : tail \in Seq(P)
  <2>1. CASE Loads(f)
    <3>1. f.peers \in Seq(P)
      BY <2>1, PeerListsAreSequences DEF Configs, Loads
    <3>2. ASSUME NEW n \in DOMAIN f.peers PROVE SubSeq(f.peers, n, Len(f.peers)) \in Seq(P)
      <4>1. n \in 1 .. Len(f.peers) /\ Len(f.peers) \in Nat
        BY <3>1
      <4> QED
        BY <3>1, <4>1, SubSeqProperties
    <3>3. tails = {SubSeq(f.peers, n, Len(f.peers)) : n \in DOMAIN f.peers}
      BY <2>1
    <3> QED
      BY <3>2, <3>3
  <2>2. CASE ~Loads(f)
    BY <2>2
  <2> QED
    BY <2>1, <2>2
<1>3. ASSUME NEW tail \in tails \cup {<<CutPeer>>}, Len(c.peers \o tail) <= MaxPeers
      PROVE  c.peers \o tail \in PeerLists
  <2>1. tail \in Seq(P)
    <3>1. <<CutPeer>> \in Seq(P)
      OBVIOUS
    <3> QED
      BY <1>2, <3>1
  <2>2. c.peers \o tail \in Seq(P)
    BY <1>1, <2>1
  <2> QED
    BY <1>3, <2>2, PeerListsAreSequences, Zenon
<1>4. ASSUME NEW tail \in tails \cup {<<CutPeer>>}, g = [c EXCEPT !.peers = @ \o tail],
             Len(g.peers) <= MaxPeers
      PROVE  g \in Configs /\ g.private = c.private /\ g.public = c.public
  <2>1. g.peers = c.peers \o tail
    BY <1>4 DEF Configs
  <2>2. g = [c EXCEPT !.peers = c.peers \o tail]
    BY <1>4
  <2>3. c.peers \o tail \in PeerLists
    BY <1>3, <1>4, <2>1
  <2> QED
    BY <2>2, <2>3, WithPeers
<1>5. \/ g = c \/ g = Broken
      \/ \E tail \in tails \cup {<<CutPeer>>} :
            g = [c EXCEPT !.peers = @ \o tail] /\ Len(g.peers) <= MaxPeers
    BY DEF Written
<1>6. f = Empty => g = c
    BY DEF Written
<1> QED
    BY <1>4, <1>5, <1>6

-----------------------------------------------------------------------------
\* Configurations that the program makes of configurations.

LEMMA NewConfigType == NewConfig \in Configs
<1>1. <<>> \in PeerLists
  <2>1. <<>> \in Seq(Peers \cup {CutPeer}) /\ Len(<<>>) <= MaxPeers
    OBVIOUS
  <2> QED
    BY <2>1, PeerListsAreSequences, Zenon
<1>2. <<>> \in DeviceLists
  <2>1. <<>> \in [1 .. 0 -> Names]
    OBVIOUS
  <2> QED
    BY <2>1 DEF DeviceLists
<1> QED
    BY <1>1, <1>2 DEF NewConfig, Configs

\* normalize leaves a pair of keys, and keeps a private key that is there.
LEMMA NormalizedPairs ==
    ASSUME NEW c \in Configs, NEW fresh \in 0 .. MaxKeys,
           c.private = Default => fresh \in Keys, Paired(c)
    PROVE  LET d == Normalized(c, fresh)
           IN /\ d \in Configs /\ d.bind = c.bind
              /\ d.private # Default /\ d.public = d.private
              /\ c.private # Default => d.private = c.private
<1>1. CASE c.private = Default
    BY <1>1 DEF Normalized, Configs, Keys
<1>2. CASE c.private # Default /\ c.public = Default
    BY <1>2 DEF Normalized, Configs, Keys
<1>3. CASE c.private # Default /\ c.public # Default
    BY <1>3 DEF Normalized, Paired
<1> QED
    BY <1>1, <1>2, <1>3

\* set_keypair
LEMMA KeypairType ==
    ASSUME NEW c \in Configs, NEW key \in Keys
    PROVE  LET d == [c EXCEPT !.private = key, !.public = key]
           IN d \in Configs /\ d.private = key /\ d.public = key /\ d.bind = c.bind
BY DEF Configs

\* What detect-devices saves next is a list without repetitions.
LEMMA DetectedType ==
    ASSUME NEW names \in DeviceLists, Len(names) < MaxDevices,
           NEW name \in Names \ {names[i] : i \in DOMAIN names}
    PROVE  Append(names, name) \in DeviceLists
<1>1. PICK n \in 0 .. MaxDevices : names \in [1 .. n -> Names]
    BY DEF DeviceLists
<1>2. names \in Seq(Names) /\ Len(names) = n /\ DOMAIN names = 1 .. n
    BY <1>1, SeqDef, LenProperties
<1>3. /\ Append(names, name) \in [1 .. n + 1 -> Names] /\ n + 1 \in 0 .. MaxDevices
      /\ \A i \in 1 .. n : Append(names, name)[i] = names[i]
      /\ Append(names, name)[n + 1] = name
  <2>1. n \in Nat /\ n < MaxDevices
    BY <1>2
  <2>2. Append(names, name) \in Seq(Names) /\ Len(Append(names, name)) = n + 1
    BY <1>2
  <2>3. Append(names, name) \in [1 .. n + 1 -> Names]
    BY <2>2, LenProperties
  <2> QED
    BY <1>2, <2>1, <2>3
<1>4. \A i, j \in 1 .. n + 1 :
          Append(names, name)[i] = Append(names, name)[j] => i = j
    BY <1>2, <1>3 DEF DeviceLists
<1> QED
    BY <1>3, <1>4 DEF DeviceLists

-----------------------------------------------------------------------------
\* A process that has ended has no command, and one that runs has a configuration that
\* loaded: its bind address is not empty.
Bookkeeping ==
    \A p \in Procs :
        /\ step[p] = "end" => command[p] = "none"
        /\ step[p] # "end" => config[p].bind

\* What load makes of the file.
LEMMA StartLoads ==
    ASSUME TypeOK, KeysMatch, NEW p \in Procs, NEW cmd \in Commands, Start(p, cmd)
    PROVE  /\ config'[p] \in Configs /\ config'[p].bind
           /\ config'[p].private # Default /\ config'[p].public = config'[p].private
           /\ keys' \in 0 .. MaxKeys
           /\ file = Absent \/ Loads(file)
           /\ Loads(file) /\ file.private # Default => config'[p].private = file.private
           /\ ~modified'[p] => Loads(file) /\ config'[p] = file
           /\ modified' \in [Procs -> BOOLEAN]
           /\ config' = [config EXCEPT ![p] = config'[p]]
<1> DEFINE loaded == IF file = Absent THEN NewConfig ELSE file
           fresh == IF loaded.private = Default THEN keys + 1 ELSE keys
           used == Normalized(loaded, fresh)
<1>1. /\ file = Absent \/ Loads(file)
      /\ fresh <= MaxKeys /\ keys' = fresh
      /\ config' = [config EXCEPT ![p] = used]
      /\ modified' = [modified EXCEPT ![p] = file = Absent \/ used # loaded]
    BY DEF Start
<1>2. loaded \in Configs /\ loaded.bind /\ Paired(loaded)
  <2>1. CASE file = Absent
    BY <2>1, NewConfigType DEF NewConfig, Paired
  <2>2. CASE file # Absent
    BY <1>1, <2>2 DEF Loads, TypeOK, KeysMatch
  <2> QED
    BY <2>1, <2>2
<1>3. fresh \in 0 .. MaxKeys /\ (loaded.private = Default => fresh \in Keys)
    BY <1>1 DEF TypeOK, Keys
<1> HIDE DEF loaded, fresh
<1>4. /\ used \in Configs /\ used.bind = loaded.bind
      /\ used.private # Default /\ used.public = used.private
      /\ loaded.private # Default => used.private = loaded.private
    BY <1>2, <1>3, NormalizedPairs
<1> HIDE DEF used
<1>5. config'[p] = used
    BY <1>1 DEF TypeOK
<1>6. modified' \in [Procs -> BOOLEAN] /\ modified'[p] = (file = Absent \/ used # loaded)
    BY <1>1 DEF TypeOK
<1>7. Loads(file) => loaded = file
    BY DEF loaded, Loads
<1> QED
    BY <1>1, <1>2, <1>3, <1>4, <1>5, <1>6, <1>7

\* What configure and detect-devices save has the keys that were loaded.
LEMMA SavesKeepKeys ==
    ASSUME TypeOK, NEW p \in Procs, SaveConfigured(p) \/ SaveDetected(p)
    PROVE  \E c \in Configs :
              /\ BeginSave(p, c)
              /\ c.private = config[p].private /\ c.public = config[p].public
              /\ c.bind = config[p].bind
<1> config[p] \in Configs
    BY DEF TypeOK
<1>1. CASE SaveConfigured(p)
  <2>1. PICK peers \in PeerLists, devices \in DeviceLists :
            BeginSave(p, [config[p] EXCEPT !.peers = peers, !.devices = devices])
    BY <1>1 DEF SaveConfigured
  <2> DEFINE c == [config[p] EXCEPT !.peers = peers, !.devices = devices]
  <2>2. c \in Configs /\ c.private = config[p].private /\ c.public = config[p].public
        /\ c.bind = config[p].bind
    BY DEF Configs
  <2> QED
    BY <2>1, <2>2
<1>2. CASE SaveDetected(p)
  <2> DEFINE names == Detected(p)
  <2>1. names \in DeviceLists
    BY NewConfigType DEF Detected, Configs, NewConfig
  <2>2. PICK name \in Names \ {names[i] : i \in DOMAIN names} :
            /\ Len(names) < MaxDevices
            /\ BeginSave(p, [config[p] EXCEPT !.devices = Append(names, name)])
    BY <1>2 DEF SaveDetected
  <2>3. Append(names, name) \in DeviceLists
    BY <2>1, <2>2, DetectedType
  <2> DEFINE c == [config[p] EXCEPT !.devices = Append(names, name)]
  <2> HIDE DEF names
  <2>4. c \in Configs /\ c.private = config[p].private /\ c.public = config[p].public
        /\ c.bind = config[p].bind
    BY <2>3 DEF Configs
  <2> QED
    BY <2>2, <2>4
<1> QED
    BY <1>1, <1>2

\* One step keeps the types.
LEMMA TypeStep ==
    ASSUME TypeOK, KeysMatch, [Next]_vars
    PROVE  TypeOK'
<1> USE DEF TypeOK, bounds
<1>1. ASSUME NEW p \in Procs, NEW cmd \in Commands, Start(p, cmd) PROVE TypeOK'
  <2>1. /\ config' \in [Procs -> Configs] /\ modified' \in [Procs -> BOOLEAN]
        /\ keys' \in 0 .. MaxKeys
    <3>1. /\ config'[p] \in Configs /\ config' = [config EXCEPT ![p] = config'[p]]
          /\ modified' \in [Procs -> BOOLEAN] /\ keys' \in 0 .. MaxKeys
      BY <1>1, StartLoads
    <3> QED
      BY <3>1
  <2>2. overlapped' \in BOOLEAN
    BY <1>1 DEF Start
  <2>3. starts' \in 0 .. MaxStarts
    BY <1>1 DEF Start
  <2> QED
    BY <1>1, <2>1, <2>2, <2>3 DEF Start, Steps
<1>2. ASSUME NEW p \in Procs, SaveModified(p) PROVE TypeOK'
    BY <1>2 DEF SaveModified, BeginSave, Steps
<1>3. ASSUME NEW p \in Procs, Begin(p) PROVE TypeOK'
    BY <1>3 DEF Begin, Steps
<1>4. ASSUME NEW p \in Procs, GenerateKey(p) PROVE TypeOK'
  <2>1. config[p] \in Configs /\ keys + 1 \in Keys
    BY <1>4 DEF GenerateKey, Keys
  <2>2. [config[p] EXCEPT !.private = keys + 1, !.public = keys + 1] \in Configs
    BY <2>1, KeypairType
  <2> QED
    BY <1>4, <2>1, <2>2 DEF GenerateKey, BeginSave, Steps, Keys
<1>5. ASSUME NEW p \in Procs, WriteDone(p) PROVE TypeOK'
  <2>1. config[p] \in Configs /\ file' \in Written(config[p], file)
    BY <1>5 DEF WriteDone
  <2>2. file' \in Configs \cup {Broken}
    BY <2>1, WrittenKeeps
  <2>3. config[p].public \in Keys \cup {Default}
    BY <2>1 DEF Configs
  <2> QED
    BY <1>5, <2>2, <2>3 DEF WriteDone, Steps
<1>6. ASSUME NEW p \in Procs, WriteCut(p) PROVE TypeOK'
  <2>1. config[p] \in Configs /\ file' \in {file} \cup CutShort(config[p])
    BY <1>6 DEF WriteCut
  <2>2. file' \in Configs \cup {Absent, Empty, Broken}
    BY <2>1, CutShortKeeps
  <2> QED
    BY <1>6, <2>2 DEF WriteCut, Steps
<1>7. ASSUME NEW p \in Procs, Ends(p) PROVE TypeOK'
    BY <1>7 DEF Ends, Steps
<1>8. ASSUME NEW p \in Procs, Run(p) \/ Broadcast(p) PROVE TypeOK'
  <2>1. config[p].public \in Keys \cup {Default}
    BY DEF Configs
  <2> QED
    BY <1>8, <2>1 DEF Run, Broadcast, Steps
<1>9. ASSUME NEW p \in Procs, SaveConfigured(p) \/ SaveDetected(p) PROVE TypeOK'
  <2>1. PICK c \in Configs : BeginSave(p, c)
    BY <1>9, SavesKeepKeys
  <2> QED
    BY <1>9, <2>1 DEF SaveConfigured, SaveDetected, BeginSave, Steps
<1>10. ASSUME EditByHand PROVE TypeOK'
  <2>1. file' \in Configs \cup {Absent, Empty, Broken}
    <3>1. CASE file' \in {Absent, Broken, NewConfig, [NewConfig EXCEPT !.bind = FALSE]}
      <4>1. [NewConfig EXCEPT !.bind = FALSE] \in Configs
        BY NewConfigType DEF Configs
      <4> QED
        BY <3>1, <4>1, NewConfigType
    <3>2. CASE Loads(file) /\ file' \in {[file EXCEPT !.public = Default],
                                          [file EXCEPT !.private = Default]}
      <4>1. file \in Configs
        BY <3>2 DEF Loads
      <4> QED
        BY <3>2, <4>1 DEF Configs
    <3> QED
      BY <1>10, <3>1, <3>2 DEF EditByHand
  <2> QED
    BY <1>10, <2>1 DEF EditByHand
<1>11. CASE UNCHANGED vars
    BY <1>11 DEF vars
<1> QED
    BY <1>1, <1>2, <1>3, <1>4, <1>5, <1>6, <1>7, <1>8, <1>9, <1>10, <1>11
    DEF Next, Process

-----------------------------------------------------------------------------
\* Keys are pairs.

LEMMA KeysStep ==
    ASSUME TypeOK, KeysMatch, Bookkeeping, [Next]_vars
    PROVE  KeysMatch' /\ Bookkeeping'
<1> USE DEF KeysMatch, Bookkeeping, bounds
<1>t. config \in [Procs -> Configs] /\ step \in [Procs -> Steps]
      /\ command \in [Procs -> Commands \cup {"none"}] /\ keys \in 0 .. MaxKeys
      /\ file \in Configs \cup {Absent, Empty, Broken}
    BY DEF TypeOK
<1>s. ~Loads(Empty) /\ ~Loads(Broken)
    BY DEF Loads
<1>1. ASSUME NEW p \in Procs, NEW cmd \in Commands, Start(p, cmd)
      PROVE  KeysMatch' /\ Bookkeeping'
  <2>1. /\ config'[p].bind /\ config'[p].private # Default
        /\ config'[p].public = config'[p].private
        /\ config' = [config EXCEPT ![p] = config'[p]]
    BY <1>1, StartLoads
  <2>2. file' = file /\ step' = [step EXCEPT ![p] = "loaded"]
        /\ command' = [command EXCEPT ![p] = cmd]
    BY <1>1 DEF Start
  <2>3. \A q \in Procs : q # p => config'[q] = config[q] /\ step'[q] = step[q]
                                 /\ command'[q] = command[q]
    BY <2>1, <2>2, <1>t
  <2>4. step'[p] = "loaded"
    BY <2>2, <1>t
  <2> QED
    BY <2>1, <2>2, <2>3, <2>4 DEF Loads
<1>2. ASSUME NEW p \in Procs, NEW c \in Configs, BeginSave(p, c), step[p] # "end",
             c.private # Default, c.public = c.private, c.bind, command' = command
      PROVE  KeysMatch' /\ Bookkeeping'
    BY <1>2, <1>t, <1>s DEF BeginSave
<1>3. ASSUME NEW p \in Procs, SaveModified(p) PROVE KeysMatch' /\ Bookkeeping'
    BY <1>3, <1>2, <1>t DEF SaveModified
<1>4. ASSUME NEW p \in Procs, Begin(p) \/ Run(p) \/ Broadcast(p)
      PROVE  KeysMatch' /\ Bookkeeping'
    BY <1>4, <1>t DEF Begin, Run, Broadcast, Loads
<1>5. ASSUME NEW p \in Procs, GenerateKey(p) PROVE KeysMatch' /\ Bookkeeping'
  <2> DEFINE c == [config[p] EXCEPT !.private = keys + 1, !.public = keys + 1]
  <2>1. keys + 1 \in Keys
    BY <1>5, <1>t DEF GenerateKey, Keys
  <2>2. c \in Configs /\ c.private = keys + 1 /\ c.public = keys + 1
        /\ c.bind = config[p].bind
    BY <1>t, <2>1, KeypairType
  <2>3. keys + 1 # Default
    BY <2>1 DEF Keys
  <2>4. BeginSave(p, c) /\ step[p] = "loaded" /\ command' = command
    BY <1>5 DEF GenerateKey
  <2> HIDE DEF c
  <2> QED
    BY <1>2, <2>2, <2>3, <2>4
<1>6. ASSUME NEW p \in Procs, WriteDone(p) PROVE KeysMatch' /\ Bookkeeping'
  <2>1. config[p] \in Configs /\ file' \in Written(config[p], file)
        /\ config[p].public = config[p].private
    BY <1>6, <1>t DEF WriteDone
  <2>2. file' = Broken \/ file'.public = file'.private
    BY <1>t, <2>1, WrittenKeeps
  <2>3. (Loads(file) => Paired(file))'
    BY <2>2, <1>s DEF Loads, Paired
  <2>4. Bookkeeping'
    BY <1>6, <1>t DEF WriteDone
  <2> QED
    BY <1>6, <1>t, <2>3, <2>4 DEF WriteDone
<1>7. ASSUME NEW p \in Procs, WriteCut(p) PROVE KeysMatch' /\ Bookkeeping'
  <2>1. config[p] \in Configs /\ file' \in {file} \cup CutShort(config[p])
        /\ config[p].public = config[p].private
    BY <1>7, <1>t DEF WriteCut
  <2>2. file' = file \/ file' = Broken \/ file'.public = file'.private
    BY <2>1, CutShortKeeps
  <2>3. (Loads(file) => Paired(file))'
    BY <2>2, <1>s DEF Loads, Paired
  <2> QED
    BY <1>7, <1>t, <2>3 DEF WriteCut
<1>8. ASSUME NEW p \in Procs, Ends(p) PROVE KeysMatch' /\ Bookkeeping'
    BY <1>8, <1>t DEF Ends, Loads
<1>9. ASSUME NEW p \in Procs, SaveConfigured(p) \/ SaveDetected(p)
      PROVE  KeysMatch' /\ Bookkeeping'
  <2>1. PICK c \in Configs :
            /\ BeginSave(p, c)
            /\ c.private = config[p].private /\ c.public = config[p].public
            /\ c.bind = config[p].bind
    BY <1>9, SavesKeepKeys
  <2>2. step[p] # "end" /\ command' = command
    BY <1>9 DEF SaveConfigured, SaveDetected
  <2> QED
    BY <1>2, <2>1, <2>2
<1>10. ASSUME EditByHand PROVE KeysMatch' /\ Bookkeeping'
  <2>1. (Loads(file) => Paired(file))'
    <3>1. CASE file' \in {Absent, Broken}
      BY <3>1 DEF Loads
    <3>2. CASE file' \in {NewConfig, [NewConfig EXCEPT !.bind = FALSE]}
      BY <3>2 DEF NewConfig, Paired
    <3>3. CASE Loads(file) /\ file' \in {[file EXCEPT !.public = Default],
                                          [file EXCEPT !.private = Default]}
      <4>1. file \in Configs
        BY <3>3, <1>t DEF Loads
      <4> QED
        BY <3>3, <4>1 DEF Configs, Paired
    <3> QED
      BY <1>10, <3>1, <3>2, <3>3 DEF EditByHand
  <2> QED
    BY <1>10, <2>1 DEF EditByHand
<1>11. CASE UNCHANGED vars
    BY <1>11 DEF vars, Loads
<1> QED
    BY <1>1, <1>3, <1>4, <1>5, <1>6, <1>7, <1>8, <1>9, <1>10, <1>11
    DEF Next, Process

-----------------------------------------------------------------------------
\* What a command that no other one overlapped knows of the file and of the key that was
\* shown.

Alone == ~overlapped => \A p, q \in Procs : Pending(p) /\ Pending(q) => p = q

InHand ==
    ~overlapped => \A p \in Procs : Pending(p) =>
        /\ shown # Default => config[p].private = shown
        /\ step[p] = "write" => file = Empty
        /\ step[p] # "write" => file = Absent \/ Loads(file)
        /\ step[p] = "ready" \/ (step[p] = "loaded" /\ ~modified[p])
               => Loads(file) /\ file.private = config[p].private

\* A host that has shown a key has a file.
OnFile == ~overlapped /\ shown # Default => file # Absent

SafeInv == Alone /\ InHand /\ OnFile /\ ShownKeyIsKept

LEMMA SafeStep ==
    ASSUME TypeOK, KeysMatch, Bookkeeping, SafeInv, [Next]_vars
    PROVE  SafeInv'
<1> USE DEF SafeInv, Alone, InHand, OnFile, ShownKeyIsKept, Pending, bounds
<1>t. config \in [Procs -> Configs] /\ step \in [Procs -> Steps]
      /\ command \in [Procs -> Commands \cup {"none"}]
      /\ modified \in [Procs -> BOOLEAN]
      /\ file \in Configs \cup {Absent, Empty, Broken} /\ overlapped \in BOOLEAN
    BY DEF TypeOK
<1>s. ~Loads(Empty) /\ ~Loads(Broken) /\ ~Loads(Absent)
    BY DEF Loads
<1>b. \A p \in Procs : step[p] = "end" => command[p] = "none"
    BY DEF Bookkeeping
<1>1. ASSUME NEW p \in Procs, NEW cmd \in Commands, Start(p, cmd), ~overlapped'
      PROVE  SafeInv'
  <2>1. ~overlapped /\ \A q \in Procs : ~Pending(q)
    BY <1>1, <1>t DEF Start
  <2>2. /\ file = Absent \/ Loads(file)
        /\ Loads(file) /\ file.private # Default => config'[p].private = file.private
        /\ ~modified'[p] => Loads(file) /\ config'[p] = file
    BY <1>1, StartLoads
  <2>3. file' = file /\ shown' = shown /\ step' = [step EXCEPT ![p] = "loaded"]
        /\ command' = [command EXCEPT ![p] = cmd]
    BY <1>1 DEF Start
  <2>4. step'[p] = "loaded"
        /\ \A q \in Procs : q # p => step'[q] = step[q] /\ command'[q] = command[q]
    BY <2>3, <1>t
  <2>5. Alone'
    BY <2>1, <2>4
  <2>6. InHand'
    BY <2>1, <2>2, <2>3, <2>4 DEF Loads
  <2> QED
    BY <2>1, <2>3, <2>5, <2>6 DEF Loads
<1>2. ASSUME NEW p \in Procs, NEW c \in Configs, BeginSave(p, c), ~overlapped,
             overlapped' = overlapped, Pending(p), command' = command,
             shown' = Default \/ (shown' = shown /\ c.private = config[p].private)
      PROVE  SafeInv'
  <2>1. file' = Empty /\ step'[p] = "write" /\ config'[p] = c
    BY <1>2, <1>t DEF BeginSave
  <2>2. \A q \in Procs : q # p => step'[q] = step[q] /\ ~Pending(q)
    BY <1>2, <1>t DEF BeginSave
  <2>3. \A q \in Procs : Pending(q)' => q = p
    BY <1>2, <2>2
  <2>4. InHand'
    BY <1>2, <2>1, <2>3
  <2> QED
    BY <1>2, <1>s, <2>1, <2>3, <2>4 DEF Loads
<1>3. ASSUME NEW p \in Procs, SaveModified(p), ~overlapped' PROVE SafeInv'
    BY <1>3, <1>2, <1>t DEF SaveModified
<1>4. ASSUME NEW p \in Procs, Begin(p), ~overlapped' PROVE SafeInv'
    BY <1>4, <1>t DEF Begin, Loads
<1>5. ASSUME NEW p \in Procs, GenerateKey(p), ~overlapped' PROVE SafeInv'
  <2>1. [config[p] EXCEPT !.private = keys + 1, !.public = keys + 1] \in Configs
    <3>1. keys + 1 \in Keys
      BY <1>5 DEF GenerateKey, TypeOK, Keys
    <3> QED
      BY <1>t, <3>1, KeypairType
  <2> QED
    BY <1>5, <1>2, <2>1 DEF GenerateKey
<1>6. ASSUME NEW p \in Procs, WriteDone(p), ~overlapped' PROVE SafeInv'
  <2>1. ~overlapped /\ step[p] = "write" /\ file = Empty
        /\ \A q \in Procs : q # p => ~Pending(q)
    BY <1>6 DEF WriteDone
  <2>2. file' = config[p]
    BY <1>6, <1>t, <2>1, WrittenKeeps DEF WriteDone
  <2>3. Loads(config[p]) /\ config[p].public = config[p].private
    BY <1>t, <2>1 DEF Loads, KeysMatch, Bookkeeping
  <2>4. shown' # Default => config[p].private = shown'
    BY <1>6, <2>1, <2>3 DEF WriteDone
  <2>5. config' = config /\ \A q \in Procs : q # p => ~Pending(q)'
    BY <1>6, <1>t, <2>1 DEF WriteDone
  <2>6. step'[p] # "write"
    BY <1>6, <1>t DEF WriteDone
  <2>7. InHand'
    BY <2>2, <2>3, <2>4, <2>5, <2>6 DEF Loads
  <2> QED
    BY <1>s, <2>2, <2>3, <2>4, <2>5, <2>7 DEF Loads
<1>7. ASSUME NEW p \in Procs, WriteCut(p), ~overlapped' PROVE SafeInv'
  <2>1. ~overlapped /\ step[p] = "write" /\ file = Empty /\ shown' = shown
        /\ \A q \in Procs : q # p => ~Pending(q)
    BY <1>7 DEF WriteCut
  <2>2. file' = Empty \/ file' = Broken \/ (file' \in Configs /\ file'.private = config[p].private)
    BY <1>7, <1>t, <2>1, CutShortKeeps DEF WriteCut
  <2>3. \A q \in Procs : ~Pending(q)'
    BY <1>7, <1>t, <2>1 DEF WriteCut
  <2>4. shown # Default => config[p].private = shown
    BY <2>1
  <2> QED
    BY <1>s, <2>1, <2>2, <2>3, <2>4 DEF Loads
<1>8. ASSUME NEW p \in Procs, Ends(p), ~overlapped' PROVE SafeInv'
    BY <1>8, <1>t DEF Ends, Loads
<1>9. ASSUME NEW p \in Procs, Run(p) \/ Broadcast(p), ~overlapped' PROVE SafeInv'
  <2>1. ~overlapped /\ step[p] = "ready" /\ Loads(file) /\ file.private = config[p].private
        /\ config[p].public = config[p].private /\ shown' = config[p].public
        /\ file' = file /\ config' = config /\ modified' = modified /\ command' = command
        /\ \A q \in Procs : q # p => ~Pending(q)
    BY <1>9, <1>t DEF Run, Broadcast, KeysMatch
  <2>2. \A q \in Procs : q # p => ~Pending(q)'
    BY <1>9, <1>t, <2>1 DEF Run, Broadcast
  <2>3. CASE Run(p)
    <3>1. ~Pending(p)'
      BY <1>t, <2>3 DEF Run
    <3> QED
      BY <1>s, <2>1, <2>2, <3>1 DEF Loads
  <2>4. CASE Broadcast(p)
    <3>1. step' = step
      BY <2>4 DEF Broadcast
    <3>2. InHand'
      BY <2>1, <2>2, <3>1 DEF Loads
    <3> QED
      BY <1>s, <2>1, <2>2, <3>2 DEF Loads
  <2> QED
    BY <1>9, <2>3, <2>4
<1>10. ASSUME NEW p \in Procs, SaveConfigured(p) \/ SaveDetected(p), ~overlapped'
       PROVE  SafeInv'
  <2>1. PICK c \in Configs : BeginSave(p, c) /\ c.private = config[p].private
    BY <1>10, SavesKeepKeys
  <2>2. Pending(p) /\ command' = command /\ shown' = shown /\ overlapped' = overlapped
    BY <1>10 DEF SaveConfigured, SaveDetected
  <2> QED
    BY <1>2, <1>10, <2>1, <2>2
<1>11. ASSUME EditByHand, ~overlapped' PROVE SafeInv'
  <2>1. ~overlapped /\ \A q \in Procs : ~Pending(q)
    BY <1>11, <1>t DEF EditByHand
  <2>2. \A q \in Procs : ~Pending(q)'
    BY <1>11, <2>1 DEF EditByHand
  <2>3. shown' # Default => Loads(file)' /\ file'.private = shown'
    BY <1>11 DEF EditByHand, Loads
  <2> QED
    BY <1>s, <2>2, <2>3 DEF Loads
<1>12. CASE UNCHANGED vars
    BY <1>12 DEF vars, Loads
<1>13. CASE overlapped'
    BY <1>13
<1> QED
    BY <1>1, <1>3, <1>4, <1>5, <1>6, <1>7, <1>8, <1>9, <1>10, <1>11, <1>12, <1>13
    DEF Next, Process

-----------------------------------------------------------------------------
\* Initially no command runs and no key was shown.
LEMMA InitHolds == Init => TypeOK /\ KeysMatch /\ Bookkeeping /\ SafeInv
<1> SUFFICES ASSUME Init PROVE TypeOK /\ KeysMatch /\ Bookkeeping /\ SafeInv
    OBVIOUS
<1>1. TypeOK
  <2>1. /\ file \in Configs \cup {Absent, Empty, Broken} /\ config \in [Procs -> Configs]
    BY NewConfigType DEF Init
  <2>2. /\ command \in [Procs -> Commands \cup {"none"}] /\ step \in [Procs -> Steps]
        /\ modified \in [Procs -> BOOLEAN]
    BY DEF Init, Steps
  <2>3. /\ keys \in 0 .. MaxKeys /\ starts \in 0 .. MaxStarts /\ edits \in 0 .. MaxEdits
    BY DEF Init
  <2>4. shown \in Keys \cup {Default} /\ overlapped \in BOOLEAN
    BY DEF Init
  <2> QED
    BY <2>1, <2>2, <2>3, <2>4 DEF TypeOK
<1>2. KeysMatch /\ Bookkeeping
    BY DEF Init, KeysMatch, Bookkeeping, Loads, Paired, NewConfig
<1>3. SafeInv
    BY DEF Init, SafeInv, Alone, InHand, OnFile, ShownKeyIsKept, Pending
<1> QED
    BY <1>1, <1>2, <1>3

\* Every file and every configuration in memory is a configuration of the program,
\* whatever overlaps and is cut (Config of config/config.rs).
THEOREM ConfigTypes == Spec => []TypeOK
<1>1. TypeOK /\ KeysMatch /\ Bookkeeping /\ [Next]_vars
          => (TypeOK /\ KeysMatch /\ Bookkeeping)'
    BY TypeStep, KeysStep
<1> QED
    BY <1>1, InitHolds, PTL DEF Spec

\* No command, in whatever order with others and wherever it is cut, pairs a private key
\* with the public key of another one (normalize and set_keypair of config/config.rs).
THEOREM KeysArePairs == Spec => []KeysMatch
<1>1. TypeOK /\ KeysMatch /\ Bookkeeping /\ [Next]_vars
          => (TypeOK /\ KeysMatch /\ Bookkeeping)'
    BY TypeStep, KeysStep
<1> QED
    BY <1>1, InitHolds, PTL DEF Spec

\* A public key that peers were shown stays that of the file: main saves what load
\* changed before the command begins (main.rs:66-94).
THEOREM ShownKeyKept == Spec => []ShownKeyIsKept
<1>1. TypeOK /\ KeysMatch /\ Bookkeeping /\ SafeInv /\ [Next]_vars
          => (TypeOK /\ KeysMatch /\ Bookkeeping /\ SafeInv)'
    BY TypeStep, KeysStep, SafeStep
<1>2. SafeInv => ShownKeyIsKept
    BY DEF SafeInv
<1> QED
    BY <1>1, <1>2, InitHolds, PTL DEF Spec

\* A save begins only when the file has loaded, or when there is none.
LEMMA SaveFollowsLoad ==
    ASSUME TypeOK, KeysMatch, SafeInv, [Next]_vars,
           NEW p \in Procs, step[p] # "write", step'[p] = "write"
    PROVE  overlapped \/ file = Absent \/ Loads(file)
<1>t. step \in [Procs -> Steps]
    BY DEF TypeOK
<1>1. Pending(p)
  <2>1. \/ SaveModified(p) \/ GenerateKey(p) \/ SaveConfigured(p) \/ SaveDetected(p)
    <3>1. ASSUME NEW q \in Procs, NEW cmd \in Commands, Start(q, cmd) PROVE FALSE
      BY <3>1, <1>t DEF Start
    <3>2. ASSUME NEW q \in Procs,
                 Begin(q) \/ WriteDone(q) \/ WriteCut(q) \/ Ends(q) \/ Run(q) \/ Broadcast(q)
          PROVE  FALSE
      BY <3>2, <1>t DEF Begin, WriteDone, WriteCut, Ends, Run, Broadcast
    <3>3. ASSUME NEW q \in Procs, q # p,
                 SaveModified(q) \/ GenerateKey(q) \/ SaveConfigured(q) \/ SaveDetected(q)
          PROVE  FALSE
      BY <3>3, <1>t
      DEF SaveModified, GenerateKey, SaveConfigured, SaveDetected, BeginSave
    <3>4. ~EditByHand /\ ~UNCHANGED vars
      BY DEF EditByHand, vars
    <3> QED
      BY <3>1, <3>2, <3>3, <3>4 DEF Next, Process
  <2> QED
    BY <2>1 DEF SaveModified, GenerateKey, SaveConfigured, SaveDetected, Pending
<1> QED
    BY <1>1 DEF SafeInv, InHand, TypeOK

\* No command writes over a file that it could not load (load_or_create begins anew only
\* when there is no file).
THEOREM UnreadableKept == Spec => UnreadableIsLeftAlone
<1>1. TypeOK /\ KeysMatch /\ Bookkeeping /\ SafeInv /\ [Next]_vars
          => (TypeOK /\ KeysMatch /\ Bookkeeping /\ SafeInv)'
    BY TypeStep, KeysStep, SafeStep
<1>2. TypeOK /\ KeysMatch /\ SafeInv /\ [Next]_vars
          => [\A p \in Procs :
                 step[p] # "write" /\ step'[p] = "write"
                     => overlapped \/ file = Absent \/ Loads(file)]_vars
    BY SaveFollowsLoad
<1> QED
    BY <1>1, <1>2, InitHolds, PTL DEF Spec, UnreadableIsLeftAlone
=============================================================================
