# synq in TLA+

synq shares clipboards between machines and scroll events between a host and its QEMU
guests. This directory models the parts of it in which several machines, tasks and
threads have to agree: who receives the scroll, how a scroll event gets there, and how a
clipboard travels without coming back; the threads of a guest that share two times; the
two places where input from several sides meets a table, the device monitor and the
discovery of hosts; and the one file that all commands load and save. TLC checks the
models on small instances; TLAPS proves the safety properties for any number of machines,
devices and processes and for any bounds.

Paths below are relative to `src/src/` of the repository.

## The system

A daemon runs on every machine, on a tokio runtime with one thread (`main.rs:42`), plus
blocking threads for devices and the clipboard. Between two `await`s a task is therefore
atomic with respect to the other tasks, not with respect to the threads. One machine is
the *scroll source* (the host with the touchpad, `server.scroll_source`), others are
*scroll destinations* (the guests). Clipboard sharing has sources and destinations too,
and a machine may be both.

| component | state it keeps | operations | talks to |
|---|---|---|---|
| ActiveState (`transport/active.rs`) | active_peer, clock, host_active, last_scroll, last_blur | set_active, increment_and_set, reset | shared by handler task, server, router, blockers, sender |
| ActiveTransport (`transport/active.rs`) | a channel of 32 requests | run_active_handler: take an event, skip or ask the source, store the answer | the source's server (ActivateRequest) |
| TransportServer (`transport/server.rs`) | the ActiveState, the inject channel, last_set_clipboard | scroll, clipboard, activate_request, active_state | called by the peers; spawns one notification per destination |
| ScrollTransport (`transport/scroll.rs`) | a main channel, a channel and a connection task per peer, the peer's status | route, connect, stream, reconnect | the destinations' servers (Scroll) |
| scroll blocker (`scroll/blocker.rs`) | last_scroll | keeps the guest's own scroll events from it, asks for the scroll | the request channel |
| scroll sender (`scroll/sender.rs`) | last_blur | injects events, gives the scroll back when its guest sees no scroll | the request channel, uinput |
| scroll receiver, monitor (`scroll/receiver.rs`, `daemon/monitor.rs`) | libinput, table of receivers by device name | read events, start and stop receivers | the main channel |
| clipboard source, watcher (`daemon/clipboard.rs`, `clipboard/`) | a channel of changes | notice a change, debounce, read, queue for each peer | the sender's channel (16) |
| ClipboardTransport (`transport/clipboard.rs`) | that channel | one call after the other | the peers' servers (Clipboard) |
| discovery and dialogue (`broadcast/`, `configure/`) | hosts seen, peers | exchange keys over UDP, merge hosts | the configuration |
| configuration (`config/`, `main.rs`) | one file, a Config per command | load, normalize, validate, save | the file that all of the above start from |

What is hard here: the answer to a request and the notifications of other grants travel on
connections of their own, in any order; notifications are sent once; requests fail after
they were executed; a source that restarts numbers its grants from 1 again; queued
requests are executed when their reason is gone; a stream's call lives in a task that
outlives its use; a receiver waits in a poll when it is cancelled; a typed line answers
whatever question is open when it is read; all channels are bounded and drop or block; a
set clipboard looks like a copied one; a blocker's thread stores a time that the sender's
thread subtracts; commands overwrite one file without a lock, and a write may be cut.
`PROJECT.json` lists these as hazards at their lines.

What makes each component correct:

- *active state*: a clock names one grant; the holder knows, and the others are told;
  nobody holds the scroll without permission; nobody goes back to an older grant; the
  scroll follows the user.
- *scroll pipeline*: nothing twice on one connection, in order, the connection always
  comes back, the channels drain, the status does not lie.
- *clipboard*: setting what is received starts no sending, copying dies down, contents do
  not go back, the last copy is never lost on its way and arrives.
- *devices*: the monitor can stop every receiver it started and follows what comes and
  goes, an event is not sent twice by two receivers that both count, a device that stays is
  read.
- *discovery*: no machine is its own peer, peers are distinct, nobody is asked about twice,
  every announcement is dealt with in the end, the merge leaves no old entry of a new host.
- *guest's threads*: the guest in use keeps the scroll, the one that was left gives it back
  within a time; clicks and units of a frame say the same.
- *configuration*: keys stay pairs, a key that others were shown is not lost, and nothing
  is written over a file that does not load.

## Modules

| module | models | how |
|---|---|---|
| `ActiveTransport` | ActiveState, ActiveTransport, `activate_request`, `active_state`, resets | the core; see below |
| `GrantLog` | the promise of the above, without messages | abstract specification |
| `ActiveTransportHistory` | ActiveTransport with the set of grants made | refinement of GrantLog |
| `ScrollFocus` | ActiveTransport with blockers, senders and the user's focus | composition, liveness |
| `ScrollTransport` | router, connection tasks, calls, `scroll` handler, inject channel | one pipeline per config entry, one server per key |
| `ClipboardSync` | watcher, source, sender task, `handle_clipboard_event`, set threads | machines as peers |
| `GuestInput` | the guest's blockers, sender and request handler on a clock | times, two threads, the source as a flag |
| `ScrollFrame` | the numbers `ScrollSender::send` writes | pure operators |
| `DeviceMonitor` | monitor, its table, receiver threads, the kernel's queues | devices, one monitor, numbered threads |
| `HostDiscovery` | announcements, stdin and the dialogue of `synq configure` | one dialogue, other machines as announcers |
| `ConfigFile` | the configuration file and the commands of `main.rs` | processes on one file |
| `ActiveTransportProofs`, `ActiveTransportRefinementProofs` | theorems about the protocol, the grant log and ScrollFocus | TLAPS |
| `ScrollTransportProofs`, `ClipboardSyncProofs`, `GuestInputProofs`, `DeviceMonitorProofs`, `HostDiscoveryProofs`, `ConfigFileProofs` | theorems about the module of that name | TLAPS |
| `MC*` and `*.cfg` | instances | TLC |

Definitions whose comment begins with "Faulty" are variants of the definition after
them. No specification uses them; each shows which mistake its property would catch.

### ActiveTransport

`source` is the source's ActiveState, `active[d]` that of destination `d`, both as
records `[peer, clock, epoch]`. `epoch` counts the starts of the source, is read by no
guard and only serves to state properties. A blocker's or sender's `try_send` is
`Offer`; `run_active_handler` is `TakeRequest` (with `Skipped` for its `continue`s), the
awaited call and `ReceiveAnswer`; the source's part is `HandleActivateRequest` or
`RejectActivateRequest`. `notices` are the `send_active_state` tasks, `HandleActiveState`
their handler. Since each such task sends once, a set of notices without order is all
there is between machines. The faults are actions of their own, enabled by `Faults`:
lost notices, requests that fail before, after or without being executed (`stray` holds
those that may still execute), and restarts. Each of the two permission checks of
`activate_request` is `d \in ScrollDestinations`; requests of machines that are not
peers at all are treated like those of peers without permission, since the
code answers both with `permission_denied`.

### ScrollFocus

The blocker of the guest that has the focus sees every event (`BlockScroll`,
`PassOther`), records scroll events and asks when it is not active. `Inject` is
`ScrollSender::send` with its three outcomes. Times are the ages that the code compares
(`SCROLL_TTL`, `BLUR_TTL`): zero, recent or old. The pipeline is one slot per guest; the
properties only depend on events that keep coming.

### GuestInput and ScrollFrame

ScrollFocus has the blocker and the sender with the protocol in full and times as ages;
GuestInput has them alone, with the clock. A blocker is `Grab`, `ReadEvent`, `StoreScroll`
and `Ask`: the time is read in the second and stored in the third, so that another thread
may act in between. The sender is `TakeRouted` (which reads the clock), `TestScroll`,
`TestBlur` or `GiveBack`, and `Replay`. `Minus` is the `u64` subtraction of a release
build (`Cargo.toml:33`). The user scrolls at least every `Pause`; an own event waits for
its blocker for at most `OwnLag`, a routed one for the sender for at most `RoutedLag`. A
blocker that fails releases its device, which then reports to the guest directly. Of the
protocol there is the guest's end: `TakeRequest` is `run_active_handler` up to the call it
awaits, when `host_active` is still what it was and blockers go on asking. `handler` is
that call; the source executes it (`Execute`) at any time, may decide otherwise before or
after (`OthersDecide`: `granted` is whether it routes here), and the call returns
(`AnswerRequest`) or fails, executed or not (`RequestFails`): then the request is gone and
`host_active` stays, the failed `deactivate` of an active guest included. `TakenAway` is
the notification. `ScrollFrame` is the conversion: degrees to units to clicks, truncating
and saturating as Rust's casts do, and the events of one frame.

### ScrollTransport

A peer `p` is an entry of the config, with its channel and its connection task; `keyOf[p]`
is its key, which stands for the machine. Nothing keeps a config from listing a key twice
(`config/config.rs:218`, and `synq configure` can write one), and `Route` serves every
entry of the active key, as the code does (`transport/scroll.rs:95`): that machine gets
each event once per entry. `AtMostOnce` allows these copies and no other (`Twins`).
Streams are numbered per entry; `call[p][s]` is the state of the task that runs a
stream's call, `outbox` its channel, `wire` what the destination may still read of it.
The `select` of `run_peer_connection` is `Take` or `NoticeEnd`, both enabled when the
call has ended, as in the code. `Resume` is the `send` that waits for room outside of
the `select`.

### ClipboardSync

Contents are numbered in copying order. `Change` is the watch loop with its timestamp
filter, `TakeChange` and `ReadClipboard` are the two halves of `run_clipboard_source`
around its `await`, `StartCall`, `HandleClipboardEvent` and `EndCall` a call of the
sender task, `RunSet` a thread of `set_clipboard`. A call that failed at its sender before
it was handled may still be: its content stays in `late`, and `HandleLateEvent` handles it
(`Late`). `ReadsFollowCopies` counts the reads and says nothing of what they find: a read
that is past the debounce when a received content is set sends that content on (a hazard
in `PROJECT.json`).

### DeviceMonitor

Devices are the paths `/dev/input/event*`; several may have one name. `news` is what
libinput tells the monitor, `table` the HashMap by name, `receivers` all threads ever
started. A receiver opens its path (`Open`), looks at its cancellation (`Check`) and is
then in `poll` until the device says something (`Read`). `read_event` dispatches what the
kernel has (`kernel`) behind what libinput has queued (`queued`) and returns the first
scroll event. `plug` tells one plugging-in of a device from the next, so that a file
descriptor of the former one gets nothing of the latter. `Gone` is what wakes up a
receiver when its device goes.

### HostDiscovery

`at` is where the dialogue is: `Top`, `Drain` and `Wait` are the round of
`add_hosts_loop`, each `Ask...` is a call of `prompt.line`, whose check of the flag and
wait for a line are `LookUp` and the `Answer...`. `WithPort` is `ensure_port`, which an
entered line goes through before it is looked up. `lines` and `discovered` are the two mpsc
channels, filled by the environment at any time. A machine stands for its public key. One
question stands for the two to four of `prompt_peer_settings`. What `add_hosts_loop` keeps
in local variables is cleared when it returns.

### ConfigFile

A process runs one command: `Start` is its `load` or `load_or_create` with `normalize`,
`SaveModified` and `Begin` what `main` does before the command, the rest the commands
themselves. A save is two steps: `BeginSave` opens the file, which truncates it, and
`WriteDone` or `WriteCut` is the write. `CutShort` is what half a write may parse as: the
peers are last in the file, so the keys are there or nothing parses. `Written` is what two
writes at a time may leave. A key pair is a number. `EditByHand` is the user with an
editor; a private key that the user replaces beside the public key of another one is left
out: `normalize` (`config/config.rs:205`) only looks at keys that are missing, so nothing
in the program would notice. `detect-devices` replaces the configured devices with the
first one it detects (`scroll/device.rs:304`), which `Detected` has as it is.

## Runs

| run | question | instance | result |
|---|---|---|---|
| `active_source` | do grants stay unique when source and destinations restart? | 2 destinations, one that is listed; 2 starts, 3 grants each, 2 stray requests | holds |
| `active_stale` | is an older state ignored, as the log says? | 2 destinations, no fault | **violated**: finding |
| `active_history` | is GrantLog implemented, when destinations restart and requests execute late? who may hold? | 2 listed destinations and one that is not; 3 grants, 1 stray request | holds |
| `focus` | does the scroll follow the focus and come back, and is everybody told who has it? | 2 guests, 2 moves, channel of 2 | holds |
| `guest_input` | does the guest in use keep the scroll, and the one that was left give it back in time? do clicks and units agree? | 1 device that may fail, channel of 2, failing calls; 2 moves, 10 ticks; 17 deltas per axis | holds |
| `scroll_pipeline` | does each connection scroll an event once, in order, and does the pipeline recover and drain? | 2 entries, of two keys or of one; channels of 1, 2 events, 2 streams | holds |
| `clipboard_echo` | does a set lead to a read, and may copying go on for ever? | 2 machines and users, 3 copies, channel of 1, failures, calls handled late | no |
| `clipboard_user` | is the last copy on its way until it has arrived, and is no older one after it? | 3 machines, 1 user, 3 copies | holds |
| `device_monitor` | can the monitor stop what it started, has it followed what came and went, and is what stays read? | 3 devices, two of one name, one of them failing; 2 pluggings-in, 2 events | holds |
| `device_path` | is a device read that is configured by its path? | 2 devices | **violated**: finding |
| `host_discovery` | are peers distinct and is every announcement dealt with? | 1 other machine with 2 addresses and an old entry; 4 lines to type | holds |
| `config_file` | do keys and files survive overlapping and cut commands? | 2 processes, 3 commands, 3 key pairs, 1 edit | holds |

### Bounds

- `MaxClock`, `MaxStarts`: grants and starts of the source. Every race of the protocol is
  between the answer to one grant and the notices of one or two others, so three grants,
  by two destinations, show every order; two starts show clocks of two
  processes meeting. In `focus`, MaxClock is 16 and never reached (no state has a clock
  above 10): there it takes nothing away from the liveness properties.
- `QueueCap`: 1 or 2 instead of 32. One request in the handler and one behind it are
  enough for a request whose reason is gone; a smaller channel fills sooner.
- `MaxStray`: requests given up and not executed yet; one, behind which grants change.
- `MaxMoves`: moves of the focus. Two moves are guest to guest and guest to host. In
  `guest_input` also what others ask of the source; there the user may begin anywhere.
- `MaxPlugs`: two, so that a device is plugged in again before the monitor has handled its
  removal, or two of one name are there together. `MaxEvents` 2: one event may be sent
  twice, two show a receiver that goes on sending.
- `MaxAhead`, `MaxQueued`: one line and one datagram wait. A line may be typed before the
  question it then answers, which is what a longer channel would show again. `Entries` are
  an own address, a second address of the other machine, its key (also an address that
  leads nowhere, with a port) and a no, or an address that leads nowhere when it answers
  the prompt for addresses. With every key valid, detected hosts with an invalid one are
  left out of the instance; an entered key may be invalid.
- `MaxEvents`, `MaxStreams`, `Capacity`: two events, one more than a channel holds, so that
  it overflows, and two streams per entry, one to break and one to replace it. The last
  stream does not break, which is how "streams stop breaking" is said in a finite model.
  `SomeConfigs` are two machines and one that is listed twice.
- `MaxTime`, `SCROLL_TTL`, `BLUR_TTL`, `Pause` and the lags of `guest_input`: one tick
  stands for some 50 ms of the code, so that both TTLs are a few ticks and the clock
  passes the longest time a release may take (`ReleaseTime` is 8). The times that the
  properties state are tight: TLC finds counterexamples when one is made smaller by one.
  With one device all of this happens, and the channel of 2 is filled by its blocker while
  a call is awaited; the theorems are for any devices and capacity. Violations are found
  when their assumptions are dropped: `KeepsTheScroll` with `Prompt = FALSE` (the
  subtraction wraps) and with `Pause + OwnLag` above `SCROLL_TTL` (a mark of long ago).
  `SomeDeltas` are the values around one unit, one click and two, and around saturation
  with an integer of 1900.
- `MaxStarts` of `config_file`: three commands, so that one runs after two have
  overlapped; `MaxKeys` gives each of them a pair. `MaxPeers` and `MaxDevices` 2: a list
  that is cut has a rest.
- `Late` is TRUE in `clipboard_echo`. In `clipboard_user` nothing fails, so that no call
  is handled late.
- `MaxCopies`, `SendCap`: three copies; `SendCap` 1 overflows in `clipboard_echo`, and 6
  in `clipboard_user` has room for every send.

### What the violations show

- `active_stale`: `active_state` ignores what is not newer, and says so in its log
  (`transport/server.rs:188`). `run_active_handler` stores every answer
  (`transport/active.rs:184`, `:216`). d1 asks, the source grants clock 1, d2 asks and
  gets clock 2, d1 hears of clock 2, and then d1's answer puts it back to clock 1.
  What comes of it shows `ScrollFocus` with `Overtaking = TRUE`, where TLC finds
  `ScrollFollowsFocus` violated: with the focus on a guest for good, the guest believes
  that it is active and does not ask, the source routes elsewhere, and nothing ever
  corrects it, since notices are not repeated. The run `focus` therefore says
  `Overtaking = FALSE`.
- `device_path`: the README has devices matched by `name` or by `path`
  (`src/README.md:97`), and the monitor of a source only compares names
  (`daemon/monitor.rs:63`). A device configured by its path is never read.

Further variants are not runs, since they only change an assumption: with `SetsInOrder =
FALSE`, `NewestWins` fails (two set threads swap), as it does with failing calls that are
handled late (`Late`, `Failures`); with `Prompt = FALSE`, `ReadsFollowCopies` fails (a set
that takes longer than CLIPBOARD_TTL is echoed); with `SendCap = 4` and four copies,
`LastCopyArrives` and `LastCopyIsUnderWay` fail (the last send is dropped); those of
`guest_input` are under Bounds. A guest that is activated by motion or a button
(`scroll/blocker.rs:91`) has `last_scroll` 0 and is never found blurred
(`scroll/sender.rs:134`): `HostFocusReleases` and `ReleasesInTime`, which hold, leave this
guest out.

### Fairness

`ScrollFocus`: tasks, threads and calls make progress (`Handler`, `Notified`, `Inject`),
time passes, and the user goes on scrolling: at the guest that has the focus
(`BlockScroll`) and on the touchpad (`RouteScroll`). Weak fairness is enough. Moves of
the focus and other events are never forced. `Faults = {}` there: with lost notices, a
guest that does not hear that it lost the scroll never asks again, which is the design's
own limit.

`ScrollTransport`: weak fairness of every task and of the bytes; strong fairness of
`ConnectOk`, since the task tries again and again and the destination is reachable again
and again. Nothing obliges a stream to break or an event to come.

`DeviceMonitor`: the monitor and the receivers run. A receiver in `poll` does not run until
its device says something, which nothing forces. `HostDiscovery`: the dialogue runs, and of
the announcements that a machine repeats every second some arrive (strong fairness, since
the channel may be full). The user owes nothing: `AnnouncedIsDealtWith` only supposes that
the dialogue comes back to its rounds.

`ClipboardSync`: threads run, calls end, time passes. No user has to copy.

`GuestInput` and `ConfigFile` state no liveness: the former says within which time
something happens, and commands on a file owe nothing. The clock of `GuestInput` waits for
those who have to act: with `Prompt`, threads are between two events and no request is left
in the channel when the handler awaits no call. It does not wait for a call.

## Proofs

Liveness, and everything that needs ENABLED, is left to TLC. Each theorem holds for every
value of the constants, from the named assumptions of its module alone; further
assumptions are part of its statement. Every safety property that a run checks, invariant
or action property, is a theorem. `GrantedInFlight`, `FocusImplementsProtocol`,
`DistinctKeysScrollOnce` and those on the numbers of a frame are about no property of a
run.

The protocol (`ActiveTransportProofs`, `ActiveTransportRefinementProofs`), for every set
of destinations, configuration, capacity and bound:

- `TypeCorrect`: `Spec => []TypeOK`.
- `GrantsAreUnique`: `Spec => [](SourceIsLatest /\ GrantsAgree)`, under every fault.
  `GrantsAgree` alone is not inductive: a new grant with the next clock must not meet a
  copy that has it already. The invariant `UniqueInv` adds `SourceIsLatest` (no copy is
  ahead of the source); a new grant is then ahead of every copy, and a new epoch of all
  epochs.
- `OnlyListed`: `Spec => []OnlyListedHold`, under every fault. The permission check is made
  when a request executes, the check for a source when it is taken from the queue: the
  invariant `ListedInv` adds that whoever is being answered, or left a request behind,
  passed the latter (`OnlyConnectedAsk`).
- `HolderAware`: `Faults \subseteq {"lose"}` implies `Spec => []HolderIsAware`. The
  inductive invariant `HolderInv` adds what the argument needs: notices never name their
  receiver, and nothing in flight is newer than the source. A notice that is not newer
  than the holder's grant is ignored, and no newer one exists as long as it is the
  source's.
- `Implements`, `GrantedInFlight`: the history specification implements `GrantLog`,
  step by step, whatever fails. Every step that changes a destination's state is `Adopt`
  (a notice: newer; an answer: about the destination itself or the source) or `Forget`.
- `FocusImplementsProtocol`, `FocusKeepsGrants`: each step of the composition is a step
  of the protocol or leaves it alone, so the results above hold for it.
- `EveryoneTold`: with no restart of the source and with `Overtaking = FALSE`, `FocusSpec
  => []EveryoneIsTold`. Since an answer is adopted without a look at the clock, it may put
  its destination back: `AnsweredIsTold` says that then the notification of the latest
  grant is still to come. `ToldInv` adds that all grants are of one start (`OneEpoch`,
  `NoResets`) and with `UniqueInv` that the latest is newer than what a destination holds,
  so that the notification is adopted (`LatestIsAdopted`). The second assumption is
  necessary: the violation behind `active_stale` is the counterexample without it.

The scroll path (`ScrollTransportProofs`), however calls end and destinations restart:

- `PipelineTypes`: types, and every channel keeps its capacity.
- `ConnectedTells`: `ConnectedHasStream` is inductive with the types: every action that
  takes the stream away from a connection also takes the word CONNECTED away.
- `StreamsInOrder`, `ScrolledOnce`: an event goes through seven places in one order. The
  invariant `Order` says that each channel is sorted, that on each way (a peer and a
  stream) what is further along is older (`AllOlder`), that all of it has been read
  (`AllRead`), and that no event is on the ways to two keys (`KeysApart`) or, once it
  left the peer's channel, on two streams (`StreamsApart`). Neither property is inductive
  alone: that a channel's head may move on follows from what is known of the places
  behind it. Each action is one of three kinds of steps (`Moves`, `Passes`, `Loses`).
- `DistinctKeysScrollOnce`: where no config lists a key twice, every event is scrolled once
  at most, on one machine. It is what is left of `AtMostOnce` without `Twins`.

The clipboard (`ClipboardSyncProofs`), the first three whatever fails:

- `ClipboardTypes`: types, and the sender's channel keeps its capacity.
- `OnlyCopiesAreRead`: `Prompt` implies `Spec => []ReadsFollowCopies`. The invariant
  `Accounts` counts: the reads, the read under way and the user's changes that wait are
  together at most the user's copies (`Counted`), and as long as a set or its change waits,
  the debounce holds (`Debounced`). The theorem bounds the reads; it does not say that what
  is read was copied here.
- `NeverBack`: `Prompt`, `SetsInOrder`, `OneUser` (one user, whose machine does not send
  to itself) and `~Late` (a call that failed is not handled later) imply `Spec =>
  NewestWins`. By `Accounts` nobody else reads a clipboard, so contents go one way; `Flow`
  says that along it, from the other clipboards and the sets that wait for them back to
  the call, the channel and the user's clipboard, they are in the order of copying.
  Failures only take contents out of the way.
- `LastCopyKept`: if moreover no step fails, the daemons have run for CLIPBOARD_TTL and
  `Room` (the channel holds a send per copy and destination), then
  `Spec => []LastCopyIsUnderWay`. The invariant `OnTheWay` adds that the user's machine is
  never debounced, that what waits for its call is unanswered, and that the
  channel has been filled by the reads alone (`Filled`), which `Accounts` bounds by the
  copies: so a read finds room for every destination (`RoomToRead`, `ReadReaches`). A set
  that runs before the last one leaves that one behind it, or by `Flow` is not older
  than what it replaces (`SetKeeps`).

The device monitor (`DeviceMonitorProofs`), for any devices and names:

- `MonitorTypes`, `MonitorCanStop`: the types rest on the order of the events that a
  receiver has still to send (`Buffers`); with them `TableHasReceivers` is inductive.
- `TwiceOnlyLate`: an event is with receivers of one device only (`EventsInv`), so with one
  at most that is not cancelled; once that one has sent it, only cancelled receivers still
  have it, and a cancelled receiver is done after one read (`SentInv`).
- `NamedDevicesFollowed`: `Spec => []NamedDeviceHasReceiver`. The news of a device that
  wait alternate between added and removed (`Alternating`), the last ones say where the
  device is (`LastTells`) and the first ones begin where the table is (`FirstTells`), so
  that with none left the table is right (`NoneTells`). The receiver in the table was not
  cancelled, and after the last news it reads the device as it is plugged in now
  (`InTable`, `Fresh`). Of devices that share a name none of this holds: the second one
  gets no receiver.

Discovery (`HostDiscoveryProofs`):

- `DiscoveryTypes`, `OwnKeyLeftOut`, `DistinctPeers`, `MergeIsClean`: the invariant says
  what each question knows of its subject (`Asking`: the addresses and keys of all
  peers were seen, those of the subject of `Fetch` were not) and how the lists of the merge
  differ (`Merged`).
- `NobodyAskedTwice`: `Spec => AskedOnce`. Whoever was asked about was seen (`AskedSeen`),
  and only an announcement opens that question (`OnlyDrainAsks`).

The configuration file (`ConfigFileProofs`), for any number of processes:

- `ConfigTypes`, `KeysArePairs`: with `Bookkeeping` (a process that runs has a configuration
  that loaded), whatever overlaps.
- `ShownKeyKept`, `UnreadableKept`: while commands do not overlap, one process at most has
  the file in hand (`Alone`), and what it knows of file and key is true (`InHand`,
  `OnFile`).

Blockers and sender on the clock (`GuestInputProofs`), for any devices, TTLs and lags;
the second and third with `Prompt`:

- `GuestTypes`: types, and the request channel keeps its capacity.
- `ReleaseInTime`: `Spec => []ReleasesInTime`. `Punctual` says that nothing waits for
  longer than its lag, and that no event or stamp of a guest that was left is later than
  its leaving allows; so no time wraps (`MinusIsExact`) and from `Silent` on the sender
  finds the guest `Unused`. After any moment a routed event reaches it within `Pause` and
  `RoutedLag` (`Awaits`, `AwaitsEnds`): the first one after `Silent` marks the blur
  (`Marked`), the first one after `OverBy` finds the grace over and asks (`Ending`). The
  channel may be full of the blockers' requests when the call that makes the guest active
  returns, or when a call fails; but an active guest's blockers ask for nothing more, and
  by the end of the millisecond the handler has skipped what they asked for (`HasRoom`),
  long before the sender's own request can follow. From then on the request waits, or its
  call is awaited (`Requested`): a call has no timeout, and while it is awaited nothing
  else is executed. If the call fails, the mark of `last_blur` stands, and the next routed
  event asks again (the last disjunct of the property).
- `UsedGuestKeeps`: `Spec => KeepsTheScroll`. At any time `t` since which the guest is in
  use, an own scroll after `t` is stamped, in a blocker's hand, in its queue, or due
  (`Stamped`); `Pause` and `OwnLag` later only the first is left, so the sender does
  not find the guest `Unused` (`UsedIsNotUnused`).
- `ClicksAgree`, `ScrollingBackUndoes`: the numbers of a frame, for every integer.
- `FramesAgree`, `WrittenFramesAgree`: `Spec => []FrameIsConsistent`, for all deltas and not
  only `SomeDeltas`. Each of the conditional pushes of `send` keeps that the frame
  `Carries` the numbers given to it so far, each under its own code and once; of what the
  whole frame carries, the lemmas on the numbers say the rest.

Only model-checked: the liveness properties (`ScrollFollowsFocus`, `HostFocusReleases`,
`Reconnects`, `Drains`, `Quiesces`, `LastCopyArrives`, `NamedDeviceIsRead`,
`AnnouncedIsDealtWith`), since fairness and ENABLED are beyond the prover. Of three of
them the safety part is proved: `EveryoneIsTold`, `LastCopyIsUnderWay` and
`NamedDeviceHasReceiver` say at every moment what the liveness property says in the end.

## Not modelled

Shutdown (the process exits half a second later), the runtime and gRPC themselves (a call
answers or fails, a stream is in order), encryption and its cache of keys, device and
uinput set-up, logging, generated code and the parsing of arguments: sequential or pure
I/O. Deliberate abstractions of what is modelled: every module but `ScrollTransport` has
each machine listed once (a second entry would only repeat notifications, which are then
not newer; its clipboard calls are left out); threads read `ActiveState` field by field,
and only `host_active` is read outside of the runtime's thread, so a set is one step;
blockers that end by an error are in `GuestInput` and not in `ScrollFocus`; the direction
in which the status of a peer may be wrong (DISCONNECTED while a newer stream is up,
stored by the old call's task) is known and not a property.

## Plan

1. (done) The models above, with type correctness and the safety properties of
   `ActiveTransport`, `ScrollTransport`, `ClipboardSync`, `GuestInput`, `DeviceMonitor`,
   `HostDiscovery` and `ConfigFile` proved.
2. Composition of `ScrollTransport` with the grants of `ActiveTransport`: events routed
   to a guest are those read while it held the scroll. An abstract specification of the
   pipeline (a queue per peer that may lose events), which `Order` is nearly enough to
   refine; and the safety part of `Reconnects` (a connection task that rests has a step that
   wakes it up), as it is there for the other components.
3. Failures that are left out so far: shutdown, a monitor whose poll fails; two dialogues
   side by side, so that both machines end up with each other's key.
