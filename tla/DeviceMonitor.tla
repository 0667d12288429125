---------------------------- MODULE DeviceMonitor ----------------------------
(***************************************************************************)
(* Which devices of the scroll source are read.  The monitor thread gets   *)
(* libinput's news of devices that come and go.  For a device it is        *)
(* configured to capture it starts a receiver thread, which opens the      *)
(* device by its path, later, and reads it until it is cancelled.  The     *)
(* monitor keeps its receivers in a table by the device's name.            *)
(*                                                                         *)
(* A receiver polls before it looks at its queue, and it looks at its      *)
(* cancellation only between two reads: one that waits in poll when it is  *)
(* cancelled still sends what wakes it up.                                 *)
(***************************************************************************)
EXTENDS Naturals, Sequences, SequencesExt

CONSTANTS
    Devices,   \* the paths under which pointer devices may appear
    Names,
    NameOf,    \* the name of the device that appears under a path
    ByName,    \* the names in scroll_input_devices
    ByPath,    \* the paths in scroll_input_devices
    MaxPlugs,  \* bound: how often devices are plugged in
    MaxEvents, \* bound: scroll events
    Failing    \* the paths that a receiver may fail to open or to read

ASSUME DeviceMonitorAssumption ==
    /\ NameOf \in [Devices -> Names]
    /\ ByName \subseteq Names /\ ByPath \subseteq Devices
    /\ MaxPlugs \in Nat /\ MaxEvents \in Nat /\ Failing \subseteq Devices

VARIABLES
    plugs,     \* how often a device was plugged in so far
    attached,  \* per device, the number of the plug that put it there, or 0
    news,      \* device events that the monitor has not handled
    table,     \* active_receivers: per name, the number of a receiver, or 0
    receivers, \* the receiver threads, numbered in the order of their start
    events,    \* the number of scroll events so far
    sent       \* history: what was given to Transport::send_scroll, and by whom

vars == <<plugs, attached, news, table, receivers, events, sent>>

Gone == 0 \* what a receiver reads when its device is unplugged
Stages == {"starting", "looping", "polling", "ended"}
News == [kind : {"Added", "Removed"}, device : Devices]
Receivers == [device : Devices, plug : 0 .. MaxPlugs, stage : Stages, cancelled : BOOLEAN,
              kernel : Seq(0 .. MaxEvents), queued : Seq(0 .. MaxEvents)]
Sendings == [event : 1 .. MaxEvents, by : Nat, cancelled : BOOLEAN]

\* matches_config: a device is captured by its name.
Matches(d) == NameOf[d] \in ByName

\* The receivers that have an open device get what it says.
Tell(d, e) ==
    [i \in DOMAIN receivers |->
        IF /\ receivers[i].device = d /\ receivers[i].plug = attached[d]
           /\ receivers[i].stage \in {"looping", "polling"}
        THEN [receivers[i] EXCEPT !.kernel = Append(@, e)]
        ELSE receivers[i]]

-----------------------------------------------------------------------------
\* The devices.

Plug(d) ==
    /\ attached[d] = 0
    /\ plugs < MaxPlugs
    /\ plugs' = plugs + 1
    /\ attached' = [attached EXCEPT ![d] = plugs + 1]
    /\ news' = Append(news, [kind |-> "Added", device |-> d])
    /\ UNCHANGED <<table, receivers, events, sent>>

Unplug(d) ==
    /\ attached[d] # 0
    /\ attached' = [attached EXCEPT ![d] = 0]
    /\ news' = Append(news, [kind |-> "Removed", device |-> d])
    /\ receivers' = Tell(d, Gone)
    /\ UNCHANGED <<plugs, table, events, sent>>

Scroll(d) ==
    /\ attached[d] # 0
    /\ events < MaxEvents
    /\ events' = events + 1
    /\ receivers' = Tell(d, events + 1)
    /\ UNCHANGED <<plugs, attached, news, table, sent>>

-----------------------------------------------------------------------------
\* run_scroll_source_monitor.

Started(d) ==
    [device |-> d, plug |-> 0, stage |-> "starting", cancelled |-> FALSE,
     kernel |-> << >>, queued |-> << >>]

\* Faulty: the table is not looked at before a receiver is started.
HandleAddedAgain ==
    /\ news # << >> /\ Head(news).kind = "Added"
    /\ news' = Tail(news)
    /\ LET d == Head(news).device IN
        IF Matches(d)
        THEN /\ receivers' = Append(receivers, Started(d))
             /\ table' = [table EXCEPT ![NameOf[d]] = Len(receivers) + 1]
        ELSE UNCHANGED <<receivers, table>>
    /\ UNCHANGED <<plugs, attached, events, sent>>

\* A device that matches gets a receiver, unless its name has one.
HandleAdded ==
    /\ news # << >> /\ Head(news).kind = "Added"
    /\ news' = Tail(news)
    /\ LET d == Head(news).device IN
        IF Matches(d) /\ table[NameOf[d]] = 0
        THEN /\ receivers' = Append(receivers, Started(d))
             /\ table' = [table EXCEPT ![NameOf[d]] = Len(receivers) + 1]
        ELSE UNCHANGED <<receivers, table>>
    /\ UNCHANGED <<plugs, attached, events, sent>>

\* Faulty: the receiver is cancelled and keeps its entry.
HandleRemovedKept ==
    /\ news # << >> /\ Head(news).kind = "Removed"
    /\ news' = Tail(news)
    /\ LET i == table[NameOf[Head(news).device]] IN
        receivers' = IF i = 0 THEN receivers ELSE [receivers EXCEPT ![i].cancelled = TRUE]
    /\ UNCHANGED <<plugs, attached, table, events, sent>>

\* Faulty: the receiver is forgotten, as one that will end by itself.
HandleRemovedForgets ==
    /\ news # << >> /\ Head(news).kind = "Removed"
    /\ news' = Tail(news)
    /\ table' = [table EXCEPT ![NameOf[Head(news).device]] = 0]
    /\ UNCHANGED <<plugs, attached, receivers, events, sent>>

\* The receiver of the device's name is forgotten and cancelled, whichever device
\* it reads.
HandleRemoved ==
    /\ news # << >> /\ Head(news).kind = "Removed"
    /\ news' = Tail(news)
    /\ LET n == NameOf[Head(news).device] IN
        /\ table' = [table EXCEPT ![n] = 0]
        /\ receivers' = IF table[n] = 0 THEN receivers
                        ELSE [receivers EXCEPT ![table[n]].cancelled = TRUE]
    /\ UNCHANGED <<plugs, attached, events, sent>>

-----------------------------------------------------------------------------
\* run_scroll_source, for receiver i.

\* ScrollReceiver::new opens what is there now.
Open(i) ==
    /\ receivers[i].stage = "starting"
    /\ LET d == receivers[i].device IN
       \/ /\ attached[d] # 0
          /\ receivers' = [receivers EXCEPT ![i].stage = "looping", ![i].plug = attached[d]]
       \/ /\ attached[d] = 0 \/ d \in Failing
          /\ receivers' = [receivers EXCEPT ![i].stage = "ended"]
    /\ UNCHANGED <<plugs, attached, news, table, events, sent>>

\* while !cancel.is_cancelled()
Check(i) ==
    /\ receivers[i].stage = "looping"
    /\ receivers' = [receivers EXCEPT
           ![i].stage = IF receivers[i].cancelled THEN "ended" ELSE "polling"]
    /\ UNCHANGED <<plugs, attached, news, table, events, sent>>

\* Faulty: all of the queue is sent before the next look at the cancellation.
ReadAll(i) ==
    /\ receivers[i].stage = "polling"
    /\ receivers[i].kernel # << >>
    /\ receivers' = [receivers EXCEPT
           ![i].stage = "looping", ![i].kernel = << >>, ![i].queued = << >>]
    /\ LET all == receivers[i].queued \o receivers[i].kernel IN
        sent' = sent \cup {[event |-> e, by |-> i, cancelled |-> receivers[i].cancelled] :
                              e \in ToSet(all) \ {Gone}}
    /\ UNCHANGED <<plugs, attached, news, table, events>>

\* Faulty: the first event is sent, of whatever kind it is.
ReadOfAnyKind(i) ==
    /\ receivers[i].stage = "polling"
    /\ receivers[i].kernel # << >>
    /\ LET all == receivers[i].queued \o receivers[i].kernel IN
        /\ receivers' = [receivers EXCEPT
               ![i].stage = "looping", ![i].kernel = << >>, ![i].queued = Tail(all)]
        /\ sent' = sent \cup {[event |-> all[1], by |-> i, cancelled |-> receivers[i].cancelled]}
    /\ UNCHANGED <<plugs, attached, news, table, events>>

\* read_event: poll for the kernel's events, queue them all, and take the queue up
\* to the first scroll event, which is sent.
Read(i) ==
    /\ receivers[i].stage = "polling"
    /\ receivers[i].kernel # << >>
    /\ LET all  == receivers[i].queued \o receivers[i].kernel
           rest == IF all[1] = Gone THEN Tail(all) ELSE all
       IN  /\ receivers' = [receivers EXCEPT
                  ![i].stage = "looping",
                  ![i].kernel = << >>,
                  ![i].queued = IF rest = << >> THEN rest ELSE Tail(rest)]
           /\ sent' = IF rest = << >> THEN sent
                      ELSE sent \cup {[event |-> rest[1], by |-> i,
                                       cancelled |-> receivers[i].cancelled]}
    /\ UNCHANGED <<plugs, attached, news, table, events>>

\* A poll or a dispatch that fails ends the thread.
ReadFails(i) ==
    /\ receivers[i].device \in Failing
    /\ receivers[i].stage = "polling"
    /\ receivers' = [receivers EXCEPT ![i].stage = "ended"]
    /\ UNCHANGED <<plugs, attached, news, table, events, sent>>

-----------------------------------------------------------------------------
Init ==
    /\ plugs = 0
    /\ attached = [d \in Devices |-> 0]
    /\ news = << >>
    /\ table = [n \in Names |-> 0]
    /\ receivers = << >>
    /\ events = 0
    /\ sent = {}

Receiver(i) == Open(i) \/ Check(i) \/ Read(i)

Next ==
    \/ \E d \in Devices : Plug(d) \/ Unplug(d) \/ Scroll(d)
    \/ HandleAdded \/ HandleRemoved
    \/ \E i \in DOMAIN receivers : Receiver(i) \/ ReadFails(i)

\* The threads run.  Nothing obliges a device to come, to go or to scroll.
Fairness ==
    /\ WF_vars(HandleAdded) /\ WF_vars(HandleRemoved)
    /\ \A i \in 1 .. MaxPlugs : WF_vars(i \in DOMAIN receivers /\ Receiver(i))

Spec == Init /\ [][Next]_vars /\ Fairness

-----------------------------------------------------------------------------
TypeOK ==
    /\ plugs \in 0 .. MaxPlugs
    /\ attached \in [Devices -> 0 .. plugs]
    /\ news \in Seq(News)
    /\ table \in [Names -> 0 .. Len(receivers)]
    /\ receivers \in Seq(Receivers)
    /\ events \in 0 .. MaxEvents
    /\ sent \subseteq Sendings

\* A receiver that was not cancelled is the one in the table, so that the monitor
\* can always still stop it: at most one of each name reads.
TableHasReceivers ==
    \A i \in DOMAIN receivers :
        ~receivers[i].cancelled => table[NameOf[receivers[i].device]] = i

\* Two receivers may have one device open, when it is unplugged and plugged in
\* faster than the monitor follows.  An event is still sent twice at most once per
\* receiver that was cancelled: by its last read, which began before.
SentTwiceOnlyLate ==
    \A x, y \in sent : x.event = y.event /\ x.by # y.by => x.cancelled \/ y.cancelled
OneLateSend ==
    \A x, y \in sent : x.cancelled /\ y.cancelled /\ x.by = y.by => x.event = y.event

\* Somebody reads the device as it is plugged in now.
IsRead(d) ==
    \E i \in DOMAIN receivers :
        /\ receivers[i].device = d /\ receivers[i].plug = attached[d]
        /\ ~receivers[i].cancelled /\ receivers[i].stage \in {"looping", "polling"}

Unshared(d) == \A e \in Devices : NameOf[e] = NameOf[d] => e = d

\* Captured by its name, which no other device has, and with receivers that work.
Captured(d) == Matches(d) /\ Unshared(d) /\ d \notin Failing

\* The monitor, when it has caught up with the news of such a device, has followed
\* it, however often it came and went before: somebody reads the device as it is
\* plugged in now or is about to open it, and a device that is gone has no receiver
\* that was not told to stop.
NamedDeviceHasReceiver ==
    \A d \in Devices : Captured(d) /\ (\A k \in DOMAIN news : news[k].device # d) =>
        IF attached[d] = 0
        THEN \A i \in DOMAIN receivers : receivers[i].device = d => receivers[i].cancelled
        ELSE \/ IsRead(d)
             \/ \E i \in DOMAIN receivers :
                   /\ receivers[i].device = d /\ ~receivers[i].cancelled
                   /\ receivers[i].stage = "starting"

\* And when it stays plugged in, it is read in the end.
NamedDeviceIsRead ==
    \A d \in Devices : Captured(d) => (<>[](attached[d] # 0) => <>[]IsRead(d))

\* What the README says of scroll_input_devices: "Input devices to capture on a
\* source" (src/README.md:90), where `path` is to "Match device by path such as
\* /dev/input/event5" (src/README.md:97).
DeviceByPathIsRead ==
    \A d \in ByPath : <>[](attached[d] # 0) => <>[]IsRead(d)
=============================================================================
