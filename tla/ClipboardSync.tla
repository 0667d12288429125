---------------------------- MODULE ClipboardSync ----------------------------
(***************************************************************************)
(* Clipboard sharing between machines that are sources and destinations    *)
(* for each other.  On each machine a watcher thread notices every change  *)
(* of the X11 clipboard; run_clipboard_source reads the clipboard and      *)
(* queues it for each peer; one sender task makes the calls one after the  *)
(* other; the receiving server sets its own clipboard on a thread of the   *)
(* blocking pool, which its own watcher then notices as well.  To keep     *)
(* that from being sent back, changes within CLIPBOARD_TTL of the last     *)
(* set are ignored.                                                        *)
(*                                                                         *)
(* Contents are numbered in the order users copied them, 0 is an empty     *)
(* clipboard.  `recent' stands for mono_time_ms() - last_set_clipboard <   *)
(* CLIPBOARD_TTL; both begin at 0, so it holds after the start as well.    *)
(* A set thread waits, after the write, until its content is replaced:     *)
(* nothing in the daemon depends on that wait, and it is left out.         *)
(***************************************************************************)
EXTENDS Naturals, Sequences, FiniteSets, SequencesExt, FiniteSetsExt

CONSTANTS
    Machines,
    Links,       \* pairs <<m, n>>: m sends to n and n accepts from m
    Users,       \* the machines on which somebody copies
    SendCap,     \* capacity of the channel to the sender task (16 in the code)
    MaxCopies,   \* bound: copies users make
    Prompt,      \* does a set, with the change it causes, end within CLIPBOARD_TTL
    JustStarted, \* did the daemons start less than CLIPBOARD_TTL ago
    SetsInOrder, \* do the set threads run in the order they were spawned
    Late,        \* may a call that failed at its sender be handled later
    Failures     \* may calls, sets and reads of the clipboard fail

ASSUME ClipboardAssumption ==
    /\ IsFiniteSet(Machines)
    /\ Links \subseteq Machines \X Machines /\ Users \subseteq Machines
    /\ SendCap \in Nat \ {0} /\ MaxCopies \in Nat
    /\ {Prompt, JustStarted, SetsInOrder, Late, Failures} \subseteq BOOLEAN

VARIABLES
    clip,     \* per machine, the content of its clipboard
    copies,   \* the number of copies so far
    copied,   \* per machine, how many of them its user made
    stamped,  \* per machine, has a change been seen in this millisecond
    changes,  \* per machine, changes noticed by the watcher and not handled
    reading,  \* per machine, is run_clipboard_source awaiting get_clipboard
    reads,    \* history: per machine, how often it read the clipboard, up to MaxReads
    sendq,    \* per machine, the channel to its sender task
    call,     \* per machine, the calls (at most one) its sender task awaits
    recent,   \* per machine, is its last set less than CLIPBOARD_TTL ago
    sets,     \* per machine, contents that set threads have still to write
    late      \* per machine, contents of calls to it that failed and it has not handled

vars == <<clip, copies, copied, stamped, changes, reading, reads, sendq, call, recent, sets,
          late>>

Contents == 0 .. MaxCopies
MaxReads == MaxCopies + 1 \* one more than ReadsFollowCopies allows
Sends == [to : Machines, content : Contents, answered : BOOLEAN]

Destinations(m) == {n \in Machines : <<m, n>> \in Links}

-----------------------------------------------------------------------------
\* The clipboard of m gets a content; the watcher sees it unless it carries the
\* timestamp of the change before it.  `own' tells a set from a user's copy: the
\* daemon cannot see the difference.
Change(m, content, own) ==
    /\ clip' = [clip EXCEPT ![m] = content]
    /\ stamped' = [stamped EXCEPT ![m] = TRUE]
    /\ changes' = IF stamped[m] THEN changes
                  ELSE [changes EXCEPT ![m] = Append(@, own)]

\* A user copies something; not in the same millisecond as another change.
UserCopies(m) ==
    /\ m \in Users
    /\ copies < MaxCopies
    /\ ~stamped[m]
    /\ copies' = copies + 1
    /\ copied' = [copied EXCEPT ![m] = @ + 1]
    /\ Change(m, copies + 1, FALSE)
    /\ UNCHANGED <<reading, reads, sendq, call, recent, sets, late>>

\* The X server's clock goes on by a millisecond.
Millisecond(m) ==
    /\ stamped[m]
    /\ stamped' = [stamped EXCEPT ![m] = FALSE]
    /\ UNCHANGED <<clip, copies, copied, changes, reading, reads, sendq, call, recent, sets, late>>

\* run_clipboard_source takes a change: too close to the last set it is ignored,
\* otherwise the clipboard is read on a thread.
TakeChange(m) ==
    /\ ~reading[m]
    /\ changes[m] # << >>
    /\ changes' = [changes EXCEPT ![m] = Tail(@)]
    /\ reading' = [reading EXCEPT ![m] = ~recent[m]]
    /\ UNCHANGED <<clip, copies, copied, stamped, reads, sendq, call, recent, sets, late>>

\* Faulty: an unbounded channel to the sender task.
ReadClipboardUnbounded(m) ==
    /\ reading[m]
    /\ reading' = [reading EXCEPT ![m] = FALSE]
    /\ reads' = [reads EXCEPT ![m] = Min({@ + 1, MaxReads})]
    /\ sendq' = [sendq EXCEPT ![m] = @ \o
                    SetToSeq({[to |-> n, content |-> clip[m], answered |-> FALSE] :
                                  n \in Destinations(m)})]
    /\ UNCHANGED <<clip, copies, copied, stamped, changes, call, recent, sets, late>>

\* get_clipboard returns what the clipboard holds now; it is queued for every
\* destination for which the channel has room.
ReadClipboard(m) ==
    /\ reading[m]
    /\ reading' = [reading EXCEPT ![m] = FALSE]
    /\ reads' = [reads EXCEPT ![m] = Min({@ + 1, MaxReads})]
    /\ LET sends == SetToSeq({[to |-> n, content |-> clip[m], answered |-> FALSE] :
                                  n \in Destinations(m)})
           room == SendCap - Len(sendq[m])
       IN  sendq' = [sendq EXCEPT ![m] = @ \o SubSeq(sends, 1, Min({room, Len(sends)}))]
    /\ UNCHANGED <<clip, copies, copied, stamped, changes, call, recent, sets, late>>

ReadFails(m) ==
    /\ Failures
    /\ reading[m]
    /\ reading' = [reading EXCEPT ![m] = FALSE]
    /\ UNCHANGED <<clip, copies, copied, stamped, changes, reads, sendq, call, recent, sets, late>>

-----------------------------------------------------------------------------
\* Faulty: calls are made in any order.
StartAnyCall(m) ==
    /\ call[m] = << >>
    /\ \E i \in DOMAIN sendq[m] :
        /\ call' = [call EXCEPT ![m] = <<sendq[m][i]>>]
        /\ sendq' = [sendq EXCEPT ![m] = RemoveAt(@, i)]
    /\ UNCHANGED <<clip, copies, copied, stamped, changes, reading, reads, recent, sets, late>>

\* The sender task takes the next event: encrypt, connect, call.
StartCall(m) ==
    /\ call[m] = << >>
    /\ sendq[m] # << >>
    /\ call' = [call EXCEPT ![m] = <<Head(sendq[m])>>]
    /\ sendq' = [sendq EXCEPT ![m] = Tail(@)]
    /\ UNCHANGED <<clip, copies, copied, stamped, changes, reading, reads, recent, sets, late>>

\* Faulty: the time of the set is not stored.
HandleClipboardEventUnstamped(m) ==
    /\ call[m] # << >> /\ ~call[m][1].answered
    /\ sets' = [sets EXCEPT ![call[m][1].to] = Append(@, call[m][1].content)]
    /\ call' = [call EXCEPT ![m][1].answered = TRUE]
    /\ UNCHANGED <<clip, copies, copied, stamped, changes, reading, reads, sendq, recent, late>>

\* Faulty: within CLIPBOARD_TTL of the last set the next one is ignored.
HandleClipboardEventDebounced(m) ==
    /\ call[m] # << >> /\ ~call[m][1].answered
    /\ LET n == call[m][1].to IN
        /\ recent' = [recent EXCEPT ![n] = TRUE]
        /\ sets' = IF recent[n] THEN sets
                   ELSE [sets EXCEPT ![n] = Append(@, call[m][1].content)]
    /\ call' = [call EXCEPT ![m][1].answered = TRUE]
    /\ UNCHANGED <<clip, copies, copied, stamped, changes, reading, reads, sendq, late>>

\* handle_clipboard_event: the time of the set is stored before the set begins.
HandleClipboardEvent(m) ==
    /\ call[m] # << >> /\ ~call[m][1].answered
    /\ LET n == call[m][1].to IN
        /\ recent' = [recent EXCEPT ![n] = TRUE]
        /\ sets' = [sets EXCEPT ![n] = Append(@, call[m][1].content)]
    /\ call' = [call EXCEPT ![m][1].answered = TRUE]
    /\ UNCHANGED <<clip, copies, copied, stamped, changes, reading, reads, sendq, late>>

\* Faulty: a call that fails is put back to the end of the queue.
EndCallRetries(m) ==
    /\ call[m] # << >>
    /\ call[m][1].answered \/ Failures
    /\ call' = [call EXCEPT ![m] = << >>]
    /\ sendq' = IF call[m][1].answered THEN sendq
                ELSE [sendq EXCEPT ![m] = Append(@, call[m][1])]
    /\ UNCHANGED <<clip, copies, copied, stamped, changes, reading, reads, recent, sets, late>>

\* An answer, or an error that is logged: the next event is taken either way.  A call that
\* fails here may have got there, or not.
EndCall(m) ==
    /\ call[m] # << >>
    /\ call[m][1].answered \/ Failures
    /\ call' = [call EXCEPT ![m] = << >>]
    /\ late' = IF call[m][1].answered THEN late
               ELSE [late EXCEPT ![call[m][1].to] = Append(@, call[m][1].content)]
    /\ UNCHANGED <<clip, copies, copied, stamped, changes, reading, reads, sendq, recent, sets>>

\* handle_clipboard_event of a call that has failed at its sender.
HandleLateEvent(n) ==
    /\ Late
    /\ recent' = [recent EXCEPT ![n] = TRUE]
    /\ \E i \in DOMAIN late[n] :
        /\ sets' = [sets EXCEPT ![n] = Append(@, late[n][i])]
        /\ late' = [late EXCEPT ![n] = RemoveAt(@, i)]
    /\ UNCHANGED <<clip, copies, copied, stamped, changes, reading, reads, sendq, call>>

\* A thread of the blocking pool writes the clipboard.
RunSet(m) ==
    /\ \E i \in DOMAIN sets[m] :
        /\ SetsInOrder => i = 1
        /\ Change(m, sets[m][i], TRUE)
        /\ sets' = [sets EXCEPT ![m] = RemoveAt(@, i)]
    /\ UNCHANGED <<copies, copied, reading, reads, sendq, call, recent, late>>

SetFails(m) ==
    /\ Failures
    /\ \E i \in DOMAIN sets[m] : sets' = [sets EXCEPT ![m] = RemoveAt(@, i)]
    /\ UNCHANGED <<clip, copies, copied, stamped, changes, reading, reads, sendq, call, recent,
                   late>>

\* CLIPBOARD_TTL has passed since the last set.
TtlPasses(m) ==
    /\ recent[m]
    /\ Prompt => sets[m] = << >> /\ TRUE \notin ToSet(changes[m])
    /\ recent' = [recent EXCEPT ![m] = FALSE]
    /\ UNCHANGED <<clip, copies, copied, stamped, changes, reading, reads, sendq, call, sets, late>>

-----------------------------------------------------------------------------
Init ==
    /\ clip = [m \in Machines |-> 0]
    /\ copies = 0
    /\ copied = [m \in Machines |-> 0]
    /\ stamped = [m \in Machines |-> FALSE]
    /\ changes = [m \in Machines |-> << >>]
    /\ reading = [m \in Machines |-> FALSE]
    /\ reads = [m \in Machines |-> 0]
    /\ sendq = [m \in Machines |-> << >>]
    /\ call = [m \in Machines |-> << >>]
    /\ recent = [m \in Machines |-> JustStarted]
    /\ sets = [m \in Machines |-> << >>]
    /\ late = [m \in Machines |-> << >>]

Next == \E m \in Machines :
    \/ UserCopies(m) \/ Millisecond(m)
    \/ TakeChange(m) \/ ReadClipboard(m) \/ ReadFails(m)
    \/ StartCall(m) \/ HandleClipboardEvent(m) \/ EndCall(m) \/ HandleLateEvent(m)
    \/ RunSet(m) \/ SetFails(m) \/ TtlPasses(m)

\* Tasks and threads run, calls end and time passes; nobody has to copy.
Fairness == \A m \in Machines :
    /\ WF_vars(Millisecond(m)) /\ WF_vars(TtlPasses(m))
    /\ WF_vars(TakeChange(m)) /\ WF_vars(ReadClipboard(m))
    /\ WF_vars(StartCall(m)) /\ WF_vars(HandleClipboardEvent(m)) /\ WF_vars(EndCall(m))
    /\ WF_vars(RunSet(m))

Spec == Init /\ [][Next]_vars /\ Fairness

-----------------------------------------------------------------------------
TypeOK ==
    /\ copies \in Contents
    /\ \A m \in Machines :
        /\ clip[m] \in Contents /\ copied[m] \in Contents
        /\ stamped[m] \in BOOLEAN /\ reading[m] \in BOOLEAN /\ recent[m] \in BOOLEAN
        /\ changes[m] \in Seq(BOOLEAN) /\ reads[m] \in 0 .. MaxReads
        /\ sendq[m] \in Seq(Sends) /\ Len(sendq[m]) <= SendCap
        /\ call[m] \in Seq(Sends) /\ Len(call[m]) <= 1
        /\ sets[m] \in Seq(Contents) /\ late[m] \in Seq(Contents)

\* What the debounce of run_clipboard_source is for: a machine reads its clipboard
\* to send it at most once per copy of its own user, whatever is set meanwhile, as
\* long as a set and its change are handled within CLIPBOARD_TTL.  It rests on the
\* order of the two statements in handle_clipboard_event.  It counts reads: a read
\* that is past the debounce may find, and send, what was set after the copy.
ReadsFollowCopies == \A m \in Machines : reads[m] <= copied[m]

\* And so clipboards that are each other's destinations do not send a content
\* back and forth for ever: once nobody copies, nothing is under way.
Quiesces ==
    <>[](\A m \in Machines : /\ changes[m] = << >> /\ ~reading[m]
                             /\ sendq[m] = << >> /\ call[m] = << >> /\ sets[m] = << >>)

\* With one user, nobody's clipboard goes back to an older content: the sender
\* task makes one call at a time, and each read returns the newest content.
NewestWins == [][\A m \in Machines : clip'[m] >= clip[m]]_vars

\* With one user and no failure, and longer than CLIPBOARD_TTL after the start (a
\* change in the first second is ignored as if it were a set), every machine that
\* the user's sends to ends up with the user's last copy.
LastCopyArrives ==
    <>[](\A m \in Users : \A n \in Destinations(m) : clip[n] = clip[m])

\* The content of m's clipboard has reached n, or is on its way to it.
UnderWay(m, n) ==
    \/ \E i \in DOMAIN sendq[m] : sendq[m][i].to = n /\ sendq[m][i].content = clip[m]
    \/ \E i \in DOMAIN call[m] :
          call[m][i].to = n /\ call[m][i].content = clip[m] /\ ~call[m][i].answered
    \/ \E i \in DOMAIN sets[n] : sets[n][i] = clip[m]
    \/ clip[n] = clip[m]

\* The same as LastCopyArrives, at every moment: from the copy until it has arrived the
\* last content is never lost, be it as a change, in the read, in the channel, in the call
\* or with the set thread.  It takes that the debounce drops none of the user's changes and
\* that the channel has room for a burst of them.
LastCopyIsUnderWay == \A m \in Users :
    changes[m] # << >> \/ reading[m] \/ \A n \in Destinations(m) : UnderWay(m, n)
=============================================================================
