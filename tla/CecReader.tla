------------------------------ MODULE CecReader ------------------------------
(***************************************************************************)
(* The CEC reader thread (cec/__init__.py, CecReader), the kernel adapter  *)
(* it drives (cec/kernel.py, KernelCecBackend), the stop that closes the   *)
(* adapter under it, and the blanking its events end in                    *)
(* (controller.py, _on_cec_event).                                         *)
(*                                                                         *)
(* The reader opens the device, reads its physical address, claims a       *)
(* logical one, announces itself to the TV, and then alternates between    *)
(* waiting in poll and draining the device's two queues, until an OSError  *)
(* sends it back to the start.  HDMI plugs, the TV's messages and the loss *)
(* of the device come between any two of its system calls; within one      *)
(* action are only calls between which nothing it could see matters.       *)
(*                                                                         *)
(* The kernel keeps one queue of link changes and one of messages for each *)
(* open file.  When the first is full the newest change takes the place of *)
(* the last one (Linux keeps a single change: Slots = 1).                  *)
(***************************************************************************)
EXTENDS Integers, Sequences

CONSTANTS
  Addrs,     \* physical addresses a TV's inputs may have
  NoAddr,    \* CEC_PHYS_ADDR_INVALID: there is no HDMI link
  Sent,      \* the messages of this instance
  Slots,     \* link changes the kernel keeps for an open file
  MaxSpent,  \* bound on link changes and losses of the device
  MaxMsgs,   \* bound on messages and events under way
  MaxFds     \* bound on descriptors of the adapter

\* What a TV sends: <Standby>, <Image View On> or <Text View On>, a key, and
\* the routing messages.  The remote's power keys, which the key map turns
\* into the same two blankings, count as the first two.
Messages ==
  ({"standby", "view on", "key"} \X {NoAddr}) \cup ({"path", "source"} \X Addrs)

ASSUME CecAssumption ==
  /\ NoAddr \notin Addrs
  /\ Sent \subseteq Messages
  /\ Slots \in Nat \ {0}
  /\ MaxSpent \in Nat
  /\ MaxMsgs \in Nat
  /\ MaxFds \in Nat \ {0}

VARIABLES
  capable,  \* the adapter has CEC_CAP_LOG_ADDRS
  node,     \* the device exists
  hdmi,     \* the physical address the link has now
  told,     \* the address the TV was last told is the active source
  spent,    \* link changes and losses of the device so far
  evq,      \* link changes waiting in the kernel
  msgq,     \* messages waiting in the kernel
  fds,      \* descriptors of the adapter this process holds
  fd,       \* _fd: "none", or a descriptor of a "live" or a "dead" device
  wake,     \* the pipe that wakes a poll exists
  log,      \* _log_addr: a "usable" one, "none" (unregistered), or "invalid"
  phys,     \* _phys_addr
  pc,       \* where the reader is
  out,      \* the events poll has collected or _pump has yet to deliver
  stop,     \* how far stop has come
  idle,     \* calls waiting for the main loop
  blank,    \* the surface is blanked
  word,     \* auxiliary: what the TV said last, as far as the device knows
  trouble   \* auxiliary: what went wrong that was not the link's doing

tv == <<capable, node, hdmi, spent>>
queues == <<evq, msgq>>
files == <<fds, fd, wake>>
ui == <<idle, blank>>
vars == <<tv, told, queues, files, log, phys, pc, out, stop, ui, word, trouble>>

Links == Addrs \cup {NoAddr}

Kinds == {"standby", "wake", "key", "source lost", "ready", "lost"}

Posts == {"blank", "unblank", "dispatch", "status"}

\* About to open; three steps of open; the announcement; in poll; draining
\* link changes, with and without messages to drain after them; claiming for
\* a change just drained, likewise; draining messages; delivering; an OSError
\* was raised; waiting before another open; _run returned; an exception ended
\* the thread.
Places == {"open", "setup", "claim", "announce", "poll", "events then messages",
           "events", "reclaim then messages", "reclaim", "messages", "deliver",
           "failed", "wait", "off", "dead"}

Ended == {"off", "dead"}

\* An uncaught OSError; a claim that failed or brought no usable address, or a
\* transmission that failed; two link changes that became one in the kernel.
Troubles == {"crash", "bus", "merged"}

-----------------------------------------------------------------------------
\* The loop conditions of _run and _pump.
Unless(s) == IF stop = "no" THEN s ELSE "off"

\* announce: the TV can hear of p if the client has an address to speak from,
\* and the link is still the one it speaks of; a transmission may fail.
Speaks(p, l) == l = "usable" /\ p # NoAddr /\ fd = "live" /\ hdmi = p

Announced(p, l) == told' \in (IF Speaks(p, l) THEN {told, p} ELSE {told})

Unsent(p, l) == IF Speaks(p, l) /\ told' # p THEN {"bus"} ELSE {}

\* Mutation: an address once known is not read again.
SetupOnce ==
  /\ pc = "setup"
  /\ CASE fd = "none" -> pc' = "wait" /\ UNCHANGED <<phys, trouble>>
       [] fd = "dead" -> pc' = "dead" /\ trouble' = trouble \cup {"crash"} /\ UNCHANGED phys
       [] fd = "live" /\ ~ capable -> pc' = "wait" /\ UNCHANGED <<phys, trouble>>
       [] OTHER -> /\ phys' = IF phys = NoAddr THEN hdmi ELSE phys
                   /\ pc' = "claim"
                   /\ UNCHANGED trouble
  /\ UNCHANGED <<tv, told, queues, files, log, out, stop, ui, word>>

\* open, the first call.  The kernel may queue the link's state at once.
OpenDevice ==
  /\ pc = "open"
  /\ IF node
       THEN /\ fds < MaxFds
            /\ fds' = fds + 1
            /\ fd' = "live"
            /\ wake' = TRUE
            /\ evq' \in {<<>>, <<hdmi>>}
            /\ msgq' = <<>>
            /\ word' = "unknown"
            /\ pc' = "setup"
       ELSE pc' = "wait" /\ UNCHANGED <<queues, files, word>>
  /\ UNCHANGED <<tv, told, log, phys, out, stop, ui, trouble>>

\* open, up to the physical address: CecError if stop closed the adapter or
\* it cannot claim addresses; the OSError of a device that has gone is not
\* caught by _run.
Setup ==
  /\ pc = "setup"
  /\ CASE fd = "none" -> pc' = "wait" /\ UNCHANGED <<phys, trouble>>
       [] fd = "dead" -> pc' = "dead" /\ trouble' = trouble \cup {"crash"} /\ UNCHANGED phys
       [] fd = "live" /\ ~ capable -> pc' = "wait" /\ UNCHANGED <<phys, trouble>>
       [] OTHER -> phys' = hdmi /\ pc' = "claim" /\ UNCHANGED trouble
  /\ UNCHANGED <<tv, told, queues, files, log, out, stop, ui, word>>

\* What CEC_ADAP_S_LOG_ADDRS may answer on an open adapter: an OSError, or
\* success with an address, with the unregistered one the flags allow as a
\* fallback, or, the descriptor being O_NONBLOCK, with the invalid one that
\* stands in the structure until a claim has ended.
Answers ==
  IF fd = "dead" THEN {"refused"}
  ELSE {"refused", "none", "invalid"} \cup (IF hdmi = NoAddr THEN {} ELSE {"usable"})

\* _log_addr after answer a: whatever a success brought, unchecked.
Held(a) == IF a = "refused" THEN log ELSE a

\* Answer a ends the reader, or is one that neither a change of the link p nor
\* the loss of the device accounts for.
Hurt(p, a) ==
  IF a = "invalid" \/ (a # "usable" /\ fd = "live" /\ hdmi = p) THEN {"bus"} ELSE {}

\* open, _claim_logical_address: an address already held is kept when there
\* is no link to claim one on, and when the claim fails.
Claim ==
  /\ pc = "claim"
  /\ \/ phys = NoAddr /\ pc' = "announce" /\ UNCHANGED <<log, trouble>>
     \/ phys # NoAddr /\ fd = "none" /\ pc' = "wait" /\ UNCHANGED <<log, trouble>>
     \/ \E a \in Answers :
          /\ phys # NoAddr /\ fd # "none" /\ pc' = "announce"
          /\ log' = Held(a)
          /\ trouble' = trouble \cup Hurt(phys, a)
  /\ UNCHANGED <<tv, told, queues, files, phys, out, stop, ui, word>>

\* _run announces outside its try: speaking from the invalid address raises a
\* ValueError, a transmission of a closed adapter a CecError.
Announce ==
  /\ pc = "announce"
  /\ IF phys # NoAddr /\ (log = "invalid" \/ (log = "usable" /\ fd = "none"))
       THEN pc' = "dead" /\ UNCHANGED <<told, trouble>>
       ELSE /\ pc' = Unless("poll")
            /\ Announced(phys, log)
            /\ trouble' = trouble \cup Unsent(phys, log)
  /\ UNCHANGED <<tv, queues, files, log, phys, out, stop, ui, word>>

-----------------------------------------------------------------------------
\* Mutation: the pipe does not wake a poll.
PollUnwoken ==
  /\ pc = "poll" /\ fd # "none"
  /\ CASE fd = "dead" -> pc' = "failed"
       [] evq # <<>> /\ msgq # <<>> -> pc' = "events then messages"
       [] evq # <<>> /\ msgq = <<>> -> pc' = "events"
       [] evq = <<>> /\ msgq # <<>> -> pc' = "messages"
       [] OTHER -> pc' = Unless("poll")
  /\ UNCHANGED <<tv, told, queues, files, log, phys, out, stop, ui, word, trouble>>

\* poll waits, at most half a second, and looks at both queues once.  Woken by a
\* close it ends the loop, unless the close has also forgotten the pipe: then
\* it takes the pipe for the device, and a CecError ends the thread.
Poll ==
  /\ pc = "poll"
  /\ CASE fd = "none" -> pc' \in (IF wake THEN {"off"} ELSE Ended)
       [] fd = "dead" -> pc' = "failed"
       [] fd = "live" /\ evq # <<>> /\ msgq # <<>> -> pc' = "events then messages"
       [] fd = "live" /\ evq # <<>> /\ msgq = <<>> -> pc' = "events"
       [] fd = "live" /\ evq = <<>> /\ msgq # <<>> -> pc' = "messages"
       [] OTHER -> pc' = Unless("poll")
  /\ UNCHANGED <<tv, told, queues, files, log, phys, out, stop, ui, word, trouble>>

\* An ioctl of a drain: a CecError on a closed adapter ends the thread, an
\* OSError loses what was collected.
DrainFails(at) ==
  /\ pc \in at
  /\ fd # "live"
  /\ pc' = IF fd = "none" THEN "dead" ELSE "failed"
  /\ out' = <<>>
  /\ UNCHANGED <<tv, told, queues, files, log, phys, stop, ui, word, trouble>>

\* Mutation: a lost link takes the logical address and not the physical one,
\* and the same link, when it comes back, is taken for no change.
StateChangeKeepsAddress ==
  /\ pc \in {"events then messages", "events"}
  /\ fd = "live" /\ evq # <<>>
  /\ LET p == Head(evq)
     IN  /\ evq' = Tail(evq)
         /\ phys' = IF p = NoAddr THEN phys ELSE p
         /\ log' = IF p = NoAddr THEN "none" ELSE log
         /\ out' = IF p = NoAddr THEN Append(out, "lost") ELSE out
         /\ pc' = IF p \in {NoAddr, phys} THEN pc
                  ELSE IF pc = "events" THEN "reclaim" ELSE "reclaim then messages"
  /\ UNCHANGED <<tv, told, msgq, files, stop, ui, word, trouble>>

\* Mutation: the physical address serves as the logical one.
StateChangeOneAddress ==
  /\ pc \in {"events then messages", "events"}
  /\ fd = "live" /\ evq # <<>>
  /\ evq' = Tail(evq)
  /\ phys' = Head(evq)
  /\ log' = Head(evq)
  /\ UNCHANGED <<tv, told, msgq, files, pc, out, stop, ui, word, trouble>>

\* _drain_events takes one change, and _on_state_change looks at it: a lost
\* link loses the address, a link other than the known one is to be claimed.
StateChange ==
  /\ pc \in {"events then messages", "events"}
  /\ fd = "live" /\ evq # <<>>
  /\ LET p == Head(evq)
     IN  /\ evq' = Tail(evq)
         /\ phys' = p
         /\ log' = IF p = NoAddr THEN "none" ELSE log
         /\ out' = IF p = NoAddr THEN Append(out, "lost") ELSE out
         /\ pc' = IF p \in {NoAddr, phys} THEN pc
                  ELSE IF pc = "events" THEN "reclaim" ELSE "reclaim then messages"
  /\ UNCHANGED <<tv, told, msgq, files, stop, ui, word, trouble>>

\* _on_state_change claims, and after a success announces and reports READY,
\* whatever address it has.  A ValueError, or the CecError of an adapter closed
\* meanwhile, ends the thread; an OSError is caught.
Reclaim ==
  /\ pc \in {"reclaim then messages", "reclaim"}
  /\ \/ /\ fd = "none"
        /\ pc' = "dead" /\ out' = <<>>
        /\ UNCHANGED <<log, told, trouble>>
     \/ \E a \in Answers :
          /\ fd # "none"
          /\ log' = Held(a)
          /\ pc' = IF a = "invalid" THEN "dead"
                   ELSE IF pc = "reclaim" THEN "events" ELSE "events then messages"
          /\ out' = CASE a = "invalid" -> <<>>
                      [] a = "refused" -> out
                      [] OTHER -> Append(out, "ready")
          /\ IF a = "refused" THEN UNCHANGED told ELSE Announced(phys, a)
          /\ trouble' = trouble \cup Hurt(phys, a) \cup
                          (IF a = "refused" THEN {} ELSE Unsent(phys, a))
  /\ UNCHANGED <<tv, queues, files, phys, stop, ui, word>>

EventsDrained ==
  /\ pc \in {"events then messages", "events"}
  /\ fd = "live" /\ evq = <<>>
  /\ pc' = IF pc = "events" THEN "deliver" ELSE "messages"
  /\ UNCHANGED <<tv, told, queues, files, log, phys, out, stop, ui, word, trouble>>

\* _decode: the events a message makes, none or one.
Decode(m) ==
  CASE m[1] = "standby" -> <<"standby">>
    [] m[1] = "view on" -> <<"wake">>
    [] m[1] = "key" -> <<"key">>
    [] m[1] = "path" -> IF m[2] = phys THEN <<"wake">> ELSE <<"source lost">>
    [] m[1] = "source" -> IF m[2] = phys THEN <<>> ELSE <<"source lost">>

\* _drain_messages takes one message.  A TV that selects this input is
\* answered with an announcement.
Receive ==
  /\ pc = "messages"
  /\ fd = "live" /\ msgq # <<>>
  /\ msgq' = Tail(msgq)
  /\ out' = out \o Decode(Head(msgq))
  /\ IF Head(msgq) = <<"path", phys>>
       THEN Announced(phys, log) /\ trouble' = trouble \cup Unsent(phys, log)
       ELSE UNCHANGED <<told, trouble>>
  /\ UNCHANGED <<tv, evq, files, log, phys, pc, stop, ui, word>>

MessagesDrained ==
  /\ pc = "messages"
  /\ fd = "live" /\ msgq = <<>>
  /\ pc' = "deliver"
  /\ UNCHANGED <<tv, told, queues, files, log, phys, out, stop, ui, word, trouble>>

\* _on_cec_event: the calls an event posts, none or one.
Posted(e) ==
  CASE e = "standby" -> <<"blank">>
    [] e = "wake" -> <<"unblank">>
    [] e = "key" -> <<"dispatch">>
    [] e \in {"ready", "lost"} -> <<"status">>
    [] OTHER -> <<>>

\* Mutation: the events of one poll are delivered in the wrong order.
DeliverBackwards ==
  /\ pc = "deliver"
  /\ IF out # <<>>
       THEN /\ idle' = idle \o Posted(out[Len(out)])
            /\ out' = SubSeq(out, 1, Len(out) - 1)
            /\ UNCHANGED pc
       ELSE pc' = Unless("poll") /\ UNCHANGED <<idle, out>>
  /\ UNCHANGED <<tv, told, queues, files, log, phys, stop, blank, word, trouble>>

\* _pump delivers one event, or goes round.
Deliver ==
  /\ pc = "deliver"
  /\ IF out # <<>>
       THEN /\ idle' = idle \o Posted(Head(out))
            /\ out' = Tail(out)
            /\ UNCHANGED pc
       ELSE pc' = Unless("poll") /\ UNCHANGED <<idle, out>>
  /\ UNCHANGED <<tv, told, queues, files, log, phys, stop, blank, word, trouble>>

\* close, the descriptor, which the lock lets one thread take; what the
\* kernel kept for it goes with it.
CloseFd ==
  /\ fd' = "none"
  /\ fds' = IF fd = "none" THEN fds ELSE fds - 1
  /\ evq' = <<>>
  /\ msgq' = <<>>
  /\ word' = "unknown"

\* Mutation: a failed adapter is opened again without closing it.
ReopenUnclosed ==
  /\ pc = "failed"
  /\ pc' = "wait"
  /\ UNCHANGED <<tv, told, queues, files, log, phys, out, stop, ui, word, trouble>>

\* _pump after an OSError: _safe_close.
SafeClose ==
  /\ pc = "failed"
  /\ CloseFd
  /\ wake' = FALSE
  /\ pc' = "wait"
  /\ UNCHANGED <<tv, told, log, phys, out, stop, ui, trouble>>

\* The delay before another open is over, or stop has cut it short.
Retry ==
  /\ pc = "wait"
  /\ pc' = Unless("open")
  /\ UNCHANGED <<tv, told, queues, files, log, phys, out, stop, ui, word, trouble>>

Reader ==
  \/ OpenDevice \/ Setup \/ Claim \/ Announce
  \/ Poll
  \/ DrainFails({"events then messages", "events", "messages"})
  \/ StateChange \/ Reclaim \/ EventsDrained \/ Receive \/ MessagesDrained
  \/ Deliver
  \/ SafeClose \/ Retry

-----------------------------------------------------------------------------
\* The main loop runs the oldest call.
RunIdle ==
  /\ idle # <<>>
  /\ idle' = Tail(idle)
  /\ blank' = CASE Head(idle) = "blank" -> TRUE
                [] Head(idle) = "unblank" -> FALSE
                [] OTHER -> blank
  /\ UNCHANGED <<tv, told, queues, files, log, phys, pc, out, stop, word, trouble>>

\* CecReader.stop, in the order it does things.
StopSet ==
  /\ stop = "no"
  /\ stop' = "set"
  /\ UNCHANGED <<tv, told, queues, files, log, phys, pc, out, ui, word, trouble>>

StopCloseFd ==
  /\ stop = "set"
  /\ stop' = "closing"
  /\ CloseFd
  /\ UNCHANGED <<tv, told, wake, log, phys, pc, out, ui, trouble>>

\* close, the pipe, outside the lock.  Its two ends are one flag here: that the
\* reader's _safe_close may close the same numbers at the same time, or
\* numbers another open has been given since, is not expressed.
StopClosePipe ==
  /\ stop = "closing"
  /\ stop' = "closed"
  /\ wake' = FALSE
  /\ UNCHANGED <<tv, told, queues, fds, fd, log, phys, pc, out, ui, word, trouble>>

-----------------------------------------------------------------------------
\* A change when the queue is full takes the place of the newest.
Queue(p) ==
  IF Len(evq) < Slots THEN Append(evq, p) ELSE [evq EXCEPT ![Len(evq)] = p]

\* The cable, the TV's input or a switch: the TV forgets who is active.
LinkChange ==
  /\ spent < MaxSpent
  /\ spent' = spent + 1
  /\ hdmi' \in Links \ {hdmi}
  /\ evq' = IF fd = "live" THEN Queue(hdmi') ELSE evq
  /\ trouble' = trouble \cup (IF fd = "live" /\ Len(evq) >= Slots THEN {"merged"} ELSE {})
  /\ told' = NoAddr
  /\ word' = "unknown"
  /\ UNCHANGED <<capable, node, msgq, files, log, phys, pc, out, stop, ui>>

\* The driver goes away, and its open descriptors with it.
DeviceLost ==
  /\ spent < MaxSpent
  /\ node
  /\ spent' = spent + 1
  /\ node' = FALSE
  /\ fd' = IF fd = "live" THEN "dead" ELSE fd
  /\ evq' = <<>>
  /\ msgq' = <<>>
  /\ told' = NoAddr
  /\ word' = "unknown"
  /\ UNCHANGED <<capable, hdmi, fds, wake, log, phys, pc, out, stop, ui, trouble>>

DeviceBack ==
  /\ ~ node
  /\ node' = TRUE
  /\ UNCHANGED <<capable, hdmi, spent, told, queues, files, log, phys, pc, out, stop, ui, word, trouble>>

\* What the TV wants after m.  A selection of this input counts if the
\* client knows where it is plugged in; otherwise it may be misread.
Said(m) ==
  CASE m[1] = "standby" -> "standby"
    [] m[1] = "view on" -> "on"
    [] m[1] = "path" /\ m[2] = hdmi /\ hdmi = phys /\ evq = <<>> -> "on"
    [] m[1] = "path" /\ m[2] \in {hdmi, phys} /\ ~ (hdmi = phys /\ evq = <<>>) -> "unknown"
    [] OTHER -> word

Message ==
  /\ fd = "live" /\ hdmi # NoAddr
  /\ Len(msgq) + Len(out) + Len(idle) < MaxMsgs
  /\ \E m \in Sent : msgq' = Append(msgq, m) /\ word' = Said(m)
  /\ UNCHANGED <<tv, told, evq, files, log, phys, pc, out, stop, ui, trouble>>

-----------------------------------------------------------------------------
Init ==
  /\ capable \in BOOLEAN
  /\ node \in BOOLEAN
  /\ hdmi \in Links
  /\ told = NoAddr
  /\ spent = 0
  /\ evq = <<>> /\ msgq = <<>>
  /\ fds = 0 /\ fd = "none" /\ wake = FALSE
  /\ log = "none" /\ phys = NoAddr
  /\ pc = "open" /\ out = <<>>
  /\ stop = "no"
  /\ idle = <<>> /\ blank = FALSE
  /\ word = "unknown" /\ trouble = {}

Next ==
  \/ Reader
  \/ RunIdle
  \/ StopSet
  \/ StopCloseFd
  \/ StopClosePipe
  \/ LinkChange
  \/ DeviceLost
  \/ DeviceBack
  \/ Message

Spec == Init /\ [][Next]_vars

\* The reader's thread and the main loop are scheduled, polls and delays end,
\* and a stop that has begun goes on.  A drain of messages ends: the bus, of some
\* forty bytes a second, does not keep ahead of it for ever.  The TV, the cable, the
\* device and whoever stops the client owe nothing.
Fairness ==
  /\ WF_vars(Reader)
  /\ []<>(pc # "messages")
  /\ WF_vars(RunIdle)
  /\ WF_vars(StopCloseFd)
  /\ WF_vars(StopClosePipe)

FairSpec == Spec /\ Fairness

-----------------------------------------------------------------------------
(* Properties.                                                             *)

\* Every variable has its type.
TypeOK ==
  /\ capable \in BOOLEAN /\ node \in BOOLEAN
  /\ hdmi \in Links /\ told \in Links /\ phys \in Links
  /\ spent \in 0..MaxSpent
  /\ evq \in Seq(Links) /\ msgq \in Seq(Messages)
  /\ fds \in 0..MaxFds
  /\ fd \in {"none", "live", "dead"}
  /\ wake \in BOOLEAN /\ log \in {"usable", "none", "invalid"}
  /\ pc \in Places
  /\ out \in Seq(Kinds)
  /\ stop \in {"no", "set", "closing", "closed"}
  /\ idle \in Seq(Posts) /\ blank \in BOOLEAN
  /\ word \in {"unknown", "standby", "on"} /\ trouble \subseteq Troubles

\* However often the adapter fails, is reopened and is closed from the other
\* thread, this process holds at most the one descriptor _fd names: a leak
\* would end, descriptors exhausted, with the client unable to save or fetch.
OneDescriptor == capable => fds = IF fd = "none" THEN 0 ELSE 1

\* When the reader waits in poll and no link change is pending, the client's
\* physical address is the link's: no plug between two system calls of open
\* is missed (open reads the address after it opened the queue).
KnowsLink == pc = "poll" /\ fd = "live" /\ evq = <<>> => phys = hdmi

\* With nothing under way, the surface is blank exactly if <Standby> was the
\* last the TV said since the link or the device last changed: the two
\* queues, the batch of a poll and the main loop keep the order.
LastWordWins ==
  word # "unknown" /\ msgq = <<>> /\ out = <<>> /\ idle = <<>>
    => blank = (word = "standby")

\* A stop ends the reader, wherever it is (base.py: close must be safe while
\* poll is blocked, so the kiosk can shut down promptly).
ShutsDown == stop # "no" ~> pc \in Ended

\* The client knows its link, has an address on it and has told the TV.
OnTheLink == phys = hdmi /\ log = "usable" /\ told = hdmi /\ pc \notin Ended

LinkStays == node /\ capable /\ stop = "no" /\ hdmi # NoAddr

\* If every claim the link allows brings a usable address, every transmission
\* is sent, no ioctl fails in open and no two link changes become one, the
\* reader comes back from every loss and plug: in the end it has claimed the
\* link there is, and told the TV (docs/cec.md:32-34 and 86-87).
TracksLink == [](trouble = {}) /\ <>[]LinkStays => <>[]OnTheLink

\* docs/cec.md:86-87: the client re-claims its logical address on the next
\* state-change event.  Asked with all that may go wrong left out except that the
\* kernel's queue of one makes two changes one.
Reclaims ==
  [](trouble \subseteq {"merged"}) /\ <>[]LinkStays => <>[](log = "usable")

=============================================================================
