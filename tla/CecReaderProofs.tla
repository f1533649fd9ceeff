--------------------------- MODULE CecReaderProofs ---------------------------
(***************************************************************************)
(* Proofs about CecReader, for all addresses, queue lengths and bounds:    *)
(* its types, that reopening leaks no descriptor, that no link change is   *)
(* missed, and that what the TV said last wins.                            *)
(***************************************************************************)
EXTENDS CecReader, SequenceTheorems, TLAPS

\* The descriptors held are the one _fd names, and there is none when the
\* reader is about to open another.
Accounted ==
  /\ OneDescriptor
  /\ fd # "none" => fds > 0
  /\ capable /\ pc \in {"open", "wait"} => fd = "none"

\* Past the reading of the physical address.
Working == {"claim", "announce", "poll", "events then messages", "events",
            "reclaim then messages", "reclaim", "messages", "deliver"}

\* The newest change waiting is the link's state, and when none is waiting
\* the client has seen it.
LinkQueued ==
  fd = "live" => /\ evq # <<>> => evq[Len(evq)] = hdmi
                 /\ evq = <<>> /\ pc \in Working => phys = hdmi

IInv == TypeOK /\ Accounted /\ LinkQueued

-----------------------------------------------------------------------------
(* The operators on sequences.                                             *)

LEMMA DecodeType ==
  ASSUME NEW m \in Messages
  PROVE  Decode(m) \in Seq(Kinds)
<1>1. <<>> \in Seq(Kinds) /\ \A k \in Kinds : <<k>> \in Seq(Kinds)
  OBVIOUS
<1>2. m[1] \in {"standby", "view on", "key", "path", "source"}
  BY DEF Messages
<1>3. Decode(m) \in {<<>>, <<"standby">>, <<"wake">>, <<"key">>, <<"source lost">>}
  BY <1>2 DEF Decode
<1> QED
  BY <1>1, <1>3 DEF Kinds

LEMMA PostedType ==
  ASSUME NEW e \in Kinds
  PROVE  Posted(e) \in Seq(Posts)
<1>1. <<>> \in Seq(Posts) /\ \A p \in Posts : <<p>> \in Seq(Posts)
  OBVIOUS
<1>2. Posted(e) \in {<<>>, <<"blank">>, <<"unblank">>, <<"dispatch">>, <<"status">>}
  BY DEF Posted
<1> QED
  BY <1>1, <1>2 DEF Posts

LEMMA QueueType ==
  ASSUME evq \in Seq(Links), NEW p \in Links
  PROVE  /\ Queue(p) \in Seq(Links)
         /\ Queue(p) # <<>>
         /\ Queue(p)[Len(Queue(p))] = p
<1>1. CASE Len(evq) < Slots
  BY <1>1 DEF Queue
<1>2. CASE ~ (Len(evq) < Slots)
  <2>1. Len(evq) \in Nat \ {0}
    BY <1>2, CecAssumption
  <2>2. Queue(p) = [evq EXCEPT ![Len(evq)] = p]
    BY <1>2 DEF Queue
  <2>3. Queue(p) \in [1..Len(evq) -> Links]
    BY <2>1, <2>2
  <2> QED
    BY <2>1, <2>2, <2>3
<1> QED
  BY <1>1, <1>2

\* Taking the oldest change leaves the newest, unless it was the only one.
LEMMA TailQueue ==
  ASSUME evq \in Seq(Links), evq # <<>>
  PROVE  /\ Head(evq) \in Links
         /\ Tail(evq) \in Seq(Links)
         /\ Tail(evq) # <<>> => Tail(evq)[Len(Tail(evq))] = evq[Len(evq)]
         /\ Tail(evq) = <<>> => Head(evq) = evq[Len(evq)]
<1>1. /\ Head(evq) \in Links
      /\ Tail(evq) \in Seq(Links)
      /\ Len(Tail(evq)) = Len(evq) - 1
      /\ \A n \in 1..Len(Tail(evq)) : Tail(evq)[n] = evq[n + 1]
  BY HeadTailProperties
<1>2. Len(evq) \in Nat \ {0} /\ Head(evq) = evq[1]
  OBVIOUS
<1>3. ASSUME Tail(evq) # <<>>
      PROVE  Tail(evq)[Len(Tail(evq))] = evq[Len(evq)]
  <2>1. Len(Tail(evq)) # 0
    BY <1>1, <1>3, EmptySeq
  <2>2. Len(Tail(evq)) \in 1..Len(Tail(evq))
    BY <2>1, <1>1, <1>2
  <2> QED
    BY <2>2, <1>1, <1>2
<1>4. ASSUME Tail(evq) = <<>>
      PROVE  Head(evq) = evq[Len(evq)]
  <2>1. Len(Tail(evq)) = 0
    BY <1>4, <1>1, EmptySeq
  <2>2. Len(evq) = 1
    BY <2>1, <1>1, <1>2
  <2> QED
    BY <2>2, <1>2
<1> QED
  BY <1>1, <1>3, <1>4

-----------------------------------------------------------------------------
(* Steps that leave the link, the kernel's queues, the descriptors and the *)
(* physical address alone.                                                 *)

LEMMA Calm ==
  ASSUME Accounted, LinkQueued,
         capable' = capable, hdmi' = hdmi, evq' = evq,
         fds' = fds, fd' = fd, phys' = phys,
         pc' \in {"open", "wait"} => pc \in {"open", "wait"} \/ fd = "none",
         pc' \in Working => pc \in Working
  PROVE  Accounted' /\ LinkQueued'
<1>1. Accounted'
  BY DEF Accounted, OneDescriptor
<1>2. LinkQueued'
  BY DEF LinkQueued
<1> QED
  BY <1>1, <1>2

\* What a claim may leave behind.
LEMMA AnswerType ==
  ASSUME TypeOK, NEW a \in Answers, NEW p
  PROVE  /\ a \in {"refused", "none", "invalid", "usable"}
         /\ Held(a) \in {"usable", "none", "invalid"}
         /\ Hurt(p, a) \subseteq Troubles
<1>1. a \in {"refused", "none", "invalid", "usable"}
  BY DEF Answers
<1> QED
  BY <1>1 DEF TypeOK, Held, Hurt, Troubles

\* What an announcement may leave behind.
LEMMA AnnouncedType ==
  ASSUME TypeOK, NEW l, Announced(phys, l)
  PROVE  told' \in Links /\ Unsent(phys, l) \subseteq Troubles
BY DEF TypeOK, Announced, Unsent, Troubles

LEMMA ClaimStep ==
  ASSUME IInv, Claim
  PROVE  IInv'
<1>1. TypeOK'
  <2>1. log' \in {"usable", "none", "invalid"} /\ trouble' \subseteq Troubles
    <3>1. CASE UNCHANGED <<log, trouble>>
      BY <3>1 DEF IInv, TypeOK
    <3>2. ASSUME NEW a \in Answers, log' = Held(a), trouble' = trouble \cup Hurt(phys, a)
          PROVE  log' \in {"usable", "none", "invalid"} /\ trouble' \subseteq Troubles
      <4>1. trouble \subseteq Troubles
        BY DEF IInv, TypeOK
      <4> QED
        BY <3>2, <4>1, AnswerType DEF IInv
    <3> QED
      BY <3>1, <3>2 DEF Claim
  <2>2. pc' \in {"announce", "wait"}
    BY DEF Claim
  <2> QED
    BY ZenonT(40), <2>1, <2>2 DEF IInv, TypeOK, Claim, Places, tv, queues, files, ui
<1>2. /\ capable' = capable /\ hdmi' = hdmi /\ evq' = evq
      /\ fds' = fds /\ fd' = fd /\ phys' = phys
      /\ pc' \in {"open", "wait"} => pc \in {"open", "wait"} \/ fd = "none"
      /\ pc' \in Working => pc \in Working
  BY DEF Claim, tv, queues, files, Working
<1>3. Accounted' /\ LinkQueued'
  BY <1>2, Calm DEF IInv
<1> QED
  BY <1>1, <1>3 DEF IInv

LEMMA AnnounceStep ==
  ASSUME IInv, Announce
  PROVE  IInv'
<1>1. TypeOK'
  <2>1. told' \in Links /\ trouble' \subseteq Troubles
    <3>1. CASE UNCHANGED <<told, trouble>>
      BY <3>1 DEF IInv, TypeOK
    <3>2. CASE Announced(phys, log) /\ trouble' = trouble \cup Unsent(phys, log)
      <4>1. trouble \subseteq Troubles
        BY DEF IInv, TypeOK
      <4> QED
        BY <3>2, <4>1, AnnouncedType DEF IInv
    <3> QED
      BY <3>1, <3>2 DEF Announce
  <2>2. pc' \in Places
    BY DEF Announce, Unless, Places
  <2>3. /\ UNCHANGED <<capable, node, hdmi, spent, evq, msgq, fds, fd, wake>>
        /\ UNCHANGED <<log, phys, out, stop, idle, blank, word>>
    BY DEF Announce, tv, queues, files, ui
  <2> QED
    BY <2>1, <2>2, <2>3 DEF IInv, TypeOK
<1>2. /\ capable' = capable /\ hdmi' = hdmi /\ evq' = evq
      /\ fds' = fds /\ fd' = fd /\ phys' = phys
      /\ pc' \in {"open", "wait"} => pc \in {"open", "wait"} \/ fd = "none"
      /\ pc' \in Working => pc \in Working
  BY DEF Announce, Unless, tv, queues, files, Working
<1>3. Accounted' /\ LinkQueued'
  BY <1>2, Calm DEF IInv
<1> QED
  BY <1>1, <1>3 DEF IInv

LEMMA PollStep ==
  ASSUME IInv, Poll
  PROVE  IInv'
<1>1. TypeOK'
  <2>1. pc' \in Places
    BY DEF Poll, Ended, Unless, Places
  <2>2. UNCHANGED <<tv, told, queues, files, log, phys, out, stop, ui, word, trouble>>
    BY DEF Poll
  <2> QED
    BY <2>1, <2>2 DEF IInv, TypeOK, tv, queues, files, ui
<1>2. /\ capable' = capable /\ hdmi' = hdmi /\ evq' = evq
      /\ fds' = fds /\ fd' = fd /\ phys' = phys
      /\ pc' \in {"open", "wait"} => pc \in {"open", "wait"} \/ fd = "none"
      /\ pc' \in Working => pc \in Working
  BY DEF Poll, Ended, Unless, tv, queues, files, Working
<1>3. Accounted' /\ LinkQueued'
  BY <1>2, Calm DEF IInv
<1> QED
  BY <1>1, <1>3 DEF IInv

LEMMA DrainFailsStep ==
  ASSUME IInv, DrainFails({"events then messages", "events", "messages"})
  PROVE  IInv'
<1>1. TypeOK'
  <2>1. pc' \in {"dead", "failed"}
    BY DEF DrainFails
  <2>2. out' = <<>>
    BY DEF DrainFails
  <2>3. <<>> \in Seq(Kinds)
    BY EmptySeq
  <2>4. out' \in Seq(Kinds)
    BY <2>2, <2>3, Zenon
  <2> QED
    BY ZenonT(40), <2>1, <2>4 DEF IInv, TypeOK, DrainFails, Places, tv, queues, files, ui
<1>2. /\ capable' = capable /\ hdmi' = hdmi /\ evq' = evq
      /\ fds' = fds /\ fd' = fd /\ phys' = phys
      /\ pc' \in {"open", "wait"} => pc \in {"open", "wait"} \/ fd = "none"
      /\ pc' \in Working => pc \in Working
  BY DEF DrainFails, tv, queues, files, Working
<1>3. Accounted' /\ LinkQueued'
  BY <1>2, Calm DEF IInv
<1> QED
  BY <1>1, <1>3 DEF IInv

LEMMA EventsDrainedStep ==
  ASSUME IInv, EventsDrained
  PROVE  IInv'
<1>1. TypeOK'
  BY DEF IInv, TypeOK, EventsDrained, Places, tv, queues, files, ui
<1>2. /\ capable' = capable /\ hdmi' = hdmi /\ evq' = evq
      /\ fds' = fds /\ fd' = fd /\ phys' = phys
      /\ pc' \in {"open", "wait"} => pc \in {"open", "wait"} \/ fd = "none"
      /\ pc' \in Working => pc \in Working
  BY DEF EventsDrained, tv, queues, files, Working
<1>3. Accounted' /\ LinkQueued'
  BY <1>2, Calm DEF IInv
<1> QED
  BY <1>1, <1>3 DEF IInv

LEMMA MessagesDrainedStep ==
  ASSUME IInv, MessagesDrained
  PROVE  IInv'
<1>1. TypeOK'
  BY DEF IInv, TypeOK, MessagesDrained, Places, tv, queues, files, ui
<1>2. /\ capable' = capable /\ hdmi' = hdmi /\ evq' = evq
      /\ fds' = fds /\ fd' = fd /\ phys' = phys
      /\ pc' \in {"open", "wait"} => pc \in {"open", "wait"} \/ fd = "none"
      /\ pc' \in Working => pc \in Working
  BY DEF MessagesDrained, tv, queues, files, Working
<1>3. Accounted' /\ LinkQueued'
  BY <1>2, Calm DEF IInv
<1> QED
  BY <1>1, <1>3 DEF IInv

LEMMA RetryStep ==
  ASSUME IInv, Retry
  PROVE  IInv'
<1>1. TypeOK'
  BY DEF IInv, TypeOK, Retry, Unless, Places, tv, queues, files, ui
<1>2. /\ capable' = capable /\ hdmi' = hdmi /\ evq' = evq
      /\ fds' = fds /\ fd' = fd /\ phys' = phys
      /\ pc' \in {"open", "wait"} => pc \in {"open", "wait"} \/ fd = "none"
      /\ pc' \in Working => pc \in Working
  BY DEF Retry, Unless, tv, queues, files, Working
<1>3. Accounted' /\ LinkQueued'
  BY <1>2, Calm DEF IInv
<1> QED
  BY <1>1, <1>3 DEF IInv

LEMMA StopSetStep ==
  ASSUME IInv, StopSet
  PROVE  IInv'
<1>1. TypeOK'
  BY DEF IInv, TypeOK, StopSet, tv, queues, files, ui
<1>2. /\ capable' = capable /\ hdmi' = hdmi /\ evq' = evq
      /\ fds' = fds /\ fd' = fd /\ phys' = phys
      /\ pc' \in {"open", "wait"} => pc \in {"open", "wait"} \/ fd = "none"
      /\ pc' \in Working => pc \in Working
  BY DEF StopSet, tv, queues, files, Working
<1>3. Accounted' /\ LinkQueued'
  BY <1>2, Calm DEF IInv
<1> QED
  BY <1>1, <1>3 DEF IInv

LEMMA StopClosePipeStep ==
  ASSUME IInv, StopClosePipe
  PROVE  IInv'
<1>1. TypeOK'
  BY DEF IInv, TypeOK, StopClosePipe, tv, queues, ui
<1>2. /\ capable' = capable /\ hdmi' = hdmi /\ evq' = evq
      /\ fds' = fds /\ fd' = fd /\ phys' = phys
      /\ pc' \in {"open", "wait"} => pc \in {"open", "wait"} \/ fd = "none"
      /\ pc' \in Working => pc \in Working
  BY DEF StopClosePipe, tv, queues, Working
<1>3. Accounted' /\ LinkQueued'
  BY <1>2, Calm DEF IInv
<1> QED
  BY <1>1, <1>3 DEF IInv

LEMMA DeviceBackStep ==
  ASSUME IInv, DeviceBack
  PROVE  IInv'
<1>1. TypeOK'
  BY DEF IInv, TypeOK, DeviceBack, queues, files, ui
<1>2. /\ capable' = capable /\ hdmi' = hdmi /\ evq' = evq
      /\ fds' = fds /\ fd' = fd /\ phys' = phys
      /\ pc' \in {"open", "wait"} => pc \in {"open", "wait"} \/ fd = "none"
      /\ pc' \in Working => pc \in Working
  BY DEF DeviceBack, queues, files, Working
<1>3. Accounted' /\ LinkQueued'
  BY <1>2, Calm DEF IInv
<1> QED
  BY <1>1, <1>3 DEF IInv

LEMMA ReceiveStep ==
  ASSUME IInv, Receive
  PROVE  IInv'
<1>1. TypeOK'
  <2>1. Head(msgq) \in Messages /\ Tail(msgq) \in Seq(Messages)
    BY DEF IInv, TypeOK, Receive
  <2>2. out' \in Seq(Kinds)
    BY <2>1, DecodeType DEF IInv, TypeOK, Receive
  <2>3. told' \in Links /\ trouble' \subseteq Troubles
    <3>1. CASE UNCHANGED <<told, trouble>>
      BY <3>1 DEF IInv, TypeOK
    <3>2. CASE Announced(phys, log) /\ trouble' = trouble \cup Unsent(phys, log)
      <4>1. trouble \subseteq Troubles
        BY DEF IInv, TypeOK
      <4> QED
        BY <3>2, <4>1, AnnouncedType DEF IInv
    <3> QED
      BY <3>1, <3>2 DEF Receive
  <2> QED
    BY <2>1, <2>2, <2>3 DEF IInv, TypeOK, Receive, tv, files, ui
<1>2. /\ capable' = capable /\ hdmi' = hdmi /\ evq' = evq
      /\ fds' = fds /\ fd' = fd /\ phys' = phys
      /\ pc' \in {"open", "wait"} => pc \in {"open", "wait"} \/ fd = "none"
      /\ pc' \in Working => pc \in Working
  BY DEF Receive, tv, files, Working
<1>3. Accounted' /\ LinkQueued'
  BY <1>2, Calm DEF IInv
<1> QED
  BY <1>1, <1>3 DEF IInv

LEMMA DeliverStep ==
  ASSUME IInv, Deliver
  PROVE  IInv'
<1>1. TypeOK'
  <2>1. CASE out # <<>>
    <3>1. Head(out) \in Kinds /\ Tail(out) \in Seq(Kinds)
      BY <2>1 DEF IInv, TypeOK
    <3>2. Posted(Head(out)) \in Seq(Posts) /\ idle \in Seq(Posts)
      BY <3>1, PostedType DEF IInv, TypeOK
    <3>3. idle' = idle \o Posted(Head(out)) /\ out' = Tail(out) /\ pc' = pc
      BY <2>1 DEF Deliver
    <3>4. idle' \in Seq(Posts)
      BY <3>2, <3>3
    <3> QED
      BY <3>1, <3>3, <3>4 DEF IInv, TypeOK, Deliver, tv, queues, files
  <2>2. CASE out = <<>>
    BY ZenonT(40), <2>2 DEF IInv, TypeOK, Deliver, Unless, Places, tv, queues, files
  <2> QED
    BY <2>1, <2>2
<1>2. /\ capable' = capable /\ hdmi' = hdmi /\ evq' = evq
      /\ fds' = fds /\ fd' = fd /\ phys' = phys
      /\ pc' \in {"open", "wait"} => pc \in {"open", "wait"} \/ fd = "none"
      /\ pc' \in Working => pc \in Working
  BY DEF Deliver, Unless, tv, queues, files, Working
<1>3. Accounted' /\ LinkQueued'
  BY <1>2, Calm DEF IInv
<1> QED
  BY <1>1, <1>3 DEF IInv

LEMMA RunIdleStep ==
  ASSUME IInv, RunIdle
  PROVE  IInv'
<1>1. TypeOK'
  <2>1. idle' \in Seq(Posts)
    BY DEF IInv, TypeOK, RunIdle
  <2>2. blank' \in BOOLEAN
    BY DEF IInv, TypeOK, RunIdle
  <2> QED
    BY <2>1, <2>2 DEF IInv, TypeOK, RunIdle, tv, queues, files
<1>2. /\ capable' = capable /\ hdmi' = hdmi /\ evq' = evq
      /\ fds' = fds /\ fd' = fd /\ phys' = phys
      /\ pc' \in {"open", "wait"} => pc \in {"open", "wait"} \/ fd = "none"
      /\ pc' \in Working => pc \in Working
  BY DEF RunIdle, tv, queues, files, Working
<1>3. Accounted' /\ LinkQueued'
  BY <1>2, Calm DEF IInv
<1> QED
  BY <1>1, <1>3 DEF IInv

LEMMA MessageStep ==
  ASSUME IInv, Message
  PROVE  IInv'
<1>1. TypeOK'
  <2>1. PICK m \in Sent : msgq' = Append(msgq, m) /\ word' = Said(m)
    BY DEF Message
  <2>2. msgq' \in Seq(Messages)
    BY <2>1, CecAssumption DEF IInv, TypeOK
  <2>3. word' \in {"unknown", "standby", "on"}
    BY <2>1 DEF IInv, TypeOK, Said
  <2> QED
    BY <2>2, <2>3 DEF IInv, TypeOK, Message, tv, files, ui
<1>2. /\ capable' = capable /\ hdmi' = hdmi /\ evq' = evq
      /\ fds' = fds /\ fd' = fd /\ phys' = phys
      /\ pc' \in {"open", "wait"} => pc \in {"open", "wait"} \/ fd = "none"
      /\ pc' \in Working => pc \in Working
  BY DEF Message, tv, files, Working
<1>3. Accounted' /\ LinkQueued'
  BY <1>2, Calm DEF IInv
<1> QED
  BY <1>1, <1>3 DEF IInv

-----------------------------------------------------------------------------
(* Steps that change them.                                                 *)

LEMMA OpenDeviceStep ==
  ASSUME IInv, OpenDevice
  PROVE  IInv'
<1>1. CASE node
  <2>1. /\ fds' = fds + 1 /\ fd' = "live" /\ wake' = TRUE
        /\ evq' \in {<<>>, <<hdmi>>} /\ msgq' = <<>>
        /\ word' = "unknown" /\ pc' = "setup" /\ fds < MaxFds
        /\ UNCHANGED <<tv, told, log, phys, out, stop, ui, trouble>>
    BY <1>1 DEF OpenDevice
  <2>2. evq' \in Seq(Links) /\ msgq' \in Seq(Messages)
    <3>1. <<>> \in Seq(Links) /\ <<>> \in Seq(Messages) /\ <<hdmi>> \in Seq(Links)
      BY EmptySeq DEF IInv, TypeOK
    <3> QED
      BY <2>1, <3>1
  <2>3. fds' \in 0..MaxFds
    BY <2>1, CecAssumption DEF IInv, TypeOK
  <2>4. TypeOK'
    BY <2>1, <2>2, <2>3 DEF IInv, TypeOK, Places, tv, ui
  <2>5. Accounted'
    <3>1. capable => fd = "none" /\ fds = 0
      BY DEF IInv, Accounted, OneDescriptor, OpenDevice
    <3> QED
      BY <2>1, <3>1 DEF IInv, TypeOK, Accounted, OneDescriptor, tv
  <2>6. LinkQueued'
    BY <2>1 DEF LinkQueued, Working, tv
  <2> QED
    BY <2>4, <2>5, <2>6 DEF IInv
<1>2. CASE ~ node
  <2>1. pc' = "wait" /\ pc = "open"
        /\ UNCHANGED <<tv, told, queues, files, log, phys, out, stop, ui, word, trouble>>
    BY <1>2 DEF OpenDevice
  <2>2. TypeOK'
    BY <2>1 DEF IInv, TypeOK, Places, tv, queues, files, ui
  <2>3. Accounted' /\ LinkQueued'
    BY <2>1, Calm DEF IInv, Working, tv, queues, files
  <2> QED
    BY <2>2, <2>3 DEF IInv
<1> QED
  BY <1>1, <1>2

LEMMA SetupStep ==
  ASSUME IInv, Setup
  PROVE  IInv'
<1>1. UNCHANGED <<tv, told, queues, files, log, out, stop, ui, word>>
  BY DEF Setup
<1>2. CASE fd = "none"
  <2>1. pc' = "wait" /\ UNCHANGED <<phys, trouble>>
    BY <1>2 DEF Setup
  <2>2. TypeOK'
    BY ZenonT(40), <1>1, <2>1 DEF IInv, TypeOK, Places, tv, queues, files, ui
  <2>3. Accounted' /\ LinkQueued'
    BY <1>1, <1>2, <2>1, Calm DEF IInv, Working, tv, queues, files
  <2> QED
    BY <2>2, <2>3 DEF IInv
<1>3. CASE fd = "dead"
  <2>1. pc' = "dead" /\ trouble' = trouble \cup {"crash"} /\ phys' = phys
    BY <1>3 DEF Setup
  <2>2. TypeOK'
    <3>1. trouble' \subseteq Troubles
      BY <2>1 DEF IInv, TypeOK, Troubles
    <3> QED
      BY ZenonT(40), <1>1, <2>1, <3>1 DEF IInv, TypeOK, Places, tv, queues, files, ui
  <2>3. Accounted' /\ LinkQueued'
    BY <1>1, <2>1, Calm DEF IInv, Working, tv, queues, files
  <2> QED
    BY <2>2, <2>3 DEF IInv
<1>4. CASE fd = "live" /\ ~ capable
  <2>1. pc' = "wait" /\ UNCHANGED <<phys, trouble>>
    BY <1>4 DEF Setup
  <2>2. TypeOK'
    BY ZenonT(40), <1>1, <2>1 DEF IInv, TypeOK, Places, tv, queues, files, ui
  <2>3. Accounted' /\ LinkQueued'
    BY <1>1, <1>4, <2>1 DEF IInv, Accounted, OneDescriptor, LinkQueued,
       Working, tv, queues, files
  <2> QED
    BY <2>2, <2>3 DEF IInv
<1>5. CASE fd = "live" /\ capable
  <2>1. phys' = hdmi /\ pc' = "claim" /\ trouble' = trouble
    BY <1>5 DEF Setup
  <2>2. TypeOK'
    BY ZenonT(40), <1>1, <2>1 DEF IInv, TypeOK, Places, tv, queues, files, ui
  <2>3. Accounted' /\ LinkQueued'
    BY <1>1, <1>5, <2>1 DEF IInv, Accounted, OneDescriptor, LinkQueued,
       Working, tv, queues, files
  <2> QED
    BY <2>2, <2>3 DEF IInv
<1> QED
  BY <1>2, <1>3, <1>4, <1>5 DEF IInv, TypeOK

LEMMA StateChangeStep ==
  ASSUME IInv, StateChange
  PROVE  IInv'
<1>1. /\ fd = "live" /\ evq # <<>> /\ evq' = Tail(evq) /\ phys' = Head(evq)
      /\ pc \in Working /\ pc' \in {pc, "reclaim then messages", "reclaim"}
      /\ UNCHANGED <<tv, told, msgq, files, stop, ui, word, trouble>>
  BY DEF StateChange, Working
<1>2. /\ Head(evq) \in Links /\ evq' \in Seq(Links)
      /\ evq' # <<>> => evq'[Len(evq')] = evq[Len(evq)]
      /\ evq' = <<>> => phys' = evq[Len(evq)]
  BY <1>1, TailQueue DEF IInv, TypeOK
<1>3. out' \in Seq(Kinds)
  <2>1. out' \in {out, Append(out, "lost")}
    BY DEF StateChange
  <2>2. "lost" \in Kinds /\ out \in Seq(Kinds)
    BY DEF IInv, TypeOK, Kinds
  <2>3. Append(out, "lost") \in Seq(Kinds)
    BY <2>2
  <2> QED
    BY <2>1, <2>2, <2>3
<1>4. log' \in {"usable", "none", "invalid"} /\ pc' \in Places
  <2>1. log' \in {log, "none"}
    BY DEF StateChange
  <2> QED
    BY <1>1, <2>1 DEF IInv, TypeOK, Places
<1>5. TypeOK'
  BY <1>1, <1>2, <1>3, <1>4 DEF IInv, TypeOK, tv, files, ui
<1>6. Accounted'
  BY <1>1 DEF IInv, Accounted, OneDescriptor, Working, tv, files
<1>7. LinkQueued'
  BY <1>1, <1>2 DEF IInv, LinkQueued, tv, files
<1> QED
  BY <1>5, <1>6, <1>7 DEF IInv

LEMMA ReclaimStep ==
  ASSUME IInv, Reclaim
  PROVE  IInv'
<1>1. UNCHANGED <<tv, queues, files, phys, stop, ui, word>>
  BY DEF Reclaim
<1>2. /\ log' \in {"usable", "none", "invalid"} /\ told' \in Links
      /\ trouble' \subseteq Troubles
      /\ pc' \in {"dead", "events", "events then messages"}
      /\ out' \in {<<>>, out, Append(out, "ready")}
  <2>1. CASE UNCHANGED <<log, told, trouble>> /\ pc' = "dead" /\ out' = <<>>
    BY <2>1 DEF IInv, TypeOK
  <2>2. CASE fd # "none"
    <3>1. PICK a \in Answers :
             /\ log' = Held(a)
             /\ pc' \in {"dead", "events", "events then messages"}
             /\ out' \in {<<>>, out, Append(out, "ready")}
             /\ IF a = "refused" THEN UNCHANGED told ELSE Announced(phys, a)
             /\ trouble' = trouble \cup Hurt(phys, a) \cup
                             (IF a = "refused" THEN {} ELSE Unsent(phys, a))
      BY <2>2 DEF Reclaim
    <3>2. Held(a) \in {"usable", "none", "invalid"} /\ Hurt(phys, a) \subseteq Troubles
      BY AnswerType DEF IInv
    <3>3. a # "refused" => told' \in Links /\ Unsent(phys, a) \subseteq Troubles
      BY <3>1, AnnouncedType DEF IInv
    <3>4. told \in Links /\ trouble \subseteq Troubles
      BY DEF IInv, TypeOK
    <3>5. told' \in Links
      BY <3>1, <3>3, <3>4
    <3>6. trouble' \subseteq Troubles
      BY <3>1, <3>2, <3>3, <3>4
    <3> QED
      BY <3>1, <3>2, <3>5, <3>6
  <2> QED
    BY <2>1, <2>2 DEF Reclaim
<1>3. TypeOK'
  <2>1. "ready" \in Kinds /\ out \in Seq(Kinds)
    BY DEF IInv, TypeOK, Kinds
  <2>2. <<>> \in Seq(Kinds) /\ Append(out, "ready") \in Seq(Kinds)
    BY <2>1, EmptySeq
  <2>3. out' \in Seq(Kinds)
    BY <1>2, <2>1, <2>2, Zenon
  <2>4. pc' \in Places
    BY <1>2 DEF Places
  <2> QED
    BY ZenonT(40), <1>1, <1>2, <2>3, <2>4 DEF IInv, TypeOK, tv, queues, files, ui
<1>4. /\ capable' = capable /\ hdmi' = hdmi /\ evq' = evq
      /\ fds' = fds /\ fd' = fd /\ phys' = phys
      /\ pc' \in {"open", "wait"} => pc \in {"open", "wait"} \/ fd = "none"
      /\ pc' \in Working => pc \in Working
  BY <1>1, <1>2 DEF Reclaim, tv, queues, files, Working
<1>5. Accounted' /\ LinkQueued'
  BY <1>4, Calm DEF IInv
<1> QED
  BY <1>3, <1>5 DEF IInv

\* Either thread's close.
LEMMA CloseStep ==
  ASSUME IInv, SafeClose \/ StopCloseFd
  PROVE  IInv'
<1>1. /\ fd' = "none" /\ evq' = <<>> /\ msgq' = <<>> /\ word' = "unknown"
      /\ fds' = IF fd = "none" THEN fds ELSE fds - 1
      /\ UNCHANGED <<tv, told, log, phys, out, ui, trouble>>
  BY DEF SafeClose, StopCloseFd, CloseFd
<1>2. wake' \in BOOLEAN /\ pc' \in {pc, "wait"} /\ stop' \in {stop, "closing"}
  BY DEF IInv, TypeOK, SafeClose, StopCloseFd
<1>3. <<>> \in Seq(Links) /\ <<>> \in Seq(Messages)
  BY EmptySeq
<1>4. fds' \in 0..MaxFds
  BY <1>1, CecAssumption DEF IInv, TypeOK, Accounted, OneDescriptor
<1>5. TypeOK'
  BY ZenonT(40), <1>1, <1>2, <1>3, <1>4 DEF IInv, TypeOK, Places, tv, ui
<1>6. capable => fds' = 0
  BY <1>1 DEF IInv, Accounted, OneDescriptor
<1>7. Accounted' /\ LinkQueued'
  BY <1>1, <1>6 DEF Accounted, OneDescriptor, LinkQueued, tv
<1> QED
  BY <1>5, <1>7 DEF IInv

LEMMA LinkChangeStep ==
  ASSUME IInv, LinkChange
  PROVE  IInv'
<1>1. /\ spent < MaxSpent /\ spent' = spent + 1 /\ hdmi' \in Links
      /\ evq' = IF fd = "live" THEN Queue(hdmi') ELSE evq
      /\ told' = NoAddr /\ word' = "unknown"
      /\ trouble' \in {trouble, trouble \cup {"merged"}}
      /\ UNCHANGED <<capable, node, msgq, files, log, phys, pc, out, stop, ui>>
  BY DEF LinkChange
<1>2. /\ Queue(hdmi') \in Seq(Links) /\ Queue(hdmi') # <<>>
      /\ Queue(hdmi')[Len(Queue(hdmi'))] = hdmi'
  BY <1>1, QueueType DEF IInv, TypeOK
<1>3. evq' \in Seq(Links) /\ spent' \in 0..MaxSpent
  BY <1>1, <1>2, CecAssumption DEF IInv, TypeOK
<1>4. trouble' \subseteq Troubles
  BY <1>1 DEF IInv, TypeOK, Troubles
<1>5. TypeOK'
  BY <1>1, <1>3, <1>4 DEF IInv, TypeOK, Links, files, ui
<1>6. Accounted'
  BY <1>1 DEF IInv, Accounted, OneDescriptor, files
<1>7. LinkQueued'
  BY <1>1, <1>2 DEF IInv, LinkQueued, files
<1> QED
  BY <1>5, <1>6, <1>7 DEF IInv

LEMMA DeviceLostStep ==
  ASSUME IInv, DeviceLost
  PROVE  IInv'
<1>1. /\ spent < MaxSpent /\ spent' = spent + 1 /\ node' = FALSE
      /\ fd' = IF fd = "live" THEN "dead" ELSE fd
      /\ evq' = <<>> /\ msgq' = <<>> /\ told' = NoAddr /\ word' = "unknown"
      /\ UNCHANGED <<capable, hdmi, fds, wake, log, phys, pc, out, stop, ui, trouble>>
  BY DEF DeviceLost
<1>2. <<>> \in Seq(Links) /\ <<>> \in Seq(Messages)
  BY EmptySeq
<1>3. spent' \in 0..MaxSpent
  BY <1>1, CecAssumption DEF IInv, TypeOK
<1>4. TypeOK'
  BY <1>1, <1>2, <1>3 DEF IInv, TypeOK, Links, ui
<1>5. Accounted' /\ LinkQueued'
  BY <1>1 DEF IInv, Accounted, OneDescriptor, LinkQueued
<1> QED
  BY <1>4, <1>5 DEF IInv

-----------------------------------------------------------------------------
(* The theorems.                                                           *)

LEMMA NextStep ==
  ASSUME IInv, [Next]_vars
  PROVE  IInv'
<1>1. CASE Reader
  <2>1. CASE OpenDevice \/ Setup \/ Claim \/ Announce
    BY <2>1, OpenDeviceStep, SetupStep, ClaimStep, AnnounceStep
  <2>2. CASE Poll \/ DrainFails({"events then messages", "events", "messages"})
    BY <2>2, PollStep, DrainFailsStep
  <2>3. CASE StateChange \/ Reclaim \/ EventsDrained \/ Receive \/ MessagesDrained
    BY <2>3, StateChangeStep, ReclaimStep, EventsDrainedStep, ReceiveStep,
       MessagesDrainedStep
  <2>4. CASE Deliver \/ SafeClose \/ Retry
    BY <2>4, DeliverStep, CloseStep, RetryStep
  <2> QED
    BY <1>1, <2>1, <2>2, <2>3, <2>4 DEF Reader
<1>2. CASE RunIdle \/ StopSet \/ StopCloseFd \/ StopClosePipe
  BY <1>2, RunIdleStep, StopSetStep, CloseStep, StopClosePipeStep
<1>3. CASE LinkChange \/ DeviceLost \/ DeviceBack \/ Message
  BY <1>3, LinkChangeStep, DeviceLostStep, DeviceBackStep, MessageStep
<1>4. CASE UNCHANGED vars
  BY <1>4 DEF vars, tv, queues, files, ui, IInv, TypeOK, Accounted,
     OneDescriptor, LinkQueued
<1> QED
  BY <1>1, <1>2, <1>3, <1>4 DEF Next

\* The inductive invariant, from which the others follow.
THEOREM ReaderInvariant == Spec => []IInv
<1>1. Init => IInv
  <2> SUFFICES ASSUME Init PROVE IInv
    OBVIOUS
  <2>1. /\ <<>> \in Seq(Links) /\ <<>> \in Seq(Messages)
        /\ <<>> \in Seq(Kinds) /\ <<>> \in Seq(Posts)
    BY EmptySeq
  <2>2. spent \in 0..MaxSpent /\ fds \in 0..MaxFds
    BY CecAssumption DEF Init
  <2>3. evq \in Seq(Links) /\ msgq \in Seq(Messages) /\ out \in Seq(Kinds) /\ idle \in Seq(Posts)
    BY <2>1 DEF Init
  <2>4. TypeOK
    BY <2>2, <2>3 DEF Init, TypeOK, Links, Places
  <2>5. Accounted /\ LinkQueued
    BY DEF Init, Accounted, OneDescriptor, LinkQueued
  <2> QED
    BY <2>4, <2>5 DEF IInv
<1> QED
  BY <1>1, NextStep, PTL DEF Spec

\* Every variable keeps its type.
THEOREM TypeCorrect == Spec => []TypeOK
<1>1. IInv => TypeOK
  BY DEF IInv
<1> QED
  BY <1>1, ReaderInvariant, PTL

\* However often the adapter fails, is reopened and is closed under the
\* reader, the process holds the one descriptor _fd names or none.
THEOREM NoDescriptorLeaks == Spec => []OneDescriptor
<1>1. IInv => OneDescriptor
  BY DEF IInv, Accounted
<1> QED
  BY <1>1, ReaderInvariant, PTL

\* No change of the HDMI link is missed, wherever among the reader's system
\* calls it comes and however long the kernel's queue is.
THEOREM NoLinkChangeMissed == Spec => []KnowsLink
<1>1. IInv => KnowsLink
  BY DEF IInv, LinkQueued, KnowsLink, Working
<1> QED
  BY <1>1, ReaderInvariant, PTL

-----------------------------------------------------------------------------
(* The order of what the TV says.                                          *)

\* An element of G, and after it only elements of N.
Ends(s, G, N) ==
  \E n \in 1..Len(s) : s[n] \in G /\ \A j \in (n+1)..Len(s) : s[j] \in N

AllIn(s, N) == \A j \in 1..Len(s) : s[j] \in N

LEMMA AppendEnds ==
  ASSUME NEW S, NEW s \in Seq(S), NEW x \in S, NEW G, NEW N
  PROVE  /\ x \in G => Ends(Append(s, x), G, N)
         /\ x \in N /\ Ends(s, G, N) => Ends(Append(s, x), G, N)
         /\ x \in N /\ AllIn(s, N) => AllIn(Append(s, x), N)
<1> DEFINE t == Append(s, x)
<1>1. Len(t) = Len(s) + 1 /\ t[Len(t)] = x /\ \A j \in 1..Len(s) : t[j] = s[j]
  OBVIOUS
<1>2. Len(s) \in Nat
  OBVIOUS
<1> HIDE DEF t
<1>3. x \in G => Ends(t, G, N)
  <2> SUFFICES ASSUME x \in G PROVE Ends(t, G, N)
    OBVIOUS
  <2>1. Len(t) \in 1..Len(t) /\ t[Len(t)] \in G
    BY <1>1, <1>2
  <2>2. \A j \in (Len(t) + 1)..Len(t) : t[j] \in N
    BY <1>1, <1>2
  <2> QED
    BY <2>1, <2>2 DEF Ends
<1>4. x \in N /\ Ends(s, G, N) => Ends(t, G, N)
  <2> SUFFICES ASSUME x \in N, Ends(s, G, N) PROVE Ends(t, G, N)
    OBVIOUS
  <2>1. PICK n \in 1..Len(s) : s[n] \in G /\ \A j \in (n+1)..Len(s) : s[j] \in N
    BY DEF Ends
  <2>2. n \in 1..Len(t) /\ t[n] \in G
    BY <1>1, <1>2, <2>1
  <2>3. ASSUME NEW j \in (n+1)..Len(t)
        PROVE  t[j] \in N
    BY <1>1, <1>2, <2>1, <2>3
  <2> QED
    BY <2>2, <2>3 DEF Ends
<1>5. x \in N /\ AllIn(s, N) => AllIn(t, N)
  BY <1>1, <1>2 DEF AllIn
<1> QED
  BY <1>3, <1>4, <1>5 DEF t

LEMMA ConcatOne ==
  ASSUME NEW S, NEW s \in Seq(S), NEW x \in S
  PROVE  s \o <<x>> = Append(s, x)
OBVIOUS

LEMMA TailEnds ==
  ASSUME NEW S, NEW s \in Seq(S), s # <<>>, NEW G, NEW N
  PROVE  /\ Ends(s, G, N) => \/ Ends(Tail(s), G, N)
                             \/ Head(s) \in G /\ AllIn(Tail(s), N)
         /\ AllIn(s, N) => Head(s) \in N /\ AllIn(Tail(s), N)
<1> DEFINE t == Tail(s)
<1>1. /\ Head(s) = s[1]
      /\ Len(t) = Len(s) - 1
      /\ \A j \in 1..Len(t) : t[j] = s[j + 1]
  BY HeadTailProperties
<1>2. Len(s) \in Nat \ {0}
  OBVIOUS
<1> HIDE DEF t
<1>3. ASSUME Ends(s, G, N)
      PROVE  Ends(t, G, N) \/ (Head(s) \in G /\ AllIn(t, N))
  <2>1. PICK n \in 1..Len(s) : s[n] \in G /\ \A j \in (n+1)..Len(s) : s[j] \in N
    BY <1>3 DEF Ends
  <2>2. CASE n = 1
    BY <1>1, <1>2, <2>1, <2>2 DEF AllIn
  <2>3. CASE n # 1
    <3>1. n - 1 \in 1..Len(t) /\ t[n - 1] = s[n]
      BY <1>1, <1>2, <2>1, <2>3
    <3>2. ASSUME NEW j \in ((n - 1) + 1)..Len(t)
          PROVE  t[j] \in N
      <4>1. j \in 1..Len(t) /\ j + 1 \in (n + 1)..Len(s)
        BY <1>1, <1>2, <2>1, <2>3, <3>2
      <4> QED
        BY <1>1, <2>1, <4>1
    <3> QED
      BY <2>1, <3>1, <3>2 DEF Ends
  <2> QED
    BY <2>2, <2>3
<1>4. ASSUME AllIn(s, N)
      PROVE  Head(s) \in N /\ AllIn(t, N)
  BY <1>1, <1>2, <1>4 DEF AllIn
<1> QED
  BY <1>3, <1>4 DEF t

LEMMA MoreEnds ==
  ASSUME NEW s, NEW G, NEW N, NEW H, NEW O, G \subseteq H, N \subseteq O
  PROVE  /\ Ends(s, G, N) => Ends(s, H, O)
         /\ AllIn(s, N) => AllIn(s, O)
<1>1. AllIn(s, N) => AllIn(s, O)
  BY DEF AllIn
<1>2. Ends(s, G, N) => Ends(s, H, O)
  BY DEF Ends
<1> QED
  BY <1>1, <1>2

LEMMA EmptyEnds == \A G, N : AllIn(<<>>, N) /\ ~ Ends(<<>>, G, N)
BY DEF AllIn, Ends

\* A message the reader will make nothing of that blanks or unblanks: where
\* the client is plugged in is settled before messages are drained.
Clear ==
  {m \in Messages : \/ m[1] \in {"key", "source"}
                    \/ m[1] = "path" /\ m[2] # hdmi /\ (pc = "messages" => m[2] # phys)}

\* A message the reader will take for the last word.
Tells ==
  {m \in Messages :
     \/ word = "standby" /\ m[1] = "standby"
     \/ word = "on" /\ m[1] = "view on"
     \/ word = "on" /\ m[1] = "path" /\ m[2] = hdmi /\ (pc = "messages" => phys = hdmi)}

ToldKind == IF word = "standby" THEN {"standby"} ELSE {"wake"}
ClearKinds == {"key", "source lost", "ready", "lost"}

ToldPost == IF word = "standby" THEN {"blank"} ELSE {"unblank"}
ClearPosts == {"dispatch", "status"}

\* The last word is on the screen, or the last that matters of what is on its
\* way: among the calls, the events or the messages, in this order.
InIdle ==
  \/ Ends(idle, ToldPost, ClearPosts)
  \/ AllIn(idle, ClearPosts) /\ blank = (word = "standby")
InOut == Ends(out, ToldKind, ClearKinds) \/ (AllIn(out, ClearKinds) /\ InIdle)
Heard == Ends(msgq, Tells, Clear) \/ (AllIn(msgq, Clear) /\ InOut)

WordInv ==
  /\ fd # "live" => word = "unknown"
  /\ word # "unknown" => Heard

\* Until messages are drained, poll has collected link changes only.
EventsOnly ==
  pc \notin {"messages", "deliver", "off", "dead"} => AllIn(out, {"lost", "ready"})

LEMMA EventsOnlyStep ==
  ASSUME TypeOK, EventsOnly, [Next]_vars
  PROVE  EventsOnly'
<1> USE DEF tv, queues, files, ui, vars
<1>1. ASSUME out' = out,
             pc' \in {"messages", "deliver", "off", "dead"}
               \/ pc \notin {"messages", "deliver", "off", "dead"} \/ out = <<>>
      PROVE  EventsOnly'
  BY <1>1, EmptyEnds DEF EventsOnly
<1>2. CASE OpenDevice \/ Setup \/ Claim \/ Announce \/ Retry \/ SafeClose
  BY <1>1, <1>2 DEF OpenDevice, Setup, Claim, Announce, Retry, SafeClose
<1>3. CASE Poll \/ EventsDrained \/ MessagesDrained
  BY <1>1, <1>3 DEF Poll, EventsDrained, MessagesDrained
<1>4. CASE DrainFails({"events then messages", "events", "messages"})
  BY <1>4, EmptyEnds DEF DrainFails, EventsOnly
<1>5. CASE StateChange \/ Reclaim
  <2>1. /\ pc \notin {"messages", "deliver", "off", "dead"}
        /\ out' \in {<<>>, out} \/ \E e \in {"lost", "ready"} : out' = Append(out, e)
    BY <1>5 DEF StateChange, Reclaim
  <2>2. CASE out' \in {<<>>, out}
    BY <2>1, <2>2, EmptyEnds DEF EventsOnly
  <2>3. ASSUME NEW e \in {"lost", "ready"}, out' = Append(out, e)
        PROVE  EventsOnly'
    <3>1. out \in Seq(Kinds) /\ e \in Kinds
      BY DEF TypeOK, Kinds
    <3>2. AllIn(out, {"lost", "ready"}) => AllIn(out', {"lost", "ready"})
      BY <2>3, <3>1, AppendEnds
    <3> QED
      BY <2>1, <3>2 DEF EventsOnly
  <2> QED
    BY <2>1, <2>2, <2>3
<1>6. CASE Receive
  BY <1>6 DEF Receive, EventsOnly
<1>7. CASE Deliver
  BY <1>1, <1>7 DEF Deliver, EventsOnly
<1>8. CASE RunIdle \/ StopSet \/ StopCloseFd \/ StopClosePipe
  BY <1>1, <1>8 DEF RunIdle, StopSet, StopCloseFd, StopClosePipe
<1>9. CASE LinkChange \/ DeviceLost \/ DeviceBack \/ Message \/ UNCHANGED vars
  BY <1>1, <1>9 DEF LinkChange, DeviceLost, DeviceBack, Message
<1> QED
  BY <1>2, <1>3, <1>4, <1>5, <1>6, <1>7, <1>8, <1>9 DEF Next, Reader

\* A step that moves nothing on its way; messages are read where the link is.
LEMMA QuietHears ==
  ASSUME WordInv, word' = word, hdmi' = hdmi, msgq' = msgq, out' = out,
         idle' = idle, blank' = blank, fd' # "live" => word = "unknown",
         pc' = "messages" => (pc = "messages" /\ phys' = phys) \/ phys' = hdmi
  PROVE  WordInv'
<1>1. Clear \subseteq Clear' /\ Tells \subseteq Tells'
  BY DEF Clear, Tells
<1>2. Ends(msgq, Tells, Clear) => Ends(msgq, Tells', Clear')
  BY <1>1, MoreEnds
<1>3. AllIn(msgq, Clear) => AllIn(msgq, Clear')
  BY <1>1, MoreEnds
<1>4. InOut' <=> InOut
  BY DEF InOut, InIdle, ToldKind, ToldPost
<1> QED
  BY <1>2, <1>3, <1>4 DEF WordInv, Heard

\* The events a broken-off drain takes with it hold no word of the TV.
LEMMA DrainHears ==
  ASSUME TypeOK, EventsOnly, WordInv, StateChange \/ Reclaim
  PROVE  WordInv'
<1>1. /\ word' = word /\ hdmi' = hdmi /\ msgq' = msgq /\ idle' = idle
      /\ blank' = blank /\ fd' = fd /\ pc' # "messages"
      /\ pc \notin {"messages", "deliver", "off", "dead"}
  BY DEF StateChange, Reclaim, tv, queues, files, ui
<1>2. out' \in {<<>>, out} \/ \E e \in {"lost", "ready"} : out' = Append(out, e)
  BY DEF StateChange, Reclaim
<1>3. CASE out' = out
  BY <1>1, <1>3, QuietHears DEF WordInv
<1>6. CASE out' = <<>>
  <2>1. Clear \subseteq Clear' /\ Tells \subseteq Tells'
    BY <1>1 DEF Clear, Tells
  <2>2. /\ Ends(msgq, Tells, Clear) => Ends(msgq, Tells', Clear')
        /\ AllIn(msgq, Clear) => AllIn(msgq, Clear')
    BY <2>1, MoreEnds
  <2>3. ~ Ends(out, ToldKind, ClearKinds)
    <3>1. \A n \in 1..Len(out) : out[n] \in {"lost", "ready"}
      BY <1>1 DEF EventsOnly, AllIn
    <3>2. ToldKind \cap {"lost", "ready"} = {}
      BY DEF ToldKind
    <3> QED
      BY <3>1, <3>2 DEF Ends
  <2>4. InIdle' <=> InIdle
    BY <1>1 DEF InIdle, ToldPost
  <2>5. AllIn(out', ClearKinds')
    BY <1>6, EmptyEnds
  <2>6. InOut => InOut'
    BY <2>3, <2>4, <2>5 DEF InOut
  <2> QED
    BY <1>1, <2>2, <2>6 DEF WordInv, Heard
<1>4. ASSUME NEW e \in {"lost", "ready"}, out' = Append(out, e)
      PROVE  WordInv'
  <2>1. Clear \subseteq Clear' /\ Tells \subseteq Tells'
    BY <1>1 DEF Clear, Tells
  <2>2. /\ Ends(msgq, Tells, Clear) => Ends(msgq, Tells', Clear')
        /\ AllIn(msgq, Clear) => AllIn(msgq, Clear')
    BY <2>1, MoreEnds
  <2>3. out \in Seq(Kinds) /\ e \in Kinds /\ e \in ClearKinds
    BY DEF TypeOK, Kinds, ClearKinds
  <2>4. /\ Ends(out, ToldKind, ClearKinds) => Ends(out', ToldKind, ClearKinds)
        /\ AllIn(out, ClearKinds) => AllIn(out', ClearKinds)
    BY <1>4, <2>3, AppendEnds
  <2>5. InIdle' <=> InIdle
    BY <1>1 DEF InIdle, ToldPost
  <2>6. ToldKind' = ToldKind
    BY <1>1 DEF ToldKind
  <2>7. InOut => InOut'
    BY <2>4, <2>5, <2>6 DEF InOut, ClearKinds
  <2> QED
    BY <1>1, <2>2, <2>7 DEF WordInv, Heard
<1> QED
  BY <1>2, <1>3, <1>4, <1>6

\* What a message of each sort is decoded to.
LEMMA DecodeTells ==
  ASSUME NEW m \in Messages, pc = "messages", word # "unknown", word \in {"unknown", "standby", "on"}
  PROVE  /\ m \in Tells => \E e \in ToldKind : Decode(m) = <<e>>
         /\ m \in Clear => Decode(m) = <<>> \/ \E e \in ClearKinds : Decode(m) = <<e>>
<1>1. m \in Tells => \E e \in ToldKind : Decode(m) = <<e>>
  BY DEF Tells, Decode, ToldKind
<1>2. ASSUME m \in Clear
      PROVE  Decode(m) = <<>> \/ \E e \in ClearKinds : Decode(m) = <<e>>
  BY <1>2 DEF Clear, Decode, ClearKinds
<1> QED
  BY <1>1, <1>2

LEMMA ReceiveHears ==
  ASSUME TypeOK, WordInv, Receive
  PROVE  WordInv'
<1>1. /\ word' = word /\ hdmi' = hdmi /\ idle' = idle /\ blank' = blank
      /\ fd' = fd /\ pc' = pc /\ phys' = phys /\ pc = "messages"
      /\ msgq # <<>> /\ msgq' = Tail(msgq) /\ out' = out \o Decode(Head(msgq))
  BY DEF Receive, tv, files, ui
<1>2. CASE word = "unknown"
  BY <1>1, <1>2 DEF WordInv
<1>3. CASE word # "unknown"
  <2> DEFINE m == Head(msgq)
  <2>1. m \in Messages /\ msgq \in Seq(Messages) /\ out \in Seq(Kinds)
    BY <1>1 DEF TypeOK
  <2>2. /\ m \in Tells => \E e \in ToldKind : Decode(m) = <<e>>
        /\ m \in Clear => Decode(m) = <<>> \/ \E e \in ClearKinds : Decode(m) = <<e>>
    BY <1>1, <1>3, <2>1, DecodeTells DEF TypeOK
  <2>3. /\ Ends(msgq, Tells, Clear) =>
             Ends(msgq', Tells, Clear) \/ (m \in Tells /\ AllIn(msgq', Clear))
        /\ AllIn(msgq, Clear) => m \in Clear /\ AllIn(msgq', Clear)
    BY <1>1, <2>1, TailEnds
  <2> HIDE DEF m
  <2>4. /\ Clear' = Clear /\ Tells' = Tells /\ ToldKind' = ToldKind
        /\ (InIdle' <=> InIdle)
    BY <1>1 DEF Clear, Tells, ToldKind, InIdle, ToldPost
  <2>5. ASSUME NEW e \in Kinds, Decode(m) = <<e>>
        PROVE  out' = Append(out, e)
    BY <1>1, <2>1, <2>5, ConcatOne DEF m
  <2>6. ToldKind \subseteq Kinds /\ ClearKinds \subseteq Kinds
    BY DEF ToldKind, ClearKinds, Kinds
  <2>7. m \in Tells => InOut'
    <3> SUFFICES ASSUME m \in Tells PROVE InOut'
      OBVIOUS
    <3>1. PICK e \in ToldKind : Decode(m) = <<e>>
      BY <2>2
    <3>2. out' = Append(out, e) /\ e \in Kinds
      BY <2>5, <2>6, <3>1
    <3>3. Ends(out', ToldKind, ClearKinds)
      BY <2>1, <3>1, <3>2, AppendEnds
    <3> QED
      BY <2>4, <3>3 DEF InOut, ClearKinds
  <2>8. m \in Clear /\ InOut => InOut'
    <3> SUFFICES ASSUME m \in Clear, InOut PROVE InOut'
      OBVIOUS
    <3>1. CASE Decode(m) = <<>>
      <4>1. out' = out
        BY <1>1, <2>1, <3>1 DEF m
      <4> QED
        BY <2>4, <4>1 DEF InOut, ClearKinds
    <3>2. ASSUME NEW e \in ClearKinds, Decode(m) = <<e>>
          PROVE  InOut'
      <4>1. out' = Append(out, e) /\ e \in Kinds
        BY <2>5, <2>6, <3>2
      <4>2. /\ Ends(out, ToldKind, ClearKinds) => Ends(out', ToldKind, ClearKinds)
            /\ AllIn(out, ClearKinds) => AllIn(out', ClearKinds)
        BY <2>1, <4>1, AppendEnds
      <4> QED
        BY <2>4, <4>2 DEF InOut, ClearKinds
    <3> QED
      BY <2>2, <3>1, <3>2
  <2> QED
    BY <1>1, <1>3, <2>3, <2>4, <2>7, <2>8 DEF WordInv, Heard
<1> QED
  BY <1>2, <1>3

LEMMA DeliverHears ==
  ASSUME TypeOK, WordInv, Deliver
  PROVE  WordInv'
<1>1. /\ word' = word /\ hdmi' = hdmi /\ msgq' = msgq /\ blank' = blank
      /\ fd' = fd /\ phys' = phys /\ pc = "deliver" /\ pc' # "messages"
  BY DEF Deliver, tv, files, queues, Unless
<1>2. CASE out = <<>>
  <2>1. out' = out /\ idle' = idle
    BY <1>2 DEF Deliver
  <2> QED
    BY <1>1, <2>1, QuietHears DEF WordInv
<1>3. CASE out # <<>>
  <2> DEFINE e == Head(out)
  <2>1. out' = Tail(out) /\ idle' = idle \o Posted(e) /\ e \in Kinds
        /\ out \in Seq(Kinds) /\ idle \in Seq(Posts)
    BY <1>3 DEF Deliver, TypeOK
  <2>2. /\ Ends(out, ToldKind, ClearKinds) =>
             Ends(out', ToldKind, ClearKinds) \/ (e \in ToldKind /\ AllIn(out', ClearKinds))
        /\ AllIn(out, ClearKinds) => e \in ClearKinds /\ AllIn(out', ClearKinds)
    BY <1>3, <2>1, TailEnds
  <2> HIDE DEF e
  <2>3. /\ Clear \subseteq Clear' /\ Tells \subseteq Tells' /\ ToldKind' = ToldKind
        /\ ToldPost' = ToldPost
    BY <1>1 DEF Clear, Tells, ToldKind, ToldPost
  <2>4. /\ Ends(msgq, Tells, Clear) => Ends(msgq, Tells', Clear')
        /\ AllIn(msgq, Clear) => AllIn(msgq, Clear')
    BY <2>3, MoreEnds
  <2>5. ASSUME NEW p \in Posts, Posted(e) = <<p>>
        PROVE  idle' = Append(idle, p)
    BY <2>1, <2>5
  <2>6. e \in ToldKind => InIdle'
    <3> SUFFICES ASSUME e \in ToldKind PROVE InIdle'
      OBVIOUS
    <3>1. PICK p \in ToldPost : Posted(e) = <<p>> /\ p \in Posts
      BY DEF ToldKind, ToldPost, Posted, Posts
    <3>2. idle' = Append(idle, p)
      BY <2>5, <3>1
    <3>3. Ends(Append(idle, p), ToldPost, ClearPosts)
      BY <2>1, <3>1, AppendEnds
    <3> QED
      BY <2>3, <3>2, <3>3 DEF InIdle, ClearPosts
  <2>7. e \in ClearKinds /\ InIdle => InIdle'
    <3> SUFFICES ASSUME e \in ClearKinds, InIdle PROVE InIdle'
      OBVIOUS
    <3>1. Posted(e) = <<>> \/ \E p \in ClearPosts : Posted(e) = <<p>> /\ p \in Posts
      BY DEF ClearKinds, ClearPosts, Posted, Posts
    <3>2. CASE Posted(e) = <<>>
      <4>1. idle' = idle
        BY <2>1, <3>2
      <4> QED
        BY <1>1, <2>3, <4>1 DEF InIdle, ClearPosts
    <3>3. ASSUME NEW p \in ClearPosts, Posted(e) = <<p>>, p \in Posts
          PROVE  InIdle'
      <4>2. idle' = Append(idle, p)
        BY <2>5, <3>3
      <4>3. /\ Ends(idle, ToldPost, ClearPosts) => Ends(Append(idle, p), ToldPost, ClearPosts)
            /\ AllIn(idle, ClearPosts) => AllIn(Append(idle, p), ClearPosts)
        BY <2>1, <3>3, AppendEnds
      <4>1. /\ Ends(idle, ToldPost, ClearPosts) => Ends(idle', ToldPost, ClearPosts)
            /\ AllIn(idle, ClearPosts) => AllIn(idle', ClearPosts)
        BY <4>2, <4>3
      <4> QED
        BY <1>1, <2>3, <4>1 DEF InIdle, ClearPosts
    <3> QED
      BY <3>1, <3>2, <3>3
  <2>8. InOut => InOut'
    BY <2>2, <2>3, <2>6, <2>7 DEF InOut, ClearKinds
  <2> QED
    BY <1>1, <2>4, <2>8 DEF WordInv, Heard
<1> QED
  BY <1>2, <1>3

LEMMA RunIdleHears ==
  ASSUME TypeOK, WordInv, RunIdle
  PROVE  WordInv'
<1>1. /\ word' = word /\ hdmi' = hdmi /\ msgq' = msgq /\ out' = out
      /\ fd' = fd /\ phys' = phys /\ pc' = pc
      /\ idle # <<>> /\ idle' = Tail(idle) /\ idle \in Seq(Posts)
  BY DEF RunIdle, tv, files, queues, TypeOK
<1>2. CASE word = "unknown"
  BY <1>1, <1>2 DEF WordInv
<1>3. CASE word # "unknown"
  <2>1. word \in {"standby", "on"}
    BY <1>3 DEF TypeOK
  <2>2. /\ Ends(idle, ToldPost, ClearPosts) =>
             Ends(idle', ToldPost, ClearPosts) \/ (Head(idle) \in ToldPost /\ AllIn(idle', ClearPosts))
        /\ AllIn(idle, ClearPosts) => Head(idle) \in ClearPosts /\ AllIn(idle', ClearPosts)
    BY <1>1, TailEnds
  <2>3. /\ Head(idle) \in ToldPost => blank' = (word = "standby")
        /\ Head(idle) \in ClearPosts => blank' = blank
    BY <2>1 DEF RunIdle, ToldPost, ClearPosts
  <2>4. InIdle => InIdle'
    BY <1>1, <2>2, <2>3 DEF InIdle, ToldPost, ClearPosts
  <2>5. InOut => InOut'
    BY <1>1, <2>4 DEF InOut, ToldKind, ClearKinds
  <2> QED
    BY <1>1, <2>5 DEF WordInv, Heard, Tells, Clear
<1> QED
  BY <1>2, <1>3

LEMMA MessageHears ==
  ASSUME TypeOK, WordInv, Message
  PROVE  WordInv'
<1>1. /\ hdmi' = hdmi /\ out' = out /\ idle' = idle /\ blank' = blank
      /\ fd' = fd /\ fd = "live" /\ phys' = phys /\ pc' = pc /\ msgq \in Seq(Messages)
  BY DEF Message, tv, files, ui, TypeOK
<1>2. PICK m \in Messages : msgq' = Append(msgq, m) /\ word' = Said(m)
  BY CecAssumption DEF Message
<1>3. CASE word' = "unknown"
  BY <1>1, <1>3 DEF WordInv
<1>4. CASE word' # "unknown"
  <2>1. Clear' = Clear
    BY <1>1 DEF Clear
  <2>2. m \in Tells' \/ (m \in Clear /\ word' = word)
    <3>1. CASE m[1] \in {"standby", "view on"}
      BY <1>2, <3>1 DEF Said, Tells
    <3>2. CASE m[1] \in {"key", "source"}
      BY <1>2, <3>2 DEF Said, Clear
    <3>3. CASE m[1] = "path"
      <4>1. CASE m[2] = hdmi /\ hdmi = phys /\ evq = <<>>
        <5>1. word' = "on"
          BY <1>2, <3>3, <4>1 DEF Said
        <5> QED
          BY <1>1, <3>3, <4>1, <5>1 DEF Tells
      <4>2. CASE ~ (m[2] = hdmi /\ hdmi = phys /\ evq = <<>>)
        <5>1. m[2] \notin {hdmi, phys} /\ word' = word
          BY <1>2, <1>4, <3>3, <4>2 DEF Said
        <5> QED
          BY <3>3, <5>1 DEF Clear
      <4> QED
        BY <4>1, <4>2
    <3> QED
      BY <3>1, <3>2, <3>3 DEF Messages
  <2>3. CASE m \in Tells'
    <3>1. Ends(msgq', Tells', Clear')
      BY <1>1, <1>2, <2>3, AppendEnds
    <3> QED
      BY <1>1, <3>1 DEF WordInv, Heard
  <2>4. CASE m \in Clear /\ word' = word
    <3>1. Tells' = Tells
      BY <1>1, <2>4 DEF Tells
    <3>2. /\ Ends(msgq, Tells, Clear) => Ends(msgq', Tells', Clear')
          /\ AllIn(msgq, Clear) => AllIn(msgq', Clear')
      BY <1>1, <1>2, <2>1, <2>4, <3>1, AppendEnds
    <3>3. InOut' <=> InOut
      BY <1>1, <2>4 DEF InOut, InIdle, ToldKind, ToldPost
    <3> QED
      BY <1>1, <1>4, <2>4, <3>2, <3>3 DEF WordInv, Heard
  <2> QED
    BY <2>2, <2>3, <2>4
<1> QED
  BY <1>3, <1>4

LEMMA WordStep ==
  ASSUME IInv, EventsOnly, WordInv, [Next]_vars
  PROVE  WordInv'
<1> USE DEF tv, queues, files, ui, vars
<1>1. CASE OpenDevice \/ SafeClose \/ StopCloseFd \/ LinkChange \/ DeviceLost
  <2>1. word' = "unknown" \/ (OpenDevice /\ ~ node)
    BY <1>1 DEF OpenDevice, SafeClose, StopCloseFd, CloseFd, LinkChange, DeviceLost
  <2>2. CASE OpenDevice /\ ~ node
    BY <2>2, QuietHears DEF OpenDevice, WordInv
  <2> QED
    BY <2>1, <2>2 DEF WordInv
<1>2. CASE Setup \/ Claim \/ Announce \/ Retry \/ MessagesDrained
  BY <1>2, QuietHears DEF Setup, Claim, Announce, Unless,
     Retry, MessagesDrained, WordInv
<1>3. CASE Poll \/ EventsDrained
  <2>1. pc' = "messages" => phys = hdmi
    <3>1. pc' = "messages" => fd = "live" /\ evq = <<>> /\ pc \in Working
      BY <1>3 DEF Poll, EventsDrained, Unless, Working, Ended
    <3> QED
      BY <3>1 DEF IInv, LinkQueued
  <2> QED
    BY <1>3, <2>1, QuietHears DEF Poll, EventsDrained, WordInv
<1>4. CASE DrainFails({"events then messages", "events", "messages"})
  BY <1>4 DEF DrainFails, WordInv
<1>5. CASE StopSet \/ StopClosePipe \/ DeviceBack \/ UNCHANGED vars
  BY <1>5, QuietHears DEF StopSet, StopClosePipe, DeviceBack, WordInv
<1> QED
  BY <1>1, <1>2, <1>3, <1>4, <1>5, DrainHears, ReceiveHears, DeliverHears,
     RunIdleHears, MessageHears
     DEF Next, Reader, IInv

\* With nothing under way the screen is blank exactly if the TV's last word
\* was <Standby>, for any messages, plugs and queue lengths (poll, _pump,
\* _on_cec_event and the main loop keep the order).
THEOREM LastWordAlwaysWins == Spec => []LastWordWins
<1>1. Init => EventsOnly /\ WordInv
  BY EmptyEnds DEF Init, EventsOnly, WordInv
<1>3. IInv /\ EventsOnly /\ WordInv /\ [Next]_vars => (EventsOnly /\ WordInv)'
  BY EventsOnlyStep, WordStep DEF IInv
<1>2. WordInv => LastWordWins
  BY EmptyEnds DEF WordInv, Heard, InOut, InIdle, LastWordWins
<1> QED
  BY <1>1, <1>2, <1>3, ReaderInvariant, PTL DEF Spec

=============================================================================
