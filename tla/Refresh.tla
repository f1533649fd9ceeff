------------------------------- MODULE Refresh -------------------------------
(***************************************************************************)
(* The configuration refresh of controller.py and the cache file of api.py *)
(* (ConfigCache): timers fetch the allowed list, save it to the cache and  *)
(* hand it to the GTK loop; a start shows the cache until the server has   *)
(* answered.                                                               *)
(*                                                                         *)
(* A chain is a succession of timers, each armed by the one before it in   *)
(* _refresh's finally.  attach starts the first; approval of the device    *)
(* (_poll_registration, _register_from_setup) starts a second one without  *)
(* ending the first.  The steps of a chain run on timer threads and        *)
(* interleave with each other, with the main loop and with a power cut.    *)
(*                                                                         *)
(* A list is the number of the server's change that made it, so that a     *)
(* greater list is a later one; 0 stands for none.  Files are inodes: a    *)
(* path names one, a rename moves the name, and a thread that opened a     *)
(* file goes on writing to the same inode whatever its name has become.    *)
(* What was written survives a power cut as it stands: the delay between   *)
(* a write and the disk is not modelled.                                   *)
(***************************************************************************)
EXTENDS Naturals, Sequences

CONSTANTS
  Boot,         \* the chain attach starts
  Approval,     \* the chain an approval starts
  Chains,       \* the chains of this instance: Boot, or both
  Inodes,       \* the file system's
  NoFile,       \* a path that names no file
  EmptyLists,   \* the lists that allow no dashboard
  MaxVersion,   \* bound on the server's changes
  MaxIdle,      \* bound on the calls waiting for the main loop
  MaxCuts       \* bound on power cuts and stops

ASSUME RefreshAssumption ==
  /\ Boot \in Chains
  /\ Approval # Boot
  /\ NoFile \notin Inodes
  /\ MaxVersion \in Nat \ {0}
  /\ MaxIdle \in Nat \ {0}
  /\ MaxCuts \in Nat

\* A file can always be created; it is the write that finds no room.
ASSUME InodesAssumption ==
  \A f \in [Chains -> Inodes \cup {NoFile}], t, c \in Inodes \cup {NoFile} :
    \E i \in Inodes : i \notin {t, c} \cup {f[x] : x \in Chains}

VARIABLES
  version,    \* the list the server allows now
  link,       \* what a request meets
  disk,       \* whether a write succeeds
  cuts,       \* power cuts and stops so far
  up,         \* the process runs
  stopped,    \* _stopped
  approved,   \* the approval has come, in this run or an earlier one
  timer,      \* the chain whose timer _refresh_timer is
  pc,         \* where each chain is
  got,        \* the list each chain was given
  fd,         \* the inode each chain writes to
  content,    \* the list in each inode, 0 when it is no whole list
  tmp,        \* the inode the path client-config.tmp names
  cache,      \* the inode the path client-config.json names
  idle,       \* lists waiting for the main loop, oldest first
  shown       \* the list on screen, 0 for the placeholder

env == <<version, link, disk, cuts>>
files == <<content, tmp, cache>>
vars == <<env, up, stopped, approved, timer, pc, got, fd, files, idle, shown>>

\* A list comes back; ApiError, AuthError included; any other exception.
Links == {"up", "down", "garbled"}

\* Where a chain can be: no timer and no thread; a timer set; the request
\* sent; the three system calls of save; the call posted; about to check
\* _stopped; and about to set a timer, having found it unset.
Places ==
  {"off", "armed", "fetch", "open", "write", "rename", "post", "rearm", "arm"}

\* The list a start would find in the cache.
Cached == IF cache = NoFile THEN 0 ELSE content[cache]

-----------------------------------------------------------------------------
\* A step of a chain to pc p, touching nothing but what the caller says.
Goto(c, p) == pc' = [pc EXCEPT ![c] = p]

\* The timer runs out.  _refresh does not look at _stopped.
Fire(c) ==
  /\ pc[c] = "armed"
  /\ Goto(c, "fetch")
  /\ UNCHANGED <<env, up, stopped, approved, timer, got, fd, files, idle, shown>>

\* Mutation: an exception that is no ApiError leaves the thread at once.
RespondOrDie(c) ==
  /\ pc[c] = "fetch"
  /\ CASE link = "up" -> Goto(c, "open") /\ got' = [got EXCEPT ![c] = version]
       [] link = "garbled" -> Goto(c, "off") /\ UNCHANGED got
       [] OTHER -> Goto(c, "rearm") /\ UNCHANGED got
  /\ UNCHANGED <<env, up, stopped, approved, timer, fd, files, idle, shown>>

\* fetch_client_config: a list, or an exception of whatever class, which the
\* finally sees as well as the handlers do.
Respond(c) ==
  /\ pc[c] = "fetch"
  /\ IF link = "up"
       THEN Goto(c, "open") /\ got' = [got EXCEPT ![c] = version]
       ELSE Goto(c, "rearm") /\ UNCHANGED got
  /\ UNCHANGED <<env, up, stopped, approved, timer, fd, files, idle, shown>>

\* An inode that has no name and is not open.
NewFile ==
  CHOOSE i \in Inodes : i \notin {tmp, cache} \cup {fd[c] : c \in Chains}

\* Mutation: the cache file is written in place.
OpenInPlace(c) ==
  /\ pc[c] = "open"
  /\ LET i == IF cache = NoFile THEN NewFile ELSE cache
     IN  /\ content' = [content EXCEPT ![i] = 0]
         /\ fd' = [fd EXCEPT ![c] = i]
         /\ tmp' = i
         /\ cache' = i
  /\ Goto(c, "write")
  /\ UNCHANGED <<env, up, stopped, approved, timer, got, idle, shown>>

\* Mutation: the list is handed over before it is saved.
PostFirst(c) ==
  /\ pc[c] = "open"
  /\ Len(idle) < MaxIdle
  /\ idle' = Append(idle, got[c])
  /\ Goto(c, "write")
  /\ fd' = [fd EXCEPT ![c] = NewFile]
  /\ tmp' = NewFile
  /\ UNCHANGED <<env, up, stopped, approved, timer, got, content, cache, shown>>

\* tmp.write_text, the open: the file is created, or emptied if it exists.
OpenTmp(c) ==
  /\ pc[c] = "open"
  /\ LET i == IF tmp = NoFile THEN NewFile ELSE tmp
     IN  /\ content' = [content EXCEPT ![i] = 0]
         /\ fd' = [fd EXCEPT ![c] = i]
         /\ tmp' = i
  /\ Goto(c, "write")
  /\ UNCHANGED <<env, up, stopped, approved, timer, got, cache, idle, shown>>

\* tmp.write_text, the write: from the start of the file, so that over a
\* different list it may leave the end of that one.
WriteTmp(c) ==
  /\ pc[c] = "write"
  /\ IF disk = "ok"
       THEN /\ \E x \in IF content[fd[c]] \in {0, got[c]} THEN {got[c]} ELSE {got[c], 0} :
                 content' = [content EXCEPT ![fd[c]] = x]
            /\ Goto(c, "rename")
       ELSE Goto(c, "rearm") /\ UNCHANGED content
  /\ fd' = [fd EXCEPT ![c] = NoFile]
  /\ UNCHANGED <<env, up, stopped, approved, timer, got, tmp, cache, idle, shown>>

\* tmp.replace: FileNotFoundError if another chain has renamed the file.
Rename(c) ==
  /\ pc[c] = "rename"
  /\ IF tmp = NoFile
       THEN Goto(c, "rearm") /\ UNCHANGED <<tmp, cache>>
       ELSE Goto(c, "post") /\ cache' = tmp /\ tmp' = NoFile
  /\ UNCHANGED <<env, up, stopped, approved, timer, got, fd, content, idle, shown>>

\* idle(self._apply, client_config, False)
Post(c) ==
  /\ pc[c] = "post"
  /\ Len(idle) < MaxIdle
  /\ idle' = Append(idle, got[c])
  /\ Goto(c, "rearm")
  /\ UNCHANGED <<env, up, stopped, approved, timer, got, fd, files, shown>>

\* _schedule_refresh, the test; it is not in one step with what follows.
Check(c) ==
  /\ pc[c] = "rearm"
  /\ Goto(c, IF stopped THEN "off" ELSE "arm")
  /\ UNCHANGED <<env, up, stopped, approved, timer, got, fd, files, idle, shown>>

\* _schedule_refresh, the new timer.
Arm(c) ==
  /\ pc[c] = "arm"
  /\ Goto(c, "armed")
  /\ timer' = c
  /\ UNCHANGED <<env, up, stopped, approved, got, fd, files, idle, shown>>

Chain(c) ==
  \/ Fire(c) \/ Respond(c)
  \/ OpenTmp(c) \/ WriteTmp(c) \/ Rename(c) \/ Post(c)
  \/ Check(c) \/ Arm(c)

-----------------------------------------------------------------------------
\* Mutation: the last call posted is run first.
ApplyLastPosted ==
  /\ up /\ ~ stopped
  /\ idle # <<>>
  /\ shown' = idle[Len(idle)]
  /\ idle' = SubSeq(idle, 1, Len(idle) - 1)
  /\ UNCHANGED <<env, up, stopped, approved, timer, pc, got, fd, files>>

\* The main loop runs the oldest _apply waiting.
ApplyPosted ==
  /\ up /\ ~ stopped
  /\ idle # <<>>
  /\ shown' = Head(idle)
  /\ idle' = Tail(idle)
  /\ UNCHANGED <<env, up, stopped, approved, timer, pc, got, fd, files>>

\* The registration worker calls _schedule_refresh(0.5) on approval.
Approve ==
  /\ up /\ ~ approved
  /\ Approval \in Chains
  /\ approved' = TRUE
  /\ Goto(Approval, "rearm")
  /\ UNCHANGED <<env, up, stopped, timer, got, fd, files, idle, shown>>

\* Mutation: stop drops the timer it cancels.
StopForgets ==
  /\ up /\ ~ stopped
  /\ cuts < MaxCuts
  /\ cuts' = cuts + 1
  /\ stopped' = TRUE
  /\ timer' = NoFile
  /\ pc' = [c \in Chains |-> IF c = timer /\ pc[c] = "armed" THEN "off" ELSE pc[c]]
  /\ UNCHANGED <<version, link, disk, up, approved, got, fd, files, idle, shown>>

\* stop cancels the one timer it knows, if that has not run out.
Stop ==
  /\ up /\ ~ stopped
  /\ cuts < MaxCuts
  /\ cuts' = cuts + 1
  /\ stopped' = TRUE
  /\ pc' = [c \in Chains |-> IF c = timer /\ pc[c] = "armed" THEN "off" ELSE pc[c]]
  /\ UNCHANGED <<version, link, disk, up, approved, timer, got, fd, files, idle, shown>>

\* The process ends; its threads, timers and open files end with it.
Down ==
  /\ up' = FALSE
  /\ stopped' = FALSE
  /\ pc' = [c \in Chains |-> "off"]
  /\ got' = [c \in Chains |-> 0]
  /\ fd' = [c \in Chains |-> NoFile]
  /\ idle' = <<>>
  /\ shown' = 0
  /\ UNCHANGED <<version, link, disk, approved, timer, files>>

\* main returns after stop.
Exit == up /\ stopped /\ Down /\ UNCHANGED cuts

PowerCut ==
  /\ up /\ cuts < MaxCuts
  /\ cuts' = cuts + 1
  /\ Down

\* Mutation: a start that has something to show does not ask the server.
StartFromCache ==
  /\ ~ up
  /\ up' = TRUE
  /\ shown' = IF Cached \in EmptyLists THEN 0 ELSE Cached
  /\ IF shown' = 0 THEN Goto(Boot, "armed") ELSE UNCHANGED pc
  /\ timer' = Boot
  /\ UNCHANGED <<env, stopped, approved, got, fd, files, idle>>

\* attach: the cache is shown unless it is unreadable or allows nothing, and
\* the first timer is set.
Start ==
  /\ ~ up
  /\ up' = TRUE
  /\ shown' = IF Cached \in EmptyLists THEN 0 ELSE Cached
  /\ Goto(Boot, "armed")
  /\ timer' = Boot
  /\ UNCHANGED <<env, stopped, approved, got, fd, files, idle>>

\* The server, the network and the disk change as they like.
ServerChange ==
  /\ version < MaxVersion
  /\ version' = version + 1
  /\ UNCHANGED <<link, disk, cuts>>

LinkChange == link' \in Links /\ UNCHANGED <<version, disk, cuts>>

DiskChange == disk' \in {"ok", "full"} /\ UNCHANGED <<version, link, cuts>>

Environment ==
  /\ ServerChange \/ LinkChange \/ DiskChange
  /\ UNCHANGED <<up, stopped, approved, timer, pc, got, fd, files, idle, shown>>

-----------------------------------------------------------------------------
Init ==
  /\ version = 1
  /\ link \in Links
  /\ disk = "ok"
  /\ cuts = 0
  /\ up = FALSE
  /\ stopped = FALSE
  /\ approved = FALSE
  /\ timer = Boot
  /\ pc = [c \in Chains |-> "off"]
  /\ got = [c \in Chains |-> 0]
  /\ fd = [c \in Chains |-> NoFile]
  /\ content = [i \in Inodes |-> 0]
  /\ tmp = NoFile
  /\ cache = NoFile
  /\ idle = <<>>
  /\ shown = 0

Next ==
  \/ \E c \in Chains : Chain(c)
  \/ ApplyPosted
  \/ Approve
  \/ Stop
  \/ Exit
  \/ PowerCut
  \/ Start
  \/ Environment

Spec == Init /\ [][Next]_vars

\* Timers run out, requests end (request_timeout), threads and the main loop
\* are scheduled, and the daemon is started again.  Nothing is asked of the
\* server, the network, the disk, or whoever approves and stops.
Fairness ==
  /\ \A c \in Chains : WF_vars(Chain(c))
  /\ WF_vars(ApplyPosted)
  /\ WF_vars(Exit)
  /\ WF_vars(Start)

FairSpec == Spec /\ Fairness

-----------------------------------------------------------------------------
(* Properties.                                                             *)

Versions == 0..MaxVersion

\* Every variable has its type.
TypeOK ==
  /\ version \in Versions
  /\ link \in Links
  /\ disk \in {"ok", "full"}
  /\ cuts \in 0..MaxCuts
  /\ up \in BOOLEAN
  /\ stopped \in BOOLEAN
  /\ approved \in BOOLEAN
  /\ timer \in Chains
  /\ pc \in [Chains -> Places]
  /\ got \in [Chains -> Versions]
  /\ fd \in [Chains -> Inodes \cup {NoFile}]
  /\ content \in [Inodes -> Versions]
  /\ tmp \in Inodes \cup {NoFile}
  /\ cache \in Inodes \cup {NoFile}
  /\ idle \in Seq(Versions)
  /\ shown \in Versions

\* Once there is a cache file it holds a whole list, in every state a power
\* cut can leave behind (ConfigCache.save and test_cache_write_is_atomic).
CacheReadable == cache # NoFile => content[cache] # 0

\* A list is on screen only once it, or a later one, is in the cache, so that
\* no power cut takes a viewer back to an older list (_refresh saves before
\* it posts, and ConfigCache is the last known-good list).
CacheNotBehind == shown <= Cached

\* While the process runs the screen only moves to later lists: no answer is
\* applied after a later one (the chain and the idle queue keep the order).
NeverBack == [][up /\ up' => shown' >= shown]_vars

\* A viewer who has been shown a list is shown no older one ever after, over
\* any number of power cuts, restarts and failed saves (_refresh saves before
\* it posts; attach shows what was saved): at worst the placeholder.
NeverOlder ==
  \A n \in Versions :
    [](shown >= n => [](shown = 0 \/ shown >= n))

\* Until stop, the first chain has a timer or a thread: no answer, exception,
\* full disk or lost file ends the refreshing of a running client.
KeepsRefreshing == up /\ ~ stopped => pc[Boot] # "off"

\* Once the server stays reachable and the disk writable, the screen shows
\* the server's list, whatever outages, power cuts, full disks or restarts
\* came before (S001: "restoring it resyncs within refresh-interval").
Resync == <>[](link = "up" /\ disk = "ok") => <>[](up => shown = version)

=============================================================================
