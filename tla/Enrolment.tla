------------------------------ MODULE Enrolment ------------------------------
(***************************************************************************)
(* First-boot enrolment (firstrun.py, and the enrolment part of            *)
(* controller.py, ui/setup.py and ui/kiosk_window.py): an address comes    *)
(* from the settings, from DHCP or from a person at the setup screen, the  *)
(* device registers there, and keeps asking until an administrator has     *)
(* approved it and the server hands out its token, once.                   *)
(*                                                                         *)
(* Two kinds of thread ask: the worker the setup screen starts, and the    *)
(* chain of timers that polls.  Each takes a copy of self._config, waits   *)
(* for the network with it, and stores it back.  They interleave with the  *)
(* main loop, the administrator, the network and power cuts.               *)
(*                                                                         *)
(* The device has one id (config.ensure_device_id).  saved is what         *)
(* config.load would return; how it is kept in files is not modelled, and  *)
(* neither is a snap set while the client runs, which restarts it.  A stop *)
(* is a power cut: every thread here is a daemon and main returns.         *)
(***************************************************************************)
EXTENDS Naturals, FiniteSets

CONSTANTS
  Addresses,  \* addresses one can type or DHCP can offer
  NoUrl,      \* server_url = ""
  Server,     \* the address at which the server is
  Offers,     \* what DHCP may offer at a start, NoUrl for nothing
  Presets,    \* the settings a device may be delivered with
  Threads,    \* bound on the threads and timers of this module
  Idle,       \* a thread that does not exist
  MaxCuts     \* bound on power cuts

Settings == [url : Addresses \cup {NoUrl}, token : BOOLEAN]

ASSUME EnrolmentAssumption ==
  /\ NoUrl \notin Addresses
  /\ Server \in Addresses
  /\ Offers \subseteq Addresses \cup {NoUrl}
  /\ Presets \subseteq Settings
  /\ Idle \notin {"setup", "poll"}
  /\ MaxCuts \in Nat

VARIABLES
  record,      \* the server's record of this device
  issued,      \* the token has been handed out
  link,        \* whether requests and answers pass
  disk,        \* whether persist succeeds
  cuts,        \* power cuts so far
  saved,       \* the settings a start finds
  up,          \* the process runs
  config,      \* self._config
  job,         \* what each thread is
  pc,          \* where each thread is
  asked,       \* the copy of self._config each thread works with
  posted,      \* calls waiting for the main loop
  died,        \* auxiliary: an exception has ended a thread of this process
  needsSetup,  \* _needs_setup
  editable     \* the entry of the setup screen is sensitive

server == <<record, issued>>
world == <<link, disk, cuts>>
threads == <<job, pc, asked, died>>
screen == <<posted, needsSetup, editable>>
vars == <<server, world, saved, up, config, threads, screen>>

Blank == [url |-> NoUrl, token |-> FALSE]

Jobs == {Idle, "setup", "poll"}

\* The thread or timer is set; the request is out; the three answers on
\* their way back; the token saved; an ApiError; nothing was asked.
Places == {"armed", "asking", "pending", "approved", "token", "kept", "error", "skipped"}

\* persist: the settings become s, or the disk does not take them.
Persist(s) == saved' = IF disk = "ok" THEN s ELSE saved

-----------------------------------------------------------------------------
\* attempt_registration, up to the request.
Ask(t) ==
  /\ job[t] # Idle /\ pc[t] = "armed"
  /\ asked' = [asked EXCEPT ![t] = config]
  /\ pc' = [pc EXCEPT ![t] =
              IF config.url = NoUrl \/ config.token THEN "skipped" ELSE "asking"]
  /\ UNCHANGED <<server, world, saved, up, config, job, died, screen>>

\* The server registers the device, or answers for its record.
Answer(t) ==
  /\ job[t] # Idle /\ pc[t] = "asking"
  /\ link = "up" /\ asked[t].url = Server
  /\ record' = IF record = "none" THEN "pending" ELSE record
  /\ issued' = (issued \/ record = "approved")
  /\ pc' = [pc EXCEPT ![t] =
              IF record # "approved" THEN "pending"
              ELSE IF issued THEN "approved"
              ELSE "token"]
  /\ UNCHANGED <<world, saved, up, config, job, asked, died, screen>>

\* The request or its answer is lost, or nobody is at that address.
Unanswered(t) ==
  /\ job[t] # Idle /\ pc[t] \in {"asking", "pending", "approved", "token"}
  /\ link = "down" \/ asked[t].url # Server

Fail(t) ==
  /\ Unanswered(t)
  /\ pc' = [pc EXCEPT ![t] = "error"]
  /\ UNCHANGED <<server, world, saved, up, config, job, asked, died, screen>>

\* An exception that is no ApiError (http.client.BadStatusLine from a port
\* that speaks no HTTP, IncompleteRead from a connection cut short) ends the
\* thread where it stands.
Die(t) ==
  /\ Unanswered(t)
  /\ job' = [job EXCEPT ![t] = Idle]
  /\ died' = TRUE
  /\ UNCHANGED <<server, world, saved, up, config, pc, asked, screen>>

\* Mutation: a token that cannot be saved is a status no caller knows.
SaveTokenUnhandled(t) ==
  /\ job[t] # Idle /\ pc[t] = "token"
  /\ Persist([saved EXCEPT !.token = TRUE])
  /\ asked' = [asked EXCEPT ![t].token = TRUE]
  /\ pc' = [pc EXCEPT ![t] = IF disk = "ok" THEN "kept" ELSE "unsaved"]
  /\ UNCHANGED <<server, world, up, config, job, died, screen>>

\* persist("api-token", ...), whose failure is only logged.
SaveToken(t) ==
  /\ job[t] # Idle /\ pc[t] = "token"
  /\ Persist([saved EXCEPT !.token = TRUE])
  /\ asked' = [asked EXCEPT ![t].token = TRUE]
  /\ pc' = [pc EXCEPT ![t] = "kept"]
  /\ UNCHANGED <<server, world, up, config, job, died, screen>>

Answered == {"pending", "approved", "kept", "error", "skipped"}

\* Mutation: the poll ends at the first error.
FinishPollGivesUp(t) ==
  /\ job[t] = "poll" /\ pc[t] \in Answered
  /\ config' = asked[t]
  /\ IF pc[t] \in {"kept", "error"}
       THEN job' = [job EXCEPT ![t] = Idle] /\ UNCHANGED pc
       ELSE pc' = [pc EXCEPT ![t] = "armed"] /\ UNCHANGED job
  /\ UNCHANGED <<server, world, saved, up, asked, died, screen>>

\* _poll_registration after the answer: the chain ends with the token.
FinishPoll(t) ==
  /\ job[t] = "poll" /\ pc[t] \in Answered
  /\ config' = asked[t]
  /\ IF pc[t] = "kept"
       THEN job' = [job EXCEPT ![t] = Idle] /\ UNCHANGED pc
       ELSE pc' = [pc EXCEPT ![t] = "armed"] /\ UNCHANGED job
  /\ UNCHANGED <<server, world, saved, up, asked, died, screen>>

\* Mutation: an error is reported without freeing the entry.
FinishSetupNoRetry(t) ==
  /\ job[t] = "setup" /\ pc[t] \in Answered
  /\ config' = asked[t]
  /\ CASE pc[t] \in {"error", "skipped"} ->
            job' = [job EXCEPT ![t] = Idle] /\ UNCHANGED <<pc, posted>>
       [] pc[t] = "kept" ->
            /\ posted' = posted \cup {"leave"}
            /\ job' = [job EXCEPT ![t] = Idle]
            /\ UNCHANGED pc
       [] OTHER ->
            /\ posted' = posted \cup {"leave"}
            /\ job' = [job EXCEPT ![t] = "poll"]
            /\ pc' = [pc EXCEPT ![t] = "armed"]
  /\ UNCHANGED <<server, world, saved, up, asked, died, needsSetup, editable>>

\* _register_from_setup after the answer: back to the person at the screen,
\* or on to the dashboards, polling (_start_registration) unless approved.
FinishSetup(t) ==
  /\ job[t] = "setup" /\ pc[t] \in Answered
  /\ config' = asked[t]
  /\ CASE pc[t] \in {"error", "skipped"} ->
            /\ posted' = posted \cup {"retry"}
            /\ job' = [job EXCEPT ![t] = Idle]
            /\ UNCHANGED pc
       [] pc[t] = "kept" ->
            /\ posted' = posted \cup {"leave"}
            /\ job' = [job EXCEPT ![t] = Idle]
            /\ UNCHANGED pc
       [] OTHER ->
            /\ posted' = posted \cup {"leave"}
            /\ job' = [job EXCEPT ![t] = "poll"]
            /\ pc' = [pc EXCEPT ![t] = "armed"]
  /\ UNCHANGED <<server, world, saved, up, asked, died, needsSetup, editable>>

Thread(t) ==
  \/ Ask(t) \/ Answer(t) \/ Fail(t) \/ Die(t)
  \/ SaveToken(t) \/ FinishPoll(t) \/ FinishSetup(t)

-----------------------------------------------------------------------------
\* _configure_from_setup: the address is used from now on, and a worker is
\* started to register there.
Configure(u, t) ==
  /\ job[t] = Idle
  /\ config' = [config EXCEPT !.url = u]
  /\ job' = [job EXCEPT ![t] = "setup"]
  /\ pc' = [pc EXCEPT ![t] = "armed"]

\* Mutation: the entry stays sensitive while the worker asks.
SubmitStillEditable ==
  /\ up /\ needsSetup /\ editable
  /\ disk = "ok"
  /\ \E u \in Addresses, t \in Threads :
       /\ Persist([saved EXCEPT !.url = u])
       /\ Configure(u, t)
  /\ UNCHANGED <<server, world, up, asked, died, screen>>

\* An address is typed: _submit and _on_setup_submit, in one call on the main
\* loop.  When persist fails the entry is freed again before the call is
\* over, and nothing has changed.
Submit ==
  /\ up /\ needsSetup /\ editable
  /\ disk = "ok"
  /\ \E u \in Addresses, t \in Threads :
       /\ Persist([saved EXCEPT !.url = u])
       /\ Configure(u, t)
  /\ editable' = FALSE
  /\ UNCHANGED <<server, world, up, asked, died, posted, needsSetup>>

\* setup_status(..., error=True), which calls reset_for_retry.
RunRetry ==
  /\ "retry" \in posted
  /\ posted' = posted \ {"retry"}
  /\ editable' = TRUE
  /\ UNCHANGED <<server, world, saved, up, config, threads, needsSetup>>

\* leave_setup
RunLeave ==
  /\ "leave" \in posted
  /\ posted' = posted \ {"leave"}
  /\ needsSetup' = FALSE
  /\ UNCHANGED <<server, world, saved, up, config, threads, editable>>

\* firstrun.discover: the network is asked when there is no address.
Discover(offer) == IF saved.url = NoUrl THEN offer ELSE saved.url

\* Mutation: the poll starts with or without an address.
StartAlwaysPolls ==
  /\ ~ up
  /\ up' = TRUE
  /\ \E offer \in Offers, t \in Threads :
       LET url == Discover(offer)
       IN  /\ config' = [saved EXCEPT !.url = url]
           /\ Persist([saved EXCEPT !.url = url])
           /\ needsSetup' = (url = NoUrl)
           /\ job' = IF saved.token THEN job ELSE [job EXCEPT ![t] = "poll"]
           /\ pc' = [pc EXCEPT ![t] = "armed"]
  /\ UNCHANGED <<server, world, asked, died, posted, editable>>

\* main: what the network said is saved if that can be done, the window opens
\* on the setup screen if there is still no address, and the poll starts if
\* there is one and no token (_start_registration).
Start ==
  /\ ~ up
  /\ up' = TRUE
  /\ \E offer \in Offers, t \in Threads :
       LET url == Discover(offer)
       IN  /\ config' = [saved EXCEPT !.url = url]
           /\ Persist([saved EXCEPT !.url = url])
           /\ needsSetup' = (url = NoUrl)
           /\ job' = IF url = NoUrl \/ saved.token THEN job ELSE [job EXCEPT ![t] = "poll"]
           /\ pc' = [pc EXCEPT ![t] = "armed"]
  /\ UNCHANGED <<server, world, asked, died, posted, editable>>

\* Nothing of the process is left but what it saved.
PowerCut ==
  /\ up /\ cuts < MaxCuts
  /\ cuts' = cuts + 1
  /\ up' = FALSE
  /\ config' = Blank
  /\ job' = [t \in Threads |-> Idle]
  /\ pc' = [t \in Threads |-> "armed"]
  /\ asked' = [t \in Threads |-> Blank]
  /\ died' = FALSE
  /\ posted' = {}
  /\ needsSetup' = TRUE
  /\ editable' = TRUE
  /\ UNCHANGED <<server, link, disk, saved>>

-----------------------------------------------------------------------------
\* The administrator approves the device, or has its token issued again.
Approve ==
  /\ record = "pending"
  /\ record' = "approved"
  /\ issued' = FALSE

Reissue ==
  /\ record = "approved" /\ issued
  /\ issued' = FALSE
  /\ UNCHANGED record

Administrator ==
  /\ Approve \/ Reissue
  /\ UNCHANGED <<world, saved, up, config, threads, screen>>

LinkChange == link' \in {"up", "down"} /\ UNCHANGED disk

DiskChange == disk' \in {"ok", "full"} /\ UNCHANGED link

World ==
  /\ LinkChange \/ DiskChange
  /\ UNCHANGED <<server, cuts, saved, up, config, threads, screen>>

Init ==
  /\ record = "none"
  /\ issued = FALSE
  /\ link \in {"up", "down"}
  /\ disk = "ok"
  /\ cuts = 0
  /\ saved \in Presets
  /\ up = FALSE
  /\ config = Blank
  /\ job = [t \in Threads |-> Idle]
  /\ pc = [t \in Threads |-> "armed"]
  /\ asked = [t \in Threads |-> Blank]
  /\ died = FALSE
  /\ posted = {}
  /\ needsSetup = TRUE
  /\ editable = TRUE

Next ==
  \/ \E t \in Threads : Thread(t)
  \/ Submit
  \/ RunRetry
  \/ RunLeave
  \/ Start
  \/ PowerCut
  \/ Administrator
  \/ World

Spec == Init /\ [][Next]_vars

\* Timers run out and requests end (request_timeout), the main loop runs
\* what is posted, and snapd starts the daemon again.  Nothing is asked of
\* the person at the screen, the administrator, the network or the disk.
Fairness ==
  /\ \A t \in Threads : WF_vars(Thread(t))
  /\ WF_vars(RunRetry)
  /\ WF_vars(RunLeave)
  /\ WF_vars(Start)

FairSpec == Spec /\ Fairness

-----------------------------------------------------------------------------
(* Properties.                                                             *)

\* Every variable has its type.
TypeOK ==
  /\ record \in {"none", "pending", "approved"}
  /\ issued \in BOOLEAN
  /\ link \in {"up", "down"}
  /\ disk \in {"ok", "full"}
  /\ cuts \in 0..MaxCuts
  /\ saved \in Settings
  /\ up \in BOOLEAN
  /\ config \in Settings
  /\ job \in [Threads -> Jobs]
  /\ pc \in [Threads -> Places]
  /\ asked \in [Threads -> Settings]
  /\ died \in BOOLEAN
  /\ posted \subseteq {"retry", "leave"}
  /\ needsSetup \in BOOLEAN
  /\ editable \in BOOLEAN

Active == {t \in Threads : job[t] # Idle}

\* At most one thread enrols, though the setup screen, a start and a pending
\* answer each begin one: two would store back settings over each other's.
OneAsker == \A t, u \in Active : t = u

\* The address being asked is the one configured, and the one a restart would
\* find: an answer about an address that was corrected meanwhile would store
\* the old address back (self._config = config in both threads).
AddressesAgree ==
  up => /\ \A t \in Active : pc[t] # "armed" => asked[t].url = config.url
        /\ saved.url # NoUrl => saved.url = config.url

\* While the process runs it never forgets its token: the server hands it out
\* once, and a stale copy of the settings stored back would drop it.
TokenKept == [][up /\ up' /\ config.token => config'.token]_vars

\* Unless an exception has ended a thread of this process, the person at the
\* setup screen gets it back: the entry is free, or a worker or a posted call
\* is going to free it or to leave the screen.
ScreenAnswers ==
  up /\ needsSetup /\ ~ died
    => editable \/ posted # {} \/ \E t \in Active : job[t] = "setup"

\* With the same proviso a device that has an address and no token keeps
\* asking, through every ApiError and full disk (firstrun.py).
KeepsAsking ==
  up /\ ~ needsSetup /\ ~ config.token /\ ~ died
    => \E t \in Active : job[t] = "poll"

\* Once the server stays reachable at the saved address and the device past
\* its setup screen, and as long as an administrator issues the token again
\* whenever it was handed out in vain, the device comes to hold it.
Enrols ==
  /\ <>[](up /\ ~ needsSetup /\ saved.url = Server /\ ~ died)
  /\ <>[](link = "up" /\ disk = "ok" /\ record = "approved")
  /\ []<>(~ issued \/ config.token)
  => <>[](config.token)

\* What makes the three hold: nobody enrols while a person may type, and a
\* thread that asks knows of the token if the device has it.
NobodyWhileEditable ==
  /\ needsSetup /\ editable => Active = {}
  /\ \A t \in Active : job[t] = "setup" => ~ editable
  /\ "retry" \in posted => Active = {} /\ ~ editable
  /\ ~ up => Active = {} /\ posted = {}

TokenCopied ==
  \A t \in Active : pc[t] # "armed" /\ config.token => asked[t].token

IInv == TypeOK /\ OneAsker /\ AddressesAgree /\ NobodyWhileEditable /\ TokenCopied

-----------------------------------------------------------------------------
(* What the documents and comments say and the code does not do.           *)

\* docs/dhcp-discovery.md:17 "an unreachable server ... fall through to the
\* setup screen".  Threads that an exception ended are left aside.
FallsThrough ==
  up /\ ~ needsSetup /\ config.url # Server ~> ~ up \/ needsSetup \/ died

\* firstrun.py:3 "The device ... has to keep asking - possibly for days,
\* across reboots", whatever has happened.
AsksWhateverHappens ==
  up /\ ~ needsSetup /\ ~ config.token => \E t \in Active : job[t] = "poll"

=============================================================================
