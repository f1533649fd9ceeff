--------------------------- MODULE EnrolmentProofs ---------------------------
(***************************************************************************)
(* Enrolment never loses a token, never asks on two threads at once and    *)
(* never answers for an address that was corrected meanwhile, for every    *)
(* set of addresses, offers, presets and threads.                          *)
(***************************************************************************)
EXTENDS EnrolmentDevice, TLAPS

\* The invariant holds of a device that has not started.
LEMMA InitIInv == Init => IInv
<1> SUFFICES ASSUME Init
             PROVE  IInv
  OBVIOUS
<1>1. Active = {} /\ ~ up /\ posted = {}
  BY DEF Init, Active
<1>2. TypeOK
  <2>1. Blank \in Settings /\ saved \in Settings
    BY EnrolmentAssumption DEF Init, Settings, Blank
  <2>2. Idle \in Jobs /\ "armed" \in Places /\ cuts \in 0..MaxCuts
    BY EnrolmentAssumption DEF Init, Jobs, Places
  <2> QED
    BY <2>1, <2>2 DEF Init, TypeOK
<1>3. OneAsker /\ AddressesAgree /\ NobodyWhileEditable /\ TokenCopied
  BY <1>1 DEF OneAsker, AddressesAgree, NobodyWhileEditable, TokenCopied
<1> QED
  BY <1>2, <1>3 DEF IInv

\* A request going out, and each way it may end, change one thread's place.
LEMMA AskStep ==
  ASSUME IInv, NEW t \in Threads, Ask(t)
  PROVE  IInv'
<1>1. TypeOK'
  BY DEF IInv, TypeOK, Ask, Settings, Places, server, world, screen
<1>2. OneAsker' /\ NobodyWhileEditable' /\ Active' = Active
  BY DEF IInv, TypeOK, Ask, OneAsker, NobodyWhileEditable, Active, screen
<1>3. AddressesAgree' /\ TokenCopied'
  BY <1>2 DEF IInv, TypeOK, Ask, OneAsker, AddressesAgree, TokenCopied, Active
<1> QED
  BY <1>1, <1>2, <1>3 DEF IInv

\* The server's answer, or its loss, touches neither settings nor screen.
LEMMA AnswerStep ==
  ASSUME IInv, NEW t \in Threads, Answer(t) \/ Fail(t)
  PROVE  IInv'
<1>1. /\ job' = job /\ asked' = asked /\ config' = config /\ saved' = saved
      /\ up' = up /\ died' = died /\ UNCHANGED screen /\ UNCHANGED world
      /\ job[t] # Idle /\ pc[t] # "armed"
      /\ \E p \in Places : pc' = [pc EXCEPT ![t] = p]
  BY DEF Answer, Fail, Unanswered, Places
<1>2. TypeOK'
  <2>1. record' \in {"none", "pending", "approved"} /\ issued' \in BOOLEAN
    BY DEF IInv, TypeOK, Answer, Fail, server
  <2> QED
    BY <1>1, <2>1 DEF IInv, TypeOK, world, screen
<1>3. OneAsker' /\ NobodyWhileEditable' /\ Active' = Active
  BY <1>1 DEF IInv, OneAsker, NobodyWhileEditable, Active, screen
<1>4. AddressesAgree' /\ TokenCopied'
  BY <1>1, <1>3 DEF IInv, TypeOK, AddressesAgree, TokenCopied, Active
<1> QED
  BY <1>2, <1>3, <1>4 DEF IInv

\* A thread that dies leaves everything but itself.
LEMMA DieStep ==
  ASSUME IInv, NEW t \in Threads, Die(t)
  PROVE  IInv'
<1>1. TypeOK'
  BY DEF IInv, TypeOK, Die, Jobs, server, world, screen
<1>2. Active' \subseteq Active /\ \A u \in Active' : job'[u] = job[u]
  BY DEF IInv, TypeOK, Die, Active
<1>3. OneAsker' /\ NobodyWhileEditable' /\ AddressesAgree' /\ TokenCopied'
  BY <1>2 DEF IInv, Die, OneAsker, NobodyWhileEditable, AddressesAgree,
              TokenCopied, screen
<1> QED
  BY <1>1, <1>3 DEF IInv

\* Saving the token changes the token alone, on the disk and in the copy.
LEMMA SaveTokenStep ==
  ASSUME IInv, NEW t \in Threads, SaveToken(t)
  PROVE  IInv'
<1>1. TypeOK'
  BY ZenonT(40) DEF IInv, TypeOK, SaveToken, Persist, Settings, Places, server, world, screen
<1>2. OneAsker' /\ NobodyWhileEditable' /\ Active' = Active
  BY DEF IInv, SaveToken, OneAsker, NobodyWhileEditable, Active, screen
<1>3. saved'.url = saved.url /\ \A u \in Threads : asked'[u].url = asked[u].url
  BY DEF IInv, TypeOK, SaveToken, Persist, Settings
<1>4. AddressesAgree'
  BY <1>2, <1>3 DEF IInv, TypeOK, SaveToken, Persist, AddressesAgree, Active
<1>5. TokenCopied'
  BY <1>2 DEF IInv, TypeOK, SaveToken, Persist, TokenCopied, Active, Settings
<1> QED
  BY <1>1, <1>2, <1>4, <1>5 DEF IInv

\* A thread that has its answer stores back an address and a token no worse
\* than those configured: it alone was asking.
LEMMA StoresBack ==
  ASSUME IInv, NEW t \in Threads, FinishPoll(t) \/ FinishSetup(t)
  PROVE  /\ Active = {t}
         /\ config' = asked[t]
         /\ config'.url = config.url \/ ~ up
         /\ config.token => config'.token
<1>1. t \in Active /\ pc[t] # "armed" /\ config' = asked[t]
  BY EnrolmentAssumption DEF FinishPoll, FinishSetup, Answered, Active
<1> QED
  BY <1>1 DEF IInv, OneAsker, AddressesAgree, TokenCopied, Active

\* The end of a poll's turn.
LEMMA FinishPollStep ==
  ASSUME IInv, NEW t \in Threads, FinishPoll(t)
  PROVE  IInv'
<1>1. /\ Active = {t} /\ config' = asked[t]
      /\ config'.url = config.url \/ ~ up
  BY StoresBack
<1>2. TypeOK'
  BY <1>1 DEF IInv, TypeOK, FinishPoll, Jobs, Places, server, world, screen
<1>3. /\ Active' \subseteq Active
      /\ \A u \in Active' : pc'[u] = "armed" /\ job'[u] = job[u]
  BY <1>1 DEF IInv, TypeOK, FinishPoll, Active
<1>4. OneAsker' /\ NobodyWhileEditable'
  BY <1>3 DEF IInv, FinishPoll, OneAsker, NobodyWhileEditable, screen
<1>5. AddressesAgree' /\ TokenCopied'
  BY <1>1, <1>3 DEF IInv, FinishPoll, AddressesAgree, TokenCopied
<1> QED
  BY <1>2, <1>4, <1>5 DEF IInv

\* The end of the setup screen's worker.
LEMMA FinishSetupStep ==
  ASSUME IInv, NEW t \in Threads, FinishSetup(t)
  PROVE  IInv'
<1>1. /\ Active = {t} /\ config' = asked[t]
      /\ config'.url = config.url \/ ~ up
  BY StoresBack
<1>2. \/ /\ posted' = posted \cup {"retry"}
         /\ job' = [job EXCEPT ![t] = Idle] /\ pc' = pc
      \/ /\ posted' = posted \cup {"leave"}
         /\ job' = [job EXCEPT ![t] = Idle] /\ pc' = pc
      \/ /\ posted' = posted \cup {"leave"}
         /\ job' = [job EXCEPT ![t] = "poll"]
         /\ pc' = [pc EXCEPT ![t] = "armed"]
  BY DEF FinishSetup
<1>3. /\ asked' = asked /\ saved' = saved /\ up' = up
      /\ needsSetup' = needsSetup /\ editable' = editable /\ died' = died
      /\ UNCHANGED <<server, world>>
  BY DEF FinishSetup
<1>4. TypeOK'
  BY <1>1, <1>2, <1>3 DEF IInv, TypeOK, Jobs, Places, server, world
<1>5. Active' \subseteq Active /\ \A u \in Active' : pc'[u] = "armed"
  BY <1>1, <1>2 DEF IInv, TypeOK, Active
<1>6. up /\ "retry" \notin posted /\ ~ (needsSetup /\ editable)
  BY <1>1 DEF IInv, NobodyWhileEditable
<1>7. "retry" \in posted' => Active' = {}
  BY <1>1, <1>2, <1>6 DEF IInv, TypeOK, Active
<1>8. OneAsker' /\ AddressesAgree' /\ TokenCopied'
  BY <1>1, <1>3, <1>5 DEF IInv, OneAsker, AddressesAgree, TokenCopied
<1>9. ~ editable
  BY <1>1 DEF IInv, NobodyWhileEditable, FinishSetup
<1>10. NobodyWhileEditable'
  BY <1>3, <1>5, <1>6, <1>7, <1>9 DEF NobodyWhileEditable
<1> QED
  BY <1>4, <1>8, <1>10 DEF IInv

\* An address is typed only while nobody asks, so the new one is everywhere.
LEMMA SubmitStep ==
  ASSUME IInv, Submit
  PROVE  IInv'
<1>1. PICK u \in Addresses, t \in Threads :
        /\ job[t] = Idle
        /\ saved' = [saved EXCEPT !.url = u]
        /\ config' = [config EXCEPT !.url = u]
        /\ job' = [job EXCEPT ![t] = "setup"]
        /\ pc' = [pc EXCEPT ![t] = "armed"]
  BY DEF Submit, Persist, Configure
<1>2. /\ up /\ Active = {} /\ "retry" \notin posted
  BY DEF IInv, NobodyWhileEditable, Submit
<1>3. TypeOK'
  BY <1>1 DEF IInv, TypeOK, Submit, Settings, Jobs, Places, server, world
<1>4. Active' = {t} /\ pc'[t] = "armed" /\ job'[t] = "setup"
  BY <1>1, <1>2, EnrolmentAssumption DEF IInv, TypeOK, Active
<1>5. saved'.url = config'.url
  BY <1>1 DEF IInv, TypeOK, Settings
<1>6. OneAsker' /\ AddressesAgree' /\ TokenCopied'
  BY <1>4, <1>5 DEF OneAsker, AddressesAgree, TokenCopied
<1>7. NobodyWhileEditable'
  BY <1>2, <1>4 DEF Submit, NobodyWhileEditable
<1> QED
  BY <1>3, <1>6, <1>7 DEF IInv

\* The calls the main loop runs.
LEMMA PostedStep ==
  ASSUME IInv, RunRetry \/ RunLeave
  PROVE  IInv'
<1>1. /\ UNCHANGED <<server, world, saved, up, config, threads>>
      /\ posted' \subseteq posted
      /\ \/ needsSetup' = FALSE /\ editable' = editable
         \/ editable' = TRUE /\ needsSetup' = needsSetup /\ "retry" \in posted
                            /\ "retry" \notin posted'
  BY DEF RunRetry, RunLeave
<1>2. TypeOK'
  BY <1>1 DEF IInv, TypeOK, server, world, threads
<1>3. Active' = Active
  BY <1>1 DEF Active, threads
<1>4. OneAsker' /\ AddressesAgree' /\ TokenCopied' /\ NobodyWhileEditable'
  BY <1>1, <1>3 DEF IInv, OneAsker, AddressesAgree, TokenCopied,
                    NobodyWhileEditable, threads
<1> QED
  BY <1>2, <1>4 DEF IInv

\* A start begins at most one poll, and only past the setup screen.
LEMMA StartStep ==
  ASSUME IInv, Start
  PROVE  IInv'
<1>1. PICK offer \in Offers, t \in Threads :
        /\ config' = [saved EXCEPT !.url = Discover(offer)]
        /\ Persist([saved EXCEPT !.url = Discover(offer)])
        /\ needsSetup' = (Discover(offer) = NoUrl)
        /\ job' = IF Discover(offer) = NoUrl \/ saved.token
                    THEN job
                    ELSE [job EXCEPT ![t] = "poll"]
        /\ pc' = [pc EXCEPT ![t] = "armed"]
  BY DEF Start
<1>2. Active = {} /\ posted = {}
  BY DEF IInv, NobodyWhileEditable, Start
<1>3. Discover(offer) \in Addresses \cup {NoUrl}
  BY EnrolmentAssumption DEF IInv, TypeOK, Settings, Discover
<1>4. config' \in Settings /\ config'.url = Discover(offer)
  BY <1>1, <1>3 DEF IInv, TypeOK, Settings
<1>5. TypeOK'
  BY <1>1, <1>4 DEF IInv, TypeOK, Start, Persist, Jobs, Places, server, world
<1>6. /\ Active' \subseteq {t}
      /\ \A u \in Active' : /\ pc'[u] = "armed" /\ job'[u] = "poll"
                            /\ Discover(offer) # NoUrl
  BY <1>1, <1>2 DEF IInv, TypeOK, Active
<1>7. saved'.url # NoUrl => saved'.url = config'.url
  BY <1>1, <1>4 DEF Persist, Discover
<1>8. OneAsker' /\ AddressesAgree' /\ TokenCopied'
  BY <1>6, <1>7 DEF OneAsker, AddressesAgree, TokenCopied
<1>9. NobodyWhileEditable'
  BY <1>1, <1>2, <1>6 DEF Start, NobodyWhileEditable
<1> QED
  BY <1>5, <1>8, <1>9 DEF IInv

\* A power cut leaves nobody asking.
LEMMA PowerCutStep ==
  ASSUME IInv, PowerCut
  PROVE  IInv'
<1>1. Active' = {} /\ ~ up' /\ posted' = {}
  BY DEF PowerCut, Active
<1>2. TypeOK'
  <2>1. Blank \in Settings
    BY DEF Blank, Settings
  <2>2. Idle \in Jobs /\ "armed" \in Places
    BY DEF Jobs, Places
  <2>3. cuts' \in 0..MaxCuts
    BY EnrolmentAssumption DEF IInv, TypeOK, PowerCut
  <2> QED
    BY <2>1, <2>2, <2>3 DEF IInv, TypeOK, PowerCut, server
<1>3. OneAsker' /\ AddressesAgree' /\ NobodyWhileEditable' /\ TokenCopied'
  BY <1>1 DEF OneAsker, AddressesAgree, NobodyWhileEditable, TokenCopied
<1> QED
  BY <1>2, <1>3 DEF IInv

\* The administrator, the network, the disk and stuttering.
LEMMA OutsideStep ==
  ASSUME IInv, Administrator \/ World \/ UNCHANGED vars
  PROVE  IInv'
<1>1. UNCHANGED <<saved, up, config, threads, screen, cuts>>
  BY DEF Administrator, World, vars, world, server
<1>2. TypeOK'
  <2>1. record' \in {"none", "pending", "approved"} /\ issued' \in BOOLEAN
    BY DEF IInv, TypeOK, Administrator, Approve, Reissue, World, vars, server
  <2>2. link' \in {"up", "down"} /\ disk' \in {"ok", "full"}
    BY DEF IInv, TypeOK, Administrator, World, LinkChange, DiskChange, vars, world
  <2> QED
    BY <1>1, <2>1, <2>2 DEF IInv, TypeOK, threads, screen
<1>3. OneAsker' /\ AddressesAgree' /\ TokenCopied' /\ NobodyWhileEditable'
  BY <1>1 DEF IInv, OneAsker, AddressesAgree, TokenCopied, NobodyWhileEditable,
              Active, threads, screen
<1> QED
  BY <1>2, <1>3 DEF IInv

\* IInv is an invariant: each action of a thread, of the main loop and of the
\* world outside preserves it.
THEOREM EnrolmentInvariant == Spec => []IInv
<1>1. IInv /\ [Next]_vars => IInv'
  <2> SUFFICES ASSUME IInv, [Next]_vars
               PROVE  IInv'
    OBVIOUS
  <2>1. ASSUME NEW t \in Threads, Thread(t)
        PROVE  IInv'
    BY <2>1, AskStep, AnswerStep, DieStep, SaveTokenStep, FinishPollStep,
       FinishSetupStep DEF Thread
  <2>2. CASE Submit
    BY <2>2, SubmitStep
  <2>3. CASE RunRetry \/ RunLeave
    BY <2>3, PostedStep
  <2>4. CASE Start
    BY <2>4, StartStep
  <2>5. CASE PowerCut
    BY <2>5, PowerCutStep
  <2>6. CASE Administrator \/ World \/ UNCHANGED vars
    BY <2>6, OutsideStep
  <2> QED
    BY <2>1, <2>2, <2>3, <2>4, <2>5, <2>6 DEF Next
<1> QED
  BY InitIInv, <1>1, PTL DEF Spec

\* Never two threads enrol at once, and the address asked is the configured
\* and the saved one (controller.py, _configure_from_setup and both writes
\* back of self._config).
THEOREM OneAskerAgrees == Spec => [](OneAsker /\ AddressesAgree)
<1>1. IInv => OneAsker /\ AddressesAgree
  BY DEF IInv
<1> QED
  BY EnrolmentInvariant, <1>1, PTL

\* Every variable of the threads, the screen and the files keeps its type.
THEOREM TypeCorrect == Spec => []TypeOK
<1>1. IInv => TypeOK
  BY DEF IInv
<1> QED
  BY EnrolmentInvariant, <1>1, PTL

\* The address asked is the configured and the saved one, so an answer never
\* brings a corrected address back.
THEOREM AddressNeverCrossed == Spec => []AddressesAgree
<1>1. IInv => AddressesAgree
  BY DEF IInv
<1> QED
  BY EnrolmentInvariant, <1>1, PTL

\* A token once held is held until the process ends (_poll_registration and
\* _register_from_setup store back a copy of the settings).
THEOREM TokenNeverDropped == Spec => TokenKept
<1>1. IInv /\ [Next]_vars => [up /\ up' /\ config.token => config'.token]_vars
  <2> SUFFICES ASSUME IInv, Next, up, up', config.token
               PROVE  config'.token
    OBVIOUS
  <2>1. ASSUME NEW t \in Threads, Thread(t)
        PROVE  config'.token
    <3>1. CASE FinishPoll(t) \/ FinishSetup(t)
      BY <3>1, StoresBack
    <3>2. CASE Ask(t) \/ Answer(t) \/ Fail(t) \/ Die(t) \/ SaveToken(t)
      BY <3>2 DEF Ask, Answer, Fail, Die, SaveToken
    <3> QED
      BY <2>1, <3>1, <3>2 DEF Thread
  <2>2. CASE Submit
    BY <2>2 DEF Submit, Configure, IInv, TypeOK, Settings
  <2>3. CASE RunRetry \/ RunLeave \/ Administrator \/ World
    BY <2>3 DEF RunRetry, RunLeave, Administrator, World
  <2>4. CASE Start \/ PowerCut
    BY <2>4 DEF Start, PowerCut
  <2> QED
    BY <2>1, <2>2, <2>3, <2>4 DEF Next
<1> QED
  BY EnrolmentInvariant, <1>1, PTL DEF Spec, TokenKept

-----------------------------------------------------------------------------
(* The screen answers and the device keeps asking: both say that some      *)
(* thread or posted call is there to go on, and are proved together.       *)

Polls == \E t \in Active : job[t] = "poll"

GoesOn ==
  /\ ScreenAnswers
  /\ KeepsAsking
  /\ up /\ "leave" \in posted /\ ~ config.token /\ ~ died => Polls
  /\ ~ up => editable
  /\ \A t \in Active : pc[t] = "kept" => asked[t].token

\* A poll stays a poll until it holds the token.
LEMMA FinishPollGoesOn ==
  ASSUME IInv, GoesOn, NEW t \in Threads, FinishPoll(t)
  PROVE  GoesOn'
<1> USE EnrolmentAssumption DEF IInv, TypeOK, Settings, Active, Jobs
<1>1. t \in Active /\ (pc[t] = "kept" => config'.token)
  BY DEF FinishPoll, GoesOn
<1>2. pc[t] # "kept" => job' = job /\ pc' = [pc EXCEPT ![t] = "armed"]
  BY DEF FinishPoll
<1>3. ASSUME pc[t] # "kept" PROVE Polls'
  BY <1>1, <1>2, <1>3 DEF Polls, FinishPoll
<1>4. ScreenAnswers'
  <2>1. \A u \in Active : u = t
    BY <1>1 DEF OneAsker
  <2> QED
    BY <2>1 DEF FinishPoll, GoesOn, ScreenAnswers, screen
<1>5. \A u \in Active' : pc'[u] = "kept" => asked'[u].token
  BY DEF FinishPoll, GoesOn
<1> QED
  BY <1>1, <1>3, <1>4, <1>5 DEF FinishPoll, GoesOn, KeepsAsking, Polls, screen

\* The setup worker hands over to a poll, to the dashboards with the token,
\* or back to the person.
LEMMA FinishSetupGoesOn ==
  ASSUME IInv, GoesOn, NEW t \in Threads, FinishSetup(t)
  PROVE  GoesOn'
<1> USE EnrolmentAssumption DEF IInv, TypeOK, Settings, Active, Jobs
<1>1. t \in Active /\ job[t] = "setup" /\ ~ Polls
  BY DEF FinishSetup, OneAsker, Polls
<1>2. posted' # {}
  BY DEF FinishSetup
<1>3. config.token => config'.token
  BY StoresBack
<1>4. CASE pc[t] = "kept"
  <2>1. config'.token
    BY <1>1, <1>4 DEF FinishSetup, GoesOn
  <2>2. \A u \in Active' : pc'[u] = "kept" => asked'[u].token
    BY <1>4 DEF FinishSetup, GoesOn
  <2> QED
    BY <1>2, <2>1, <2>2 DEF FinishSetup, GoesOn, ScreenAnswers, KeepsAsking
<1>5. CASE pc[t] \in {"error", "skipped"}
  <2>1. "leave" \in posted' => "leave" \in posted
    BY <1>5 DEF FinishSetup
  <2>2. \A u \in Active' : pc'[u] = "kept" => asked'[u].token
    BY <1>5 DEF FinishSetup, GoesOn
  <2> QED
    BY <1>1, <1>2, <1>3, <2>1, <2>2
       DEF FinishSetup, GoesOn, ScreenAnswers, KeepsAsking, Polls
<1>6. CASE pc[t] \notin {"kept", "error", "skipped"}
  <2>1. job' = [job EXCEPT ![t] = "poll"] /\ pc' = [pc EXCEPT ![t] = "armed"]
    BY <1>6 DEF FinishSetup
  <2>2. Polls'
    BY <2>1, EnrolmentAssumption DEF Polls
  <2>3. \A u \in Active' : pc'[u] = "kept" => asked'[u].token
    BY <2>1 DEF FinishSetup, GoesOn
  <2> QED
    BY <1>2, <2>2, <2>3 DEF FinishSetup, GoesOn, ScreenAnswers, KeepsAsking, Polls
<1> QED
  BY <1>4, <1>5, <1>6

LEMMA GoesOnStep == IInv /\ GoesOn /\ [Next]_vars => GoesOn'
<1> SUFFICES ASSUME IInv, GoesOn, [Next]_vars
             PROVE  GoesOn'
  OBVIOUS
<1> USE DEF IInv, TypeOK, Settings, Active, Jobs, GoesOn, Polls
<1>1. ASSUME NEW t \in Threads, Thread(t)
      PROVE  GoesOn'
  <2>1. CASE FinishPoll(t)
    BY <2>1, FinishPollGoesOn
  <2>2. CASE FinishSetup(t)
    BY <2>2, FinishSetupGoesOn
  <2>3. CASE Die(t)
    BY <2>3 DEF Die, screen, world, server, ScreenAnswers, KeepsAsking
  <2>4. CASE SaveToken(t)
    BY <2>4 DEF SaveToken, screen, world, server, ScreenAnswers, KeepsAsking
  <2>5. CASE Ask(t) \/ Answer(t) \/ Fail(t)
    <3>1. \A u \in Active : pc'[u] = "kept" => pc[u] = "kept" /\ asked'[u] = asked[u]
      BY <2>5 DEF Ask, Answer, Fail
    <3> QED
      BY <2>5, <3>1 DEF Ask, Answer, Fail, screen, world, server, ScreenAnswers, KeepsAsking
  <2> QED
    BY <1>1, <2>1, <2>2, <2>3, <2>4, <2>5 DEF Thread
<1>2. CASE Submit
  <2>1. PICK u \in Addresses, t \in Threads : Configure(u, t)
    BY <1>2 DEF Submit
  <2>2. Active = {}
    BY <1>2 DEF Submit, NobodyWhileEditable
  <2>3. t \in Active' /\ job'[t] = "setup"
    BY <2>1, EnrolmentAssumption DEF Configure
  <2>4. config'.token = config.token
    BY <2>1 DEF Configure
  <2>5. \A s \in Active' : pc'[s] = "armed"
    BY <2>1, <2>2 DEF Configure
  <2> QED
    BY <1>2, <2>2, <2>3, <2>4, <2>5 DEF Submit, ScreenAnswers, KeepsAsking
<1>3. CASE RunRetry \/ RunLeave
  BY <1>3 DEF RunRetry, RunLeave, threads, ScreenAnswers, KeepsAsking
<1>4. CASE Start
  <2>1. PICK offer \in Offers, t \in Threads :
          LET url == Discover(offer)
          IN  /\ config' = [saved EXCEPT !.url = url]
              /\ needsSetup' = (url = NoUrl)
              /\ job' = IF url = NoUrl \/ saved.token THEN job ELSE [job EXCEPT ![t] = "poll"]
              /\ pc' = [pc EXCEPT ![t] = "armed"]
    BY <1>4 DEF Start
  <2>2. ~ up /\ Active = {} /\ posted' = {} /\ editable'
    BY <1>4 DEF Start, NobodyWhileEditable
  <2>3. ~ needsSetup' /\ ~ config'.token => Polls'
    BY <2>1, EnrolmentAssumption
  <2>4. \A s \in Active' : pc'[s] = "armed"
    BY <2>1, <2>2
  <2> QED
    BY <2>2, <2>3, <2>4 DEF ScreenAnswers, KeepsAsking
<1>5. CASE PowerCut
  BY <1>5 DEF PowerCut, ScreenAnswers, KeepsAsking
<1>6. CASE Administrator \/ World \/ UNCHANGED vars
  BY <1>6 DEF Administrator, World, vars, threads, screen, ScreenAnswers, KeepsAsking
<1> QED
  BY <1>1, <1>2, <1>3, <1>4, <1>5, <1>6 DEF Next

\* No thread, call or timer is lost on the way: what goes on never ends but
\* with the token or an exception that ends a thread.
LEMMA AlwaysGoesOn == Spec => []GoesOn
<1>1. Init => GoesOn
  BY DEF Init, GoesOn, ScreenAnswers, KeepsAsking, Active
<1> QED
  BY <1>1, GoesOnStep, EnrolmentInvariant, PTL DEF Spec

\* The person at the setup screen gets it back (_register_from_setup,
\* setup_status).
THEOREM ScreenAlwaysAnswers == Spec => []ScreenAnswers
<1>1. GoesOn => ScreenAnswers
  BY DEF GoesOn
<1> QED
  BY <1>1, AlwaysGoesOn, PTL

\* A device with an address and no token keeps asking (_poll_registration,
\* _start_registration).
THEOREM AlwaysKeepsAsking == Spec => []KeepsAsking
<1>1. GoesOn => KeepsAsking
  BY DEF GoesOn
<1> QED
  BY <1>1, AlwaysGoesOn, PTL

-----------------------------------------------------------------------------
(* One register: the copies the threads take are the settings themselves.  *)

\* A thread past its first step has a copy of the settings in use, with the
\* token in it once that is on the disk; it asks only where there is none.
CopyInv ==
  /\ \A t \in Active :
       /\ pc[t] \notin {"armed", "kept"} => asked[t] = config
       /\ pc[t] = "kept" => asked[t] = [config EXCEPT !.token = TRUE]
       /\ pc[t] \notin {"armed", "skipped"} => ~ config.token
  /\ up /\ saved.token => config.token \/ \E t \in Active : pc[t] = "kept"

\* With one thread that asks, the token is on its way exactly in its hands.
LEMMA HandedByOne ==
  ASSUME OneAsker, NEW t \in Active
  PROVE  Handed <=> pc[t] \in {"token", "kept"}
BY DEF OneAsker, Handed

LEMMA NobodyHanded ==
  ASSUME Active = {}
  PROVE  ~ Handed
BY DEF Handed

\* A request going out is seen by nobody.
LEMMA AskImplements ==
  ASSUME IInv, CopyInv, NEW t \in Threads, Ask(t)
  PROVE  CopyInv' /\ UNCHANGED OneDevice!vars
<1>1. /\ pc[t] = "armed" /\ asked' = [asked EXCEPT ![t] = config]
      /\ pc' = [pc EXCEPT ![t] = IF config.url = NoUrl \/ config.token
                                    THEN "skipped" ELSE "asking"]
      /\ UNCHANGED <<server, saved, up, config, job>>
  BY DEF Ask
<1>2. /\ pc \in [Threads -> Places] /\ asked \in [Threads -> Settings]
      /\ Active' = Active /\ t \in Active
  BY <1>1 DEF IInv, TypeOK, Active, Ask
<1>3. /\ asked'[t] = config /\ pc'[t] \in {"skipped", "asking"}
      /\ pc'[t] = "asking" => ~ config.token
  BY <1>1, <1>2 DEF Active
<1>4. \A u \in Active : u = t
  BY <1>2 DEF IInv, OneAsker
<1>5. CopyInv'
  BY <1>1, <1>2, <1>3, <1>4 DEF CopyInv
<1>6. Handed' = Handed
  BY <1>1, <1>2, <1>3, <1>4 DEF Handed
<1> QED
  BY <1>1, <1>5, <1>6 DEF OneDevice!vars, OneDevice!registry, server

\* The server's answer, or its loss.
LEMMA AnswerImplements ==
  ASSUME IInv, CopyInv, NEW t \in Threads, Answer(t) \/ Fail(t)
  PROVE  /\ CopyInv'
         /\ \/ OneDevice!Register \/ OneDevice!HandOut \/ OneDevice!Lose
            \/ UNCHANGED OneDevice!vars
<1>1. /\ t \in Active /\ job' = job /\ asked' = asked
      /\ config' = config /\ saved' = saved /\ up' = up
      /\ pc[t] \in {"asking", "pending", "approved", "token"}
  BY DEF Answer, Fail, Unanswered, Active
<1>2. pc \in [Threads -> Places] /\ Active' = Active /\ up
  BY <1>1 DEF IInv, TypeOK, NobodyWhileEditable, Active
<1>3. \A u \in Active : u = t
  BY <1>1 DEF IInv, OneAsker
<1>4. ~ config.token /\ ~ saved.token /\ asked[t] = config
  BY <1>1, <1>2, <1>3 DEF CopyInv
<1>5. pc'[t] \in {"pending", "approved", "token", "error"}
  BY <1>1, <1>2 DEF Answer, Fail, Active
<1>6. CopyInv'
  BY <1>1, <1>2, <1>3, <1>4, <1>5 DEF CopyInv
<1>7. /\ Handed <=> pc[t] = "token"
      /\ Handed' <=> pc'[t] = "token"
  BY <1>1, <1>2, <1>3, <1>5 DEF Handed
<1>8. Handed \in BOOLEAN /\ Handed' \in BOOLEAN
  BY DEF Handed
<1>9. CASE Fail(t)
  <2>1. record' = record /\ issued' = issued /\ pc'[t] = "error"
    BY <1>1, <1>2, <1>9 DEF Fail, server, Active
  <2> QED
    BY <1>1, <1>4, <1>6, <1>7, <1>8, <2>1
       DEF OneDevice!Lose, OneDevice!vars, OneDevice!registry
<1>10. CASE Answer(t)
  <2>1. /\ ~ Handed /\ config.url = Server
        /\ record' = IF record = "none" THEN "pending" ELSE record
        /\ issued' = (issued \/ record = "approved")
        /\ pc'[t] = IF record # "approved" THEN "pending"
                    ELSE IF issued THEN "approved" ELSE "token"
    BY <1>1, <1>2, <1>4, <1>7, <1>10 DEF Answer, Active
  <2>2. OneDevice!Asks
    BY <1>2, <1>4, <2>1 DEF OneDevice!Asks
  <2>3. issued \in BOOLEAN
    BY DEF IInv, TypeOK
  <2>4. CASE record = "none"
    BY <1>1, <1>6, <1>7, <1>8, <2>1, <2>2, <2>3, <2>4 DEF OneDevice!Register
  <2>5. CASE record = "approved" /\ ~ issued
    BY <1>1, <1>6, <1>7, <1>8, <2>1, <2>2, <2>3, <2>5 DEF OneDevice!HandOut
  <2>6. CASE record # "none" /\ ~ (record = "approved" /\ ~ issued)
    BY <1>1, <1>6, <1>7, <1>8, <2>1, <2>3, <2>6
       DEF OneDevice!vars, OneDevice!registry
  <2> QED
    BY <2>4, <2>5, <2>6
<1> QED
  BY <1>9, <1>10

\* A thread that dies takes the token with it, if it has one.
LEMMA DieImplements ==
  ASSUME IInv, CopyInv, NEW t \in Threads, Die(t)
  PROVE  CopyInv' /\ (OneDevice!Lose \/ UNCHANGED OneDevice!vars)
<1>1. /\ t \in Active /\ job' = [job EXCEPT ![t] = Idle] /\ pc' = pc
      /\ UNCHANGED <<server, saved, up, config, asked>>
      /\ pc[t] \in {"asking", "pending", "approved", "token"}
  BY DEF Die, Unanswered, Active
<1>2. \A u \in Active : u = t
  BY <1>1 DEF IInv, OneAsker
<1>3. Active' = {} /\ up
  BY <1>1, <1>2 DEF IInv, TypeOK, NobodyWhileEditable, Active
<1>4. ~ saved.token
  BY <1>1, <1>2, <1>3 DEF CopyInv
<1>5. CopyInv'
  BY <1>1, <1>3, <1>4 DEF CopyInv
<1>6. ~ Handed' /\ Handed \in BOOLEAN /\ Handed' \in BOOLEAN
  BY <1>3 DEF Handed
<1> QED
  BY <1>1, <1>4, <1>5, <1>6
     DEF OneDevice!Lose, OneDevice!vars, OneDevice!registry, server

\* A token that is saved is on the disk first and in the settings later.
LEMMA SaveTokenImplements ==
  ASSUME IInv, CopyInv, NEW t \in Threads, SaveToken(t)
  PROVE  CopyInv' /\ (OneDevice!Keep \/ UNCHANGED OneDevice!vars)
<1>1. /\ t \in Active /\ pc[t] = "token" /\ Active' = Active
      /\ saved' \in {saved, [saved EXCEPT !.token = TRUE]}
      /\ asked' = [asked EXCEPT ![t].token = TRUE]
      /\ pc' = [pc EXCEPT ![t] = "kept"]
      /\ UNCHANGED <<server, up, config>>
  BY DEF SaveToken, Persist, Active
<1>2. \A u \in Active : u = t
  BY <1>1 DEF IInv, OneAsker
<1>3. asked[t] = config /\ ~ config.token
  BY <1>1 DEF CopyInv
<1>4. asked'[t] = [config EXCEPT !.token = TRUE] /\ pc'[t] = "kept"
  BY <1>1, <1>3 DEF IInv, TypeOK, Active
<1>5. CopyInv'
  BY <1>1, <1>2, <1>3, <1>4 DEF CopyInv
<1>6. Handed /\ Handed'
  BY <1>1, <1>4 DEF Handed
<1> QED
  BY <1>1, <1>5, <1>6
     DEF OneDevice!Keep, OneDevice!vars, OneDevice!registry, server

\* What a thread stores back is what is there, or that with the token.
LEMMA FinishImplements ==
  ASSUME IInv, CopyInv, NEW t \in Threads, FinishPoll(t) \/ FinishSetup(t)
  PROVE  CopyInv' /\ (OneDevice!Use \/ UNCHANGED OneDevice!vars)
<1>1. /\ Active = {t} /\ config' = asked[t] /\ pc[t] \in Answered
      /\ UNCHANGED <<server, saved, up, asked>>
  BY StoresBack DEF FinishPoll, FinishSetup
<1>2. /\ Active' \subseteq {t} /\ \A u \in Active' : pc'[u] = "armed"
      /\ pc[t] = "kept" => Active' = {}
  BY <1>1 DEF IInv, TypeOK, FinishPoll, FinishSetup, Active
<1>3. ~ Handed' /\ (Handed <=> pc[t] = "kept")
  BY <1>1, <1>2 DEF Handed, Answered
<1>4. config \in Settings
  BY DEF IInv, TypeOK
<1>5. CASE pc[t] = "kept"
  <2>1. config' = [config EXCEPT !.token = TRUE] /\ config'.token
    BY <1>1, <1>4, <1>5 DEF CopyInv, Settings
  <2>2. CopyInv'
    BY <1>2, <2>1 DEF CopyInv
  <2>3. Handed' = FALSE
    BY <1>3 DEF Handed
  <2> QED
    BY <1>1, <1>3, <1>5, <2>1, <2>2, <2>3 DEF OneDevice!Use, OneDevice!registry, server
<1>6. CASE pc[t] # "kept"
  <2>1. config' = config
    BY <1>1, <1>6 DEF CopyInv, Answered
  <2>2. CopyInv'
    BY <1>1, <1>2, <1>6, <2>1 DEF CopyInv
  <2>3. Handed' = Handed
    BY <1>3, <1>6 DEF Handed
  <2> QED
    BY <1>1, <2>1, <2>2, <2>3 DEF OneDevice!vars, OneDevice!registry, server
<1> QED
  BY <1>5, <1>6

\* An address is typed, a process starts, the power goes.
LEMMA SubmitImplements ==
  ASSUME IInv, CopyInv, Submit
  PROVE  CopyInv' /\ OneDevice!Type
<1>1. PICK u \in Addresses, t \in Threads :
        /\ saved' = [saved EXCEPT !.url = u]
        /\ config' = [config EXCEPT !.url = u]
        /\ job' = [job EXCEPT ![t] = "setup"]
        /\ pc' = [pc EXCEPT ![t] = "armed"]
  BY DEF Submit, Persist, Configure
<1>2. up /\ up' = up /\ UNCHANGED server /\ Active = {}
  BY DEF IInv, NobodyWhileEditable, Submit
<1>3. \A s \in Active' : pc'[s] = "armed"
  BY <1>1, <1>2 DEF IInv, TypeOK, Active
<1>4. ~ Handed /\ ~ Handed'
  BY <1>2, <1>3 DEF Handed
<1>5. saved'.token = saved.token /\ config'.token = config.token
  BY <1>1 DEF IInv, TypeOK, Settings
<1>6. CopyInv'
  BY <1>2, <1>3, <1>5 DEF CopyInv
<1>7. Handed' = Handed
  BY <1>4 DEF Handed
<1> QED
  BY <1>1, <1>2, <1>4, <1>6, <1>7 DEF OneDevice!Type, OneDevice!registry, server

LEMMA StartImplements ==
  ASSUME IInv, CopyInv, Start
  PROVE  CopyInv' /\ OneDevice!Start
<1>1. PICK offer \in Offers, t \in Threads :
        /\ config' = [saved EXCEPT !.url = Discover(offer)]
        /\ saved' \in {saved, config'}
        /\ job' \in {job, [job EXCEPT ![t] = "poll"]}
        /\ pc' = [pc EXCEPT ![t] = "armed"]
  BY DEF Start, Persist
<1>2. ~ up /\ up' = TRUE /\ UNCHANGED server /\ Active = {}
  BY DEF IInv, NobodyWhileEditable, Start
<1>3. \A s \in Active' : pc'[s] = "armed"
  BY <1>1, <1>2 DEF IInv, TypeOK, Active
<1>4. Handed' = Handed
  BY <1>2, <1>3 DEF Handed
<1>5. config'.token = saved.token
  BY <1>1 DEF IInv, TypeOK, Settings
<1>6. CopyInv'
  BY <1>1, <1>3, <1>5 DEF CopyInv
<1>7. Discover(offer) \in IF saved.url = NoUrl THEN Offers ELSE {saved.url}
  BY DEF Discover
<1> QED
  BY <1>1, <1>2, <1>4, <1>6, <1>7 DEF OneDevice!Start, OneDevice!registry, server

LEMMA PowerCutImplements ==
  ASSUME IInv, PowerCut
  PROVE  CopyInv' /\ OneDevice!Halt
<1>1. up /\ up' = FALSE /\ config' = Blank /\ UNCHANGED <<server, saved>> /\ Active' = {}
  BY DEF PowerCut, Active
<1>2. Handed' = FALSE
  BY <1>1 DEF Handed
<1>3. CopyInv'
  BY <1>1 DEF CopyInv
<1> QED
  BY <1>1, <1>2, <1>3
     DEF OneDevice!Halt, OneDevice!Blank, OneDevice!registry, Blank, server

\* The main loop, the administrator and the world.
LEMMA OutsideImplements ==
  ASSUME IInv, CopyInv,
         RunRetry \/ RunLeave \/ Administrator \/ World \/ UNCHANGED vars
  PROVE  CopyInv' /\ (OneDevice!Grant \/ UNCHANGED OneDevice!vars)
<1>1. UNCHANGED <<saved, up, config, job, pc, asked>>
  BY DEF RunRetry, RunLeave, Administrator, World, vars, threads
<1>2. CopyInv' /\ Handed' = Handed
  BY <1>1 DEF CopyInv, Active, Handed
<1>3. CASE Administrator
  BY <1>1, <1>2, <1>3 DEF Administrator, Approve, Reissue, OneDevice!Grant
<1>4. CASE RunRetry \/ RunLeave \/ World \/ UNCHANGED vars
  BY <1>1, <1>2, <1>4
     DEF RunRetry, RunLeave, World, vars, server, OneDevice!vars, OneDevice!registry
<1> QED
  BY <1>3, <1>4

\* With any number of threads, addresses, offers and cuts, the copies of
\* self._config that threads take and store back are as good as one register:
\* no address and no token is undone, and a device that holds a token asks
\* for none (attempt_registration, _register_from_setup, _poll_registration).
THEOREM EnrolmentImplementsDevice == Spec => ImplementsDevice
<1>1. Init => OneDevice!Init /\ CopyInv
  <2> SUFFICES ASSUME Init PROVE OneDevice!Init /\ CopyInv
    OBVIOUS
  <2>1. Active = {}
    BY DEF Init, Active
  <2>2. Handed = FALSE
    BY <2>1 DEF Handed
  <2> QED
    BY <2>1, <2>2 DEF Init, OneDevice!Init, OneDevice!Blank, Blank, CopyInv
<1>2. IInv /\ CopyInv /\ [Next]_vars => CopyInv' /\ [OneDevice!Next]_(OneDevice!vars)
  <2> SUFFICES ASSUME IInv, CopyInv, [Next]_vars
               PROVE  CopyInv' /\ (OneDevice!Next \/ UNCHANGED OneDevice!vars)
    OBVIOUS
  <2> USE DEF OneDevice!Next
  <2>1. ASSUME NEW t \in Threads, Thread(t)
        PROVE  CopyInv' /\ (OneDevice!Next \/ UNCHANGED OneDevice!vars)
    BY <2>1, AskImplements, AnswerImplements, DieImplements,
       SaveTokenImplements, FinishImplements DEF Thread
  <2>2. CASE Submit
    BY <2>2, SubmitImplements
  <2>3. CASE Start
    BY <2>3, StartImplements
  <2>4. CASE PowerCut
    BY <2>4, PowerCutImplements
  <2>5. CASE RunRetry \/ RunLeave \/ Administrator \/ World \/ UNCHANGED vars
    BY <2>5, OutsideImplements
  <2> QED
    BY <2>1, <2>2, <2>3, <2>4, <2>5 DEF Next
<1> QED
  BY <1>1, <1>2, EnrolmentInvariant, PTL DEF Spec, ImplementsDevice, OneDevice!Spec

=============================================================================
