-------------------------------- MODULE Kiosk --------------------------------
(***************************************************************************)
(* The kiosk as a viewer meets it: the window of KioskWindow under its     *)
(* controller (controller.py), the carousel's clock, the remote (cec/      *)
(* keymap.py, _on_cec_event, _dispatch), the keyboard (ui/app.py), the     *)
(* server's payload as the client reads, orders and caches it (api.py,     *)
(* models.py), and restarts.                                               *)
(*                                                                         *)
(* Time is counted in ticks, Interval of them between two turns of the     *)
(* carousel; the main loop may turn it late, never early.  A key of the    *)
(* remote is posted to the main loop; as the loop runs one call after the  *)
(* other, the step here is the run of that call.  Fetch and save are one   *)
(* step with the call they post: Refresh takes them apart.                 *)
(***************************************************************************)
EXTENDS KioskWindow

CONSTANTS
  Interval,   \* rotate_interval in ticks, 0 for no carousel
  Start,      \* start_dashboard, NoId when not set
  Payloads,   \* what GET /api/v1/client/config may return
  NoOrder,    \* an order that is no number
  Codes,      \* CEC user control codes the remote sends
  KeyNames    \* GDK names of the keys of a keyboard

\* A dashboard as the server lists it.  name is its place among all names,
\* regardless of case; id is NoId in an entry that has none or is no object.
Entry ==
  [id : Ids \cup {NoId}, name : Nat, order : Int \cup {NoOrder},
   enabled : {"yes", "no", "absent"}]

Payload == [entries : Seq(Entry), default : Ids \cup {NoId}]

NoPayload == [entries |-> <<>>, default |-> NoId]

-----------------------------------------------------------------------------
(* The payload *)

\* parse_client_config: entries that are disabled or have no id are skipped.
Usable(p) ==
  {k \in DOMAIN p.entries : p.entries[k].enabled # "no" /\ p.entries[k].id # NoId}

\* _as_order.  A few values that look like numbers ("--5", a superscript digit,
\* NaN, Infinity) raise instead: such a payload is no list but an exception of
\* the fetch, Refresh's unclassified one.
Order(e) == IF e.order = NoOrder THEN 0 ELSE e.order

\* sort_dashboards: by order, then name, and stable.
Before(p, j, k) ==
  LET a == p.entries[j]
      b == p.entries[k]
  IN \/ Order(a) < Order(b)
     \/ Order(a) = Order(b) /\ a.name < b.name
     \/ Order(a) = Order(b) /\ a.name = b.name /\ j < k

Sorted(p) ==
  LET U == Usable(p)
  IN [n \in 1..Cardinality(U) |->
        p.entries[CHOOSE k \in U : Cardinality({j \in U : Before(p, j, k)}) = n - 1]]

ListOf(p) == LET s == Sorted(p) IN [n \in DOMAIN s |-> s[n].id]

\* Mutation: the order is not kept.
SavedUnordered(p) ==
  LET s == Sorted(p)
  IN [entries |-> [n \in DOMAIN s |->
                     [s[n] EXCEPT !.order = NoOrder, !.enabled = "absent"]],
      default |-> p.default]

\* What ConfigCache.save keeps of it.
Saved(p) ==
  LET s == Sorted(p)
  IN [entries |-> [n \in DOMAIN s |->
                     [s[n] EXCEPT !.order = Order(s[n]), !.enabled = "absent"]],
      default |-> p.default]

\* The configured start dashboard wins over the server's.
Wanted(p) == IF Start # NoId THEN Start ELSE p.default

ASSUME KioskAssumption ==
  /\ Interval \in Nat
  /\ Start \in Ids \cup {NoId}
  /\ NoOrder \notin Int
  /\ Payloads \subseteq Payload
  /\ Codes \subseteq Nat

-----------------------------------------------------------------------------
(* Keys *)

Digit(d) == [kind |-> "digit", digit |-> d]

Act(name) == [kind |-> name]

\* action_for
ActionFor(code) ==
  CASE code \in 32..41 -> Digit(code - 32)
    [] code \in {0, 43} -> Act("menu.activate")
    [] code \in {1, 55} -> Act("menu.up")
    [] code \in {2, 56} -> Act("menu.down")
    [] code \in {3, 49, 76, 72} -> Act("dashboard.prev")
    [] code \in {4, 48, 75, 73} -> Act("dashboard.next")
    [] code = 13 -> Act("menu.close")
    [] code \in {9, 10, 11, 12, 114} -> Act("menu.toggle")
    [] code = 115 -> Act("dashboard.reload")
    [] code \in {116, 68, 70} -> Act("rotate.toggle")
    [] code \in {113, 53} -> Act("info.toggle")
    [] code \in {69, 50} -> Act("dashboard.home")
    [] code = 108 -> Act("blank.on")
    [] code = 109 -> Act("blank.off")
    [] OTHER -> Act("none")

\* action_for_key_name; a digit of the main block or the keypad is its name.
Digits == <<"1", "2", "3", "4", "5", "6", "7", "8", "9">>

ActionForKeyName(name) ==
  CASE name = "0" -> Digit(0)
    [] \E d \in DOMAIN Digits : Digits[d] = name ->
         Digit(CHOOSE d \in DOMAIN Digits : Digits[d] = name)
    [] name = "Up" -> Act("menu.up")
    [] name = "Down" -> Act("menu.down")
    [] name = "Left" -> Act("dashboard.prev")
    [] name = "Right" -> Act("dashboard.next")
    [] name \in {"Return", "KP_Enter", "space"} -> Act("menu.activate")
    [] name \in {"Escape", "BackSpace"} -> Act("menu.close")
    [] name \in {"m", "Menu"} -> Act("menu.toggle")
    [] name \in {"r", "F5"} -> Act("dashboard.reload")
    [] name = "h" -> Act("dashboard.home")
    [] name = "i" -> Act("info.toggle")
    [] name = "p" -> Act("rotate.toggle")
    [] OTHER -> Act("none")

\* handle_action: what its table does not hold, rotate.toggle, does nothing.
Handle(w, a) ==
  CASE a.kind = "digit" -> JumpToDigit(w, a.digit)
    [] a.kind = "menu.toggle" -> MenuToggle(w)
    [] a.kind = "menu.close" -> MenuClose(w)
    [] a.kind = "menu.up" -> MenuStep(w, -1)
    [] a.kind = "menu.down" -> MenuStep(w, 1)
    [] a.kind = "menu.activate" -> Activate(w)
    [] a.kind = "dashboard.next" -> Step(w, 1)
    [] a.kind = "dashboard.prev" -> Step(w, -1)
    [] a.kind = "dashboard.reload" -> ReloadCurrent(w)
    [] a.kind = "dashboard.home" -> ShowIndex(w, 0)
    [] a.kind = "info.toggle" -> [w EXCEPT !.info = ~ @]
    [] a.kind = "blank.on" -> [w EXCEPT !.blank = TRUE]
    [] a.kind = "blank.off" -> [w EXCEPT !.blank = FALSE]
    [] OTHER -> w

-----------------------------------------------------------------------------
VARIABLES
  rotating,  \* _rotating
  clock,     \* ticks until the carousel turns, NoClock without a source
  cache,     \* client-config.json
  known,     \* auxiliary: the list the server last sent
  held,      \* auxiliary: what the remote chose, until it may change
  left       \* auxiliary: for how many ticks yet it may not

carousel == <<rotating, clock>>
choice == <<held, left>>
kioskVars == <<win, carousel, cache, known, choice>>

NoClock == -1

\* The dashboard on screen and, where the chooser is open, its highlight.
Claim(w) ==
  [page |-> IF HasCurrent(w) THEN Current(w) ELSE NoId,
   row |-> IF w.menuOpen /\ w.selected < Len(w.dashboards)
             THEN w.dashboards[w.selected + 1] ELSE NoId]

NoClaim == [page |-> NoId, row |-> NoId]

\* _apply_rotation
Clock(on) == IF on /\ Interval > 0 THEN Interval ELSE NoClock

\* Mutation: the clock runs on under the viewer.
RestartClockNot(c) == c

\* _restart_rotation_clock
RestartClock(c) == IF c # NoClock THEN Clock(rotating) ELSE c

\* _toggle_rotation
Toggle ==
  /\ win' = Toast(win)
  /\ IF Interval = 0
       THEN UNCHANGED carousel
       ELSE rotating' = ~ rotating /\ clock' = Clock(~ rotating)
  /\ UNCHANGED <<cache, known, choice>>

\* _on_cec_event and _dispatch for any other key: the clock, then the window.
Navigate(a) ==
  /\ win' = Handle(win, a)
  /\ clock' = RestartClock(clock)
  /\ held' = Claim(win') /\ left' = Interval
  /\ UNCHANGED <<rotating, cache, known>>

Remote(code) ==
  LET a == ActionFor(code)
  IN /\ a # Act("none")
     /\ IF a = Act("rotate.toggle") THEN Toggle ELSE Navigate(a)

\* The TV's <Standby>, and its return.
Standby ==
  /\ \E b \in BOOLEAN : win' = [win EXCEPT !.blank = b]
  /\ UNCHANGED <<carousel, cache, known, choice>>

\* _on_key_pressed: straight to the window, past the controller, and not
\* at all while the setup field owns the keyboard.
Keyboard(name) ==
  /\ ~ win.needsSetup
  /\ win' = Handle(win, ActionForKeyName(name))
  /\ held' = NoClaim /\ left' = 0
  /\ UNCHANGED <<carousel, cache, known>>

\* A row of the chooser, touched or clicked.
Row ==
  /\ RowActivated
  /\ held' = NoClaim /\ left' = 0
  /\ UNCHANGED <<carousel, cache, known>>

-----------------------------------------------------------------------------
(* Time *)

Tick ==
  /\ clock > 0 \/ (clock = NoClock /\ left > 0)
  /\ clock' = IF clock = NoClock THEN clock ELSE clock - 1
  /\ left' = IF left > 0 THEN left - 1 ELSE 0
  /\ held' = IF left' > 0 THEN held ELSE NoClaim
  /\ UNCHANGED <<win, rotating, cache, known>>

\* Mutation: the carousel stops at the end of the list.
RotateToEnd ==
  /\ clock = 0
  /\ win' = IF win.current + 1 < Len(win.dashboards) THEN Step(win, 1) ELSE win
  /\ clock' = Interval
  /\ UNCHANGED <<rotating, cache, known, choice>>

\* _rotate, which GLib calls again an interval later.
Rotate ==
  /\ clock = 0
  /\ win' = Step(win, 1)
  /\ clock' = Interval
  /\ UNCHANGED <<rotating, cache, known, choice>>

-----------------------------------------------------------------------------
\* A list from the server is cached and applied; a claim on what it
\* withdraws, or on a row of another list, lapses.
Fetch(p) ==
  /\ win' = ApplyList(win, ListOf(p), Wanted(p))
  /\ cache' = Saved(p)
  /\ known' = ListOf(p)
  /\ held' = [page |-> IF held.page \in ListIds(win'.dashboards) THEN held.page ELSE NoId,
              row |-> IF win'.dashboards = win.dashboards THEN held.row ELSE NoId]
  /\ UNCHANGED <<carousel, left>>

\* attach: what a start makes of the cache.
Attach(needsSetup, c) ==
  /\ win' = IF ListOf(c) = <<>> THEN NewWindow(needsSetup)
            ELSE ApplyList(NewWindow(needsSetup), ListOf(c), Wanted(c))
  /\ rotating' = (Interval > 0)
  /\ clock' = Clock(rotating')

\* The process ends and snapd starts it again, perhaps with an address now.
Restart ==
  /\ \E b \in {win.needsSetup, FALSE} : Attach(b, cache)
  /\ held' = NoClaim /\ left' = 0
  /\ UNCHANGED <<cache, known>>

\* leave_setup, the load signals, the toast's timer.
Other ==
  /\ SetupDone \/ LoadStarted \/ LoadFinished \/ LoadFailed \/ HideToast
  /\ UNCHANGED <<carousel, cache, known, choice>>

KioskInit ==
  /\ win \in {NewWindow(b) : b \in BOOLEAN}
  /\ rotating = (Interval > 0)
  /\ clock = Clock(rotating)
  /\ cache = NoPayload
  /\ known = <<>>
  /\ held = NoClaim /\ left = 0

KioskNext ==
  \/ \E code \in Codes : Remote(code)
  \/ \E name \in KeyNames : Keyboard(name)
  \/ \E p \in Payloads : Fetch(p)
  \/ Standby
  \/ Row
  \/ Tick
  \/ Rotate
  \/ Restart
  \/ Other

KioskSpec == KioskInit /\ [][KioskNext]_kioskVars

\* Time passes, and the main loop comes round to the source.
KioskFairSpec == KioskSpec /\ WF_kioskVars(Tick) /\ WF_kioskVars(Rotate)

-----------------------------------------------------------------------------
KioskTypeOK ==
  /\ win \in Window
  /\ rotating \in BOOLEAN
  /\ clock \in {NoClock} \cup 0..Interval
  /\ cache \in Payload
  /\ known \in Seq(Ids)
  /\ held \in [page : Ids \cup {NoId}, row : Ids \cup {NoId}]
  /\ left \in 0..Interval

\* What a viewer chose with the remote, page or row, stays for a whole
\* interval, whatever the server sends meanwhile and however the carousel is
\* switched, unless the server withdraws it or another hand changes it
\* (_dispatch: "a viewer's choice is not yanked away half a second later").
RemoteChoiceStays ==
  left > 0 =>
    /\ held.page # NoId => win.visible = held.page
    /\ held.row # NoId =>
         win.menuOpen /\ win.dashboards[win.selected + 1] = held.row

\* The clock runs exactly while the carousel is on, through every order of
\* toggles, restarts of the clock, turns and starts.
ClockIffOn == (clock # NoClock) = (rotating /\ Interval > 0)

\* The list shown, and the list a start would show, is the list the server
\* last sent: writing the cache and reading it back loses no order.
RestartShowsSame ==
  /\ ListOf(cache) = known
  /\ ~ win.needsSetup /\ win.dashboards # <<>> => win.dashboards = known

\* The window stays in order under all of it.
WindowInOrder == WindowInv(win)

\* Left alone and switched on, the carousel shows every dashboard again and
\* again.
GoesRound ==
  <>[][Tick \/ Rotate]_kioskVars =>
    \A i \in Ids :
      <>[](rotating /\ ~ win.menuOpen /\ i \in ListIds(win.dashboards)) =>
        []<>(win.visible = i)

=============================================================================
