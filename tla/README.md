# A verification development of the VisionTAK client

The VisionTAK client is a kiosk for an appliance nobody logs in to: a board behind a TV, with a snap that
enrols with a server, shows the dashboards the server allows, and is driven by the TV's remote over
HDMI-CEC. When it goes wrong there is a blank wall and no shell. These modules model the parts in which
that could happen: the window and its live pages, the kiosk around it (remote, keyboard, carousel, cached lists), the
refresh and its cache, enrolment, the settings and the configure hook that writes them, and the CEC reader.
TLC checks each on a small instance, and TLAPS proves their safety properties, and that three of them implement
the abstract specification of what they promise, for every value of the constants.

Paths in this file are relative to the root of the repository; `src/…` without more is
`src/visiontak_client/…`. `PROJECT.json` gives the lines each definition stands for.

    tlc -config MCKioskWindow.cfg MCKioskWindow      # and so on, see "What is checked"
    tlapm KioskWindowProofs.tla                      # and KioskViewCacheProofs, KioskProofs, RefreshProofs,
                                                     # EnrolmentProofs, SettingsProofs, CecReaderProofs


## The system

One process, `visiontak-client`, run by snapd, which starts it again when it ends. Inside it:

| thread | what it runs | what it shares |
|---|---|---|
| GTK main loop | the window, the setup screen, the chooser, everything posted with `idle` | the widgets, which only it touches |
| timer threads | `_refresh`, `_poll_registration`; each sets the next timer | `_config`, `_client`, the cache file, `self-config.json`, the timer fields |
| `setup-register` | `_register_from_setup`, after an address was typed | the same |
| `cec-reader` | `CecReader._run` and the adapter under it | the adapter, which `stop` closes from another thread |

A worker never touches a widget: it posts a call with `GLib.idle_add` (`ui/app.py`, `idle`), and the main
loop runs the calls in order. There is no lock but the one in the kernel adapter's `close`; everything
else relies on one writer at a time, or on assignments being atomic.

| component | source | state | operations | correct when |
|---|---|---|---|---|
| Kiosk window | `ui/kiosk_window.py` | dashboards, index, live views and their recency, loading set, cover, toast, blanking, panel | `set_dashboards`, `show_index`, `handle_action`, the load signals, `leave_setup` | what is on screen is what the server allows and what the index says; no more than `max_live_views` pages live; a refresh disturbs nobody |
| Chooser | `ui/menu.py` | list, highlight, open | `open` `close` `toggle` `move` `activate` | the highlight is a row, whatever happens to the list |
| Configuration refresh | `controller.py:142-192` | one timer field, `_stopped` | `_schedule_refresh`, `_refresh`, `_apply`, `stop` | never dies, never goes back, catches up |
| Config cache | `api.py:196-221` | `client-config.json` and its `.tmp` | `save`, `load` | whole after any power cut, never behind the screen |
| Server API client | `api.py`, `models.py` | none but the settings | `fetch_client_config`, `register` | a list, or an exception of a known class |
| Enrolment | `firstrun.py`, `controller.py:54-130` | `_config`, the registration timer | `discover`, `attempt_registration`, `_register_from_setup`, `_poll_registration` | one asker at a time, the right address, the token kept, never gives up |
| Setup screen | `ui/setup.py`, `ui/kiosk_window.py:105-154` | entry sensitive or not, `_needs_setup` | submit, report, retry, leave | the person in front of it is always answered |
| Settings | `config.py`, `firstrun.discover`, `src/snap/hooks/configure` | `config.json`, `config.json.prev`, `self-config.json`, snapd's configuration | `load`, `persist`, `ensure_device_id`, `normalise_server_url`, the hook | a rejected setting is undone, a recorded one is found again, what was set last is what runs |
| Discovery | `discovery.py` | none | `describe`, `parse_option` | nothing that cannot be asked is taken |
| CEC reader | `cec/__init__.py`, `cec/base.py` | its thread, `_stop` | `_run`, `_pump`, `stop` | recovers, stops, keeps the order of events |
| Kernel CEC adapter | `cec/kernel.py` | the descriptor, the wake pipe, physical and logical address | `open`, `close`, `poll`, the drains, `announce` | no descriptor leaks, no plug missed, claims the link there is |
| libcec adapter | `cec/libcec.py` | a library handle and a queue | the same interface | the same |
| Carousel and dispatch | `controller.py:233-275` | rotation source, `_rotating` | `_dispatch`, `_rotate`, `_toggle_rotation` | a viewer's choice stays a full interval |
| Key maps | `actions.py`, `cec/keymap.py`, `ui/app.py` | none | `action_for`, `action_for_key_name`, `_on_key_pressed` | both hands do the same |
| Policy, branding, network facts, probe, shell | `ui/policy.py`, `branding.py`, `netinfo.py`, `probe.py`, `__main__.py`, `ui/app.py` | none, or none that changes | functions, or run once | each by its own definition |

How they interact:

- *refresh → window*: `idle(self._apply, …)`, then `set_dashboards` and, when there were no dashboards,
  `show_index` of the start dashboard. The refresh does not know what the window shows.
- *cache → window*: `attach` applies the cache before any timer exists.
- *setup screen → enrolment*: `_on_setup_submit` persists the address and calls `_configure_from_setup`,
  which starts the worker. The worker posts the answer back, and on approval starts *a second refresh chain*.
- *CEC → window*: an event becomes a posted `_dispatch`, `set_blanked` or `set_status`.
- *hook → client*: the configure hook is another process. It writes `config.json`, and the client reads it at its next
  start; `snapctl restart` makes that start happen. *Client → hook*: `persist` mirrors what it records into snapd's
  configuration, from which the next hook writes `config.json`.
- *controller → window*: `_dispatch` and the rotation source call `handle_action`; the keyboard calls it too, past
  the controller.
- *environment*: the server and its administrator, the network, the disk, the power, the TV and its cable,
  a person at the setup screen. All of them do as they please in the models, at any moment.

What makes it hard: lists that change under the viewer, the chooser and the eviction order; two chains
of timers writing one file; settings copied before a network call and stored back after it; power cuts
between any two system calls; tokens handed out once; exceptions outside the classes the handlers name; an
adapter that goes away, or is closed from another thread, in any of its calls; a kernel queue of one; two programs,
a shell script and the client, writing each other's input; a timer that must not take away what was just chosen.
`PROJECT.json` lists these hazards one by one, at the line where each bites, with the properties that cover it.


## The modules

### KioskWindow — the window and the chooser

Every method runs on the main loop to completion, so the module has one variable, `win`, a record of the
fields of `KioskWindow` and `DashboardMenu`, and each method is an operator from one record to the next. The
calls a method makes are nested operators in the order the code makes them: `ShowIndex` is
`show_index`, with `_view_for`, `_touch`, `_evict_surplus` and `_sync_loading` inside it. An action applies one
method: `Apply` (`KioskController._apply`), `SetupDone`, `KeyMenu`, `KeyShow` and `KeyChrome` (the table of
`handle_action`), `RowActivated`, `HideToast` and the three load signals.

Abstractions. A dashboard is its id, for its URL follows from the id. `_view_order`, a Python list, is the
order relation `order`, so that the proofs can speak of recency without positions; `KioskViewCache.ViewOrder`
turns it back into the list (a view's position is the number of views touched no later). `_evict_surplus` is one eviction, not a loop: with one view more than before
a second round is never needed, and if that were wrong `LiveViewBound` would fail. WebKit is
the state `page` of each view, seen by the code only through signals. Allowed there: a page that starts again by
itself, and a FINISHED after a failure, or none. The code never reads `page`.

### ViewCache and KioskViewCache — what the window promises of its pages

`ViewCache` is the abstract specification: live pages are the last `MaxLive` distinct dashboards shown, less those
withdrawn since. It knows a set of allowed ids and a sequence, nothing of indices, positions, signals or
choosers. `KioskViewCache` gives the mapping; `ImplementsViewCache` is checked by TLC and proved.

### Kiosk — the window under its controller

`Kiosk` EXTENDS `KioskWindow` and lets everything act on one window: the remote (`Remote`: `_on_cec_event` and `_dispatch`), the
keyboard (`Keyboard`, which does nothing while the setup screen owns it), rows that are touched, the
carousel (`Tick`, `Rotate`), the TV's standby, lists from the server (`Fetch`) and restarts from the cache (`Restart`,
`Attach`). `ActionFor` and `ActionForKeyName` are the two key maps, entry by entry; `Handle` is the
table of `handle_action`. `ListOf` and `Saved` are `parse_client_config` with `sort_dashboards`, and what
`ConfigCache.save` keeps of the result: an entry has an id or none, an order that may be no number, a place among the names,
and a flag that may be absent.

Time is counted in ticks. GLib calls the carousel's source `Interval` ticks after it was set, or later if the main loop
is busy, never earlier: `Rotate` is enabled when the clock is at 0, and nothing forces it. `held` and `left` are auxiliary
and remember what the remote last chose and for how long that choice may not be taken away; `known` is the list the server last sent.
Fetch and save are one step here, since `Refresh` takes them apart. The keyboard bypasses `_dispatch`, as in the code,
so a choice is claimed for the remote only.

`KioskPages` joins the two: `LivePagesAreRecent` says that the whole kiosk, and not the window alone, steps as `ViewCache` does, and that
a restart begins with the pages a start shows.

### Refresh — the refresh chains and the cache file

A *chain* is a succession of timers, each set in `_refresh`'s `finally` by the one before. Its steps are the points at which
threads can interleave: the timer fires, the request is answered, the three system calls of `save` (open with
truncation, write, rename), the post, the test of `_stopped`, the new timer. `attach` starts the chain `Boot`;
an approval starts `Approval` and does not end the first. Files are inodes with names, because that
is what matters when two threads write the same `.tmp`. A list is the number of the change
on the server that made it, so "older" can be said. `Start` shows the cache like `attach`; `PowerCut` leaves the files
as they stand; `Stop` and `Exit` are `stop` and the return of `main`.

`LatestList` is what all this promises: a list on the server that changes, a list saved, which outlives the process, and a list on screen; both
only move to later ones, and the screen shows nothing that is not saved. It knows no chain, timer, file or posted call.
`RefreshLatestList` maps `saved` to what reading the cache file would give.

### Enrolment — address, registration, approval, token

Threads and timers that enrol are `job` (what), `pc` (where) and `asked` (the copy of `self._config` they
took). The setup worker becomes the poll when the answer is "pending", as `_register_from_setup` starts
the poll's first timer as its last act. The server is its record of this device and whether the token was
handed out; an answer may be lost after the server has acted on it. `Fail` is any `ApiError`; `Die` is any other
exception (`http.client` raises some on a garbled answer) and ends the thread, as the code does.
`saved` is what `config.load` would return, `Persist` may fail on a full disk, and `PowerCut` and `Start` are restarts.

`Device` is what it promises: the settings as one register that nobody copies, which a person, a start and a token handed out change in one step
each, and in which a token stays. `EnrolmentDevice` gives the mapping: a token is on its way (`handed`) while a thread has been given it and has not
stored its settings back.

### ServerAddress and Settings — two programs and their files

`ServerAddress` is pure: `NormaliseServerUrl`, `ValidAuthority` and `ValidPort` of `config.py`, and `DiscoverServerUrl`
(the first lease with the option decides, decoded as hexadecimal when it is that). An address
is a scheme, a kind of host and a port, which is all the code tells apart.

`Settings` has three actors. The *hook* (`src/snap/hooks/configure`) goes `Begin` (ask `snapctl` for every key, write the
temporary file), `Backup`, `Move`, `Check` (validate; roll back), `Commit` (snapd's, when the hook succeeds) and `Restart`. The
*client* goes `Boot` (`load` and `__post_init__`), `AssignId` (`ensure_device_id`), `Discover`, and runs; each value
it records is two steps, the file (`Persist`) and the mirror in snapd (`Mirror`, which may fail). A *person* types an address
(`Setup`). A power cut can come between any two of these steps, after which snapd runs an interrupted hook again with
the same change; the disk fills and empties at any moment. `Load` is the precedence of `load`: defaults, self-config.json,
config.json, environment. Four keys stand for the fourteen, one of each kind there is: recorded by the client too (address,
id), refused by the check (max-live-views; 0 stands for every refused value), unknown to the hook (dhcp-discovery).

`asked`, `recorded`, `torn` and `crossed` are auxiliary: what snapd would hold without the mirror, what `persist` ever recorded,
that a cut fell between the hook's move and its verdict (until a later hook has succeeded and restarted the client), and that a mirrored value
landed between a hook's move and its restart on the key the hook changes, or on a configuration that is torn.

### CecReader — the reader thread, the kernel adapter, stop

`pc` walks through `_run` and `_pump` and, inside them, through the adapter's `open`, `poll` and drains, one system
call at a time wherever another actor could be seen between two; a change of the link is taken by `StateChange` and, when it has to be, claimed
by `Reclaim`, so that the link may change again before the claim. The kernel's two queues (link changes,
messages), the descriptor, the wake pipe, the physical and the logical address are variables. `CecReader.stop` is
three steps in its own thread: the flag, the descriptor, the pipe. Around them are the TV: plugs, loss and
return of the device, messages; and the main loop, which runs what the events posted. `Slots`
is the length of the kernel's queue of link changes; Linux keeps one, and so does every run. What `CEC_ADAP_S_LOG_ADDRS` may answer (`Answers`) is
an error, or success with a usable address, with the unregistered one that the flags allow as a fallback, or, as the descriptor
is non-blocking, with the invalid one of a claim not yet ended. `_log_addr` (`log`) takes whatever a success brings, as in the code. The wake pipe
is one flag: its two ends have no numbers.

Two variables are auxiliary and only remember: `word`, the last thing the TV said as far as the device could know, and
`trouble`, which of three things went wrong that no change of the link accounts for: an uncaught `OSError` in `open` ("crash"); a claim that failed
or brought no usable address, or a transmission that failed, on a link that was up ("bus"); and two link changes
that became one in the kernel's queue ("merged"). `died` plays the same part in `Enrolment`.


## What is checked

All runs are exhaustive. Deadlock is checked in all but the CEC runs, where the client may have been stopped and the TV
have nothing left to do.

| run | module, configuration | distinct states | bounds |
|---|---|---|---|
| `window` | `MCKioskWindow` | 25 508 | 3 ids under symmetry, `MaxLive` 2, every list of up to 3 distinct ids and every list that repeats one |
| `refresh` | `MCRefresh` | 58 164 | one chain, 5 inodes, 3 versions of which the second allows nothing, 2 posted calls, 2 power cuts or stops |
| `refresh_both_chains` | `MCRefreshBoth` | 878 346 | both chains, 2 versions, 1 posted call, no cut |
| `kiosk` | `MCKiosk` | 10 380 | 3 ids, `MaxLive` 1, interval of 2 ticks, 4 payloads, 9 codes and 5 keys |
| `settings` | `MCSettings` | 1 332 200 | 2 ids that can be generated, 6 changes, 3 texts typed, 3 lease directories, 2 boards, DHCP discovery on or off, 2 runs of the hook, 1 power cut |
| `enrolment` | `MCEnrolment` | 14 984 | the server's address and a wrong one, every preset and offer, 2 threads, 2 power cuts |
| `cec_reader` | `MCCecReader` | 708 606 | 2 inputs, 4 kinds of message, 2 messages under way, 2 plugs or losses, queue of 1 |

**window.** `LiveViewBound`, `RecencyOrder`, `ShownIsCurrent`, `OnlyAllowed` and `HighlightInRange`: after any order of lists, keys,
digits, rows and signals the views, their order, the stack and the highlight agree. `CoverFollowsLoading`: after
every call the cover is up exactly if the dashboard on screen is loading, except that a call that ends without any
dashboard leaves it as it was (`set_dashboards([])` returns before `_sync_loading`). So no path raises a cover over the placeholder, but one can
stay there; that it does is described below. `RefreshIsInvisible` asks, in every reachable window and for every list that
still allows the dashboard on screen, that applying it changes neither the visible page, nor the cover,
nor any page still allowed. `ImplementsViewCache` is the refinement.
*Bounds:* three ids and two views make eviction, withdrawal of the current, of a live and of an evicted view, reordering and
a return after eviction all happen; a repeated id is included because nothing in `parse_client_config` rejects it.

**refresh.** `CacheReadable`: the file is whole in every state a power cut can leave. `NeverOlder`: who has been shown a list is shown no older one ever after, over any
number of cuts, restarts and failed saves; at worst the placeholder. `ImplementsLatestList`: the refinement, in which the screen shows
nothing the cache does not hold in this or a later version. `KeepsRefreshing`: nothing ends the chain. `Resync`: once the server is
reachable and the disk writable for good, the screen shows the server's list, whatever came before.
*Bounds:* three versions are the fewest with an empty list between two others; two cuts are a cut during recovery
from a cut. `InodesAssumption` says that there is always a free inode: five are the cache, the temporary file, one open file for
each of two chains, and a new one.

**refresh_both_chains.** `Resync` with the race on the `.tmp` file: a rename that finds the file gone raises, and the
`finally` saves both chains. That neither chain ever ends is proved for any number of them.

**kiosk.** `RemoteChoiceStays`: the page a viewer chose with the remote, or the row of the chooser, is still there until a whole
interval has passed, whatever the server sends and however the carousel is toggled, unless the server withdraws it, a list
moves the rows, or the keyboard or a touch changes it. `RestartShowsSame`: filtering, sorting, saving, reading and sorting
again gives the list that was shown. `GoesRound`: left alone with the carousel on and the chooser closed, every
dashboard comes on screen again and again.
*Bounds:* three dashboards let a turn go wrong in either direction; one live view evicts at every turn; two ticks
are the fewest with a moment between a choice and the turn; the payloads are one sorted by order with a tie broken by name, one
with an order that is no number, one that repeats an id and relies on stability, and none. A code or key of each kind
that acts differently stands for its group, and one of each map is unknown.

**settings.** `RejectedUndone`: outside the moment between the hook's `mv` and its verdict, `config.json` is one the client can
start with. `AddressKept`: an address recorded once is there at every later start. `AddressUsable`: nothing recorded as
an address is junk. `StableId`: a device makes up one id. `TakesEffect`: once a hook has ended, what runs is what was last set.
`ComesUp`: the client comes up again and again.
`RejectedUndone`, `TakesEffect` and `ComesUp` have a cut between the `mv` and the verdict (`torn`) in their premise, and `TakesEffect`
also a mirrored value that lands between a hook's move and its restart (`crossed`); what happens then is described below.
*Bounds:* two runs of the hook are a rejected set after an accepted one, and a set after the client has recorded something; one
cut can fall into either, and twice would be a cut of the hook that snapd runs again, which the proofs cover, for they bound neither.
Two ids to generate are the one and the second that must not be made up. The leases put an unreadable and a silent one
before an offer, and junk before an offer.

**enrolment.** `OneAsker` (at most one thread enrols), `AddressesAgree` (asked = configured = saved),
`ImplementsDevice` (the refinement: the copies of the settings that threads take and store back are not to be told from
one register, so that nothing stored back undoes an address or a token), `ScreenAnswers` (the entry is free, or something will free it or leave
the screen), `KeepsAsking`, and `Enrols` (the device comes to hold the token, as long as the administrator
issues it again when it was handed out to an answer that got lost). The last three leave out processes in which
an exception that is no `ApiError` has ended a thread: what becomes of those is a finding, below.
*Bounds:* two threads are one more than `OneAsker` allows; two power cuts are a cut after a cut.

**cec_reader.** `OneDescriptor` (no leak across failures, reopenings and a stop; for adapters that
can claim addresses), `KnowsLink` (in `poll` with nothing pending, the known physical address is the link's),
`LastWordWins` (with nothing under way, the screen is blank exactly if the TV's last word was `<Standby>`),
`ShutsDown` (a stop ends the reader wherever it is), `TracksLink` (the reader ends up having claimed and announced the
link there is). The premise of `TracksLink`, `trouble = {}`, leaves out three things at once: claims and transmissions that fail on a good link, the
`OSError` that `_run` does not catch, and link changes that the kernel makes one. It keeps refused and unregistered claims that a
link in motion accounts for, losses of the device, and plugs between any two system calls. What happens with merged changes is `reclaims`, below, and with an invalid address under what was met.
*Bounds:* two inputs and two changes make "away and back" possible; two messages are an order. Without messages the same properties were
checked with four changes.

Each property of a passing run has a mutant: a definition of the model changed the way a plausible bug
would change the code (a dropped clamp, a late eviction, a cache written in place, a retry forgotten), under which TLC finds
the property violated. They stand beside the definitions they replace and are marked "Mutation".

### Fairness

- `KioskWindow` states none; everything said of it is safety.
- Timers fire, requests end (`request_timeout`), polls and delays end, threads and the main loop are scheduled: weak
  fairness of each chain, each enrolling thread, the reader, the calls posted and the second half of a stop.
- snapd starts the daemon again: weak fairness of `Start`.
- `Settings`: the shell goes on to the hook's next line, and the client goes through its start, which includes that snapd starts it again
  when it has ended (`restart-condition: always`). Nobody has to set, type or free anything.
- `Kiosk`: time passes (`Tick`) and the main loop comes round to the carousel's source (`Rotate`).
- `[]<>(pc # "messages")` in `CecReader`: a drain of messages ends. The bus carries some forty bytes a second.
- Nothing is asked of the server, the network, the disk, the administrator, the TV or a person. Where a property needs
  them (`Resync`, `Enrols`, `TracksLink`) it says so in its premise.


## Where the code and what is said of it differ

Each is a run in which TLC finds the violation, and a finding in `PROJECT.json` with the line quoted.

- `cache_readable_both`: after an approval two chains save through one `client-config.tmp`. One truncates
  the file the other is about to rename, and a half-file takes the place of the good cache;
  `tests/test_api.py:106` says a power cut must not leave that. A start then shows nothing until the server answers.
- `falls_through`: an address from DHCP or from before a restart is polled for ever if nothing answers there, and the
  setup screen does not come; `docs/dhcp-discovery.md:17-20` and `firstrun.py:7-9` say that it does.
- `asks_whatever_happens`: an exception that is no `ApiError` leaves `_poll_registration` before it sets the next
  timer, and enrolment ends until a restart; `firstrun.py:3-5` says the device keeps asking.
- `reclaims`: the link goes while `open` is claiming, so that the claim brings nothing usable, and is back before the reader looks. The kernel,
  which keeps one link change, has one event with the physical address the client knows; `_on_state_change`
  takes it for no change, and the client stays without a logical address. `docs/cec.md:86-87` says it re-claims on the next event.
- `stable_id`: `load` puts the `device-id` of `config.json` over the one the client has recorded. If an administrator sets one that
  `ensure_device_id` takes for weak (`raspberrypi`, or anything shorter than eight characters, such as `lobby`), every start
  makes up and records another, and the server sees a stranger each time. The docstring (`config.py:168-172`) and
  `docs/dhcp-discovery.md:119-122` promise one id that survives reboots.

Met while modelling and not made runs, most of them since a property saying so would fail within a few steps and explore nothing:

- a list without dashboards that arrives while the page on screen is loading leaves "Connecting…" over the placeholder until a dashboard is
  shown again, since `set_dashboards` returns before `_sync_loading` (`kiosk_window.py:168-172`). The cover is for a webview that has not painted (73-74),
  and a cover that stays up is what 265-267 wants to prevent. In the model: a list, then an empty list. It is the exception in `CoverFollowsLoading`;
- a page that fails in the background uncovers the page on screen before its first paint, because the handler clears the entry
  of the current dashboard (`kiosk_window.py:268`). In the model: a list that gives two pages, then a failure of the other;
- a claim on the non-blocking descriptor that comes back before an address is chosen holds 0xff, which is stored unchecked (`kernel.py:107`);
  announcing from it raises a `ValueError` (line 118), which ends the reader until a restart. In the model: `Claim` with
  "invalid", then `Announce`;
- with a logical address held, a link that moves and returns, *after* the claim, before the reader takes the event, is one event with the known
  address, and the TV is not told again, though `docs/cec.md:32-34` says that every hot-plug is announced. It has the cause of `reclaims`;
- the toast of a failed page says "retrying" although nothing retries;
- a few values of `order` that look like numbers (`--5`, a superscript digit, `NaN`) raise in `_as_order`, whose docstring says that a nonsense
  value sorts first rather than failing; the fetch then ends in an unclassified exception, which the chain survives;
- a full disk keeps a fetched list off the screen, because `save` precedes the post; `refresh_interval=0`
  also disables the fetch after an approval;
- a device with a token but no address stays at the setup screen, told that nobody answered;
- an exception other than `ApiError` leaves the setup entry insensitive;
- an adapter without `CEC_CAP_LOG_ADDRS` leaks three descriptors every five seconds, and an `OSError` in `open`'s
  ioctls ends the reader; events drained before an `OSError` are lost; a claim that
  failed, or that brought the unregistered address, which is reported as READY, is not tried again for the same physical address;
- a cut between the hook's `mv` and its verdict leaves the new file; snapd runs the hook again, which backs up *that*
  file, so that a rollback restores what was rejected, and the client ends at every start until the next accepted set;
- a value the client mirrors into snapd's configuration while an administrator sets the same key can land after the
  administrator's, and the next hook writes it to `config.json`; the same happens when a hook
  that was to unset the address is cut short, fails on a full disk when it runs again, and a person has typed another meanwhile;
- `README.md:76-79` lists `dhcp-discovery`, which is not among the hook's `KEYS`, so that `snap set` of it reaches no client;
- an address set with `snap set server-url` is not normalised and passes `--check-config`, unlike the same text typed at the screen;
- `grep -q active` in the hook also matches `inactive`, so a stopped service is started;
- the first lease with the option decides, even if it is unusable and a later one is not;
- the keyboard goes past `_dispatch`: it does not restart the carousel's clock, and `p` does nothing (`docs/cec.md:61-63`
  lists it among the same actions); the chooser's highlight is a position, so a reordered list puts it on another dashboard;
- `LibCecBackend.open` registers its callbacks again at every attempt, and nothing removes them: whether a key then arrives more than once
  is up to the library;
- `_schedule_refresh` can set one timer after `stop`; it is a daemon thread, and nothing comes of it.


## What is proved

TLAPS proves the following for all values of the constants that satisfy each module's `ASSUME`. Every proof has the same
shape: an inductive invariant `IInv`; `Init => IInv`; one lemma per operator or action that `IInv`
is preserved; and a last temporal step. That a module implements an abstract specification is proved step by step from `IInv`: each step of the
module, seen through the mapping, is one named action of the abstract one or leaves its variables alone.

**KioskWindowProofs** (`WindowAssumption`: lists are sequences of ids, `MaxLive` at least 1, the two special children of the stack
are no ids). `IInv` is `WindowInv(win)`: types, order of views, allowed views, bound, screen, highlight and cover together.
It has to be all of them: that a victim is found needs the order to be total on the views; that the victim is not the
page being shown needs that page to be the most recent; that the bound holds needs the victim. As methods are operators
on records, the lemmas are about operators (`Touch` moves an id to the end of a linear order, evicting the
oldest leaves a linear order, `ShowIndex` establishes the screen from views that are in order) and the actions follow from them.
Theorems: `WindowInvariant`, `TypeCorrect`, `LiveViewsBounded`, `ScreenShowsCurrent`, `VictimAlwaysFound` (the recency order
orders the live views), `WithdrawnForgotten` (`OnlyAllowed`), `HighlightOnARow`, `CoverTruthful` (`CoverFollowsLoading`; its exception
is the lemma `CoverStands`: no call that ends without dashboards touches the cover) and `RefreshUnseen` (`RefreshIsInvisible`, for every list there is).

**KioskViewCacheProofs**. `WindowImplementsCache` (`Spec => ImplementsViewCache`), for any ids, lists and `MaxLive`. The window's order is a relation and the
abstract one a sequence, so the argument starts with a fact about both: a linear order on a finite set has exactly one listing (`ViewOrder`, by rank).
With it, the listing after a touch is the listing without the id, and the id; after an eviction it is the tail; after
a list from the server it is the old one with the withdrawn ids taken out. `Kept` in `ViewCache` says the last without `SelectSeq`, which
takes an operator and about which no lemma could be instantiated.
`WindowInv` supplies that the order is linear on the live views and that one eviction is enough.

**KioskProofs** (`KioskAssumption`: payloads are typed, `NoOrder` is no number; any interval, start dashboard, payloads and keys).
`CacheKeepsOrder` is about the operators alone: for every payload, the list read back from the cache is the list shown. As
`Sorted` places each usable entry by the number of entries before it, the argument is on ranks: `Before` is a strict linear order on a finite
set, so ranks are a bijection onto `0..n-1`, and in what `Saved` writes the entries before position n are exactly those at smaller positions.
`KioskInv` is `WindowInv(win)` (the lemmas of `KioskWindowProofs` carry it through every action), `ListInv` (cache and
screen hold the list last sent), `CarouselInv` (a source exactly while the carousel is on) and `ChoiceInv`. The last is what
`RemoteChoiceStays` lacks for induction: while a choice is held the clock is off or has at least as many ticks to go
as the choice. Theorems: `KioskTypeCorrect`, `WindowAlwaysInOrder`, `ClockAlwaysIffOn`, `ChoiceAlwaysStays`, `StartAlwaysShowsSame`.
`SortIsStable` is the specification of `sort_dashboards` that needs no rank: the list is a bijection of the usable entries onto `1..n`, by order, then by
name, and stable. `PagesAlwaysRecent` (`KioskSpec => LivePagesAreRecent`) carries `ViewCache` from the window to the
kiosk: every key, row, turn of the carousel, fetch, standby and load signal is one step of it or none, and a restart starts again with at most the first dashboard
of the cached list and the start dashboard. It is proved only; TLC has no run of it, for `MaxLive` is 1 in `kiosk`.

**RefreshProofs** (`RefreshAssumption`, `InodesAssumption`). For any chains: `TypeCorrect` and `NeverStopsRefreshing`, from the invariant that a process which is
not stopped has each chain it started at a timer or inside `_refresh`. For one chain (`Chains = {Boot}` is a hypothesis of the
theorems, since two race): `CacheAlwaysReadable`, `CacheNeverBehind`, `ScreenNeverGoesBack`. `CacheInv` says what is on its way: the chain about to
rename holds a whole list in its temporary file, never the cache's inode; versions are ordered from the screen through the
posted calls and the cache to the one just fetched.
`NothingOlder` (`NeverOlder`) speaks of the whole future of a state, and is proved for each list n apart: `FloorInv(n)`, that the cache, the posted
calls and the screen hold nothing before n but the placeholder, holds when n is on screen, because the screen is never ahead of the cache, and no step ends it, cuts
and restarts included. `RefreshImplementsLatestList` (`Spec => ImplementsLatestList`): a rename is `Save` or, of the
same list, nothing; the call that applies a list is `Show` or nothing; whatever the other steps of a chain do to files is not seen. The hypothesis of one chain is
needed: with two, the older answer can be renamed last, and the saved list goes back.

**EnrolmentProofs** (`EnrolmentAssumption`: the server is at one of the addresses, `NoUrl` is none, presets are settings).
`OneAsker` alone is not inductive: that a submit starts no second asker needs `NobodyWhileEditable` (while a person may
type, nobody enrols; a posted "retry" means the worker has ended), and that a copy stored back drops no token needs
`TokenCopied`; that nothing but an unclassified exception ends the poll needs `GoesOn`. Theorems: `EnrolmentInvariant`, `TypeCorrect`,
`OneAskerAgrees`, `TokenNeverDropped` (`TokenKept`), `AddressNeverCrossed`, `ScreenAlwaysAnswers`, `AlwaysKeepsAsking`, for any number of threads,
addresses and cuts. `EnrolmentImplementsDevice` (`Spec => ImplementsDevice`) needs more, `CopyInv`: while a thread has a copy of the settings, the copy is the settings in
use, with the token added once it was handed out; nobody asks with a token in hand; and a token on the disk is in use or about to be.
A store of the copy is then `Use`, or changes nothing, and a lost answer, a full disk, a thread that ended or a power cut is
`Lose`, `Halt` or nothing.

**SettingsProofs** (`SettingsAssumption`: values are typed and told apart). For any keys' values, changes, leases, boards, runs of the hook and
cuts: `TypeCorrect`; `RejectedAlwaysUndone`, if no environment sets a refused value (nothing could undo that), from `HookInv`: until the verdict
`config.json.prev` holds a file that was accepted; `AddressAlwaysKept` and `AddressAlwaysUsable`, from `AddressInv`: what was recorded
stays in `self-config.json`, which the hook does not touch; `IdAlwaysStable`, if neither a change nor the environment sets a weak id, from
`IdInv`: an id once recorded is in `self-config.json` and thus what every start loads, unless a stronger one covers it;
`NormalisedStays`: an address made usable is not changed by being made usable again;
`WhatIsSetRuns` (`TakesEffect`), if the environment leaves the hook's keys alone, from `Followed`: of what was asked, what snapd, the hook, both files
and the client each hold, at each place of the hook. The condition on mirrored values (`crossed`) is what `Followed` needs to be inductive,
no more: for every other mirrored value it shows that the client held what was asked already.

**CecReaderProofs** (`CecAssumption`: at least one slot). `IInv` adds to the types `Accounted` (the descriptors held are the
one `_fd` names; none when about to open) and `LinkQueued` (the newest change waiting is the link's state; if
none waits, the reader has seen it). The latter holds for every queue length, since a full queue replaces its newest
entry. Theorems: `ReaderInvariant`, `TypeCorrect`, `NoDescriptorLeaks`, `NoLinkChangeMissed`, and
`LastWordAlwaysWins` from `WordInv`: the last word is on the screen, or it is the last that matters of what is under way, among the calls posted,
the events collected or the messages queued, looked for in this order. What counts as mattering depends on where the client is plugged in, and
`LinkQueued` says that this is settled before messages are drained. `EventsOnly`, a second invariant, says that until messages are drained only link changes are
collected, which order nothing. All five hold for any queue length, one slot included, and whatever claims bring.

**Only model-checked.** What rests on fairness (`Resync`, `Enrols`, `ShutsDown`, `TracksLink`, `ComesUp`, `GoesRound`): the
prover has no liveness under fairness and no `ENABLED`. Every other property of a passing run is stated by a theorem.


## What is not modelled

- *libcec adapter* (`cec/libcec.py`): it is called back on threads of a C++ library whose order and lifetime nothing in the
  repository shows; a model would be one of guesses. The kernel adapter is what the snap uses.
- *Navigation policy* (`ui/policy.py`): a function of a host and a list of hosts, without state, asked by WebKit and answered at once; only string
  comparison happens in it, which a model would abstract away.
- *CEC user API* (`cec/uapi.py`): ioctl numbers and layouts of structures. *Branding and network facts*: files and addresses
  looked up for display. *Probe*: a developer's tool. *Images, VM and container scripts*: built and run elsewhere.
- Of `ui/app.py` and `__main__.py`: the wait for the compositor and the style sheet, once each at a start, before anything that
  is modelled exists.
- Within the modelled parts: wording, styling and layout; the contents of CEC frames; WebKit's inside; delays, except the
  carousel's (a timer runs out at any time, and the longer delay after an `AuthError` is a delay); writes that reach the disk late; HTTP and
  JSON; the ten settings that behave like one of the four in `Settings`; `write_snap_config`, which nothing calls.


## Plan

In order, most important first.

1. `KioskWindow`, `ViewCache`, `KioskViewCache`; proofs, of the refinement too. *Done.*
2. `Refresh`, `LatestList`; proofs, of the refinement too. *Done.*
3. `Enrolment`, `Device`; proofs, of the refinement too. *Done.*
4. `CecReader`; proofs. *Done.* Left: an abstract specification of what a viewer may rely on, screen and word of the TV, and the refinement.
5. `ServerAddress` and `Settings`; proofs. *Done.* Left: an abstract specification of set, record and load as one map each.
6. `Kiosk`, `KioskPages`; proofs. *Done.*
7. Left, should the code come to it: a model of the libcec adapter once its library's callbacks are pinned down by a test, and the
   composition of `Settings` with `Enrolment`, whose `saved` is `Settings`' files taken as one.
