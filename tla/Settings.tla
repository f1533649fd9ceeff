------------------------------ MODULE Settings ------------------------------
(***************************************************************************)
(* Where a device's settings live and who writes them: the configure hook  *)
(* (snap/hooks/configure), which turns snapd's configuration into          *)
(* config.json, checks it and undoes it; the client (config.py,            *)
(* __main__.py, firstrun.discover), which keeps what it worked out itself  *)
(* in self-config.json and mirrors it into snapd's configuration; and the  *)
(* start that reads them all.  Hook and client run at once, the disk may   *)
(* be full, and the power may go between any two steps.                    *)
(*                                                                         *)
(* Four settings stand for the fourteen: the address and the id, which the *)
(* client records too; max-live-views, which the hook's check may refuse   *)
(* (0 stands for every refused value) and whose default depends on the     *)
(* board; dhcp-discovery, which the hook does not know.  Replacing a file  *)
(* by rename is atomic.  snapd runs one hook at a time, runs an interrupted*)
(* one again, and commits its change when it succeeds (external).          *)
(***************************************************************************)
EXTENDS ServerAddress, FiniteSets

CONSTANTS
  Unset,      \* a key that is not in a file
  Absent,     \* a file that is not there
  On, Off,    \* dhcp-discovery
  Hostname,   \* the host's name, as weak an id as any (_WEAK_DEVICE_IDS)
  Named,      \* ids an administrator may choose
  Fresh,      \* ids the client may generate
  Changes,    \* what snap set and snap unset may change
  Typed,      \* what a person may type at the setup screen
  Leases,     \* what the lease directory may hold
  Environs,   \* what VISIONTAK_* variables may set
  Memories,   \* the board's memory in MiB
  MaxSets,    \* bound on runs of the hook
  MaxCuts     \* bound on power cuts

Keys == {"url", "id", "live", "dhcp"}

\* KEYS of the hook.
HookKeys == Keys \ {"dhcp"}

Blank == [k \in Keys |-> Unset]

\* What a mapping may hold (_from_mapping), and what a start makes of it.
Mapping ==
  [url : Text \cup {Unset}, id : Named \cup Fresh \cup {Hostname, Unset},
   live : Nat \cup {Unset}, dhcp : {On, Off, Unset}]
Config ==
  [url : Text \cup {Unset}, id : Named \cup Fresh \cup {Hostname},
   live : Nat \ {0}, dhcp : {On, Off}]

NoChange == [key |-> "none", value |-> Unset]

ASSUME SettingsAssumption ==
  /\ Unset \notin Text \cup Nat \cup Named \cup Fresh \cup {Hostname, On, Off}
  /\ Absent \notin Mapping
  /\ Hostname \notin Named \cup Fresh
  /\ Named \cap Fresh = {}
  /\ Fresh \cap Text = {}
  /\ On # Off
  /\ Environs \subseteq Mapping
  /\ NoChange \in Changes
  /\ \A c \in Changes \ {NoChange} :
       c.key \in Keys /\ [Blank EXCEPT ![c.key] = c.value] \in Mapping
  /\ Typed \subseteq Text
  /\ Leases \subseteq Seq(Lease)
  /\ Memories \subseteq Nat
  /\ MaxSets \in Nat /\ MaxCuts \in Nat

VARIABLES
  snapd,      \* snapd's configuration, as committed
  conf,       \* config.json
  prev,       \* config.json.prev
  self,       \* self-config.json, Blank while there is none
  hook,       \* where the configure hook is
  change,     \* what the snap set that runs it changes
  view,       \* what snapctl get told it, in config.json.tmp
  client,     \* where the client is
  running,    \* the client's Config
  disk,       \* whether files can be written
  environ,    \* the environment, the same at every start
  memory,     \* the board
  sets,       \* runs of the hook so far
  cuts,       \* power cuts so far
  asked,      \* auxiliary: snapd's configuration but for what was mirrored
  recorded,   \* auxiliary: the values persist has recorded
  torn,       \* auxiliary: a cut left in config.json what was not accepted,
              \* and no start since was from what was
  crossed     \* auxiliary: a mirrored value met a change of the same key
              \* between move and restart, or a torn config.json

files == <<conf, prev, self>>
board == <<environ, memory>>
bounds == <<sets, cuts>>
vars == <<snapd, files, hook, change, view, client, running, disk, board,
          bounds, asked, recorded, torn, crossed>>

-----------------------------------------------------------------------------
(* load *)

\* dict.update: the upper mapping wins wherever it says anything.
Over(lower, upper) ==
  [k \in Keys |-> IF upper[k] = Unset THEN lower[k] ELSE upper[k]]

\* The low- and high-memory profiles, below every explicit setting.
LiveViews == IF memory < 1536 THEN 1 ELSE IF memory >= 3072 THEN 6 ELSE 3

Defaults == [url |-> Unset, id |-> Hostname, live |-> LiveViews, dhcp |-> Off]

File(f) == IF f = Absent THEN Blank ELSE f

\* Mutation: what the client recorded beats what an administrator set.
LoadSelfLast(f) == Over(Over(Over(Defaults, File(f)), self), environ)

\* load, where config.json is f: defaults, self-config.json, config.json,
\* the environment.
Load(f) == Over(Over(Over(Defaults, self), File(f)), environ)

\* Config.__post_init__
Valid(s) == s.live >= 1

-----------------------------------------------------------------------------
(* The configure hook *)

Apply(s, c) == IF c.key \in Keys THEN [s EXCEPT ![c.key] = c.value] ELSE s

\* snapctl get of every key, written to config.json.tmp; a cut hook runs
\* again with its change.
Begin(c) ==
  /\ \/ hook = "idle" /\ sets < MaxSets /\ sets' = sets + 1
     \/ hook = "again" /\ c = change /\ UNCHANGED sets
  /\ change' = c
  /\ view' = [k \in Keys |-> IF k \in HookKeys THEN Apply(snapd, c)[k] ELSE Unset]
  /\ hook' = IF disk = "ok" THEN "begun" ELSE "idle"
  /\ UNCHANGED <<snapd, files, client, running, disk, board, cuts, asked, recorded, torn, crossed>>

\* cp config.json config.json.prev, or rm -f config.json.prev.
Backup ==
  /\ hook = "begun"
  /\ IF disk = "ok" \/ conf = Absent
       THEN prev' = conf /\ hook' = "backed"
       ELSE hook' = "idle" /\ UNCHANGED prev
  /\ UNCHANGED <<snapd, conf, self, change, view, client, running, disk, board,
                 bounds, asked, recorded, torn, crossed>>

\* mv config.json.tmp config.json
Move ==
  /\ hook = "backed"
  /\ conf' = view
  /\ hook' = "moved"
  /\ UNCHANGED <<snapd, prev, self, change, view, client, running, disk, board,
                 bounds, asked, recorded, torn, crossed>>

\* Mutation: a rejected file stays.
CheckKeepsFile ==
  /\ hook = "moved"
  /\ prev' = Absent
  /\ IF Valid(Load(conf))
       THEN hook' = "accepted"
       ELSE hook' = "idle"
  /\ UNCHANGED <<snapd, conf, self, change, view, client, running, disk, board,
                 bounds, asked, recorded, torn, crossed>>

\* --check-config: the hook succeeds, or puts the old file back and fails.
Check ==
  /\ hook = "moved"
  /\ prev' = Absent
  /\ IF Valid(Load(conf))
       THEN hook' = "accepted" /\ UNCHANGED conf
       ELSE hook' = "idle" /\ conf' = prev
  /\ UNCHANGED <<snapd, self, change, view, client, running, disk, board,
                 bounds, asked, recorded, torn, crossed>>

\* snapd commits the change of a hook that succeeded.
Commit ==
  /\ hook = "accepted"
  /\ snapd' = Apply(snapd, change)
  /\ asked' = Apply(asked, change)
  /\ hook' = "committed"
  /\ UNCHANGED <<files, change, view, client, running, disk, board, bounds, recorded, torn, crossed>>

\* snapctl restart, which snapd does after the hook; "grep -q active" finds
\* an inactive service too.
Restart ==
  /\ hook = "committed"
  /\ hook' = "idle"
  /\ client' = "down"
  /\ torn' = FALSE
  /\ UNCHANGED <<snapd, files, change, view, running, disk, board, bounds,
                 asked, recorded, crossed>>

Hook == (\E c \in Changes : Begin(c)) \/ Backup \/ Move \/ Check \/ Commit \/ Restart

-----------------------------------------------------------------------------
(* The client *)

\* Mutation: a Config is taken as it comes.
BootUnchecked ==
  /\ client = "down"
  /\ running' = Load(conf)
  /\ client' = "loaded"
  /\ UNCHANGED <<snapd, files, hook, change, view, disk, board, bounds, asked,
                 recorded, torn, crossed>>

\* main: a configuration that does not load ends it, and snapd starts it again.
Boot ==
  /\ client = "down"
  /\ Valid(Load(conf))
  /\ running' = Load(conf)
  /\ client' = "loaded"
  /\ UNCHANGED <<snapd, files, hook, change, view, disk, board, bounds, asked,
                 recorded, torn, crossed>>

\* Mutation: a value goes into the file the hook regenerates.
PersistInHooksFile(k, v, next) ==
  IF disk = "ok"
    THEN /\ conf' = [File(conf) EXCEPT ![k] = v]
         /\ recorded' = recorded \cup {v}
         /\ client' = next
         /\ UNCHANGED self
    ELSE UNCHANGED <<conf, self, recorded, client>>

\* persist: the file is written, then snapctl set is called; a full disk
\* raises.
Persist(k, v, next) ==
  IF disk = "ok"
    THEN /\ self' = [self EXCEPT ![k] = v]
         /\ recorded' = recorded \cup {v}
         /\ client' = next
         /\ UNCHANGED conf
    ELSE UNCHANGED <<conf, self, recorded, client>>

\* Mutation: the failure to save an id is not caught.
AssignIdRaises ==
  /\ client = "loaded"
  /\ IF running.id # Hostname
       THEN client' = "named" /\ UNCHANGED <<conf, self, recorded, running>>
       ELSE \E n \in Fresh :
              /\ running' = [running EXCEPT !.id = n]
              /\ IF disk = "ok"
                   THEN Persist("id", n, "naming")
                   ELSE client' = "down" /\ UNCHANGED <<conf, self, recorded>>
  /\ UNCHANGED <<snapd, prev, hook, change, view, disk, board, bounds, asked, torn, crossed>>

\* ensure_device_id: a weak id is replaced by a uuid, no two alike.
AssignId ==
  /\ client = "loaded"
  /\ IF running.id # Hostname
       THEN client' = "named" /\ UNCHANGED <<conf, self, recorded, running>>
       ELSE \E n \in Fresh \ (recorded \cup {running.id}) :
              /\ running' = [running EXCEPT !.id = n]
              /\ IF disk = "ok"
                   THEN Persist("id", n, "naming")
                   ELSE client' = "named" /\ UNCHANGED <<conf, self, recorded>>
  /\ UNCHANGED <<snapd, prev, hook, change, view, disk, board, bounds, asked, torn, crossed>>

\* firstrun.discover, when nothing says where the server is and
\* dhcp-discovery is on; an address that cannot be saved is used all the same.
Discover ==
  /\ client = "named"
  /\ IF running.url # Unset \/ running.dhcp = Off
       THEN client' = "run" /\ UNCHANGED <<conf, self, recorded, running>>
       ELSE \E leases \in Leases :
              LET url == DiscoverServerUrl(leases)
              IN IF url = NoUrl
                   THEN client' = "run" /\ UNCHANGED <<conf, self, recorded, running>>
                   ELSE /\ running' = [running EXCEPT !.url = url]
                        /\ IF disk = "ok"
                             THEN Persist("url", url, "addressing")
                             ELSE client' = "run" /\ UNCHANGED <<conf, self, recorded>>
  /\ UNCHANGED <<snapd, prev, hook, change, view, disk, board, bounds, asked, torn, crossed>>

\* Mutation, the regression tests/test_setup_url.py tells of: what is typed
\* goes into the file the hook regenerates.
SetupInHooksFile(t) ==
  /\ client = "run" /\ running.url = Unset
  /\ LET url == NormaliseServerUrl(t)
     IN /\ url # NoUrl /\ disk = "ok"
        /\ running' = [running EXCEPT !.url = url]
        /\ PersistInHooksFile("url", url, "addressing")
  /\ UNCHANGED <<snapd, prev, hook, change, view, disk, board, bounds, asked, torn, crossed>>

\* _on_setup_submit: what is typed is refused, or recorded and used; if it
\* cannot be saved it is not used either.
Setup(t) ==
  /\ client = "run" /\ running.url = Unset
  /\ LET url == NormaliseServerUrl(t)
     IN /\ url # NoUrl /\ disk = "ok"
        /\ running' = [running EXCEPT !.url = url]
        /\ Persist("url", url, "addressing")
  /\ UNCHANGED <<snapd, prev, hook, change, view, disk, board, bounds, asked, torn, crossed>>

\* The snapctl set of persist: done, or failed and only logged.
Mirror ==
  /\ client \in {"naming", "addressing"}
  /\ LET k == IF client = "naming" THEN "id" ELSE "url"
     IN \/ /\ snapd' = [snapd EXCEPT ![k] = running[k]]
           /\ crossed' = \/ crossed \/ torn
                         \/ hook \in {"moved", "accepted", "committed"} /\ change.key = k
        \/ UNCHANGED <<snapd, crossed>>
  /\ client' = IF client = "naming" THEN "named" ELSE "run"
  /\ UNCHANGED <<files, hook, change, view, running, disk, board, bounds,
                 asked, recorded, torn>>

Client == Boot \/ AssignId \/ Discover \/ Mirror

-----------------------------------------------------------------------------
PowerCut ==
  /\ cuts < MaxCuts
  /\ cuts' = cuts + 1
  /\ client' = "down"
  /\ hook' = IF hook \in {"idle", "committed"} THEN hook ELSE "again"
  /\ torn' = (torn \/ hook \in {"moved", "accepted"})
  /\ UNCHANGED <<snapd, files, change, view, running, disk, board, sets, asked,
                 recorded, crossed>>

DiskChange ==
  /\ disk' \in {"ok", "full"} \ {disk}
  /\ UNCHANGED <<snapd, files, hook, change, view, client, running, board,
                 bounds, asked, recorded, torn, crossed>>

World == PowerCut \/ DiskChange \/ \E t \in Typed : Setup(t)

Init ==
  /\ snapd = Blank /\ asked = Blank /\ self = Blank
  /\ conf = Absent /\ prev = Absent
  /\ hook = "idle" /\ change = NoChange /\ view = Blank
  /\ client = "down"
  /\ environ \in Environs /\ memory \in Memories
  /\ running = Defaults
  /\ disk = "ok"
  /\ sets = 0 /\ cuts = 0
  /\ recorded = {}
  /\ torn = FALSE /\ crossed = FALSE

Next == Hook \/ Client \/ World

Spec == Init /\ [][Next]_vars

\* The script and the client go on, and snapd starts a client that ended
\* (restart-condition: always); nobody has to type, and no disk to be full.
Fairness == WF_vars(Backup \/ Move \/ Check \/ Commit \/ Restart) /\ WF_vars(Client)

FairSpec == Spec /\ Fairness

-----------------------------------------------------------------------------
TypeOK ==
  /\ snapd \in Mapping /\ self \in Mapping /\ view \in Mapping /\ asked \in Mapping
  /\ conf \in Mapping \cup {Absent} /\ prev \in Mapping \cup {Absent}
  /\ hook \in {"idle", "again", "begun", "backed", "moved", "accepted", "committed"}
  /\ change \in Changes
  /\ client \in {"down", "loaded", "naming", "named", "addressing", "run"}
  /\ running \in Config
  /\ disk \in {"ok", "full"}
  /\ environ \in Environs /\ memory \in Memories
  /\ sets \in 0..MaxSets /\ cuts \in 0..MaxCuts
  /\ recorded \subseteq Fresh \cup Text
  /\ torn \in BOOLEAN /\ crossed \in BOOLEAN

\* The failure the hook exists to prevent: but for the moment between its
\* move and its verdict, what config.json says lets the client start,
\* whatever was set, however full the disk, and whatever else was recorded
\* meanwhile, unless a cut fell into that moment.
RejectedUndone == hook # "moved" /\ ~torn => Valid(Load(conf))

\* An address the client has recorded once is there at every later start,
\* whatever the hook regenerates, snapctl refuses or an administrator unsets.
AddressKept == recorded \cap Text # {} /\ client # "down" => running.url # Unset

\* What the client records as its address it can ask: junk from DHCP or a
\* keyboard is never kept, where no one could correct it.
AddressUsable ==
  \A u \in recorded \cap Text :
    /\ u.scheme \in {"http", "https"} /\ u.host \in {"name", "v6"}
    /\ u.port = NoPort \/ (0 < u.port /\ u.port <= 65535)

\* A device makes up and records one id, however often and whenever it is
\* restarted, its settings are regenerated or its disk is full.
StableId == Cardinality(recorded \cap Fresh) <= 1

\* Once a hook has ended, the client runs with what was last set, not with
\* what it recorded, a default or what a rejected set said; a cut inside
\* the hook, or a mirrored value that lands between its move and its restart,
\* breaks it.
TakesEffect ==
  hook = "idle" /\ client # "down" /\ ~torn /\ ~crossed =>
    \A k \in HookKeys : asked[k] \in {Unset, Hostname, running[k]}

\* However the hook, cuts and a full disk interleave, the client comes up
\* again and again, if no cut left a rejected file.
ComesUp == []<>(client = "run" \/ torn)

=============================================================================
