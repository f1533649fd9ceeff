--------------------------- MODULE SettingsProofs ---------------------------
(***************************************************************************)
(* Settings for any ids, addresses, changes, leases, memories and bounds.  *)
(***************************************************************************)
EXTENDS Settings, FiniteSetTheorems, NaturalsInduction, TLAPS

-----------------------------------------------------------------------------
(* Addresses and leases.                                                   *)

\* What is not refused is an address that can be asked.
LEMMA NormalisedUsable ==
  ASSUME NEW t \in Text, NEW u, u = NormaliseServerUrl(t), u # NoUrl
  PROVE  /\ u \in Text
         /\ u.scheme \in {"http", "https"} /\ u.host \in {"name", "v6"}
         /\ u.port = NoPort \/ (0 < u.port /\ u.port <= 65535)
<1>1. PICK s \in {"http", "https"} : u = [t EXCEPT !.scheme = s]
  BY DEF NormaliseServerUrl
<1>2. ValidAuthority(t)
  BY DEF NormaliseServerUrl
<1>3. t.port = NoPort \/ (0 < t.port /\ t.port <= 65535)
  BY <1>2 DEF ValidAuthority, ValidPort
<1>4. t.host \in {"name", "v6"}
  BY <1>2 DEF ValidAuthority
<1>5. u \in Text /\ u.scheme = s /\ u.host = t.host /\ u.port = t.port
  BY <1>1 DEF Text
<1> QED
  BY <1>3, <1>4, <1>5

\* An address that was made usable is not changed by being typed or offered
\* again, so that what the client records is what it would make of it at the
\* next start (normalise_server_url).
THEOREM NormalisedStays ==
  ASSUME NEW t \in Text, NormaliseServerUrl(t) # NoUrl
  PROVE  NormaliseServerUrl(NormaliseServerUrl(t)) = NormaliseServerUrl(t)
<1> DEFINE u == NormaliseServerUrl(t)
<1>1. PICK s \in {"http", "https"} : u = [t EXCEPT !.scheme = s] /\ ValidAuthority(t)
  BY DEF NormaliseServerUrl
<1>2. u.scheme = s /\ u.host = t.host /\ u.port = t.port /\ u = [u EXCEPT !.scheme = s]
  BY <1>1 DEF Text
<1>3. ValidAuthority(u)
  BY <1>1, <1>2 DEF ValidAuthority
<1> HIDE DEF u
<1>4. NormaliseServerUrl(u) = u
  BY <1>2, <1>3 DEF NormaliseServerUrl
<1> QED
  BY <1>4 DEF u

\* The lease that decides is one of them.
LEMMA FirstOffer ==
  ASSUME NEW leases \in Seq(Lease), DiscoverServerUrl(leases) # NoUrl
  PROVE  \E t \in Text : DiscoverServerUrl(leases) = NormaliseServerUrl(t)
<1> DEFINE offers == {n \in DOMAIN leases : leases[n].kind = "offer"}
           Less == {p \in Nat \X Nat : p[1] < p[2]}
<1>1. offers \subseteq Nat /\ offers # {}
  BY DEF DiscoverServerUrl
<1>2. IsWellFoundedOn(Less, Nat)
  BY NatLessThanWellFounded DEF OpToRel
<1>3. \A m, n \in Nat : ~ (<<m, n>> \in Less) => n <= m
  OBVIOUS
<1> HIDE DEF Less
<1>4. PICK n \in offers : \A m \in offers : ~ (<<m, n>> \in Less)
  <2> HIDE DEF offers
  <2> QED
    BY <1>1, <1>2, WFMin, Zenon
<1>5. \A m \in offers : n <= m
  BY <1>1, <1>3, <1>4
<1> DEFINE first == CHOOSE k \in offers : \A m \in offers : k <= m
<1>6. first \in offers
  BY <1>5
<1>7. leases[first] \in Lease /\ leases[first].kind = "offer"
  BY <1>6
<1>8. leases[first].payload \in Payload
  BY <1>7 DEF Lease
<1>9. DiscoverServerUrl(leases) = ParseOption(leases[first].payload)
  BY <1>1 DEF DiscoverServerUrl
<1> HIDE DEF first, offers
<1>10. Decode(leases[first].payload) \in Text
  BY <1>8 DEF Decode, Payload
<1> QED
  BY <1>9, <1>10 DEF ParseOption

-----------------------------------------------------------------------------
(* Mappings and what load makes of them.                                   *)

LEMMA ApplyType ==
  ASSUME NEW s \in Mapping, NEW c \in Changes
  PROVE  Apply(s, c) \in Mapping
<1>1. CASE c.key \notin Keys
  BY <1>1 DEF Apply
<1>2. CASE c.key \in Keys
  <2>1. [Blank EXCEPT ![c.key] = c.value] \in Mapping
    BY <1>2, SettingsAssumption DEF NoChange, Keys
  <2>2. Apply(s, c) = [s EXCEPT ![c.key] = c.value]
    BY <1>2 DEF Apply
  <2> QED
    BY <1>2, <2>1, <2>2 DEF Mapping, Blank, Keys
<1> QED
  BY <1>1, <1>2

\* A start's settings before they are checked.
Merged ==
  [url : Text \cup {Unset}, id : Named \cup Fresh \cup {Hostname},
   live : Nat, dhcp : {On, Off}]

LEMMA OverType ==
  ASSUME NEW s \in Merged, NEW u \in Mapping
  PROVE  /\ Over(s, u) \in Merged
         /\ \A k \in Keys : Over(s, u)[k] = IF u[k] = Unset THEN s[k] ELSE u[k]
BY SettingsAssumption DEF Over, Merged, Mapping, Keys

LEMMA DefaultsType ==
  ASSUME TypeOK
  PROVE  Defaults \in Merged /\ Defaults.live >= 1
<1>1. LiveViews \in {1, 3, 6}
  BY DEF LiveViews
<1> QED
  BY <1>1 DEF Defaults, Merged

LEMMA BlankType == Blank \in Mapping
BY DEF Blank, Mapping, Keys

LEMMA FileType ==
  ASSUME NEW f \in Mapping \cup {Absent}
  PROVE  File(f) \in Mapping
BY BlankType DEF File

\* load, key by key.
LEMMA LoadType ==
  ASSUME TypeOK, NEW f \in Mapping \cup {Absent}
  PROVE  /\ Load(f) \in Merged
         /\ \A k \in Keys : Load(f)[k] = IF environ[k] # Unset THEN environ[k]
                                         ELSE IF File(f)[k] # Unset THEN File(f)[k]
                                         ELSE IF self[k] # Unset THEN self[k]
                                         ELSE Defaults[k]
<1> DEFINE a == Over(Defaults, self)
           b == Over(a, File(f))
<1>1. self \in Mapping /\ environ \in Mapping /\ File(f) \in Mapping
      /\ Defaults \in Merged
  BY FileType, DefaultsType, SettingsAssumption DEF TypeOK
<1>2. a \in Merged /\ \A k \in Keys : a[k] = IF self[k] = Unset THEN Defaults[k] ELSE self[k]
  BY <1>1, OverType
<1> HIDE DEF a
<1>3. b \in Merged /\ \A k \in Keys : b[k] = IF File(f)[k] = Unset THEN a[k] ELSE File(f)[k]
  BY <1>1, <1>2, OverType
<1> HIDE DEF b
<1>4. Load(f) = Over(b, environ)
  BY DEF Load, a, b
<1> DEFINE l == Over(b, environ)
<1>5. l \in Merged /\ \A k \in Keys : l[k] = IF environ[k] = Unset THEN b[k] ELSE environ[k]
  BY <1>1, <1>3, OverType
<1> HIDE DEF l
<1>6. Load(f) = l
  BY <1>4 DEF l
<1> QED
  BY <1>2, <1>3, <1>5, <1>6

-----------------------------------------------------------------------------
(* Types.                                                                  *)

LEMMA InitType == Init => TypeOK
<1> SUFFICES ASSUME Init PROVE TypeOK
  OBVIOUS
<1>1. LiveViews \in {1, 3, 6}
  BY DEF LiveViews
<1>2. running \in Config
  BY <1>1 DEF Init, Defaults, Config
<1> QED
  <2>1. snapd \in Mapping /\ self \in Mapping /\ view \in Mapping /\ asked \in Mapping
    BY BlankType DEF Init
  <2>2. sets \in 0..MaxSets /\ cuts \in 0..MaxCuts
    BY SettingsAssumption DEF Init
  <2> QED
    BY <1>2, <2>1, <2>2, SettingsAssumption DEF Init, TypeOK

LEMMA HookType ==
  ASSUME TypeOK, Hook
  PROVE  TypeOK'
<1> USE DEF TypeOK, files, board, bounds
<1>1. ASSUME NEW c \in Changes, Begin(c)
      PROVE  TypeOK'
  <2>1. Apply(snapd, c) \in Mapping
    BY ApplyType
  <2>2. view' \in Mapping
    BY <1>1, <2>1 DEF Begin, Mapping, Keys, HookKeys
  <2>3. sets' \in 0..MaxSets
    BY <1>1, SettingsAssumption DEF Begin
  <2> QED
    BY <1>1, <2>2, <2>3 DEF Begin
<1>2. CASE Backup
  BY <1>2 DEF Backup
<1>3. CASE Move
  BY <1>3 DEF Move
<1>4. CASE Check
  BY <1>4 DEF Check
<1>5. CASE Commit
  BY <1>5, ApplyType DEF Commit
<1>6. CASE Restart
  BY <1>6 DEF Restart
<1> QED
  BY <1>1, <1>2, <1>3, <1>4, <1>5, <1>6 DEF Hook

\* What persist leaves behind.
LEMMA PersistType ==
  ASSUME TypeOK, NEW k, NEW v, NEW next, Persist(k, v, next),
         k \in {"id", "url"}, k = "id" => v \in Fresh, k = "url" => v \in Text,
         next \in {"naming", "addressing"}
  PROVE  /\ conf' = conf /\ self' \in Mapping
         /\ client' \in {client, next} /\ recorded' \subseteq Fresh \cup Text
<1>1. self' \in {self, [self EXCEPT ![k] = v]}
      /\ recorded' \in {recorded, recorded \cup {v}} /\ conf' = conf
      /\ client' \in {client, next}
  BY DEF Persist
<1>2. self' \in Mapping
  BY <1>1 DEF TypeOK, Mapping
<1> QED
  BY <1>1, <1>2 DEF TypeOK

LEMMA ClientType ==
  ASSUME TypeOK, Client \/ \E t \in Typed : Setup(t)
  PROVE  TypeOK'
<1>1. CASE Boot
  <2>1. Load(conf) \in Merged
    BY LoadType DEF TypeOK
  <2>2. running' \in Config
    BY <1>1, <2>1 DEF Boot, Valid, Merged, Config
  <2> QED
    BY <1>1, <2>2 DEF Boot, TypeOK, files, board, bounds
<1>2. CASE AssignId
  <2>1. CASE running.id # Hostname
    BY <1>2, <2>1 DEF AssignId, TypeOK, board, bounds
  <2>2. CASE running.id = Hostname
    <3>1. PICK n \in Fresh :
            /\ running' = [running EXCEPT !.id = n]
            /\ IF disk = "ok"
                 THEN Persist("id", n, "naming")
                 ELSE client' = "named" /\ UNCHANGED <<conf, self, recorded>>
      BY <1>2, <2>2 DEF AssignId
    <3>2. running' \in Config
      BY <3>1 DEF TypeOK, Config
    <3>3. /\ conf' = conf /\ self' \in Mapping
          /\ client' \in {client, "naming", "named"} /\ recorded' \subseteq Fresh \cup Text
      <4>1. CASE disk = "ok"
        <5>1. Persist("id", n, "naming") /\ n \in Fresh
          BY <3>1, <4>1
        <5>2. /\ conf' = conf /\ self' \in Mapping
              /\ client' \in {client, "naming"} /\ recorded' \subseteq Fresh \cup Text
          BY <5>1, "id" # "url", PersistType
        <5> QED
          BY <5>2
      <4>2. CASE disk # "ok"
        BY <3>1, <4>2 DEF TypeOK
      <4> QED
        BY <4>1, <4>2
    <3> QED
      BY <1>2, <3>2, <3>3 DEF AssignId, TypeOK, board, bounds
  <2> QED
    BY <2>1, <2>2
<1>3. CASE Discover
  <2>1. CASE running.url # Unset \/ running.dhcp = Off
    BY <1>3, <2>1 DEF Discover, TypeOK, board, bounds
  <2>2. CASE ~ (running.url # Unset \/ running.dhcp = Off)
    <3>1. PICK leases \in Leases :
            LET url == DiscoverServerUrl(leases)
            IN IF url = NoUrl
                 THEN client' = "run" /\ UNCHANGED <<conf, self, recorded, running>>
                 ELSE /\ running' = [running EXCEPT !.url = url]
                      /\ IF disk = "ok"
                           THEN Persist("url", url, "addressing")
                           ELSE client' = "run" /\ UNCHANGED <<conf, self, recorded>>
      BY <1>3, <2>2 DEF Discover
    <3> DEFINE url == DiscoverServerUrl(leases)
    <3>2. CASE url = NoUrl
      BY <1>3, <3>1, <3>2 DEF Discover, TypeOK, board, bounds
    <3>3. CASE url # NoUrl
      <4>1. url \in Text
        <5>1. leases \in Seq(Lease)
          BY SettingsAssumption
        <5>2. PICK t \in Text : url = NormaliseServerUrl(t)
          BY <3>3, <5>1, FirstOffer
        <5> QED
          BY <3>3, <5>2, NormalisedUsable
      <4> HIDE DEF url
      <4>2. running' = [running EXCEPT !.url = url]
            /\ IF disk = "ok"
                 THEN Persist("url", url, "addressing")
                 ELSE client' = "run" /\ UNCHANGED <<conf, self, recorded>>
        BY <3>1, <3>3 DEF url
      <4>3. running' \in Config
        BY <4>1, <4>2 DEF TypeOK, Config
      <4>4. /\ conf' = conf /\ self' \in Mapping
            /\ client' \in {client, "addressing", "run"} /\ recorded' \subseteq Fresh \cup Text
        <5>1. CASE disk = "ok"
          BY <4>1, <4>2, <5>1, PersistType
        <5>2. CASE disk # "ok"
          BY <4>2, <5>2 DEF TypeOK
        <5> QED
          BY <5>1, <5>2
      <4> QED
        BY <1>3, <4>3, <4>4 DEF Discover, TypeOK, board, bounds
    <3> QED
      BY <3>2, <3>3
  <2> QED
    BY <2>1, <2>2
<1>4. ASSUME NEW t \in Typed, Setup(t)
      PROVE  TypeOK'
  <2> DEFINE url == NormaliseServerUrl(t)
  <2>1. url \in Text
    <3>1. t \in Text /\ url # NoUrl
      BY <1>4, SettingsAssumption DEF Setup
    <3> QED
      BY <3>1, NormalisedUsable
  <2> HIDE DEF url
  <2>2. running' = [running EXCEPT !.url = url] /\ Persist("url", url, "addressing")
    BY <1>4 DEF Setup, url
  <2>3. running' \in Config
    BY <2>1, <2>2 DEF TypeOK, Config
  <2>4. /\ conf' = conf /\ self' \in Mapping
        /\ client' \in {client, "addressing"} /\ recorded' \subseteq Fresh \cup Text
    BY <2>1, <2>2, PersistType
  <2> QED
    BY <1>4, <2>3, <2>4 DEF Setup, TypeOK, board, bounds
<1>5. CASE Mirror
  <2> DEFINE k == IF client = "naming" THEN "id" ELSE "url"
  <2>1. snapd' \in {snapd, [snapd EXCEPT ![k] = running[k]]}
    BY <1>5 DEF Mirror
  <2>2. snapd' \in Mapping
    BY <2>1 DEF TypeOK, Mapping, Config
  <2> QED
    BY <1>5, <2>2 DEF Mirror, TypeOK, files, board, bounds
<1> QED
  BY <1>1, <1>2, <1>3, <1>4, <1>5 DEF Client

LEMMA WorldType ==
  ASSUME TypeOK, PowerCut \/ DiskChange \/ UNCHANGED vars
  PROVE  TypeOK'
<1>1. CASE PowerCut
  <2>1. cuts' \in 0..MaxCuts
    BY <1>1, SettingsAssumption DEF PowerCut, TypeOK
  <2> QED
    BY <1>1, <2>1 DEF PowerCut, files, board, TypeOK
<1>2. CASE DiskChange
  BY <1>2 DEF DiskChange, files, board, bounds, TypeOK
<1>3. CASE UNCHANGED vars
  BY <1>3 DEF vars, files, board, bounds, TypeOK
<1> QED
  BY <1>1, <1>2, <1>3

\* Every file, snapd's configuration and the running settings keep their
\* types: a start never runs with a Config that __post_init__ refuses.
THEOREM TypeCorrect == Spec => []TypeOK
<1>1. TypeOK /\ [Next]_vars => TypeOK'
  BY HookType, ClientType, WorldType DEF Next, World
<1> QED
  BY InitType, <1>1, PTL DEF Spec

-----------------------------------------------------------------------------
(* What the steps of the client write.                                     *)

\* An address the client can ask.
Usable(u) ==
  /\ u.scheme \in {"http", "https"} /\ u.host \in {"name", "v6"}
  /\ u.port = NoPort \/ (0 < u.port /\ u.port <= 65535)

RecordsId(n) ==
  /\ client = "loaded" /\ running.id = Hostname
  /\ client' = "naming" /\ running' = [running EXCEPT !.id = n]
  /\ self' = [self EXCEPT !["id"] = n] /\ recorded' = recorded \cup {n}

RecordsUrl(u) ==
  /\ client \in {"named", "run"} /\ running.url = Unset
  /\ client' = "addressing" /\ running' = [running EXCEPT !.url = u]
  /\ self' = [self EXCEPT !["url"] = u] /\ recorded' = recorded \cup {u}

\* A step that saves nothing: a start, or one of a client that is up and
\* takes on at most an id or an address.
RecordsNothing ==
  /\ self' = self /\ recorded' = recorded
  /\ \/ client = "down" /\ client' = "loaded" /\ running' = Load(conf)
     \/ /\ client # "down" /\ client' \notin {"down", "loaded", "naming"}
        /\ running.url # Unset => running'.url # Unset

\* Whatever the client does, the hook's files are not touched.
LEMMA ClientEffect ==
  ASSUME TypeOK, Client \/ \E t \in Typed : Setup(t)
  PROVE  /\ conf' = conf /\ prev' = prev /\ hook' = hook /\ change' = change
         /\ view' = view /\ torn' = torn /\ environ' = environ
         /\ memory' = memory /\ asked' = asked
         /\ \/ snapd' = snapd
            \/ client = "naming" /\ snapd' = [snapd EXCEPT !["id"] = running["id"]]
            \/ client = "addressing" /\ snapd' = [snapd EXCEPT !["url"] = running["url"]]
         /\ \/ \E n \in Fresh : RecordsId(n)
            \/ \E u \in Text : Usable(u) /\ RecordsUrl(u)
            \/ RecordsNothing
<1> USE DEF files, board, bounds
<1>1. CASE Boot
  BY <1>1 DEF Boot, RecordsNothing
<1>2. CASE AssignId
  <2>1. CASE running.id # Hostname
    BY <1>2, <2>1 DEF AssignId, RecordsNothing
  <2>2. CASE running.id = Hostname
    <3>1. PICK n \in Fresh :
            /\ running' = [running EXCEPT !.id = n]
            /\ IF disk = "ok"
                 THEN Persist("id", n, "naming")
                 ELSE client' = "named" /\ UNCHANGED <<conf, self, recorded>>
      BY <1>2, <2>2 DEF AssignId
    <3>2. CASE disk = "ok"
      <4>1. RecordsId(n) /\ conf' = conf
        BY <1>2, <2>2, <3>1, <3>2 DEF AssignId, Persist, RecordsId
      <4> QED
        BY <1>2, <4>1 DEF AssignId
    <3>3. CASE disk # "ok"
      <4>1. running'.url = running.url
        BY <3>1 DEF TypeOK, Config
      <4>2. RecordsNothing /\ conf' = conf
        BY <1>2, <3>1, <3>3, <4>1 DEF AssignId, RecordsNothing
      <4> QED
        BY <1>2, <4>2 DEF AssignId
    <3> QED
      BY <3>2, <3>3
  <2> QED
    BY <2>1, <2>2
<1>3. CASE Discover
  <2>1. CASE running.url # Unset \/ running.dhcp = Off
    BY <1>3, <2>1 DEF Discover, RecordsNothing
  <2>2. CASE ~ (running.url # Unset \/ running.dhcp = Off)
    <3>1. PICK leases \in Leases :
            LET url == DiscoverServerUrl(leases)
            IN IF url = NoUrl
                 THEN client' = "run" /\ UNCHANGED <<conf, self, recorded, running>>
                 ELSE /\ running' = [running EXCEPT !.url = url]
                      /\ IF disk = "ok"
                           THEN Persist("url", url, "addressing")
                           ELSE client' = "run" /\ UNCHANGED <<conf, self, recorded>>
      BY <1>3, <2>2 DEF Discover
    <3> DEFINE url == DiscoverServerUrl(leases)
    <3>2. CASE url = NoUrl
      BY <1>3, <3>1, <3>2 DEF Discover, RecordsNothing
    <3>3. CASE url # NoUrl
      <4>1. url \in Text /\ Usable(url)
        <5>1. leases \in Seq(Lease)
          BY SettingsAssumption
        <5>2. PICK t \in Text : url = NormaliseServerUrl(t)
          BY <3>3, <5>1, FirstOffer
        <5> QED
          BY <3>3, <5>2, NormalisedUsable DEF Usable
      <4> HIDE DEF url
      <4>2. running' = [running EXCEPT !.url = url]
            /\ IF disk = "ok"
                 THEN Persist("url", url, "addressing")
                 ELSE client' = "run" /\ UNCHANGED <<conf, self, recorded>>
        BY <3>1, <3>3 DEF url
      <4>3. CASE disk = "ok"
        <5>1. RecordsUrl(url) /\ conf' = conf
          BY <1>3, <2>2, <4>2, <4>3 DEF Discover, Persist, RecordsUrl
        <5> QED
          BY <1>3, <4>1, <5>1 DEF Discover
      <4>4. CASE disk # "ok"
        <5>1. RecordsNothing /\ conf' = conf
          BY <1>3, <2>2, <4>2, <4>4 DEF Discover, RecordsNothing
        <5> QED
          BY <1>3, <5>1 DEF Discover
      <4> QED
        BY <4>3, <4>4
    <3> QED
      BY <3>2, <3>3
  <2> QED
    BY <2>1, <2>2
<1>4. ASSUME NEW t \in Typed, Setup(t)
      PROVE  /\ conf' = conf /\ prev' = prev /\ hook' = hook /\ change' = change
             /\ view' = view /\ torn' = torn /\ environ' = environ
             /\ memory' = memory /\ asked' = asked /\ snapd' = snapd
             /\ \E u \in Text : Usable(u) /\ RecordsUrl(u)
  <2> DEFINE url == NormaliseServerUrl(t)
  <2>1. url \in Text /\ Usable(url)
    <3>1. t \in Text /\ url # NoUrl
      BY <1>4, SettingsAssumption DEF Setup
    <3> QED
      BY <3>1, NormalisedUsable DEF Usable
  <2> HIDE DEF url
  <2>2. disk = "ok" /\ running' = [running EXCEPT !.url = url]
        /\ Persist("url", url, "addressing")
    BY <1>4 DEF Setup, url
  <2>3. RecordsUrl(url) /\ conf' = conf
    BY <1>4, <2>2 DEF Setup, Persist, RecordsUrl
  <2> QED
    BY <1>4, <2>1, <2>3 DEF Setup
<1>5. CASE Mirror
  BY <1>5 DEF Mirror, RecordsNothing
<1> QED
  BY <1>1, <1>2, <1>3, <1>4, <1>5 DEF Client

-----------------------------------------------------------------------------
(* What was rejected is undone.                                            *)

\* Whether a start with f as its config.json gets past __post_init__: nothing
\* else the client writes has a say in it.
Accepts(f) == environ.live # Unset \/ File(f).live # 0

\* The file that was accepted is in config.json, or safe in config.json.prev.
HookInv ==
  /\ self.live = Unset /\ environ.live # 0
  /\ hook # "moved" /\ ~ torn => Accepts(conf)
  /\ hook \in {"backed", "moved"} /\ ~ torn => Accepts(prev)
  /\ hook \in {"accepted", "committed"} => Accepts(conf)

LEMMA AcceptsValid ==
  ASSUME TypeOK, HookInv, NEW f \in Mapping \cup {Absent}
  PROVE  Valid(Load(f)) <=> Accepts(f)
<1>1. Load(f) \in Merged /\ Load(f)["live"] =
        IF environ["live"] # Unset THEN environ["live"]
        ELSE IF File(f)["live"] # Unset THEN File(f)["live"]
        ELSE IF self["live"] # Unset THEN self["live"]
        ELSE Defaults["live"]
  BY LoadType DEF Keys
<1>2. Defaults.live \in Nat /\ Defaults.live >= 1
  BY DefaultsType DEF Merged
<1>3. environ.live \in Nat \cup {Unset} /\ File(f).live \in Nat \cup {Unset}
      /\ Unset # 0
  BY FileType, SettingsAssumption DEF TypeOK, Mapping
<1> QED
  BY <1>1, <1>2, <1>3 DEF Accepts, Valid, HookInv, Merged

LEMMA HookInvStep ==
  ASSUME TypeOK, HookInv, [Next]_vars
  PROVE  HookInv'
<1> USE DEF files, board, bounds
<1>1. \A f : Accepts(f) <=> environ.live # Unset \/ File(f).live # 0
  BY DEF Accepts
<1>2. CASE Hook
  <2>1. self' = self /\ environ' = environ
    BY <1>2 DEF Hook, Begin, Backup, Move, Check, Commit, Restart
  <2>2. CASE \E c \in Changes : Begin(c)
    BY <2>1, <2>2 DEF Begin, HookInv, Accepts
  <2>3. CASE Backup
    BY <2>1, <2>3 DEF Backup, HookInv, Accepts
  <2>4. CASE Move
    BY <2>1, <2>4 DEF Move, HookInv, Accepts
  <2>5. CASE Check
    <3>1. Valid(Load(conf)) <=> Accepts(conf)
      BY AcceptsValid DEF TypeOK
    <3> QED
      BY <2>1, <2>5, <3>1 DEF Check, HookInv, Accepts
  <2>6. CASE Commit
    BY <2>1, <2>6 DEF Commit, HookInv, Accepts
  <2>7. CASE Restart
    BY <2>1, <2>7 DEF Restart, HookInv, Accepts
  <2> QED
    BY <1>2, <2>2, <2>3, <2>4, <2>5, <2>6, <2>7 DEF Hook
<1>3. CASE Client \/ \E t \in Typed : Setup(t)
  <2>1. /\ conf' = conf /\ prev' = prev /\ hook' = hook /\ torn' = torn
        /\ environ' = environ
    BY <1>3, ClientEffect
  <2>2. self'.live = self.live
    BY <1>3, ClientEffect
       DEF RecordsId, RecordsUrl, RecordsNothing, TypeOK, Mapping
  <2> QED
    BY <2>1, <2>2 DEF HookInv, Accepts
<1>4. CASE PowerCut
  BY <1>4 DEF PowerCut, HookInv, Accepts
<1>5. CASE DiskChange \/ UNCHANGED vars
  BY <1>5 DEF DiskChange, vars, HookInv, Accepts
<1> QED
  BY <1>2, <1>3, <1>4, <1>5 DEF Next, World

\* But for the moment between the hook's move and its verdict, config.json
\* lets the client start, unless a cut fell into that moment; for an
\* environment that does (snap/hooks/configure, Config.__post_init__).
THEOREM RejectedAlwaysUndone ==
  ASSUME \A e \in Environs : e.live # 0
  PROVE  Spec => []RejectedUndone
<1>1. Init => HookInv
  <2>1. Init => environ.live # 0 /\ Unset # 0 /\ Blank.live = Unset
    BY SettingsAssumption DEF Init, Blank, Keys
  <2> QED
    BY <2>1 DEF Init, HookInv, Accepts, File
<1>2. TypeOK /\ HookInv => RejectedUndone
  BY AcceptsValid DEF RejectedUndone, TypeOK, HookInv
<1> QED
  BY <1>1, <1>2, HookInvStep, TypeCorrect, PTL DEF Spec

-----------------------------------------------------------------------------
(* Addresses.                                                              *)

\* A recorded address is in the client's own file, and in what it runs with.
AddressInv ==
  /\ recorded \cap Text # {} =>
       self.url # Unset /\ (client # "down" => running.url # Unset)
  /\ \A u \in recorded \cap Text : Usable(u)

LEMMA AddressInvStep ==
  ASSUME TypeOK, AddressInv, [Next]_vars
  PROVE  AddressInv'
<1> USE DEF files, board, bounds
<1>1. ASSUME self' = self, recorded' = recorded, running' = running,
             client' \in {client, "down"}
      PROVE  AddressInv'
  BY <1>1 DEF AddressInv
<1>2. CASE Hook \/ PowerCut \/ DiskChange \/ UNCHANGED vars
  BY <1>1, <1>2 DEF Hook, Begin, Backup, Move, Check, Commit, Restart,
                    PowerCut, DiskChange, vars
<1>3. CASE Client \/ \E t \in Typed : Setup(t)
  <2>1. ASSUME NEW n \in Fresh, RecordsId(n)
        PROVE  AddressInv'
    <3>1. n \notin Text
      BY SettingsAssumption
    <3>2. self'.url = self.url /\ running'.url = running.url
      BY <2>1 DEF RecordsId, TypeOK, Mapping, Config
    <3> QED
      BY <2>1, <3>1, <3>2 DEF RecordsId, AddressInv
  <2>2. ASSUME NEW u \in Text, Usable(u), RecordsUrl(u)
        PROVE  AddressInv'
    <3>1. u # Unset
      BY SettingsAssumption
    <3>2. self'.url = u /\ running'.url = u
      BY <2>2 DEF RecordsUrl, TypeOK, Mapping, Config
    <3> QED
      BY <2>2, <3>1, <3>2 DEF RecordsUrl, AddressInv
  <2>3. CASE RecordsNothing
    <3>1. CASE client = "down" /\ running' = Load(conf)
      <4>1. Load(conf)["url"] = IF environ["url"] # Unset THEN environ["url"]
                                ELSE IF File(conf)["url"] # Unset THEN File(conf)["url"]
                                ELSE IF self["url"] # Unset THEN self["url"]
                                ELSE Defaults["url"]
        BY LoadType DEF TypeOK, Keys
      <4> QED
        BY <2>3, <3>1, <4>1 DEF RecordsNothing, AddressInv
    <3>2. CASE client # "down" /\ (running.url # Unset => running'.url # Unset)
      BY <2>3, <3>2 DEF RecordsNothing, AddressInv
    <3> QED
      BY <2>3, <3>1, <3>2 DEF RecordsNothing
  <2> QED
    BY <1>3, <2>1, <2>2, <2>3, ClientEffect
<1> QED
  BY <1>2, <1>3 DEF Next, World

LEMMA AddressInvariant == Spec => []AddressInv
<1>1. Init => AddressInv
  BY DEF Init, AddressInv
<1> QED
  BY <1>1, AddressInvStep, TypeCorrect, PTL DEF Spec

\* An address recorded once is there at every later start (persist, load).
THEOREM AddressAlwaysKept == Spec => []AddressKept
<1>1. AddressInv => AddressKept
  BY DEF AddressInv, AddressKept
<1> QED
  BY <1>1, AddressInvariant, PTL

\* Nothing is recorded as an address that cannot be asked
\* (normalise_server_url, parse_option).
THEOREM AddressAlwaysUsable == Spec => []AddressUsable
<1>1. AddressInv => AddressUsable
  BY DEF AddressInv, AddressUsable, Usable
<1> QED
  BY <1>1, AddressInvariant, PTL

-----------------------------------------------------------------------------
(* Ids.                                                                    *)

\* Nothing above the client's own file holds a weak id.
NoneWeak ==
  /\ snapd.id # Hostname /\ view.id # Hostname
  /\ File(conf).id # Hostname /\ File(prev).id # Hostname
  /\ change.key = "id" => change.value # Hostname
  /\ environ.id # Hostname

\* What is recorded is one id, the one in the client's own file, and the
\* client knows of it before it could make up another.
IdInv ==
  /\ NoneWeak
  /\ self.id # Hostname
  /\ \A i \in recorded \cap Fresh : self.id = i
  /\ client = "loaded" /\ recorded \cap Fresh # {} => running.id # Hostname
  /\ client = "naming" => running.id # Hostname

LEMMA LoadId ==
  ASSUME TypeOK, IdInv, recorded \cap Fresh # {}
  PROVE  Load(conf).id # Hostname
<1>1. Load(conf)["id"] = IF environ["id"] # Unset THEN environ["id"]
                         ELSE IF File(conf)["id"] # Unset THEN File(conf)["id"]
                         ELSE IF self["id"] # Unset THEN self["id"]
                         ELSE Defaults["id"]
  BY LoadType DEF TypeOK, Keys
<1>2. self.id # Unset
  BY SettingsAssumption DEF IdInv
<1> QED
  BY <1>1, <1>2 DEF IdInv, NoneWeak

LEMMA ApplyId ==
  ASSUME TypeOK, snapd.id # Hostname, NEW c \in Changes,
         c.key = "id" => c.value # Hostname
  PROVE  Apply(snapd, c).id # Hostname
BY DEF Apply, TypeOK, Mapping, Keys

LEMMA IdInvStep ==
  ASSUME \A c \in Changes : c.key = "id" => c.value # Hostname,
         TypeOK, IdInv, [Next]_vars
  PROVE  IdInv'
<1> USE DEF files, board, bounds
<1>1. ASSUME NoneWeak', self' = self, recorded' = recorded,
             running' = running, client' \in {client, "down"}
      PROVE  IdInv'
  BY <1>1 DEF IdInv
<1>2. CASE Hook
  <2>1. /\ self' = self /\ recorded' = recorded /\ running' = running
        /\ client' \in {client, "down"} /\ environ' = environ
    BY <1>2 DEF Hook, Begin, Backup, Move, Check, Commit, Restart
  <2>2. ASSUME NEW c \in Changes, Begin(c)
        PROVE  IdInv'
    <3>1. Apply(snapd, c).id # Hostname
      BY ApplyId DEF IdInv, NoneWeak
    <3>2. view'.id = Apply(snapd, c).id
      BY <2>2 DEF Begin, Keys, HookKeys
    <3> QED
      BY <2>1, <2>2, <3>1, <3>2 DEF Begin, IdInv, NoneWeak, File
  <2>3. CASE Backup
    BY <2>1, <2>3 DEF Backup, IdInv, NoneWeak, File
  <2>4. CASE Move
    <3>1. File(view) = view
      BY SettingsAssumption DEF File, TypeOK
    <3> QED
      BY <2>1, <2>4, <3>1 DEF Move, IdInv, NoneWeak, File
  <2>5. CASE Check
    <3>1. File(Absent).id # Hostname
      BY SettingsAssumption DEF File, Blank, Keys
    <3> QED
      BY <2>1, <2>5, <3>1 DEF Check, IdInv, NoneWeak, File
  <2>6. CASE Commit
    <3>1. Apply(snapd, change).id # Hostname
      BY ApplyId DEF IdInv, NoneWeak, TypeOK
    <3> QED
      BY <2>1, <2>6, <3>1 DEF Commit, IdInv, NoneWeak, File
  <2>7. CASE Restart
    BY <2>1, <2>7 DEF Restart, IdInv, NoneWeak, File
  <2> QED
    BY <1>2, <2>2, <2>3, <2>4, <2>5, <2>6, <2>7 DEF Hook
<1>3. CASE Client \/ \E t \in Typed : Setup(t)
  <2>1. NoneWeak'
    <3>1. snapd'.id # Hostname
      BY <1>3, ClientEffect DEF TypeOK, Mapping, IdInv, NoneWeak
    <3>2. /\ conf' = conf /\ prev' = prev /\ change' = change
          /\ view' = view /\ environ' = environ
      BY <1>3, ClientEffect
    <3> QED
      BY <3>1, <3>2 DEF IdInv, NoneWeak, File
  <2>2. ASSUME NEW n \in Fresh, RecordsId(n)
        PROVE  IdInv'
    <3>1. n # Hostname
      BY SettingsAssumption
    <3>2. self'.id = n /\ running'.id = n
      BY <2>2 DEF RecordsId, TypeOK, Mapping, Config
    <3>3. recorded' \cap Fresh = {n}
      BY <2>2 DEF RecordsId, IdInv
    <3> QED
      BY <2>1, <2>2, <3>1, <3>2, <3>3 DEF IdInv
  <2>3. ASSUME NEW u \in Text, RecordsUrl(u)
        PROVE  IdInv'
    <3>1. recorded' \cap Fresh = recorded \cap Fresh
      BY <2>3, SettingsAssumption DEF RecordsUrl
    <3>2. self'.id = self.id /\ client' = "addressing"
      BY <2>3 DEF RecordsUrl, TypeOK, Mapping
    <3> QED
      BY <2>1, <3>1, <3>2 DEF IdInv
  <2>4. CASE RecordsNothing
    <3>1. recorded \cap Fresh # {} => Load(conf).id # Hostname
      BY LoadId
    <3> QED
      BY <2>1, <2>4, <3>1 DEF RecordsNothing, IdInv
  <2> QED
    BY <1>3, <2>2, <2>3, <2>4, ClientEffect
<1>4. CASE PowerCut \/ DiskChange \/ UNCHANGED vars
  <2>1. /\ snapd' = snapd /\ conf' = conf /\ prev' = prev
        /\ change' = change /\ view' = view /\ environ' = environ
    BY <1>4 DEF PowerCut, DiskChange, vars
  <2>2. NoneWeak'
    BY <2>1 DEF IdInv, NoneWeak, File
  <2> QED
    BY <1>1, <1>4, <2>2 DEF PowerCut, DiskChange, vars
<1> QED
  BY <1>2, <1>3, <1>4 DEF Next, World

\* A device makes up one id and keeps it, if neither an administrator nor the
\* environment sets a weak one: with a weak one it does not, as the run that
\* violates StableId shows (ensure_device_id, persist, load).
THEOREM IdAlwaysStable ==
  ASSUME \A c \in Changes : c.key = "id" => c.value # Hostname,
         \A e \in Environs : e.id # Hostname
  PROVE  Spec => []StableId
<1>1. Init => IdInv
  <2>1. Unset # Hostname /\ Blank.id = Unset /\ File(Absent) = Blank
    BY SettingsAssumption DEF Blank, Keys, File
  <2>2. Init => NoneWeak
    BY <2>1 DEF Init, NoneWeak, NoChange
  <2> QED
    BY <2>1, <2>2 DEF Init, IdInv
<1>2. IdInv => StableId
  <2> SUFFICES ASSUME IdInv PROVE StableId
    OBVIOUS
  <2> DEFINE S == recorded \cap Fresh
  <2>1. S \subseteq {self.id}
    BY DEF IdInv
  <2>2. IsFiniteSet({self.id}) /\ Cardinality({self.id}) = 1
    BY FS_Singleton
  <2>3. Cardinality(S) <= 1
    <3> HIDE DEF S
    <3> QED
      BY <2>1, <2>2, FS_Subset
  <2> QED
    BY <2>3 DEF StableId
<1>3. TypeOK /\ IdInv /\ [Next]_vars => IdInv'
  BY IdInvStep
<1> QED
  BY <1>1, <1>2, <1>3, TypeCorrect, PTL DEF Spec

-----------------------------------------------------------------------------
(* What was set is what runs.                                              *)

\* A value of s that stands for something.
Says(s, k) == s[k] # Unset /\ s[k] # Hostname

\* t has every value of s.
Has(t, s) == \A k \in HookKeys : Says(s, k) => t[k] = s[k]

\* Between the hook's move and the restart.
Moved == {"moved", "accepted", "committed"}

\* snapd has what was asked, and so has the hook; config.json has it unless
\* a cut left something else; the client runs with it, but for a key whose
\* change is in config.json and not yet restarted for, which then passes the
\* hook's check.
Followed ==
  /\ Has(snapd, asked)
  /\ hook \in {"begun", "backed", "moved", "accepted"} => Has(view, Apply(asked, change))
  /\ hook = "committed" => Has(view, asked)
  /\ hook \in Moved => conf = view
  /\ ~ torn /\ hook \notin {"moved", "accepted"} => Has(File(conf), asked)
  /\ ~ torn /\ hook \in {"backed", "moved"} => Has(File(prev), asked)
  /\ ~ torn /\ client # "down" =>
       \A k \in HookKeys : Says(asked, k) =>
         \/ running[k] = asked[k]
         \/ /\ hook \in Moved /\ change.key = k
            /\ hook = "moved" => Accepts(conf)

FollowedInv ==
  /\ \A k \in HookKeys : environ[k] = Unset
  /\ ~ crossed => Followed

LEMMA ApplyHas ==
  ASSUME TypeOK, Has(snapd, asked), NEW c \in Changes
  PROVE  Has(Apply(snapd, c), Apply(asked, c))
BY DEF Has, Says, Apply, TypeOK, Mapping, Keys, HookKeys

\* What a hook sees of the keys it knows.
LEMMA ViewHas ==
  ASSUME TypeOK, Has(snapd, asked), NEW c \in Changes, Begin(c)
  PROVE  Has(view', Apply(asked, c))
BY ApplyHas DEF Begin, Has, HookKeys, Keys

\* A start has what its config.json has.
LEMMA LoadHas ==
  ASSUME TypeOK, \A k \in HookKeys : environ[k] = Unset, NEW k \in HookKeys,
         Says(File(conf), k)
  PROVE  Load(conf)[k] = File(conf)[k]
BY LoadType DEF TypeOK, Says, Keys, HookKeys

\* What a step of the client that is up does to what it runs with: nothing,
\* or a weak id or a missing address is replaced; and to snapd: nothing, or
\* one key of what it runs with is mirrored.
LEMMA RunningEffect ==
  ASSUME TypeOK, AssignId \/ Discover \/ Mirror \/ \E t \in Typed : Setup(t)
  PROVE  /\ client # "down"
         /\ \A k \in HookKeys : Says(running, k) => running'[k] = running[k]
         /\ \/ snapd' = snapd /\ crossed' = crossed
            \/ \E k \in {"id", "url"} :
                 /\ snapd' = [snapd EXCEPT ![k] = running[k]]
                 /\ crossed' = (crossed \/ torn \/ (hook \in Moved /\ change.key = k))
<1> USE DEF files, board, bounds
<1>1. ASSUME AssignId \/ Discover \/ \E t \in Typed : Setup(t)
      PROVE  client # "down" /\ snapd' = snapd /\ crossed' = crossed
  BY <1>1 DEF AssignId, Discover, Setup
<1>2. CASE AssignId
  <2>1. running' = running \/ (running.id = Hostname /\ \E n : running' = [running EXCEPT !.id = n])
    BY <1>2 DEF AssignId
  <2> QED
    BY <1>1, <1>2, <2>1 DEF TypeOK, Config, HookKeys, Keys, Says
<1>3. CASE Discover \/ \E t \in Typed : Setup(t)
  <2>1. running' = running \/ (running.url = Unset /\ \E u : running' = [running EXCEPT !.url = u])
    BY <1>3 DEF Discover, Setup
  <2> QED
    BY <1>1, <1>3, <2>1 DEF TypeOK, Config, HookKeys, Keys, Says
<1>4. CASE Mirror
  <2>1. client # "down" /\ running' = running
    BY <1>4 DEF Mirror
  <2> DEFINE k == IF client = "naming" THEN "id" ELSE "url"
  <2>2. k \in {"id", "url"}
    OBVIOUS
  <2>3. \/ snapd' = snapd /\ crossed' = crossed
        \/ /\ snapd' = [snapd EXCEPT ![k] = running[k]]
           /\ crossed' = (crossed \/ torn \/ (hook \in Moved /\ change.key = k))
    BY <1>4 DEF Mirror, Moved
  <2> QED
    BY <2>1, <2>2, <2>3
<1> QED
  BY <1>2, <1>3, <1>4

LEMMA ClientFollows ==
  ASSUME TypeOK, Followed, ~ crossed', AssignId \/ Discover \/ Mirror \/ \E t \in Typed : Setup(t)
  PROVE  Followed'
<1>1. /\ conf' = conf /\ prev' = prev /\ hook' = hook /\ change' = change
      /\ view' = view /\ torn' = torn /\ environ' = environ /\ asked' = asked
  BY ClientEffect DEF Client
<1>2. /\ client # "down"
      /\ \A k \in HookKeys : Says(running, k) => running'[k] = running[k]
  BY RunningEffect
<1>3. Has(snapd', asked)
  <2>1. CASE snapd' = snapd
    BY <2>1 DEF Followed
  <2>2. ASSUME NEW k \in {"id", "url"}, snapd' = [snapd EXCEPT ![k] = running[k]],
               crossed' = (crossed \/ torn \/ (hook \in Moved /\ change.key = k))
        PROVE  Has(snapd', asked)
    <3>1. ~ torn /\ ~ (hook \in Moved /\ change.key = k) /\ k \in HookKeys
      BY <2>2 DEF HookKeys, Keys
    <3>2. Says(asked, k) => running[k] = asked[k]
      BY <1>2, <3>1 DEF Followed
    <3> QED
      BY <2>2, <3>2 DEF Followed, Has, TypeOK, Mapping, HookKeys, Keys
  <2> QED
    BY <2>1, <2>2, RunningEffect
<1>4. \A k \in HookKeys : Says(asked, k) /\ running[k] = asked[k] => running'[k] = asked[k]
  BY <1>2 DEF Says
<1>5. Accepts(conf)' <=> Accepts(conf)
  BY <1>1 DEF Accepts, File
<1>6. Has(view', Apply(asked', change')) <=> Has(view, Apply(asked, change))
  BY <1>1
<1> QED
  BY <1>1, <1>2, <1>3, <1>4, <1>5, <1>6 DEF Followed, File, Has, Says, Apply

LEMMA BootFollows ==
  ASSUME TypeOK, HookInv, Followed, \A k \in HookKeys : environ[k] = Unset, Boot
  PROVE  Followed'
<1> USE DEF files, board, bounds
<1>1. /\ snapd' = snapd /\ conf' = conf /\ prev' = prev /\ hook' = hook
      /\ change' = change /\ view' = view /\ torn' = torn /\ environ' = environ
      /\ asked' = asked /\ running' = Load(conf)
  BY DEF Boot
<1>2. Accepts(conf)
  BY AcceptsValid DEF Boot, TypeOK
<1>3. ASSUME ~ torn, NEW k \in HookKeys, Says(asked, k),
             ~ (hook \in Moved /\ change.key = k)
      PROVE  Load(conf)[k] = asked[k]
  <2>1. File(conf)[k] = asked[k]
    <3>1. CASE hook \notin {"moved", "accepted"}
      BY <1>3, <3>1 DEF Followed, Has
    <3>2. CASE hook \in {"moved", "accepted"}
      <4>1. conf = view /\ File(view) = view /\ change.key # k
        BY <1>3, <3>2, SettingsAssumption DEF Followed, Moved, File, TypeOK
      <4>2. Apply(asked, change)[k] = asked[k]
        BY <4>1 DEF Apply, TypeOK, Mapping
      <4> QED
        BY <1>3, <3>2, <4>1, <4>2 DEF Followed, Has, Says
    <3> QED
      BY <3>1, <3>2
  <2> QED
    BY <1>3, <2>1, LoadHas DEF Says
<1>4. Accepts(conf)'
  BY <1>1, <1>2 DEF Accepts, File
<1> QED
  BY <1>1, <1>3, <1>4 DEF Followed, File, Has, Says, Apply

LEMMA HookFollows ==
  ASSUME TypeOK, HookInv, Followed, Hook
  PROVE  Followed'
<1> USE DEF files, board, bounds
<1>1. CASE \E c \in Changes : Begin(c)
  <2>1. PICK c \in Changes : Begin(c)
    BY <1>1
  <2>2. /\ snapd' = snapd /\ conf' = conf /\ prev' = prev /\ change' = c
        /\ torn' = torn /\ client' = client /\ running' = running
        /\ asked' = asked /\ environ' = environ
        /\ hook \in {"idle", "again"} /\ hook' \in {"begun", "idle"}
    BY <2>1 DEF Begin
  <2>3. Has(view', Apply(asked', change'))
    BY <2>1, <2>2, ViewHas DEF Followed
  <2> QED
    BY <2>2, <2>3 DEF Followed, Moved, Has, Says, File
<1>2. CASE Backup
  BY <1>2 DEF Backup, Followed, Moved, Has, Says, File, Apply
<1>3. CASE Move
  BY <1>3 DEF Move, Followed, Moved, Has, Says, File, Apply, Accepts
<1>4. CASE Check
  <2>1. Valid(Load(conf)) <=> Accepts(conf)
    BY AcceptsValid DEF TypeOK
  <2> QED
    BY <1>4, <2>1 DEF Check, Followed, Moved, Has, Says, File, Apply, Accepts
<1>5. CASE Commit
  <2>1. /\ snapd' = Apply(snapd, change) /\ asked' = Apply(asked, change)
        /\ hook = "accepted" /\ hook' = "committed" /\ view' = view /\ conf' = conf
        /\ change' = change /\ torn' = torn /\ client' = client /\ running' = running
    BY <1>5 DEF Commit
  <2>2. Has(snapd', asked')
    BY <2>1, ApplyHas DEF Followed, TypeOK
  <2>3. Has(view', asked') /\ conf' = view'
    BY <2>1 DEF Followed, Moved
  <2>4. File(conf') = conf'
    BY <2>1, <2>3, SettingsAssumption DEF File, TypeOK
  <2>5. \A k \in HookKeys : k # change.key => asked'[k] = asked[k]
    BY <2>1 DEF Apply, TypeOK, Mapping
  <2>6. ~ torn' /\ client' # "down" =>
          \A k \in HookKeys : Says(asked', k) =>
            running'[k] = asked'[k] \/ (hook' \in Moved /\ change'.key = k)
    BY <2>1, <2>5 DEF Followed, Says, Moved
  <2> QED
    BY <2>1, <2>2, <2>3, <2>4, <2>6 DEF Followed, Moved
<1>6. CASE Restart
  <2>1. File(view) = view
    BY SettingsAssumption DEF File, TypeOK
  <2> QED
    BY <1>6, <2>1 DEF Restart, Followed, Moved, Has, Says, File
<1> QED
  BY <1>1, <1>2, <1>3, <1>4, <1>5, <1>6 DEF Hook

LEMMA FollowedStep ==
  ASSUME TypeOK, HookInv, FollowedInv, [Next]_vars
  PROVE  FollowedInv'
<1> USE DEF files, board, bounds
<1>1. environ' = environ
  BY ClientEffect DEF Next, Hook, World, Begin, Backup, Move, Check, Commit,
     Restart, PowerCut, DiskChange, vars
<1>2. crossed => crossed'
  BY RunningEffect DEF Next, Hook, Client, World, Begin, Backup, Move, Check,
     Commit, Restart, Boot, PowerCut, DiskChange, vars
<1>3. ASSUME Followed, ~ crossed'
      PROVE  Followed'
  <2>1. CASE Hook
    BY <1>3, <2>1, HookFollows
  <2>2. CASE Boot
    BY <1>3, <2>2, BootFollows DEF FollowedInv
  <2>3. CASE AssignId \/ Discover \/ Mirror \/ \E t \in Typed : Setup(t)
    BY <1>3, <2>3, ClientFollows
  <2>4. CASE PowerCut
    BY <1>3, <2>4 DEF PowerCut, Followed, Moved, Has, Says, File, Apply, Accepts
  <2>5. CASE DiskChange \/ UNCHANGED vars
    BY <1>3, <2>5 DEF DiskChange, vars, Followed, Moved, Has, Says, File, Apply, Accepts
  <2> QED
    BY <2>1, <2>2, <2>3, <2>4, <2>5 DEF Next, Client, World
<1> QED
  BY <1>1, <1>2, <1>3 DEF FollowedInv

\* Once a hook has ended the client runs with what was last set, unless a cut
\* or a mirrored value came between its move and its restart; for an
\* environment that leaves the hook's keys alone, since it would win over
\* them (snap/hooks/configure, load, persist).
THEOREM WhatIsSetRuns ==
  ASSUME \A e \in Environs : \A k \in HookKeys : e[k] = Unset
  PROVE  Spec => []TakesEffect
<1>1. Init => HookInv /\ FollowedInv
  <2>1. Unset # 0 /\ "live" \in HookKeys /\ \A k \in HookKeys : Blank[k] = Unset
    BY SettingsAssumption DEF Blank, HookKeys, Keys
  <2>2. Blank.live = Unset
    BY <2>1
  <2>3. ASSUME Init
        PROVE  environ.live = Unset /\ \A k \in HookKeys : environ[k] = Unset
    BY <2>1, <2>3 DEF Init
  <2> QED
    BY <2>1, <2>2, <2>3 DEF Init, HookInv, FollowedInv, Followed, Moved, Has, Says, Accepts, File
<1>2. FollowedInv => TakesEffect
  BY DEF FollowedInv, Followed, Moved, TakesEffect, Says
<1> QED
  BY <1>1, <1>2, HookInvStep, FollowedStep, TypeCorrect, PTL DEF Spec

=============================================================================
