---------------------------- MODULE RefreshProofs ----------------------------
(***************************************************************************)
(* Refresh for any file system and any bounds: the types and that the      *)
(* refreshing goes on, for any set of chains; what the cache and the       *)
(* screen hold, for the one chain of a client whose token is in place      *)
(* before it starts (with two, CacheReadable fails: see MCCacheReadable-   *)
(* Both).                                                                  *)
(***************************************************************************)
EXTENDS RefreshLatestList, SequenceTheorems, TLAPS

\* NewFile finds an inode.
LEMMA NewFileExists ==
  ASSUME TypeOK
  PROVE  NewFile \in Inodes /\ NewFile # tmp /\ NewFile # cache
<1>1. \E i \in Inodes : i \notin {tmp, cache} \cup {fd[c] : c \in Chains}
  BY InodesAssumption DEF TypeOK
<1> QED
  BY <1>1 DEF NewFile

LEMMA InitType == Init => TypeOK
<1>1. 0 \in Versions /\ 1 \in Versions /\ <<>> \in Seq(Versions) /\ 0 \in 0..MaxCuts
  BY RefreshAssumption DEF Versions
<1> QED
  BY <1>1, RefreshAssumption DEF Init, TypeOK, Places

\* The steps of a chain.
LEMMA ChainType ==
  ASSUME TypeOK, NEW c \in Chains, Chain(c)
  PROVE  TypeOK'
<1> USE DEF TypeOK, Goto, env, files
<1>1. CASE Fire(c)
  BY <1>1 DEF Fire, Places
<1>2. CASE Respond(c)
  BY <1>2 DEF Respond, Places
<1>3. CASE OpenTmp(c)
  <2> DEFINE i == IF tmp = NoFile THEN NewFile ELSE tmp
  <2>1. i \in Inodes
    BY NewFileExists
  <2>2. content' = [content EXCEPT ![i] = 0] /\ fd' = [fd EXCEPT ![c] = i] /\ tmp' = i
    BY <1>3 DEF OpenTmp
  <2> HIDE DEF i
  <2>3. 0 \in Versions
    BY RefreshAssumption DEF Versions
  <2> QED
    BY <1>3, <2>1, <2>2, <2>3 DEF OpenTmp, Places
<1>4. CASE WriteTmp(c)
  <2>1. content' \in [Inodes -> Versions]
    <3>1. got[c] \in Versions /\ 0 \in Versions
      BY RefreshAssumption DEF Versions
    <3> QED
      BY <1>4, <3>1 DEF WriteTmp
  <2> QED
    BY <1>4, <2>1 DEF WriteTmp, Places
<1>5. CASE Rename(c)
  BY <1>5 DEF Rename, Places
<1>6. CASE Post(c)
  BY <1>6, AppendProperties DEF Post, Places
<1>7. CASE Check(c)
  BY <1>7 DEF Check, Places
<1>8. CASE Arm(c)
  BY <1>8 DEF Arm, Places
<1> QED
  BY <1>1, <1>2, <1>3, <1>4, <1>5, <1>6, <1>7, <1>8 DEF Chain

\* The main loop, the process and the world around it.
LEMMA OtherType ==
  ASSUME TypeOK,
         ApplyPosted \/ Approve \/ Stop \/ Exit \/ PowerCut \/ Start \/ Environment
  PROVE  TypeOK'
<1> USE RefreshAssumption DEF TypeOK, Goto, env, files
<1>0. 0 \in Versions /\ <<>> \in Seq(Versions)
  BY DEF Versions
<1>1. CASE ApplyPosted
  BY <1>1, HeadTailProperties DEF ApplyPosted
<1>2. CASE Approve
  BY <1>2 DEF Approve, Places
<1>3. CASE Stop
  BY <1>3 DEF Stop, Places
<1>4. CASE Exit
  BY <1>0, <1>4 DEF Exit, Down, Places
<1>5. CASE PowerCut
  <2>1. cuts' \in 0..MaxCuts
    BY <1>5 DEF PowerCut
  <2> QED
    BY <1>0, <1>5, <2>1 DEF PowerCut, Down, Places
<1>6. CASE Start
  <2>1. Cached \in Versions
    BY <1>0 DEF Cached
  <2> QED
    BY <1>0, <1>6, <2>1 DEF Start, Places
<1>7. CASE Environment
  <2>1. version' \in Versions /\ cuts' \in 0..MaxCuts
    BY <1>7 DEF Environment, ServerChange, LinkChange, DiskChange, Versions
  <2> QED
    BY <1>7, <2>1 DEF Environment, ServerChange, LinkChange, DiskChange, Links
<1> QED
  BY <1>1, <1>2, <1>3, <1>4, <1>5, <1>6, <1>7

\* Every variable of the chains, the files and the main loop keeps its type.
THEOREM TypeCorrect == Spec => []TypeOK
<1>1. TypeOK /\ [Next]_vars => TypeOK'
  <2> SUFFICES ASSUME TypeOK, [Next]_vars PROVE TypeOK'
    OBVIOUS
  <2>1. CASE UNCHANGED vars
    BY <2>1 DEF vars, env, files, TypeOK
  <2> QED
    BY <2>1, ChainType, OtherType DEF Next
<1> QED
  BY InitType, <1>1, PTL DEF Spec

\* Until stop, no answer, exception, full disk or lost file leaves a running
\* client without a timer or thread that fetches again, with any number of
\* chains (_refresh's finally, _schedule_refresh).
THEOREM NeverStopsRefreshing == Spec => []KeepsRefreshing
<1>1. Init => KeepsRefreshing
  BY DEF Init, KeepsRefreshing
<1>2. TypeOK /\ KeepsRefreshing /\ [Next]_vars => KeepsRefreshing'
  <2> SUFFICES ASSUME TypeOK, KeepsRefreshing, [Next]_vars, up', ~ stopped'
               PROVE  pc'[Boot] # "off"
    BY DEF KeepsRefreshing
  <2>1. Boot \in Chains /\ pc \in [Chains -> Places]
    BY RefreshAssumption DEF TypeOK
  <2>2. CASE \E c \in Chains : Chain(c)
    <3>1. PICK c \in Chains : Chain(c)
      BY <2>2
    <3>2. CASE Fire(c) \/ Respond(c) \/ Post(c)
      BY <2>1, <3>2 DEF Fire, Respond, Post, Goto, KeepsRefreshing
    <3>3. CASE OpenTmp(c)
      BY <2>1, <3>3 DEF OpenTmp, Goto, KeepsRefreshing
    <3>4. CASE WriteTmp(c)
      BY <2>1, <3>4 DEF WriteTmp, Goto, KeepsRefreshing
    <3>5. CASE Rename(c)
      BY <2>1, <3>5 DEF Rename, Goto, KeepsRefreshing
    <3>6. CASE Check(c)
      <4>1. up /\ ~ stopped /\ pc' = [pc EXCEPT ![c] = "arm"]
        BY <3>6 DEF Check, Goto
      <4> QED
        BY <2>1, <4>1 DEF KeepsRefreshing
    <3>7. CASE Arm(c)
      BY <2>1, <3>7 DEF Arm, Goto, KeepsRefreshing
    <3> QED
      BY <3>1, <3>2, <3>3, <3>4, <3>5, <3>6, <3>7 DEF Chain
  <2>3. CASE ApplyPosted \/ Environment \/ UNCHANGED vars
    BY <2>3 DEF ApplyPosted, Environment, vars, KeepsRefreshing
  <2>4. CASE Approve
    BY <2>1, <2>4 DEF Approve, Goto, KeepsRefreshing
  <2>5. CASE Stop \/ Exit \/ PowerCut
    BY <2>5 DEF Stop, Exit, PowerCut, Down
  <2>6. CASE Start
    BY <2>1, <2>6 DEF Start, Goto
  <2> QED
    BY <2>2, <2>3, <2>4, <2>5, <2>6 DEF Next
<1> QED
  BY TypeCorrect, <1>1, <1>2, PTL DEF Spec

-----------------------------------------------------------------------------
(* One chain: what is in the files, in the chain and on its way to the     *)
(* screen.                                                                 *)

\* The temporary file is never the cache; it is what the chain has open, and
\* whole when it is renamed.
FilesInv ==
  /\ CacheReadable
  /\ tmp # NoFile => tmp # cache
  /\ pc[Boot] = "write" => tmp # NoFile /\ fd[Boot] = tmp /\ content[tmp] = 0
  /\ pc[Boot] = "rename" => tmp # NoFile /\ content[tmp] = got[Boot]

\* What the chain was given is no older than what it saved before.
ListsInv ==
  /\ 1 <= version /\ Cached <= version
  /\ pc[Boot] \in {"open", "write", "rename", "post"} =>
       got[Boot] # 0 /\ Cached <= got[Boot] /\ got[Boot] <= version
  /\ pc[Boot] = "post" => got[Boot] = Cached

\* What waits for the screen is in order, between what is shown and cached.
QueueInv ==
  /\ CacheNotBehind
  /\ \A k \in DOMAIN idle : shown <= idle[k] /\ idle[k] <= Cached
  /\ \A j, k \in DOMAIN idle : j <= k => idle[j] <= idle[k]
  /\ ~ up => idle = <<>> /\ pc[Boot] = "off"

CacheInv == TypeOK /\ FilesInv /\ ListsInv /\ QueueInv

LEMMA CachedType ==
  ASSUME TypeOK
  PROVE  Cached \in Nat /\ version \in Nat /\ shown \in Nat
         /\ Boot \in Chains /\ pc[Boot] \in Places /\ got[Boot] \in Nat
         /\ \A k \in DOMAIN idle : idle[k] \in Nat
BY RefreshAssumption DEF TypeOK, Cached, Versions

\* Steps of the chain that leave files and queue alone.
LEMMA QuietStep ==
  ASSUME CacheInv, Fire(Boot) \/ Respond(Boot) \/ Check(Boot) \/ Arm(Boot)
  PROVE  FilesInv' /\ ListsInv' /\ QueueInv'
<1>1. /\ content' = content /\ tmp' = tmp /\ cache' = cache /\ idle' = idle
      /\ shown' = shown /\ up' = up /\ version' = version
  BY DEF Fire, Respond, Check, Arm, env, files
<1>2. Cached' = Cached
  BY <1>1 DEF Cached
<1>3. pc[Boot] \in Places /\ Boot \in Chains /\ pc \in [Chains -> Places] /\ got \in [Chains -> Versions]
  BY RefreshAssumption DEF CacheInv, TypeOK
<1>8. pc[Boot] # "off"
  BY DEF Fire, Respond, Check, Arm
<1>4. \/ pc'[Boot] \in {"fetch", "rearm", "off", "arm", "armed"}
      \/ pc'[Boot] = "open" /\ got'[Boot] = version
  BY <1>3 DEF Fire, Respond, Check, Arm, Goto
<1>5. FilesInv'
  BY <1>1, <1>4 DEF CacheInv, FilesInv, CacheReadable
<1>6. ListsInv'
  <2>1. version \in Nat
    BY CachedType DEF CacheInv
  <2> QED
    BY <1>1, <1>2, <1>4, <2>1 DEF CacheInv, ListsInv
<1>7. QueueInv'
  BY <1>1, <1>2, <1>8 DEF CacheInv, QueueInv, CacheNotBehind
<1> QED
  BY <1>5, <1>6, <1>7

LEMMA OpenStep ==
  ASSUME CacheInv, OpenTmp(Boot)
  PROVE  FilesInv' /\ ListsInv' /\ QueueInv' /\ Cached' = Cached
<1> DEFINE i == IF tmp = NoFile THEN NewFile ELSE tmp
<1>0. NewFile \in Inodes /\ NewFile # cache
  BY NewFileExists DEF CacheInv
<1>1. i \in Inodes /\ i # cache /\ i # NoFile
  BY <1>0, RefreshAssumption DEF CacheInv, TypeOK, FilesInv
<1>2. /\ content' = [content EXCEPT ![i] = 0] /\ fd' = [fd EXCEPT ![Boot] = i]
      /\ tmp' = i /\ cache' = cache /\ idle' = idle /\ shown' = shown
      /\ up' = up /\ version' = version /\ got' = got
      /\ pc' = [pc EXCEPT ![Boot] = "write"] /\ pc[Boot] = "open"
  BY DEF OpenTmp, env, Goto
<1> HIDE DEF i
<1>3. /\ Boot \in Chains /\ pc \in [Chains -> Places]
      /\ fd \in [Chains -> Inodes \cup {NoFile}]
      /\ content \in [Inodes -> Versions] /\ cache \in Inodes \cup {NoFile}
  BY RefreshAssumption DEF CacheInv, TypeOK
<1>4. Cached' = Cached
  BY <1>1, <1>2, <1>3 DEF Cached
<1>5. FilesInv'
  BY <1>1, <1>2, <1>3 DEF CacheInv, FilesInv, CacheReadable
<1>6. ListsInv'
  BY <1>2, <1>3, <1>4 DEF CacheInv, ListsInv
<1>7. QueueInv'
  BY <1>2, <1>4 DEF CacheInv, QueueInv, CacheNotBehind
<1> QED
  BY <1>4, <1>5, <1>6, <1>7

LEMMA WriteStep ==
  ASSUME CacheInv, WriteTmp(Boot)
  PROVE  FilesInv' /\ ListsInv' /\ QueueInv' /\ Cached' = Cached
<1>1. /\ tmp' = tmp /\ cache' = cache /\ idle' = idle /\ shown' = shown
      /\ up' = up /\ version' = version /\ got' = got /\ pc[Boot] = "write"
  BY DEF WriteTmp, env
<1>2. tmp # NoFile /\ tmp # cache /\ fd[Boot] = tmp /\ content[tmp] = 0
  BY <1>1 DEF CacheInv, FilesInv
<1>3. /\ Boot \in Chains /\ pc \in [Chains -> Places] /\ tmp \in Inodes
      /\ content \in [Inodes -> Versions] /\ cache \in Inodes \cup {NoFile}
  BY <1>2, RefreshAssumption DEF CacheInv, TypeOK
<1>4. \/ /\ content' = [content EXCEPT ![tmp] = got[Boot]]
         /\ pc' = [pc EXCEPT ![Boot] = "rename"]
      \/ content' = content /\ pc' = [pc EXCEPT ![Boot] = "rearm"]
  BY <1>2 DEF WriteTmp, Goto
<1>5. Cached' = Cached
  BY <1>1, <1>2, <1>3, <1>4 DEF Cached
<1>6. FilesInv'
  BY <1>1, <1>2, <1>3, <1>4 DEF CacheInv, FilesInv, CacheReadable
<1>7. ListsInv'
  BY <1>1, <1>3, <1>4, <1>5 DEF CacheInv, ListsInv
<1>8. QueueInv'
  BY <1>1, <1>5 DEF CacheInv, QueueInv, CacheNotBehind
<1> QED
  BY <1>5, <1>6, <1>7, <1>8

LEMMA RenameStep ==
  ASSUME CacheInv, Rename(Boot)
  PROVE  FilesInv' /\ ListsInv' /\ QueueInv' /\ Cached <= Cached' /\ Cached' <= version
<1>1. /\ content' = content /\ idle' = idle /\ shown' = shown
      /\ up' = up /\ version' = version /\ got' = got /\ pc[Boot] = "rename"
  BY DEF Rename, env
<1>2. tmp # NoFile /\ content[tmp] = got[Boot] /\ got[Boot] # 0
      /\ Cached <= got[Boot] /\ got[Boot] <= version
  BY <1>1 DEF CacheInv, FilesInv, ListsInv
<1>3. cache' = tmp /\ tmp' = NoFile /\ pc' = [pc EXCEPT ![Boot] = "post"]
  BY <1>2 DEF Rename, Goto
<1>4. Boot \in Chains /\ pc \in [Chains -> Places]
  BY RefreshAssumption DEF CacheInv, TypeOK
<1>5. Cached' = got[Boot]
  BY <1>1, <1>2, <1>3 DEF Cached
<1>6. FilesInv'
  BY <1>1, <1>2, <1>3, <1>4 DEF CacheInv, FilesInv, CacheReadable
<1>7. ListsInv'
  <2>1. got[Boot] \in Nat
    BY CachedType DEF CacheInv
  <2> QED
    BY <1>1, <1>2, <1>3, <1>4, <1>5, <2>1 DEF CacheInv, ListsInv
<1>8. QueueInv'
  BY <1>1, <1>2, <1>5, CachedType DEF CacheInv, QueueInv, CacheNotBehind
<1> QED
  BY <1>2, <1>5, <1>6, <1>7, <1>8

LEMMA PostStep ==
  ASSUME CacheInv, Post(Boot)
  PROVE  FilesInv' /\ ListsInv' /\ QueueInv'
<1>1. /\ content' = content /\ tmp' = tmp /\ cache' = cache /\ shown' = shown
      /\ up' = up /\ version' = version /\ got' = got /\ fd' = fd
      /\ pc[Boot] = "post" /\ pc' = [pc EXCEPT ![Boot] = "rearm"]
      /\ idle' = Append(idle, got[Boot])
  BY DEF Post, env, files, Goto
<1>2. Cached' = Cached /\ got[Boot] = Cached
  BY <1>1 DEF CacheInv, ListsInv, Cached
<1>3. Boot \in Chains /\ pc \in [Chains -> Places]
  BY RefreshAssumption DEF CacheInv, TypeOK
<1>4. FilesInv'
  BY <1>1, <1>3 DEF CacheInv, FilesInv, CacheReadable
<1>5. ListsInv'
  BY <1>1, <1>2, <1>3 DEF CacheInv, ListsInv
<1>6. QueueInv'
  <2>1. idle \in Seq(Versions) /\ Len(idle) \in Nat
    BY DEF CacheInv, TypeOK
  <2>2. /\ Len(idle') = Len(idle) + 1 /\ DOMAIN idle' = 1..(Len(idle) + 1)
        /\ DOMAIN idle = 1..Len(idle)
        /\ \A k \in DOMAIN idle : idle'[k] = idle[k]
        /\ idle'[Len(idle) + 1] = Cached
    BY <1>1, <1>2, <2>1
  <2>3. \A k \in DOMAIN idle' : k \in DOMAIN idle \/ k = Len(idle) + 1
    BY <2>1, <2>2
  <2>4. Cached \in Nat /\ shown <= Cached
        /\ \A k \in DOMAIN idle : shown <= idle[k] /\ idle[k] <= Cached
    BY CachedType DEF CacheInv, QueueInv, CacheNotBehind
  <2>5. \A k \in DOMAIN idle' : shown <= idle'[k] /\ idle'[k] <= Cached
    BY <2>2, <2>3, <2>4
  <2>6. \A j, k \in DOMAIN idle' : j <= k => idle'[j] <= idle'[k]
    <3> SUFFICES ASSUME NEW j \in DOMAIN idle', NEW k \in DOMAIN idle', j <= k
                 PROVE  idle'[j] <= idle'[k]
      OBVIOUS
    <3>1. CASE k = Len(idle) + 1
      BY <2>2, <2>5, <3>1
    <3>2. CASE k # Len(idle) + 1
      <4>1. k \in DOMAIN idle /\ j \in DOMAIN idle
        BY <2>1, <2>2, <2>3, <3>2
      <4> QED
        BY <2>2, <4>1 DEF CacheInv, QueueInv
    <3> QED
      BY <3>1, <3>2
  <2> QED
    BY <1>1, <1>2, <2>4, <2>5, <2>6 DEF CacheInv, QueueInv, CacheNotBehind
<1> QED
  BY <1>4, <1>5, <1>6

\* The main loop shows the oldest list waiting.
LEMMA ApplyStep ==
  ASSUME CacheInv, ApplyPosted
  PROVE  FilesInv' /\ ListsInv' /\ QueueInv' /\ shown <= shown'
<1>1. /\ content' = content /\ tmp' = tmp /\ cache' = cache
      /\ up' = up /\ version' = version /\ got' = got /\ fd' = fd /\ pc' = pc
      /\ up /\ idle # <<>> /\ shown' = Head(idle) /\ idle' = Tail(idle)
  BY DEF ApplyPosted, env, files
<1>2. Cached' = Cached
  BY <1>1 DEF Cached
<1>3. FilesInv' /\ ListsInv'
  BY <1>1, <1>2 DEF CacheInv, FilesInv, ListsInv, CacheReadable
<1>4. /\ idle \in Seq(Versions) /\ Len(idle) \in Nat \ {0}
      /\ DOMAIN idle = 1..Len(idle)
  BY <1>1 DEF CacheInv, TypeOK
<1>5. /\ shown' = idle[1] /\ 1 \in DOMAIN idle
      /\ \A k \in DOMAIN idle' : k + 1 \in DOMAIN idle /\ idle'[k] = idle[k + 1] /\ k \in Nat
  <2>1. DOMAIN idle' = 1..(Len(idle) - 1) /\ \A k \in 1..(Len(idle) - 1) : idle'[k] = idle[k + 1]
    BY <1>1, <1>4, HeadTailProperties
  <2> QED
    BY <1>1, <1>4, <2>1
<1>6. \A k \in DOMAIN idle' : shown' <= idle'[k] /\ idle'[k] <= Cached
  <2> TAKE k \in DOMAIN idle'
  <2>1. 1 <= k + 1 /\ k + 1 \in DOMAIN idle
    BY <1>5
  <2> QED
    BY <1>5, <2>1 DEF CacheInv, QueueInv
<1>7. \A j, k \in DOMAIN idle' : j <= k => idle'[j] <= idle'[k]
  <2> SUFFICES ASSUME NEW j \in DOMAIN idle', NEW k \in DOMAIN idle', j <= k
               PROVE  idle'[j] <= idle'[k]
    OBVIOUS
  <2>1. j + 1 \in DOMAIN idle /\ k + 1 \in DOMAIN idle /\ j + 1 <= k + 1
    BY <1>5
  <2> QED
    BY <1>5, <2>1 DEF CacheInv, QueueInv
<1> QED
  BY <1>1, <1>2, <1>3, <1>5, <1>6, <1>7 DEF CacheInv, QueueInv, CacheNotBehind

\* Stops, power cuts, starts and the world outside.
LEMMA OutsideStep ==
  ASSUME CacheInv, Stop \/ Exit \/ PowerCut \/ Start \/ Environment \/ UNCHANGED vars
  PROVE  FilesInv' /\ ListsInv' /\ QueueInv'
<1>1. content' = content /\ tmp' = tmp /\ cache' = cache /\ Cached' = Cached
  BY DEF Stop, Exit, PowerCut, Down, Start, Environment, vars, files, Cached
<1>2. Boot \in Chains /\ pc \in [Chains -> Places]
  BY RefreshAssumption DEF CacheInv, TypeOK
<1>3. CASE Stop \/ UNCHANGED vars
  <2>1. /\ version' = version /\ up' = up /\ got' = got /\ fd' = fd
        /\ idle' = idle /\ shown' = shown
        /\ pc'[Boot] \in {pc[Boot], "off"}
    BY <1>2, <1>3 DEF Stop, vars, env
  <2> QED
    BY <1>1, <2>1
       DEF CacheInv, FilesInv, ListsInv, QueueInv, CacheReadable, CacheNotBehind
<1>4. CASE Exit \/ PowerCut
  <2>1. version' = version /\ ~ up' /\ idle' = <<>> /\ shown' = 0 /\ pc'[Boot] = "off"
    BY <1>2, <1>4 DEF Exit, PowerCut, Down
  <2>2. Cached \in Nat /\ DOMAIN <<>> = {}
    BY CachedType DEF CacheInv
  <2> QED
    BY <1>1, <2>1, <2>2
       DEF CacheInv, FilesInv, ListsInv, QueueInv, CacheReadable, CacheNotBehind
<1>5. CASE Start
  <2>1. /\ version' = version /\ up' /\ idle' = idle /\ idle = <<>>
        /\ shown' \in {0, Cached} /\ pc'[Boot] = "armed"
    BY <1>2, <1>5 DEF Start, Goto, env, CacheInv, QueueInv
  <2>2. Cached \in Nat /\ DOMAIN <<>> = {}
    BY CachedType DEF CacheInv
  <2> QED
    BY <1>1, <2>1, <2>2
       DEF CacheInv, FilesInv, ListsInv, QueueInv, CacheReadable, CacheNotBehind
<1>6. CASE Environment
  <2>1. /\ version' \in {version, version + 1} /\ up' = up /\ got' = got
        /\ fd' = fd /\ idle' = idle /\ shown' = shown /\ pc' = pc
    BY <1>6 DEF Environment, ServerChange, LinkChange, DiskChange, files
  <2>2. version \in Nat /\ Cached \in Nat /\ got[Boot] \in Nat
    BY CachedType DEF CacheInv
  <2>3. ListsInv'
    BY <1>1, <2>1, <2>2 DEF CacheInv, ListsInv
  <2> QED
    BY <1>1, <2>1, <2>3
       DEF CacheInv, FilesInv, QueueInv, CacheReadable, CacheNotBehind
<1> QED
  BY <1>3, <1>4, <1>5, <1>6

\* CacheInv is inductive when there is one chain.
LEMMA CacheInvStep ==
  ASSUME Chains = {Boot}
  PROVE  CacheInv /\ [Next]_vars => CacheInv' /\ [up /\ up' => shown' >= shown]_vars
<1> SUFFICES ASSUME CacheInv, [Next]_vars
             PROVE  CacheInv' /\ [up /\ up' => shown' >= shown]_vars
  OBVIOUS
<1>1. TypeOK'
  <2>1. CASE UNCHANGED vars
    BY <2>1 DEF CacheInv, vars, env, files, TypeOK
  <2> QED
    BY <2>1, ChainType, OtherType DEF Next, CacheInv
<1>2. shown \in Nat
  BY CachedType DEF CacheInv
<1>3. CASE Chain(Boot)
  <2>1. FilesInv' /\ ListsInv' /\ QueueInv'
    BY <1>3, QuietStep, OpenStep, WriteStep, RenameStep, PostStep DEF Chain
  <2>2. shown' = shown
    BY <1>3 DEF Chain, Fire, Respond, OpenTmp, WriteTmp, Rename, Post, Check, Arm
  <2> QED
    BY <1>1, <1>2, <2>1, <2>2 DEF CacheInv
<1>4. CASE ApplyPosted
  BY <1>1, <1>2, <1>4, ApplyStep, CachedType DEF CacheInv
<1>5. CASE Stop \/ Exit \/ PowerCut \/ Start \/ Environment \/ UNCHANGED vars
  <2>1. FilesInv' /\ ListsInv' /\ QueueInv'
    BY <1>5, OutsideStep
  <2>2. (up /\ up' => shown' = shown) \/ UNCHANGED vars
    BY <1>5 DEF Stop, Exit, PowerCut, Down, Start, Environment
  <2> QED
    BY <1>1, <1>2, <2>1, <2>2 DEF CacheInv
<1>6. ~ Approve
  BY RefreshAssumption DEF Approve
<1> QED
  BY <1>3, <1>4, <1>5, <1>6 DEF Next

LEMMA CacheInvariant ==
  ASSUME Chains = {Boot}
  PROVE  Spec => []CacheInv /\ [][up /\ up' => shown' >= shown]_vars
<1>1. Init => CacheInv
  <2> SUFFICES ASSUME Init PROVE FilesInv /\ ListsInv /\ QueueInv
    BY InitType DEF CacheInv
  <2>1. Boot \in Chains /\ DOMAIN idle = {}
    BY RefreshAssumption DEF Init
  <2> QED
    BY <2>1 DEF Init, FilesInv, ListsInv, QueueInv, CacheReadable, CacheNotBehind, Cached
<1> QED
  BY <1>1, CacheInvStep, PTL DEF Spec

\* In every state a power cut can leave behind, the cache file, once there
\* is one, is a whole list (ConfigCache.save).
THEOREM CacheAlwaysReadable ==
  ASSUME Chains = {Boot}
  PROVE  Spec => []CacheReadable
<1>1. CacheInv => CacheReadable
  BY DEF CacheInv, FilesInv
<1> QED
  BY <1>1, CacheInvariant, PTL

\* The list on screen, or a later one, is in the cache (_refresh saves before
\* it posts).
THEOREM CacheNeverBehind ==
  ASSUME Chains = {Boot}
  PROVE  Spec => []CacheNotBehind
<1>1. CacheInv => CacheNotBehind
  BY DEF CacheInv, QueueInv
<1> QED
  BY <1>1, CacheInvariant, PTL

\* While the process runs no answer is applied after a later one (the order
\* of the chain and of the idle queue).
THEOREM ScreenNeverGoesBack ==
  ASSUME Chains = {Boot}
  PROVE  Spec => NeverBack
BY CacheInvariant, PTL DEF NeverBack

\* Once list n has been shown, nothing older is saved, waiting or shown.
FloorInv(n) ==
  /\ n <= Cached
  /\ \A k \in DOMAIN idle : n <= idle[k]
  /\ shown = 0 \/ n <= shown

\* A step keeps the floor: what is posted is what was saved, and a start
\* shows what is saved.
LEMMA FloorStep ==
  ASSUME Chains = {Boot}, NEW n \in Nat
  PROVE  CacheInv /\ FloorInv(n) /\ [Next]_vars => FloorInv(n)'
<1> SUFFICES ASSUME CacheInv, FloorInv(n), [Next]_vars
             PROVE  FloorInv(n)'
  OBVIOUS
<1>1. CacheInv' /\ Cached \in Nat /\ Cached' \in Nat
  <2>1. CacheInv'
    BY CacheInvStep
  <2>2. Cached' \in Nat
    BY <2>1, RefreshAssumption DEF CacheInv, TypeOK, Cached, Versions
  <2> QED
    BY <2>1, <2>2, CachedType DEF CacheInv
<1>2. CASE Chain(Boot)
  <2>1. Cached <= Cached' /\ shown' = shown
    <3>1. CASE Rename(Boot)
      BY <3>1, RenameStep DEF Rename
    <3>2. CASE OpenTmp(Boot) \/ WriteTmp(Boot)
      BY <1>1, <3>2, OpenStep, WriteStep DEF OpenTmp, WriteTmp
    <3>3. CASE Fire(Boot) \/ Respond(Boot) \/ Post(Boot) \/ Check(Boot) \/ Arm(Boot)
      BY <1>1, <3>3 DEF Fire, Respond, Post, Check, Arm, files, Cached
    <3> QED
      BY <1>2, <3>1, <3>2, <3>3 DEF Chain
  <2>2. CASE Post(Boot)
    <3>1. idle' = Append(idle, got[Boot]) /\ got[Boot] = Cached
      BY <2>2 DEF Post, CacheInv, ListsInv
    <3>2. idle \in Seq(Versions) /\ got[Boot] \in Versions
      BY RefreshAssumption DEF CacheInv, TypeOK
    <3>3. \A k \in DOMAIN idle' :
            \/ k \in DOMAIN idle /\ idle'[k] = idle[k]
            \/ idle'[k] = Cached
      BY <3>1, <3>2
    <3> QED
      BY <1>1, <2>1, <3>3 DEF FloorInv
  <2>3. CASE ~ Post(Boot)
    <3>1. idle' = idle
      BY <1>2, <2>3
         DEF Chain, Fire, Respond, OpenTmp, WriteTmp, Rename, Check, Arm
    <3> QED
      BY <1>1, <2>1, <3>1 DEF FloorInv
  <2> QED
    BY <2>2, <2>3
<1>3. CASE ApplyPosted
  <2>1. /\ idle \in Seq(Versions) /\ idle # <<>>
        /\ shown' = Head(idle) /\ idle' = Tail(idle) /\ Cached' = Cached
    BY <1>3 DEF ApplyPosted, CacheInv, TypeOK, files, Cached
  <2>2. shown' = idle[1] /\ 1 \in DOMAIN idle
        /\ \A k \in DOMAIN idle' : k + 1 \in DOMAIN idle /\ idle'[k] = idle[k + 1]
    BY <2>1, HeadTailProperties
  <2> QED
    BY <2>1, <2>2 DEF FloorInv
<1>4. CASE Stop \/ Environment \/ UNCHANGED vars
  BY <1>4 DEF Stop, Environment, vars, files, FloorInv, Cached
<1>5. CASE Exit \/ PowerCut
  <2>1. Cached' = Cached /\ idle' = <<>> /\ shown' = 0 /\ DOMAIN <<>> = {}
    BY <1>5 DEF Exit, PowerCut, Down, files, Cached
  <2> QED
    BY <2>1 DEF FloorInv
<1>6. CASE Start
  <2>1. Cached' = Cached /\ idle' = idle /\ shown' \in {0, Cached}
    BY <1>6 DEF Start, files, Cached
  <2> QED
    BY <2>1 DEF FloorInv
<1>7. ~ Approve
  BY RefreshAssumption DEF Approve
<1> QED
  BY <1>2, <1>3, <1>4, <1>5, <1>6, <1>7 DEF Next

\* A viewer who has been shown a list is never shown an older one, over any
\* number of lists, power cuts and restarts (_refresh, attach).
THEOREM NothingOlder ==
  ASSUME Chains = {Boot}
  PROVE  Spec => NeverOlder
<1> SUFFICES ASSUME NEW n \in Versions
             PROVE  Spec => [](shown >= n => [](shown = 0 \/ shown >= n))
  BY DEF NeverOlder
<1>1. n \in Nat
  BY RefreshAssumption DEF Versions
<1>2. CacheInv /\ shown >= n => FloorInv(n)
  BY <1>1, CachedType DEF CacheInv, QueueInv, CacheNotBehind, FloorInv
<1>3. CacheInv /\ FloorInv(n) => shown = 0 \/ shown >= n
  BY <1>1, CachedType DEF CacheInv, FloorInv
<1>4. CacheInv /\ FloorInv(n) /\ [Next]_vars => FloorInv(n)'
  BY <1>1, FloorStep
<1> QED
  BY <1>2, <1>3, <1>4, CacheInvariant, PTL DEF Spec

-----------------------------------------------------------------------------
(* One chain implements LatestList.                                        *)

\* Only the rename moves the cache, to a list the server gave since the one
\* before it; every other step of the chain is one nobody sees.
LEMMA ChainImplements ==
  ASSUME CacheInv, Chain(Boot)
  PROVE  Latest!Save \/ UNCHANGED <<version, Cached, up, shown>>
<1>1. version' = version /\ up' = up /\ shown' = shown
  BY DEF Chain, Fire, Respond, OpenTmp, WriteTmp, Rename, Post, Check, Arm, env
<1>2. CASE Rename(Boot)
  <2>1. up
    BY <1>2 DEF Rename, CacheInv, QueueInv
  <2>2. Cached <= Cached' /\ Cached' <= version
    BY <1>2, RenameStep
  <2>3. Cached' = Cached \/ Cached' \in (Cached + 1)..version
    <3>1. Cached' \in Nat
      <4>1. TypeOK'
        BY ChainType, RefreshAssumption DEF CacheInv
      <4> QED
        BY <4>1, RefreshAssumption DEF TypeOK, Cached, Versions
    <3> QED
      BY <2>2, <3>1, CachedType DEF CacheInv
  <2> QED
    BY <1>1, <2>1, <2>3 DEF Latest!Save
<1>3. CASE OpenTmp(Boot) \/ WriteTmp(Boot)
  BY <1>1, <1>3, OpenStep, WriteStep
<1>4. CASE Fire(Boot) \/ Respond(Boot) \/ Post(Boot) \/ Check(Boot) \/ Arm(Boot)
  BY <1>1, <1>4 DEF Fire, Respond, Post, Check, Arm, files, Cached
<1> QED
  BY <1>2, <1>3, <1>4 DEF Chain

\* What a call of _apply puts on the screen is in the cache, and no older
\* than what it replaces.
LEMMA ApplyImplements ==
  ASSUME CacheInv, ApplyPosted
  PROVE  Latest!Show \/ UNCHANGED <<version, Cached, up, shown>>
<1>1. version' = version /\ up' = up /\ up /\ Cached' = Cached
  BY DEF ApplyPosted, env, files, Cached
<1>2. shown <= shown' /\ shown' <= Cached
  BY <1>1, ApplyStep DEF QueueInv, CacheNotBehind
<1>3. shown \in Nat /\ shown' \in Nat /\ Cached \in Nat
  <2>1. TypeOK'
    BY OtherType DEF CacheInv
  <2> QED
    BY <2>1, CachedType DEF CacheInv, TypeOK, Versions
<1>4. shown' = shown \/ shown' \in (shown + 1)..Cached
  BY <1>2, <1>3
<1> QED
  BY <1>1, <1>4 DEF Latest!Show

\* A stop, a power cut, a start and a change of the server's.
LEMMA OutsideImplements ==
  ASSUME CacheInv,
         Stop \/ Exit \/ PowerCut \/ Start \/ Environment \/ UNCHANGED vars
  PROVE  \/ Latest!Publish \/ Latest!Start \/ Latest!Halt
         \/ UNCHANGED <<version, Cached, up, shown>>
<1>1. Cached' = Cached
  BY DEF Stop, Exit, PowerCut, Down, Start, Environment, vars, files, Cached
<1>2. CASE Stop \/ UNCHANGED vars
  BY <1>1, <1>2 DEF Stop, vars, env
<1>3. CASE Exit \/ PowerCut
  BY <1>1, <1>3 DEF Exit, PowerCut, Down, Latest!Halt
<1>4. CASE Start
  BY <1>1, <1>4 DEF Start, env, Latest!Start
<1>5. CASE Environment
  BY <1>1, <1>5
     DEF Environment, ServerChange, LinkChange, DiskChange, Latest!Publish
<1> QED
  BY <1>2, <1>3, <1>4, <1>5

\* Whatever fails and whenever the power goes, the cache only moves to later
\* lists, and the screen shows nothing that is not in it and only moves to
\* later lists while the process runs (_refresh, ConfigCache.save, _apply,
\* attach): for any file system and any number of lists, calls and cuts.
THEOREM RefreshImplementsLatestList ==
  ASSUME Chains = {Boot}
  PROVE  Spec => ImplementsLatestList
<1>1. Init => Latest!Init
  BY DEF Init, Latest!Init, Cached
<1>2. CacheInv /\ [Next]_vars =>
        [Latest!Next]_<<version, Cached, up, shown>>
  <2> SUFFICES ASSUME CacheInv, [Next]_vars
               PROVE  Latest!Next \/ UNCHANGED <<version, Cached, up, shown>>
    OBVIOUS
  <2>1. CASE Chain(Boot)
    BY <2>1, ChainImplements DEF Latest!Next
  <2>2. CASE ApplyPosted
    BY <2>2, ApplyImplements DEF Latest!Next
  <2>3. CASE Stop \/ Exit \/ PowerCut \/ Start \/ Environment \/ UNCHANGED vars
    BY <2>3, OutsideImplements DEF Latest!Next
  <2>4. ~ Approve
    BY RefreshAssumption DEF Approve
  <2> QED
    BY <2>1, <2>2, <2>3, <2>4 DEF Next
<1> QED
  BY <1>1, <1>2, CacheInvariant, PTL DEF Spec, ImplementsLatestList, Latest!Spec

=============================================================================
