---------------------------- MODULE NofsReadProofs ----------------------------
(***************************************************************************)
(* Why nobody reads a half copied file with -s, whatever the transport and *)
(* whoever writes: where the content is that the remote had from the       *)
(* start.                                                                  *)
(***************************************************************************)
EXTENDS NofsProofs

\* The conditions: -s, and transfers that run to their end.
Calm == ~Threaded /\ Faults \cap {"unreachable", "partial"} = {}

Fetches == {"got", "forced"}
Opens == {"opened", "put", "putting"}

\* Files that exist have been made.
FilesMade ==
    /\ \A p \in Paths : remote[p] # Absent => "made" \in remote[p]
    /\ \A m \in Mounts, p \in Paths : cache[m][p] # Absent => "made" \in cache[m][p]
    /\ \A s \in Sessions : pc[s] \in Fetches \cup {"putting"} => "made" \in buf[s]

\* Nothing comes between a transfer and its destination, except another put.
Undisturbed ==
    \A s \in Sessions : mixed[s] => pc[s] = "putting" /\ Transport = "SCP"

\* A file that is open, or is put, is in the cache, and scp has made what it puts.
OpenInCache ==
    \A s \in Sessions :
        /\ pc[s] \in Opens => Local(s) # Absent
        /\ pc[s] = "putting" /\ Transport = "SCP" => Remote(s) # Absent

\* A copy nobody is fetching has the content the remote has had from the start ...
CachesWhole ==
    \A m \in Mounts, p \in Paths :
        /\ "base" \in remote[p] /\ cache[m][p] # Absent /\ Fetching(m, p) = {}
            => "base" \in cache[m][p]
        /\ Transport = "SCP" /\ "base" \in cache[m][p] => "base" \in remote[p]

\* ... because every transfer carries it, except that curl puts no content.
CarryWhole ==
    \A s \in Sessions :
        /\ pc[s] \in Fetches /\ "base" \in Remote(s) => "base" \in buf[s]
        /\ pc[s] \in Fetches /\ Transport = "SCP" /\ "base" \in buf[s] => "base" \in Remote(s)
        /\ pc[s] = "putting" => ("base" \in buf[s] <=> Transport = "SCP" /\ "base" \in Remote(s))

\* What a request has not found is not there.
MissingIsMissing == \A s \in Sessions : pc[s] = "missing" => "base" \notin Remote(s)

ReadInv ==
    /\ FilesMade /\ Undisturbed /\ OpenInCache
    /\ CachesWhole /\ CarryWhole /\ MissingIsMissing

-------------------------------------------------------------------------------
\* A step of one session that leaves the remote alone.
LEMMA OwnStep ==
    ASSUME TypeOK, ReadInv, NEW v \in Sessions, NEW f,
           cache' = [cache EXCEPT ![MountOf[v]][path[v]] = f],
           remote' = remote, path' = path,
           \A t \in Sessions \ {v} :
                pc'[t] = pc[t] /\ buf'[t] = buf[t] /\ mixed'[t] = mixed[t],
           f = Absent => Local(v) = Absent,
           f = Absent \/ "made" \in f,
           "base" \in f /\ Transport = "SCP" => "base" \in Remote(v),
           ("base" \in Remote(v) /\ f # Absent /\ pc'[v] \notin Fetches
            /\ \A t \in Sessions \ {v} : SameCopy(v, t) => pc[t] \notin Fetches)
                => "base" \in f,
           ~mixed'[v],
           pc'[v] \in Fetches =>
                /\ "made" \in buf'[v]
                /\ "base" \in Remote(v) => "base" \in buf'[v]
                /\ Transport = "SCP" /\ "base" \in buf'[v] => "base" \in Remote(v),
           pc'[v] # "putting",
           pc'[v] = "missing" => "base" \notin Remote(v),
           pc'[v] \in Opens => f # Absent
    PROVE  ReadInv'
  <1>1. MountOf[v] \in Mounts /\ path[v] \in Paths
    BY ConstantsAssumption DEF TypeOK
  <1>2. \A m \in Mounts, p \in Paths :
            cache'[m][p] = IF m = MountOf[v] /\ p = path[v] THEN f ELSE cache[m][p]
    BY <1>1 DEF TypeOK
  <1>3. \A s \in Sessions : /\ Remote(s)' = Remote(s)
                            /\ Local(s)' = IF SameCopy(v, s) THEN f ELSE Local(s)
    BY <1>1, <1>2, ConstantsAssumption DEF Remote, Local, SameCopy, TypeOK
  <1>4. FilesMade'
    BY <1>1, <1>2 DEF ReadInv, FilesMade
  <1>5. Undisturbed'
    BY DEF ReadInv, Undisturbed
  <1>6. OpenInCache'
    BY <1>3 DEF ReadInv, OpenInCache, Local, SameCopy
  <1>7. CachesWhole'
    <2> SUFFICES ASSUME NEW m \in Mounts, NEW p \in Paths
                 PROVE  /\ "base" \in remote'[p] /\ cache'[m][p] # Absent /\ Fetching(m, p)' = {}
                            => "base" \in cache'[m][p]
                        /\ Transport = "SCP" /\ "base" \in cache'[m][p] => "base" \in remote'[p]
      BY DEF CachesWhole
    <2>1. CASE m = MountOf[v] /\ p = path[v]
      <3>1. cache'[m][p] = f /\ remote'[p] = Remote(v)
        BY <1>2, <2>1 DEF Remote
      <3>2. Fetching(m, p)' = {} => pc'[v] \notin Fetches
        BY <2>1 DEF Fetching, Fetches
      <3>3. Fetching(m, p)' = {} =>
                \A t \in Sessions \ {v} : SameCopy(v, t) => pc[t] \notin Fetches
        BY <2>1 DEF Fetching, Fetches, SameCopy
      <3> QED
        BY <3>1, <3>2, <3>3
    <2>2. CASE ~(m = MountOf[v] /\ p = path[v])
      <3>1. Fetching(m, p)' = Fetching(m, p)
        BY <2>2 DEF Fetching
      <3> QED
        BY <1>2, <2>2, <3>1 DEF ReadInv, CachesWhole
    <2> QED
      BY <2>1, <2>2
  <1>8. CarryWhole' /\ MissingIsMissing'
    BY <1>3 DEF ReadInv, CarryWhole, MissingIsMissing
  <1> QED
    BY <1>4, <1>5, <1>6, <1>7, <1>8 DEF ReadInv

\* With -s no other session of the mount is inside a handler.
LEMMA Alone ==
    ASSUME Calm, Serial, NEW v \in Sessions, pc[v] \in InHandler \/ CanRun(v),
           NEW t \in Sessions \ {v}, MountOf[t] = MountOf[v]
    PROVE  pc[t] \notin InHandler
  BY DEF Calm, Serial, CanRun

\* So nobody else writes the copy it looks at, ...
LEMMA NobodyFetches ==
    ASSUME Calm, Serial, NEW v \in Sessions, pc[v] \in InHandler \/ CanRun(v),
           pc[v] \notin Fetches
    PROVE  Fetching(MountOf[v], path[v]) = {}
  BY Alone DEF Fetching, Fetches, InHandler

\* ... and what it puts there marks no transfer.
LEMMA SetLocalAlone ==
    ASSUME Calm, TypeOK, Serial, NEW v \in Sessions, pc[v] \in InHandler \/ CanRun(v),
           NEW f, SetLocal(v, f)
    PROVE  /\ cache' = [cache EXCEPT ![MountOf[v]][path[v]] = f]
           /\ ~mixed'[v]
           /\ \A t \in Sessions \ {v} : mixed'[t] = mixed[t]
  <1>1. \A t \in Sessions \ {v} : t \notin Fetching(MountOf[v], path[v])
    BY Alone DEF Fetching, InHandler
  <1>2. \A t \in Sessions \ {v} : mixed[t] \in BOOLEAN
    BY DEF TypeOK
  <1> QED
    BY <1>1, <1>2 DEF SetLocal

\* What is in the cache, and what a transfer from the remote reads.
LEMMA LocalBase ==
    ASSUME TypeOK, ReadInv, NEW v \in Sessions
    PROVE  /\ Local(v) = Absent \/ "made" \in Local(v)
           /\ "base" \in Local(v) /\ Transport = "SCP" => "base" \in Remote(v)
           /\ "base" \in Remote(v) /\ Local(v) # Absent
                /\ Fetching(MountOf[v], path[v]) = {} => "base" \in Local(v)
  BY ConstantsAssumption DEF ReadInv, FilesMade, CachesWhole, Local, Remote, TypeOK

LEMMA RemoteBase ==
    ASSUME TypeOK, ReadInv, NEW v \in Sessions, Remote(v) # Absent, NEW f \in RemoteReads(v)
    PROVE  "made" \in f /\ ("base" \in f <=> "base" \in Remote(v))
  <1>1. "made" \in Remote(v)
    BY DEF ReadInv, FilesMade, Remote, TypeOK
  <1>2. ASSUME NEW t \in Uploading(path[v])
        PROVE  "made" \in buf[t] /\ ("base" \in buf[t] <=> "base" \in Remote(v))
    BY <1>2 DEF Uploading, ReadInv, FilesMade, CarryWhole, Remote
  <1> QED
    BY <1>1, <1>2 DEF RemoteReads, Observed, Torn

-------------------------------------------------------------------------------
\* The steps of one session that leave the remote and its path alone.
Own(s) ==
    \/ StartFetch(s) \/ FailFetch(s) \/ EndFetch(s) \/ BreakFetch(s)
    \/ EnsureLocalFile(s) \/ Getattr(s) \/ Mknod(s) \/ MknodFails(s) \/ Open(s) \/ OpenFd(s)
    \/ Truncate(s) \/ Xattr(s) \/ ChangeOpenFile(s) \/ Fsync(s) \/ Close(s)
    \/ ReleaseReader(s) \/ FailPut(s)

\* A step that changes nothing but where its session is.
LEMMA StayStep ==
    ASSUME TypeOK, ReadInv, NEW v \in Sessions,
           UNCHANGED <<remote, cache, path, buf, mixed>>,
           pc' = [pc EXCEPT ![v] = pc'[v]],
           pc[v] \notin Fetches \cup {"putting"},
           pc'[v] \notin Fetches \cup {"putting"},
           pc'[v] = "missing" => "base" \notin Remote(v),
           pc'[v] \in Opens => Local(v) # Absent
    PROVE  ReadInv'
  <1>1. /\ cache' = [cache EXCEPT ![MountOf[v]][path[v]] = Local(v)]
        /\ \A t \in Sessions \ {v} :
                pc'[t] = pc[t] /\ buf'[t] = buf[t] /\ mixed'[t] = mixed[t]
    BY ConstantsAssumption DEF Local, TypeOK
  <1>2. ~mixed'[v]
    BY DEF ReadInv, Undisturbed
  <1>3. (\A t \in Sessions \ {v} : SameCopy(v, t) => pc[t] \notin Fetches)
            => Fetching(MountOf[v], path[v]) = {}
    BY DEF Fetching, Fetches, SameCopy
  <1> QED
    BY <1>1, <1>2, <1>3, LocalBase, OwnStep

LEMMA OwnKeeps ==
    ASSUME Calm, TypeOK, Serial, ReadInv, NEW v \in Sessions, Own(v)
    PROVE  ReadInv'
  <1> USE DEF Goto, End, Request
  <1>0. /\ "made" \in Empty /\ "base" \notin Empty /\ Empty # Absent
        /\ v # "base" /\ v # "made"
    BY ConstantsAssumption DEF Empty, Absent
  <1>1. CASE StartFetch(v)
    <2>1. PICK g \in RemoteReads(v) : buf' = [buf EXCEPT ![v] = g]
      BY <1>1 DEF StartFetch
    <2>2. "made" \in g /\ ("base" \in g <=> "base" \in Remote(v))
      BY <1>1, <2>1, RemoteBase DEF StartFetch
    <2>3. /\ remote' = remote /\ path' = path /\ pc[v] \in InHandler
          /\ pc' = [pc EXCEPT ![v] = pc'[v]] /\ pc'[v] \in Fetches
      BY <1>1 DEF StartFetch, InHandler, Fetches, TypeOK
    <2>4. PICK f : /\ f = Empty \/ (f = Local(v) /\ Local(v) # Absent)
                   /\ cache' = [cache EXCEPT ![MountOf[v]][path[v]] = f]
                   /\ ~mixed'[v]
                   /\ \A t \in Sessions \ {v} : mixed'[t] = mixed[t]
      <3>1. CASE Transport = "HTTP" \/ Local(v) = Absent
        BY <1>1, <2>3, <3>1, SetLocalAlone DEF StartFetch, OpenDestination
      <3>2. CASE ~(Transport = "HTTP" \/ Local(v) = Absent)
        <4>1. UNCHANGED <<cache, mixed>>
          BY <1>1, <3>2 DEF StartFetch, OpenDestination
        <4>2. cache = [cache EXCEPT ![MountOf[v]][path[v]] = Local(v)]
          BY ConstantsAssumption DEF Local, TypeOK
        <4>3. ~mixed[v]
          BY <1>1 DEF StartFetch, ReadInv, Undisturbed
        <4> QED
          BY <3>2, <4>1, <4>2, <4>3
      <3> QED
        BY <3>1, <3>2
    <2>5. buf'[v] = g /\ \A t \in Sessions \ {v} : buf'[t] = buf[t] /\ pc'[t] = pc[t]
      BY <2>1, <2>3 DEF TypeOK
    <2>6. "base" \in f /\ Transport = "SCP" => "base" \in Remote(v)
      BY <1>0, <2>4, LocalBase
    <2>7. f # Absent /\ "made" \in f
      BY <1>0, <2>4, LocalBase
    <2> QED
      BY <2>2, <2>3, <2>4, <2>5, <2>6, <2>7, OwnStep DEF Fetches, Opens
  <1>2. CASE FailFetch(v)
    <2>1. "base" \notin Remote(v)
      BY <1>2 DEF Calm, FailFetch, Absent
    <2>2. /\ remote' = remote /\ path' = path /\ buf' = buf /\ pc[v] \in {"get", "force"}
          /\ pc' = [pc EXCEPT ![v] = pc'[v]] /\ pc'[v] \in {"missing", "fd"}
      BY <1>2 DEF FailFetch, FetchReturn, TypeOK
    <2>3. CASE Transport = "HTTP"
      <3>1. /\ cache' = [cache EXCEPT ![MountOf[v]][path[v]] = Empty]
            /\ ~mixed'[v] /\ \A t \in Sessions \ {v} : mixed'[t] = mixed[t]
        BY <1>2, <2>2, <2>3, SetLocalAlone DEF FailFetch, FailedDestination, InHandler
      <3>2. \A t \in Sessions \ {v} : buf'[t] = buf[t] /\ pc'[t] = pc[t]
        BY <2>2 DEF TypeOK
      <3> QED
        BY <1>0, <2>1, <2>2, <3>1, <3>2, OwnStep DEF Fetches, Opens
    <2>4. CASE Transport # "HTTP"
      BY <1>2, <2>1, <2>2, <2>4, StayStep DEF FailFetch, FailedDestination, Fetches, Opens
    <2> QED
      BY <2>3, <2>4
  <1>3. CASE EndFetch(v)
    <2>1. /\ remote' = remote /\ path' = path /\ buf' = [buf EXCEPT ![v] = Absent]
          /\ pc[v] \in Fetches /\ pc[v] \in InHandler
          /\ pc' = [pc EXCEPT ![v] = pc'[v]] /\ pc'[v] \in {"found", "fd"}
      BY <1>3 DEF EndFetch, FetchReturn, TypeOK, Fetches, InHandler
    <2>2. ~mixed[v]
      BY <2>1 DEF ReadInv, Undisturbed, Fetches
    <2>3. SetLocal(v, buf[v])
      BY <1>3, <2>2 DEF EndFetch, Landed
    <2>4. /\ cache' = [cache EXCEPT ![MountOf[v]][path[v]] = buf[v]]
          /\ ~mixed'[v] /\ \A t \in Sessions \ {v} : mixed'[t] = mixed[t]
      BY <2>1, <2>3, SetLocalAlone
    <2>5. /\ "made" \in buf[v] /\ ("base" \in Remote(v) => "base" \in buf[v])
          /\ Transport = "SCP" /\ "base" \in buf[v] => "base" \in Remote(v)
      BY <2>1 DEF ReadInv, FilesMade, CarryWhole
    <2>6. \A t \in Sessions \ {v} : buf'[t] = buf[t] /\ pc'[t] = pc[t]
      BY <2>1 DEF TypeOK
    <2> QED
      BY <2>1, <2>4, <2>5, <2>6, OwnStep DEF Fetches, Opens, Absent
  <1>4. CASE BreakFetch(v)
    BY <1>4 DEF BreakFetch, Calm
  <1>5. CASE EnsureLocalFile(v) \/ Getattr(v) \/ MknodFails(v) \/ Open(v) \/ OpenFd(v) \/ Xattr(v)
    <2>1. UNCHANGED <<remote, cache, path, buf, mixed>>
      BY <1>5 DEF EnsureLocalFile, Getattr, MknodFails, Open, OpenFd, Xattr, fileVars
    <2>2. /\ pc' = [pc EXCEPT ![v] = pc'[v]]
          /\ pc[v] \notin Fetches \cup {"putting"}
          /\ pc'[v] \in {"found", "get", "access", "done", "force", "fd", "opened"}
          /\ pc'[v] = "opened" => Local(v) # Absent
      BY <1>5 DEF EnsureLocalFile, Getattr, MknodFails, Open, OpenFd, Xattr, TypeOK, Fetches
    <2> QED
      BY <2>1, <2>2, StayStep DEF Fetches, Opens
  <1>6. CASE Mknod(v)
    <2>1. /\ remote' = remote /\ path' = path /\ buf' = buf /\ pc[v] = "missing"
          /\ pc' = [pc EXCEPT ![v] = "access"]
      BY <1>6 DEF Mknod
    <2>2. /\ cache' = [cache EXCEPT ![MountOf[v]][path[v]] = Empty]
          /\ ~mixed'[v] /\ \A t \in Sessions \ {v} : mixed'[t] = mixed[t]
      BY <1>6, <2>1, SetLocalAlone DEF Mknod, InHandler
    <2>3. "base" \notin Remote(v)
      BY <2>1 DEF ReadInv, MissingIsMissing
    <2>4. pc'[v] = "access" /\ \A t \in Sessions \ {v} : buf'[t] = buf[t] /\ pc'[t] = pc[t]
      BY <2>1 DEF TypeOK
    <2> QED
      BY <1>0, <2>1, <2>2, <2>3, <2>4, OwnStep DEF Fetches, Opens
  <1>7. CASE Truncate(v) \/ ChangeOpenFile(v)
    <2>1. /\ remote' = remote /\ path' = path /\ buf' = buf
          /\ pc' = [pc EXCEPT ![v] = pc'[v]]
          /\ pc[v] \in {"found", "missing", "opened"} /\ pc'[v] \in {"done", "opened"}
          /\ pc[v] \in InHandler \/ CanRun(v)
          /\ pc'[v] = "opened" => pc[v] = "opened"
      BY <1>7 DEF Truncate, ChangeOpenFile, TypeOK, InHandler
    <2>2. CASE UNCHANGED <<cache, mixed>>
      <3>1. pc'[v] \in Opens => Local(v) # Absent
        BY <2>1 DEF ReadInv, OpenInCache, Opens
      <3> QED
        BY <2>1, <2>2, <3>1, StayStep DEF Fetches
    <2>3. CASE SetLocal(v, Local(v) \cup {v}) /\ Local(v) # Absent
      <3>1. /\ cache' = [cache EXCEPT ![MountOf[v]][path[v]] = Local(v) \cup {v}]
            /\ ~mixed'[v] /\ \A t \in Sessions \ {v} : mixed'[t] = mixed[t]
        BY <2>1, <2>3, SetLocalAlone
      <3>2. Fetching(MountOf[v], path[v]) = {}
        BY <2>1, NobodyFetches DEF Fetches
      <3>3. \A t \in Sessions \ {v} : buf'[t] = buf[t] /\ pc'[t] = pc[t]
        BY <2>1 DEF TypeOK
      <3> DEFINE f == Local(v) \cup {v}
      <3>4. /\ "made" \in f /\ f # Absent
            /\ "base" \in Remote(v) => "base" \in f
            /\ "base" \in f /\ Transport = "SCP" => "base" \in Remote(v)
        BY <1>0, <2>3, <3>2, LocalBase DEF Absent
      <3> HIDE DEF f
      <3> QED
        BY <2>1, <3>1, <3>3, <3>4, OwnStep DEF f, Fetches, Opens
    <2>4. ChangeOpenFile(v) => Local(v) # Absent
      BY DEF ChangeOpenFile, ReadInv, OpenInCache, Opens
    <2> QED
      BY <1>7, <2>2, <2>3, <2>4 DEF Truncate, ChangeOpenFile
  <1>8. CASE Fsync(v) \/ Close(v) \/ ReleaseReader(v)
    <2>1. UNCHANGED <<remote, cache, path, buf, mixed>>
      BY <1>8 DEF Fsync, Close, ReleaseReader, fileVars
    <2>2. /\ pc' = [pc EXCEPT ![v] = pc'[v]]
          /\ pc[v] \in {"opened", "close"} /\ pc'[v] \in {"put", "close", "done"}
          /\ pc'[v] = "put" => pc[v] = "opened"
      BY <1>8 DEF Fsync, Close, ReleaseReader, TypeOK
    <2>3. pc'[v] \in Opens => Local(v) # Absent
      BY <2>2 DEF ReadInv, OpenInCache, Opens
    <2> QED
      BY <2>1, <2>2, <2>3, StayStep DEF Fetches
  <1>9. CASE FailPut(v)
    BY <1>9 DEF FailPut, Calm, ReadInv, OpenInCache, Opens
  <1> QED
    BY <1>1, <1>2, <1>3, <1>4, <1>5, <1>6, <1>7, <1>8, <1>9 DEF Own

-------------------------------------------------------------------------------
\* The steps of a put.
LEMMA RemoteStep ==
    ASSUME TypeOK, ReadInv, NEW v \in Sessions, NEW f,
           remote' = [remote EXCEPT ![path[v]] = f],
           cache' = cache, path' = path,
           \A t \in Sessions \ {v} : pc'[t] = pc[t] /\ buf'[t] = buf[t],
           \A t \in Sessions : mixed'[t] => t # v /\ (mixed[t] \/ t \in Uploading(path[v])),
           f = Absent \/ "made" \in f,
           f = Absent => Remote(v) = Absent,
           "base" \in f => "base" \in Remote(v),
           Transport = "SCP" /\ "base" \in Remote(v) => "base" \in f,
           pc[v] \notin Fetches, pc'[v] \notin Fetches \cup {"missing"},
           pc'[v] \in Opens => Local(v) # Absent,
           pc'[v] = "putting" =>
                /\ "made" \in buf'[v] /\ (Transport = "SCP" => f # Absent)
                /\ "base" \in buf'[v] <=> Transport = "SCP" /\ "base" \in f
    PROVE  ReadInv'
  <1>1. \A p \in Paths : remote'[p] = IF p = path[v] THEN f ELSE remote[p]
    BY DEF TypeOK
  <1>2. \A s \in Sessions : /\ Local(s)' = Local(s)
                            /\ Remote(s)' = IF path[s] = path[v] THEN f ELSE Remote(s)
                            /\ path[s] = path[v] => Remote(s) = Remote(v)
    BY <1>1 DEF Local, Remote, TypeOK
  <1>3. \A p \in Paths : /\ "base" \in remote'[p] => "base" \in remote[p]
                         /\ Transport = "SCP" => ("base" \in remote'[p] <=> "base" \in remote[p])
    BY <1>1 DEF Remote
  <1>4. FilesMade'
    <2>1. \A p \in Paths : remote'[p] # Absent => "made" \in remote'[p]
      BY <1>1 DEF ReadInv, FilesMade
    <2>2. \A s \in Sessions : pc'[s] \in Fetches \cup {"putting"} => "made" \in buf'[s]
      BY DEF ReadInv, FilesMade
    <2> QED
      BY <2>1, <2>2 DEF ReadInv, FilesMade
  <1>5. Undisturbed'
    BY DEF ReadInv, Undisturbed, Uploading
  <1>6. OpenInCache'
    BY <1>2 DEF ReadInv, OpenInCache, Opens
  <1>7. CachesWhole'
    <2>1. \A m \in Mounts, p \in Paths : Fetching(m, p)' = {} => Fetching(m, p) = {}
      BY DEF Fetching, Fetches
    <2> QED
      BY <1>3, <2>1 DEF ReadInv, CachesWhole
  <1>8. MissingIsMissing'
    BY <1>2 DEF ReadInv, MissingIsMissing
  <1>9. ASSUME NEW s \in Sessions
        PROVE  /\ pc'[s] \in Fetches /\ "base" \in Remote(s)' => "base" \in buf'[s]
               /\ pc'[s] \in Fetches /\ Transport = "SCP" /\ "base" \in buf'[s]
                    => "base" \in Remote(s)'
               /\ pc'[s] = "putting" =>
                    ("base" \in buf'[s] <=> Transport = "SCP" /\ "base" \in Remote(s)')
    <2>1. CASE s = v
      BY <1>2, <2>1
    <2>2. CASE s # v
      <3>1. /\ "base" \in Remote(s)' => "base" \in Remote(s)
            /\ Transport = "SCP" => ("base" \in Remote(s)' <=> "base" \in Remote(s))
        BY <1>2
      <3> QED
        BY <2>2, <3>1 DEF ReadInv, CarryWhole
    <2> QED
      BY <2>1, <2>2
  <1>10. CarryWhole'
    BY <1>9 DEF CarryWhole
  <1> QED
    BY <1>4, <1>5, <1>6, <1>7, <1>8, <1>10 DEF ReadInv

LEMMA PutKeeps ==
    ASSUME Calm, TypeOK, Serial, ReadInv, NEW v \in Sessions,
           StartPut(v) \/ EndPut(v) \/ BreakPut(v)
    PROVE  ReadInv'
  <1> USE DEF Goto
  <1>0. /\ "made" \in Empty /\ "base" \notin Empty /\ Empty # Absent
        /\ "made" \in Empty \cup {"pathname"} /\ "base" \notin Empty \cup {"pathname"}
    BY DEF Empty, Absent
  <1>1. /\ path[v] \in Paths /\ remote \in [Paths -> File] /\ buf \in [Sessions -> File]
        /\ remote = [remote EXCEPT ![path[v]] = Remote(v)]
        /\ Remote(v) = Absent \/ "made" \in Remote(v)
    BY DEF TypeOK, Remote, ReadInv, FilesMade
  <1>2. CASE StartPut(v)
    <2>1. /\ cache' = cache /\ path' = path /\ CanRun(v) /\ pc[v] = "put"
          /\ pc' = [pc EXCEPT ![v] = "putting"]
      BY <1>2 DEF StartPut
    <2>2. pc'[v] = "putting" /\ \A t \in Sessions \ {v} : pc'[t] = pc[t]
      BY <2>1 DEF TypeOK
    <2>3. Local(v) # Absent /\ ~mixed[v]
      BY <2>1 DEF ReadInv, OpenInCache, Undisturbed, Opens
    <2>4. CASE Transport = "SCP"
      <3>1. PICK g \in LocalReads(v) : buf' = [buf EXCEPT ![v] = g]
        BY <1>2, <2>4 DEF StartPut
      <3>2. Fetching(MountOf[v], path[v]) = {}
        BY <2>1, NobodyFetches DEF Fetches
      <3>3. g = Local(v)
        BY <3>2 DEF LocalReads, Observed
      <3>4. "made" \in g /\ ("base" \in g <=> "base" \in Remote(v))
        BY <2>3, <2>4, <3>2, <3>3, LocalBase
      <3>5. buf'[v] = g /\ \A t \in Sessions \ {v} : buf'[t] = buf[t]
        BY <3>1, <1>1
      <3>6. CASE Remote(v) = Absent
        <4>1. SetRemote(v, Empty)
          BY <1>2, <2>4, <3>6 DEF StartPut
        <4>2. "base" \notin Remote(v)
          BY <3>6 DEF Absent
        <4>3. /\ remote' = [remote EXCEPT ![path[v]] = Empty]
              /\ \A t \in Sessions : mixed'[t] => t # v /\ (mixed[t] \/ t \in Uploading(path[v]))
          BY <4>1 DEF SetRemote
        <4> QED
          BY <1>0, <2>1, <2>2, <2>3, <2>4, <3>4, <3>5, <4>2, <4>3, RemoteStep DEF Fetches
      <3>7. CASE Remote(v) # Absent
        <4>1. remote' = remote /\ mixed' = mixed
          BY <1>2, <2>4, <3>7 DEF StartPut
        <4> QED
          BY <1>1, <2>1, <2>2, <2>3, <2>4, <3>4, <3>5, <3>7, <4>1, RemoteStep DEF Fetches
      <3> QED
        BY <3>6, <3>7
    <2>5. CASE Transport # "SCP"
      <3>1. PICK g \in {Empty, Empty \cup {"pathname"}} :
                buf' = [buf EXCEPT ![v] = g] /\ UNCHANGED <<remote, mixed>>
        BY <1>2, <2>5 DEF StartPut
      <3>2. "made" \in g /\ "base" \notin g
        BY <1>0, <3>1
      <3>3. buf'[v] = g /\ \A t \in Sessions \ {v} : buf'[t] = buf[t]
        BY <3>1, <1>1
      <3> QED
        BY <1>1, <2>1, <2>2, <2>3, <2>5, <3>1, <3>2, <3>3, RemoteStep DEF Fetches
    <2> QED
      BY <2>4, <2>5
  <1>3. CASE EndPut(v)
    <2>1. /\ cache' = cache /\ path' = path /\ pc[v] = "putting"
          /\ buf' = [buf EXCEPT ![v] = Absent]
          /\ pc' = [pc EXCEPT ![v] = pc'[v]] /\ pc'[v] \in {"opened", "done", "leaked"}
      BY <1>3 DEF EndPut, PutReturn, TypeOK
    <2>2. \A t \in Sessions \ {v} : pc'[t] = pc[t] /\ buf'[t] = buf[t]
      BY <2>1 DEF TypeOK
    <2>3. PICK f \in Landed(v, Remote(v)) : SetRemote(v, f)
      BY <1>3 DEF EndPut
    <2>4. /\ "made" \in buf[v] /\ Local(v) # Absent
          /\ "base" \in buf[v] <=> Transport = "SCP" /\ "base" \in Remote(v)
          /\ Transport = "SCP" => Remote(v) # Absent
          /\ mixed[v] => Transport = "SCP"
      BY <2>1 DEF ReadInv, FilesMade, CarryWhole, OpenInCache, Undisturbed, Opens
    <2>5. /\ "made" \in f /\ f # Absent
          /\ "base" \in f => "base" \in Remote(v)
          /\ Transport = "SCP" /\ "base" \in Remote(v) => "base" \in f
      BY <1>1, <2>3, <2>4 DEF Landed, Torn, Absent
    <2>6. /\ remote' = [remote EXCEPT ![path[v]] = f]
          /\ \A t \in Sessions : mixed'[t] => t # v /\ (mixed[t] \/ t \in Uploading(path[v]))
      BY <2>3 DEF SetRemote
    <2> QED
      BY <2>1, <2>2, <2>4, <2>5, <2>6, RemoteStep DEF Fetches
  <1>4. CASE BreakPut(v)
    BY <1>4 DEF BreakPut, Calm
  <1> QED
    BY <1>2, <1>3, <1>4

-------------------------------------------------------------------------------
(* All steps *)

LEMMA ReadInit == Init => ReadInv
  BY ConstantsAssumption
  DEF Init, ReadInv, FilesMade, Undisturbed, OpenInCache, CachesWhole, CarryWhole,
      MissingIsMissing, Fetches, Opens, Local, Remote, Absent

LEMMA ReadStep == Calm /\ TypeOK /\ Serial /\ ReadInv /\ [Next]_vars => ReadInv'
  <1> SUFFICES ASSUME Calm, TypeOK, Serial, ReadInv, [Next]_vars PROVE ReadInv'
    OBVIOUS
  <1>1. ASSUME NEW s \in Sessions, Own(s) PROVE ReadInv'
    BY <1>1, OwnKeeps
  <1>2. ASSUME NEW s \in Sessions, StartPut(s) \/ EndPut(s) \/ BreakPut(s) PROVE ReadInv'
    BY <1>2, PutKeeps
  <1>3. ASSUME NEW s \in Sessions, Begin(s) PROVE ReadInv'
    <2>1. /\ remote' = remote /\ cache' = cache /\ buf' = buf /\ mixed' = mixed
          /\ pc[s] = "new" /\ pc'[s] = "access"
          /\ \A t \in Sessions \ {s} : pc'[t] = pc[t] /\ path'[t] = path[t]
      BY <1>3 DEF Begin, Request, Goto, fileVars, TypeOK
    <2>2. \A m \in Mounts, p \in Paths : Fetching(m, p)' = Fetching(m, p)
      BY <2>1 DEF Fetching
    <2> QED
      BY <2>1, <2>2
      DEF ReadInv, FilesMade, Undisturbed, OpenInCache, CachesWhole, CarryWhole,
          MissingIsMissing, Fetches, Opens, Local, Remote
  <1>4. ASSUME NEW m \in Mounts, NEW p \in Paths, Evict(m, p) PROVE ReadInv'
    <2>1. /\ UNCHANGED <<remote, path, pc, buf, mixed>>
          /\ cache' = [cache EXCEPT ![m][p] = Absent]
          /\ \A s \in Sessions :
                MountOf[s] = m /\ path[s] = p => pc[s] \notin Fetches \cup Opens
      BY <1>4 DEF Evict, sessionVars, Fetches, Opens
    <2>2. \A n \in Mounts, q \in Paths :
            cache'[n][q] = IF n = m /\ q = p THEN Absent ELSE cache[n][q]
      BY <2>1 DEF TypeOK
    <2>3. \A n \in Mounts, q \in Paths : Fetching(n, q)' = Fetching(n, q)
      BY <2>1 DEF Fetching
    <2>4. \A s \in Sessions :
            Remote(s)' = Remote(s) /\ (pc[s] \in Opens => Local(s)' = Local(s))
      BY <2>1, <2>2, ConstantsAssumption DEF Local, Remote, TypeOK
    <2>5. FilesMade' /\ CachesWhole'
      BY <2>1, <2>2, <2>3 DEF ReadInv, FilesMade, CachesWhole, Absent
    <2>6. OpenInCache'
      BY <2>1, <2>4 DEF ReadInv, OpenInCache, Opens
    <2> QED
      BY <2>1, <2>4, <2>5, <2>6 DEF ReadInv, Undisturbed, CarryWhole, MissingIsMissing
  <1>5. ASSUME NEW m \in Mounts, Remount(m) PROVE ReadInv'
    <2>1. /\ remote' = remote /\ path' = path
          /\ \A n \in Mounts, q \in Paths : cache'[n][q] = IF n = m THEN Absent ELSE cache[n][q]
          /\ \A s \in Sessions : MountOf[s] = m => pc'[s] \in {"new", "done"} /\ ~mixed'[s]
          /\ \A s \in Sessions : MountOf[s] # m =>
                pc'[s] = pc[s] /\ buf'[s] = buf[s] /\ mixed'[s] = mixed[s]
      BY <1>5 DEF Remount, TypeOK, ReadInv, Undisturbed
    <2>2. \A n \in Mounts \ {m}, q \in Paths : Fetching(n, q)' = Fetching(n, q)
      BY <2>1 DEF Fetching
    <2>3. \A s \in Sessions :
            Remote(s)' = Remote(s) /\ (MountOf[s] # m => Local(s)' = Local(s))
      BY <2>1, ConstantsAssumption DEF Local, Remote, TypeOK
    <2>4. FilesMade'
      BY <2>1 DEF ReadInv, FilesMade, Fetches
    <2>5. CachesWhole'
      BY <2>1, <2>2 DEF ReadInv, CachesWhole, Absent
    <2>6. OpenInCache' /\ Undisturbed'
      BY <2>1, <2>3 DEF ReadInv, OpenInCache, Undisturbed, Opens
    <2>7. CarryWhole' /\ MissingIsMissing'
      BY <2>1, <2>3 DEF ReadInv, CarryWhole, MissingIsMissing, Fetches
    <2> QED
      BY <2>4, <2>5, <2>6, <2>7 DEF ReadInv
  <1>6. CASE UNCHANGED vars
    <2>1. \A m \in Mounts, p \in Paths : Fetching(m, p)' = Fetching(m, p)
      BY <1>6 DEF Fetching, vars, sessionVars
    <2> QED
      BY <1>6, <2>1
      DEF vars, fileVars, sessionVars, ReadInv, FilesMade, Undisturbed, OpenInCache,
          CachesWhole, CarryWhole, MissingIsMissing, Local, Remote
  <1> QED
    BY <1>1, <1>2, <1>3, <1>4, <1>5, <1>6, Steps DEF Own, Quiet

\* With -s a nofs_read that libfuse may run finds the whole content the remote
\* has had from the start, over scp and over HTTP, whoever else writes, as
\* long as transfers run to their end.
THEOREM ReadersSeeWholeFiles == Calm => (Spec => []WholeRead)
  <1> SUFFICES ASSUME Calm PROVE Spec => []WholeRead
    OBVIOUS
  <1>1. Init => TypeOK /\ Serial /\ ReadInv
    BY TypeInit, ReadInit DEF Init, Serial, InHandler
  <1>2. TypeOK /\ Serial /\ ReadInv /\ [Next]_vars => (TypeOK /\ Serial /\ ReadInv)'
    BY TypeStep, SerialStep, ReadStep
  <1>3. TypeOK /\ Serial /\ ReadInv => WholeRead
    <2> SUFFICES ASSUME TypeOK, Serial, ReadInv, NEW s \in Sessions,
                        pc[s] = "opened", CanRun(s), "base" \in Remote(s),
                        NEW f \in LocalReads(s)
                 PROVE  "base" \in f
      BY DEF WholeRead
    <2>1. Local(s) # Absent
      BY DEF ReadInv, OpenInCache, Opens
    <2>2. Fetching(MountOf[s], path[s]) = {}
      BY NobodyFetches DEF Fetches
    <2> QED
      BY <2>1, <2>2, LocalBase DEF LocalReads, Observed
  <1> QED
    BY <1>1, <1>2, <1>3, PTL DEF Spec

===============================================================================
