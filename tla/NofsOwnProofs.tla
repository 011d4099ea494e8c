---------------------------- MODULE NofsOwnProofs -----------------------------
(***************************************************************************)
(* What a mount shows of its own updates: the proofs of OwnUpdatesVisible  *)
(* and OpenFilesNeverGoBack for disciplined applications over scp with -s, *)
(* as long as transfers run to their end.                                  *)
(***************************************************************************)
EXTENDS NofsReadProofs, NofsCreateProofs

\* A file that is open is in the cache, so nobody's lookup copies it.
NoFetchUnderOpen ==
    \A s, t \in Sessions :
        pc[s] \in Opens /\ SameCopy(s, t) => pc[t] \notin {"get", "got"}

\* All the updates on the remote have been reported, for every put has ended.
RemoteReported == \A p \in Paths : remote[p] \cap Sessions \subseteq acked[p]

FetchesFound == \A s \in Sessions : pc[s] \in Fetches => Remote(s) # Absent

\* What another mount has written has come through the remote ...
NothingForeign ==
    \A m \in Mounts, p \in Paths, u \in Sessions :
        remote[p] = Absent /\ u \in cache[m][p] => MountOf[u] = m

\* ... and to a writer only what had been reported.
Foreign(s, u) ==
    /\ pc[s] \in {"forced", "putting"} /\ u \in buf[s] => u \in acked[path[s]]
    /\ pc[s] \in {"fd"} \cup Opens /\ u \in Local(s) => u \in acked[path[s]]
ForeignReported ==
    \A s, u \in Sessions : Writer(s) /\ MountOf[u] # MountOf[s] => Foreign(s, u)

\* A copy that is not being made, or that is open, has its mount's own updates ...
Shown(m, p) ==
    \/ Fetching(m, p) = {}
    \/ \E s \in Sessions : MountOf[s] = m /\ path[s] = p /\ pc[s] \in Opens
OwnThere ==
    \A p \in Paths, t \in Sessions :
        t \in acked[p] /\ cache[MountOf[t]][p] # Absent /\ Shown(MountOf[t], p)
            => t \in cache[MountOf[t]][p]

\* ... and a copy that is being made carries them.
FetchesCarryOwn ==
    \A s, t \in Sessions :
        pc[s] \in Fetches /\ MountOf[t] = MountOf[s] /\ t \in acked[path[s]] => t \in buf[s]

\* The invariants proved before, and what they rest on.
Known ==
    /\ Disciplined /\ Calm
    /\ IInv /\ ReadInv /\ MknodsCreate /\ MissingIsNowhere /\ ForcedCopiesArrived

OwnInv ==
    /\ NoFetchUnderOpen /\ RemoteReported /\ FetchesFound /\ NothingForeign
    /\ ForeignReported /\ OwnThere /\ FetchesCarryOwn

-------------------------------------------------------------------------------
(* Single sessions *)

LEMMA StaleStep == Calm /\ TypeOK /\ ForcedCopiesArrived /\ [Next]_vars => ForcedCopiesArrived'
  <1> SUFFICES ASSUME Calm, TypeOK, ForcedCopiesArrived, [Next]_vars, NEW s \in Sessions
               PROVE  ~stale'[s]
    BY DEF ForcedCopiesArrived
  <1> USE DEF vars, fileVars, sessionVars, auxVars
  <1>0. ~stale[s]
    BY DEF ForcedCopiesArrived
  <1>1. ASSUME NEW v \in Sessions, FailFetch(v) \/ EndFetch(v) \/ BreakFetch(v) PROVE ~stale'[s]
    BY <1>0, <1>1 DEF FailFetch, EndFetch, BreakFetch, FetchReturn, Calm, TypeOK
  <1>2. ASSUME NEW v \in Sessions, Quiet(v), ~FailFetch(v) PROVE ~stale'[s]
    BY <1>0, <1>2 DEF Quiet, Begin, EnsureLocalFile, Getattr, MknodFails, Xattr, Open, OpenFd, Fsync,
                      Close, ReleaseReader, FailPut
  <1>3. ASSUME NEW v \in Sessions,
               StartFetch(v) \/ Mknod(v) \/ Truncate(v) \/ ChangeOpenFile(v)
               \/ StartPut(v) \/ EndPut(v) \/ BreakPut(v)
        PROVE  ~stale'[s]
    BY <1>0, <1>3 DEF StartFetch, Mknod, Truncate, ChangeOpenFile, StartPut, EndPut, BreakPut
  <1>4. ASSUME NEW m \in Mounts, NEW p \in Paths, Evict(m, p) \/ Remount(m) PROVE ~stale'[s]
    BY <1>0, <1>4 DEF Evict, Remount
  <1>5. CASE UNCHANGED vars
    BY <1>0, <1>5
  <1> QED
    BY <1>1, <1>2, <1>3, <1>4, <1>5, Steps, ConstantsAssumption

\* Where a step can take a session, and what stays as it is.
LEMMA SessionStep ==
    ASSUME TypeOK, Transport = "SCP", [Next]_vars, NEW s \in Sessions
    PROVE  /\ pc[s] = "new" => pc'[s] \in {"new", "access"}
           /\ pc[s] # "new" => path'[s] = path[s] /\ kind'[s] = kind[s]
           /\ pc'[s] \in Opens => pc[s] \in Opens \/ OpenFd(s)
           /\ pc'[s] \in {"get", "got"} => pc[s] \in {"get", "got"} \/ EnsureLocalFile(s)
           /\ pc'[s] \in Fetches => (pc[s] = pc'[s] /\ buf'[s] = buf[s]) \/ StartFetch(s)
  <1> USE DEF vars, fileVars, sessionVars, auxVars, Opens, Fetches
  <1>1. ASSUME NEW v \in Sessions \ {s}, Quiet(v)
        PROVE  UNCHANGED <<pc[s], path[s], kind[s], buf[s]>>
    BY <1>1, QuietStep
  <1>2. ASSUME NEW v \in Sessions \ {s},
               CacheWriter(v) \/ StartPut(v) \/ EndPut(v) \/ BreakPut(v)
        PROVE  UNCHANGED <<pc[s], path[s], kind[s], buf[s]>>
    BY <1>2 DEF CacheWriter, StartFetch, EndFetch, BreakFetch, FetchReturn, Mknod, Truncate,
                ChangeOpenFile, StartPut, EndPut, BreakPut, PutReturn, Request, End, Goto, TypeOK
  <1>3. CASE Begin(s) \/ EnsureLocalFile(s) \/ FailFetch(s) \/ Getattr(s)
    BY <1>3 DEF Begin, EnsureLocalFile, FailFetch, FetchReturn, Getattr, Request, End, Goto, TypeOK
  <1>4. CASE MknodFails(s) \/ Xattr(s) \/ Open(s) \/ OpenFd(s)
    BY <1>4 DEF MknodFails, Xattr, Open, OpenFd, Request, End, Goto, TypeOK
  <1>5. CASE Fsync(s) \/ Close(s) \/ ReleaseReader(s) \/ FailPut(s)
    BY <1>5 DEF Fsync, Close, ReleaseReader, FailPut, PutReturn, Request, End, Goto, TypeOK
  <1>6. CASE CacheWriter(s)
    BY <1>6 DEF CacheWriter, StartFetch, EndFetch, BreakFetch, FetchReturn, Mknod, Truncate,
                ChangeOpenFile, Request, End, Goto, TypeOK
  <1>7. CASE StartPut(s) \/ EndPut(s) \/ BreakPut(s)
    BY <1>7 DEF StartPut, EndPut, BreakPut, PutReturn, Goto, TypeOK
  <1>8. ASSUME NEW m \in Mounts, NEW p \in Paths, Evict(m, p) \/ Remount(m)
        PROVE  /\ path' = path /\ kind' = kind
               /\ (pc'[s] = pc[s] /\ buf'[s] = buf[s]) \/ (pc[s] # "new" /\ pc'[s] = "done")
    BY <1>8 DEF Evict, Remount, TypeOK
  <1> QED
    BY <1>1, <1>2, <1>3, <1>4, <1>5, <1>6, <1>7, <1>8, Steps, ConstantsAssumption
    DEF Quiet, CacheWriter

LEMMA NoFetchUnderOpenStep == Known /\ NoFetchUnderOpen /\ [Next]_vars => NoFetchUnderOpen'
  <1> SUFFICES ASSUME Known, NoFetchUnderOpen, [Next]_vars,
                      NEW s \in Sessions, NEW t \in Sessions,
                      pc'[s] \in Opens, SameCopy(s, t)', pc'[t] \in {"get", "got"}
               PROVE  FALSE
    BY DEF NoFetchUnderOpen
  <1>0. Transport = "SCP" /\ TypeOK /\ Serial /\ ~Threaded /\ s # t
    BY DEF Known, Disciplined, Calm, IInv, Opens
  <1>1. SameCopy(s, t) /\ pc[s] # "new"
    BY <1>0, SessionStep DEF SameCopy, Opens
  <1>2. CASE OpenFd(s)
    <2>1. pc[t] \in {"get", "got"}
      BY <1>0, <1>2 DEF OpenFd, Goto, TypeOK
    <2> QED
      BY <1>0, <1>1, <1>2, <2>1 DEF Serial, InHandler, OpenFd, SameCopy
  <1>3. CASE pc[s] \in Opens
    <2>1. EnsureLocalFile(t)
      BY <1>0, <1>1, <1>3, SessionStep DEF NoFetchUnderOpen
    <2>2. Local(t) = Absent
      BY <1>0, <2>1 DEF EnsureLocalFile, Goto, TypeOK
    <2> QED
      BY <1>1, <1>3, <2>2 DEF Known, ReadInv, OpenInCache, SameCopy, Local
  <1> QED
    BY <1>0, <1>2, <1>3, SessionStep


-------------------------------------------------------------------------------
(* Cache files and reports *)

\* What a step that may write a cache file leaves in it.
Leaves(v, f) ==
    \/ ~EndFetch(v) /\ f = Local(v)
    \/ StartFetch(v) /\ Local(v) = Absent /\ f = Empty
    \/ EndFetch(v) /\ f = buf[v]
    \/ Mknod(v) /\ Remote(v) = Absent /\ f = Empty
    \/ (Truncate(v) \/ ChangeOpenFile(v)) /\ Local(v) # Absent /\ f = Local(v) \cup {v}

LEMMA CacheChange ==
    ASSUME Known, NEW v \in Sessions, CacheWriter(v)
    PROVE  /\ UNCHANGED <<remote, acked, path, kind>>
           /\ \E f : /\ Leaves(v, f)
                    /\ \A m \in Mounts, p \in Paths :
                        cache'[m][p] = IF m = MountOf[v] /\ p = path[v] THEN f ELSE cache[m][p]
  <1> USE DEF fileVars, sessionVars, auxVars
  <1>0. /\ Transport = "SCP" /\ TypeOK /\ MountOf[v] \in Mounts /\ path[v] \in Paths
        /\ ~BreakFetch(v)
    BY ConstantsAssumption DEF Known, Disciplined, Calm, IInv, TypeOK, BreakFetch
  <1>1. UNCHANGED <<remote, acked, path, kind>>
    BY DEF CacheWriter, StartFetch, EndFetch, BreakFetch, Mknod, Truncate, ChangeOpenFile
  <1>2. \A f : SetLocal(v, f) =>
            \A m \in Mounts, p \in Paths :
                cache'[m][p] = IF m = MountOf[v] /\ p = path[v] THEN f ELSE cache[m][p]
    BY <1>0 DEF SetLocal, TypeOK
  <1>3. cache' = cache =>
            \A m \in Mounts, p \in Paths :
                cache'[m][p] = IF m = MountOf[v] /\ p = path[v] THEN Local(v) ELSE cache[m][p]
    BY DEF Local
  <1>4. (cache' = cache /\ ~EndFetch(v)) \/ \E f : Leaves(v, f) /\ SetLocal(v, f)
    <2>1. CASE StartFetch(v)
      BY <1>0, <2>1 DEF StartFetch, EndFetch, OpenDestination, Leaves
    <2>2. CASE EndFetch(v)
      <3>1. ~mixed[v]
        BY <2>2 DEF EndFetch, Known, ReadInv, Undisturbed
      <3> QED
        BY <2>2, <3>1 DEF EndFetch, Landed, Leaves
    <2>3. CASE Mknod(v)
      <3>1. kind[v] = "create"
        BY <2>3 DEF Mknod, Known, MknodsCreate, Live, Ended
      <3>2. Remote(v) = Absent
        BY <2>3, <3>1 DEF Mknod, Known, MissingIsNowhere, Writer, Writing
      <3> QED
        BY <2>3, <3>2 DEF Mknod, Leaves
    <2>4. CASE Truncate(v)
      BY <2>4 DEF Truncate, EndFetch, Leaves
    <2>5. CASE ChangeOpenFile(v)
      BY <2>5 DEF ChangeOpenFile, Leaves, Known, ReadInv, OpenInCache, Opens
    <2> QED
      BY <1>0, <2>1, <2>2, <2>3, <2>4, <2>5 DEF CacheWriter
  <1>5. ~EndFetch(v) => Leaves(v, Local(v))
    BY DEF Leaves
  <1> QED
    BY <1>1, <1>2, <1>3, <1>4, <1>5

\* What a put newly reports is in its mount's cache, and no other mount's.
LEMMA NewlyReported ==
    ASSUME Known, ForeignReported, NEW v \in Sessions, EndPut(v),
           NEW p \in Paths, NEW t \in Sessions, t \in acked'[p], t \notin acked[p]
    PROVE  p = path[v] /\ t \in Local(v) /\ MountOf[t] = MountOf[v]
  <1>0. Transport = "SCP" /\ TypeOK /\ pc[v] = "putting" /\ Writer(v) /\ ~stale[v]
    BY DEF Known, Disciplined, IInv, EndPut, Roles, ForcedCopiesArrived
  <1>1. acked' = [acked EXCEPT ![path[v]] = @ \cup buf[v] \cup (IF wrote[v] THEN {v} ELSE {})]
    BY <1>0 DEF EndPut
  <1>2. buf[v] \subseteq Local(v) /\ (wrote[v] => v \in buf[v])
    BY <1>0 DEF Known, IInv, CarriesRemote, Carries, CarriesOwn
  <1>3. p = path[v] /\ t \in buf[v]
    BY <1>0, <1>1, <1>2 DEF TypeOK
  <1> QED
    BY <1>0, <1>2, <1>3 DEF ForeignReported, Foreign

\* Only a put changes the remote or what is reported.
LEMMA OnlyPuts ==
    ASSUME Known, [Next]_vars,
           ~\E s \in Sessions : StartPut(s) \/ EndPut(s)
    PROVE  UNCHANGED <<remote, acked>>
  <1> USE DEF vars, fileVars, sessionVars, auxVars
  <1>0. Transport = "SCP" /\ TypeOK /\ "partial" \notin Faults
    BY DEF Known, Disciplined, Calm, IInv
  <1>1. ASSUME NEW v \in Sessions, Quiet(v) PROVE UNCHANGED <<remote, acked>>
    BY <1>0, <1>1, QuietStep
  <1>2. ASSUME NEW v \in Sessions, CacheWriter(v) PROVE UNCHANGED <<remote, acked>>
    BY <1>2, CacheChange
  <1>3. ASSUME NEW m \in Mounts, NEW p \in Paths, Evict(m, p) \/ Remount(m)
        PROVE  UNCHANGED <<remote, acked>>
    BY <1>3 DEF Evict, Remount
  <1> QED
    BY <1>0, <1>1, <1>2, <1>3, Steps, ConstantsAssumption DEF CacheWriter, BreakPut

-------------------------------------------------------------------------------
(* The remote *)

LEMMA RemoteReportedStep == Known /\ RemoteReported /\ [Next]_vars => RemoteReported'
  <1> SUFFICES ASSUME Known, RemoteReported, [Next]_vars, NEW p \in Paths
               PROVE  remote'[p] \cap Sessions \subseteq acked'[p]
    BY DEF RemoteReported
  <1>0. Transport = "SCP" /\ TypeOK
    BY DEF Known, Disciplined, IInv
  <1>1. ASSUME NEW v \in Sessions, StartPut(v)
        PROVE  remote'[p] \cap Sessions \subseteq acked'[p]
    <2>1. acked' = acked /\ (remote' = remote \/ remote' = [remote EXCEPT ![path[v]] = Empty])
      BY <1>0, <1>1 DEF StartPut, SetRemote, auxVars
    <2>2. Empty \cap Sessions = {}
      BY ConstantsAssumption DEF Empty
    <2> QED
      BY <1>0, <2>1, <2>2 DEF RemoteReported, TypeOK
  <1>2. ASSUME NEW v \in Sessions, EndPut(v)
        PROVE  remote'[p] \cap Sessions \subseteq acked'[p]
    <2>1. remote' = [remote EXCEPT ![path[v]] = buf[v]]
      BY <1>2 DEF EndPut, Landed, Known, IInv, Unmixed, SetRemote
    <2>2. acked' = [acked EXCEPT ![path[v]] = @ \cup buf[v] \cup (IF wrote[v] THEN {v} ELSE {})]
      BY <1>0, <1>2 DEF EndPut
    <2> QED
      BY <1>0, <2>1, <2>2 DEF RemoteReported, TypeOK
  <1>3. CASE ~\E v \in Sessions : StartPut(v) \/ EndPut(v)
    BY <1>3, OnlyPuts DEF RemoteReported
  <1> QED
    BY <1>1, <1>2, <1>3

\* A file on the remote stays there.
LEMMA RemoteStays ==
    ASSUME Known, [Next]_vars, NEW p \in Paths, remote'[p] = Absent
    PROVE  remote[p] = Absent
  BY RemoteGrows DEF Known, Absent

LEMMA FetchesFoundStep == Known /\ FetchesFound /\ [Next]_vars => FetchesFound'
  <1> SUFFICES ASSUME Known, FetchesFound, [Next]_vars, NEW s \in Sessions, pc'[s] \in Fetches
               PROVE  Remote(s)' # Absent
    BY DEF FetchesFound
  <1>0. Transport = "SCP" /\ TypeOK /\ path[s] \in Paths
    BY DEF Known, Disciplined, IInv, TypeOK
  <1>1. pc[s] # "new" /\ Remote(s) # Absent
    BY <1>0, SessionStep DEF FetchesFound, StartFetch, Fetches
  <1>2. path'[s] = path[s]
    BY <1>0, <1>1, SessionStep
  <1> QED
    BY <1>0, <1>1, <1>2, RemoteStays DEF Remote

LEMMA NothingForeignStep == Known /\ FetchesFound /\ NothingForeign /\ [Next]_vars => NothingForeign'
  <1> SUFFICES ASSUME Known, FetchesFound, NothingForeign, [Next]_vars,
                      NEW m \in Mounts, NEW p \in Paths, NEW u \in Sessions,
                      remote'[p] = Absent, u \in cache'[m][p], u \notin cache[m][p]
               PROVE  MountOf[u] = m
    BY RemoteStays DEF NothingForeign
  <1>0. Transport = "SCP" /\ TypeOK /\ remote[p] = Absent
    BY RemoteStays DEF Known, Disciplined, IInv
  <1>1. ASSUME NEW v \in Sessions, CacheWriter(v) PROVE MountOf[u] = m
    <2>1. PICK f : /\ Leaves(v, f)
                   /\ \A n \in Mounts, q \in Paths :
                        cache'[n][q] = IF n = MountOf[v] /\ q = path[v] THEN f ELSE cache[n][q]
      BY <1>1, CacheChange
    <2>2. m = MountOf[v] /\ p = path[v] /\ u \in f /\ u \notin Local(v) /\ Remote(v) = Absent
      BY <1>0, <2>1 DEF Local, Remote
    <2>3. u \notin Empty /\ ~EndFetch(v)
      BY <2>2, ConstantsAssumption DEF Empty, EndFetch, FetchesFound, Fetches
    <2> QED
      BY <2>1, <2>2, <2>3 DEF Leaves
  <1>2. ASSUME NEW v \in Sessions, Quiet(v) PROVE cache' = cache
    BY <1>0, <1>2, QuietStep
  <1>3. ASSUME NEW v \in Sessions, StartPut(v) \/ EndPut(v) \/ BreakPut(v) PROVE cache' = cache
    BY <1>3 DEF StartPut, EndPut, BreakPut
  <1>4. ASSUME NEW n \in Mounts, NEW q \in Paths, Evict(n, q) \/ Remount(n)
        PROVE  u \notin cache'[m][p]
    BY <1>0, <1>4 DEF Evict, Remount, TypeOK, Absent
  <1> QED
    BY <1>1, <1>2, <1>3, <1>4, Steps, ConstantsAssumption
    DEF CacheWriter, vars, fileVars

\* Reports are never taken back.
LEMMA ReportsStay ==
    ASSUME Known, [Next]_vars, NEW p \in Paths
    PROVE  acked[p] \subseteq acked'[p]
  <1>0. Transport = "SCP" /\ TypeOK
    BY DEF Known, Disciplined, IInv
  <1>1. ASSUME NEW v \in Sessions, StartPut(v) PROVE acked' = acked
    BY <1>1 DEF StartPut, auxVars
  <1>2. ASSUME NEW v \in Sessions, EndPut(v) PROVE acked[p] \subseteq acked'[p]
    BY <1>0, <1>2 DEF EndPut, TypeOK
  <1> QED
    BY <1>1, <1>2, OnlyPuts

-------------------------------------------------------------------------------
(* The copies of writers *)

\* A writer's own steps.
LEMMA ForeignOwn ==
    ASSUME Known, RemoteReported, NothingForeign, ForeignReported, [Next]_vars,
           NEW s \in Sessions, NEW u \in Sessions, Writer(s)', MountOf[u] # MountOf[s],
           \/ Quiet(s) \/ CacheWriter(s) \/ StartPut(s) \/ EndPut(s)
    PROVE  Foreign(s, u)'
  <1> USE DEF fileVars, sessionVars, auxVars, Opens
  <1>0. /\ Transport = "SCP" /\ TypeOK /\ MountOf[s] \in Mounts /\ path[s] \in Paths
        /\ acked[path[s]] \subseteq acked'[path[s]]
    BY ReportsStay, ConstantsAssumption DEF Known, Disciplined, IInv, TypeOK
  <1>1. CASE Begin(s)
    BY <1>0, <1>1 DEF Begin, Request, Goto, TypeOK, Foreign
  <1>2. ASSUME ~Begin(s) PROVE kind' = kind /\ path' = path /\ Writer(s) /\ Foreign(s, u)
    <2>1. kind' = kind /\ path' = path
      BY <1>0, <1>2 DEF Quiet, EnsureLocalFile, FailFetch, Getattr, MknodFails, Xattr, Open,
        OpenFd, Fsync, Close, ReleaseReader, FailPut, CacheWriter, StartFetch, EndFetch, BreakFetch,
        Mknod, Truncate, ChangeOpenFile, StartPut, EndPut
    <2> QED
      BY <2>1 DEF Writer, ForeignReported
  <1>3. CASE EnsureLocalFile(s) \/ Getattr(s) \/ MknodFails(s) \/ Xattr(s) \/ ReleaseReader(s)
    BY <1>0, <1>3 DEF EnsureLocalFile, Getattr, MknodFails, Xattr, ReleaseReader,
                      Request, End, Goto, TypeOK, Foreign
  <1>4. CASE Open(s)
    <2>1. Writer(s)
      BY <1>4 DEF Open, Writer
    <2> QED
      BY <1>0, <1>4, <2>1 DEF Open, Writer, Goto, TypeOK, Foreign
  <1>5. CASE FailFetch(s)
    <2>1. Remote(s) = Absent /\ Local(s)' = Local(s) /\ pc'[s] \in {"missing", "fd"}
      BY <1>0, <1>5 DEF FailFetch, FailedDestination, FetchReturn, Goto, TypeOK, Known, Calm, Local
    <2>2. u \notin Local(s)
      BY <1>0, <2>1 DEF NothingForeign, Local, Remote
    <2> QED
      BY <2>1, <2>2 DEF Foreign
  <1>6. CASE OpenFd(s) \/ Fsync(s) \/ Close(s)
    <2>1. /\ cache' = cache /\ path' = path /\ pc[s] \in {"fd"} \cup Opens
          /\ pc'[s] \in {"opened", "put", "close", "done"}
      BY <1>0, <1>6 DEF OpenFd, Fsync, Close, Goto, TypeOK
    <2>2. u \in Local(s) => u \in acked[path[s]]
      BY <1>2, <1>6, <2>1 DEF Foreign, OpenFd, Fsync, Close, Begin
    <2> QED
      BY <1>0, <2>1, <2>2 DEF Foreign, Local
  <1>7. CASE StartFetch(s)
    <2>1. CASE pc[s] = "get"
      BY <1>0, <1>7, <2>1 DEF StartFetch, Goto, TypeOK, Foreign
    <2>2. CASE pc[s] = "force"
      <3>1. Writer(s)
        BY <2>2 DEF Known, IInv, Roles
      <3>2. pc'[s] = "forced" /\ path' = path /\ buf'[s] = Remote(s)
        BY <1>0, <1>7, <2>2, <3>1, WriterReads DEF StartFetch, Goto, TypeOK, Known, IInv
      <3> QED
        BY <1>0, <3>2 DEF RemoteReported, Remote, Foreign
    <2> QED
      BY <1>7, <2>1, <2>2 DEF StartFetch
  <1>8. CASE EndFetch(s)
    <2>1. /\ (pc[s] = "got" /\ pc'[s] = "found") \/ (pc[s] = "forced" /\ pc'[s] = "fd")
          /\ path' = path
      BY <1>0, <1>8 DEF EndFetch, FetchReturn, Goto, TypeOK
    <2>2. pc[s] = "forced" => Local(s)' = buf[s]
      BY <1>0, <1>8, <2>1 DEF EndFetch, Landed, Known, IInv, Unmixed, SetLocal, Local, TypeOK
    <2>3. pc[s] = "forced" /\ u \in buf[s] => u \in acked[path[s]]
      BY <1>2, <1>8 DEF Foreign, Begin, EndFetch
    <2> QED
      BY <1>0, <2>1, <2>2, <2>3 DEF Foreign
  <1>9. CASE Mknod(s) \/ Truncate(s)
    BY <1>0, <1>9 DEF Mknod, Truncate, Request, End, Goto, TypeOK, Foreign
  <1>10. CASE ChangeOpenFile(s)
    <2>1. /\ pc[s] = "opened" /\ pc'[s] = "opened" /\ path' = path
          /\ Local(s)' = Local(s) \cup {s}
      BY <1>0, <1>10 DEF ChangeOpenFile, SetLocal, Local, TypeOK
    <2>2. u \in Local(s) => u \in acked[path[s]]
      BY <1>2, <1>10, <2>1 DEF Foreign, Begin
    <2> QED
      BY <1>0, <2>1, <2>2 DEF Foreign
  <1>11. CASE StartPut(s)
    <2>1. pc[s] = "put" /\ pc'[s] = "putting" /\ path' = path /\ Local(s)' = Local(s)
      BY <1>0, <1>11 DEF StartPut, Goto, TypeOK, Local
    <2>2. buf'[s] = Local(s)
      BY <1>0, <1>2, <1>11, <2>1, WriterReads DEF StartPut, TypeOK, Known, IInv, Begin
    <2>3. u \in Local(s) => u \in acked[path[s]]
      BY <1>2, <2>1 DEF Foreign, Begin
    <2> QED
      BY <1>0, <2>1, <2>2, <2>3 DEF Foreign
  <1>12. CASE EndPut(s)
    <2>1. /\ pc[s] = "putting" /\ pc'[s] \in {"opened", "done", "leaked"} /\ path' = path
          /\ Local(s)' = Local(s)
      BY <1>0, <1>12 DEF EndPut, PutReturn, Goto, TypeOK, Local
    <2>2. u \in Local(s) => u \in acked[path[s]]
      BY <1>2, <2>1 DEF Foreign, Begin
    <2> QED
      BY <1>0, <2>1, <2>2 DEF Foreign
  <1>13. ~BreakFetch(s) /\ ~FailPut(s)
    BY DEF BreakFetch, FailPut, Known, Calm, ReadInv, OpenInCache
  <1> QED
    BY <1>1, <1>3, <1>4, <1>5, <1>6, <1>7, <1>8, <1>9, <1>10, <1>11, <1>12, <1>13
    DEF Quiet, CacheWriter

LEMMA ForeignReportedStep ==
    /\ Known /\ RemoteReported /\ NothingForeign /\ ForeignReported /\ [Next]_vars
    => ForeignReported'
  <1> SUFFICES ASSUME Known, RemoteReported, NothingForeign, ForeignReported, [Next]_vars,
                      NEW s \in Sessions, NEW u \in Sessions,
                      Writer(s)', MountOf[u] # MountOf[s],
                      pc'[s] \in {"forced", "putting", "fd"} \cup Opens
               PROVE  Foreign(s, u)'
    BY DEF ForeignReported, Foreign
  <1>0. /\ Transport = "SCP" /\ TypeOK /\ MountOf[s] \in Mounts /\ path[s] \in Paths
        /\ acked[path[s]] \subseteq acked'[path[s]]
        /\ "partial" \notin Faults
    BY ReportsStay, ConstantsAssumption DEF Known, Disciplined, Calm, IInv, TypeOK
  <1>1. CASE Quiet(s) \/ CacheWriter(s) \/ StartPut(s) \/ EndPut(s)
    BY <1>1, ForeignOwn
  <1>2. ASSUME pc'[s] = pc[s], UNCHANGED <<path[s], kind[s], buf[s]>>,
               u \in Local(s)' => u \in Local(s)
        PROVE  Foreign(s, u)'
    <2>1. Foreign(s, u)
      BY <1>2 DEF ForeignReported, Writer
    <2> QED
      BY <1>0, <1>2, <2>1 DEF Foreign
  <1>3. ASSUME NEW v \in Sessions \ {s}, Quiet(v) PROVE Foreign(s, u)'
    BY <1>0, <1>2, <1>3, QuietStep DEF Local
  <1>4. ASSUME NEW v \in Sessions \ {s}, CacheWriter(v) PROVE Foreign(s, u)'
    <2>1. pc'[s] = pc[s] /\ path' = path /\ kind' = kind
      BY <1>0, <1>4 DEF CacheWriter, StartFetch, EndFetch, BreakFetch, FetchReturn, Mknod, Truncate,
                        ChangeOpenFile, Request, End, Goto, TypeOK
    <2>2. HasForced(s)
      BY <2>1 DEF HasForced, Writer, Opens
    <2>3. buf'[s] = buf[s] /\ (Local(s)' = Local(s) \/ Truncate(v))
      BY <1>4, <2>2, OthersKeepCopy DEF Known, IInv
    <2>4. Truncate(v) /\ u \in Local(s)' => u \in Local(s)
      <3>1. Truncate(v) => SetLocal(v, Local(v) \cup {v}) \/ cache' = cache
        BY DEF Truncate
      <3>2. CASE cache' = cache
        BY <2>1, <3>2 DEF Local
      <3>3. CASE cache' = [cache EXCEPT ![MountOf[v]][path[v]] = Local(v) \cup {v}]
        <4>1. path[v] \in Paths /\ MountOf[v] \in Mounts
          BY ConstantsAssumption, <1>0 DEF TypeOK
        <4>2. CASE MountOf[v] = MountOf[s] /\ path[v] = path[s]
          <5>1. Local(s)' = Local(s) \cup {v} /\ u # v
            BY <1>0, <2>1, <3>3, <4>1, <4>2 DEF Local, TypeOK
          <5> QED
            BY <5>1
        <4>3. CASE ~(MountOf[v] = MountOf[s] /\ path[v] = path[s])
          <5>1. Local(s)' = Local(s)
            BY <1>0, <2>1, <3>3, <4>1, <4>3 DEF Local, TypeOK
          <5> QED
            BY <5>1
        <4> QED
          BY <4>2, <4>3
      <3> QED
        BY <3>1, <3>2, <3>3 DEF SetLocal
    <2> QED
      BY <1>2, <2>1, <2>3, <2>4
  <1>5. ASSUME NEW v \in Sessions \ {s}, StartPut(v) \/ EndPut(v) PROVE Foreign(s, u)'
    <2>1. pc'[s] = pc[s] /\ path' = path /\ kind' = kind
      BY <1>0, <1>5 DEF StartPut, EndPut, PutReturn, Goto, TypeOK
    <2>2. HasForced(s)
      BY <2>1 DEF HasForced, Writer, Opens
    <2> QED
      BY <1>2, <1>5, <2>1, <2>2, OthersKeepRemote DEF Known, IInv, Local
  <1>6. ASSUME NEW m \in Mounts, NEW p \in Paths, Evict(m, p) PROVE Foreign(s, u)'
    <2>1. Local(s)' = Local(s) \/ Local(s)' = Absent
      BY <1>0, <1>6 DEF Evict, sessionVars, Local, TypeOK
    <2> QED
      BY <1>2, <1>6, <2>1 DEF Evict, sessionVars, Absent
  <1>7. ASSUME NEW m \in Mounts, Remount(m) PROVE Foreign(s, u)'
    <2>1. MountOf[s] # m /\ pc'[s] = pc[s]
      BY <1>0, <1>7 DEF Remount, TypeOK, HasForced, Opens
    <2> QED
      BY <1>0, <1>2, <1>7, <2>1 DEF Remount, Local, TypeOK
  <1>8. CASE UNCHANGED vars
    BY <1>2, <1>8 DEF vars, fileVars, sessionVars, auxVars, Local
  <1> QED
    BY <1>0, <1>1, <1>3, <1>4, <1>5, <1>6, <1>7, <1>8, Steps, ConstantsAssumption
    DEF CacheWriter, BreakPut

-------------------------------------------------------------------------------
(* What a mount shows *)

\* A transfer into a copy ends, or the mount dies.
LEMMA FetchingStep ==
    ASSUME Known, [Next]_vars, NEW s \in Sessions, pc[s] \in Fetches
    PROVE  (pc'[s] = pc[s] /\ path'[s] = path[s]) \/ EndFetch(s) \/ Remount(MountOf[s])
  <1> USE DEF vars, fileVars, sessionVars, auxVars, Fetches
  <1>0. Transport = "SCP" /\ TypeOK /\ "partial" \notin Faults
    BY DEF Known, Disciplined, Calm, IInv
  <1>1. path'[s] = path[s]
    BY <1>0, SessionStep
  <1>2. ASSUME NEW v \in Sessions, Quiet(v) PROVE pc'[s] = pc[s]
    BY <1>0, <1>2, QuietStep
  <1>3. ASSUME NEW v \in Sessions, CacheWriter(v) PROVE pc'[s] = pc[s] \/ EndFetch(s)
    BY <1>0, <1>3 DEF CacheWriter, StartFetch, EndFetch, BreakFetch, FetchReturn, Mknod, Truncate,
                      ChangeOpenFile, Request, End, Goto, TypeOK
  <1>4. ASSUME NEW v \in Sessions, StartPut(v) \/ EndPut(v) PROVE pc'[s] = pc[s]
    BY <1>0, <1>4 DEF StartPut, EndPut, PutReturn, Goto, TypeOK
  <1>5. ASSUME NEW m \in Mounts, NEW p \in Paths, Evict(m, p) PROVE pc'[s] = pc[s]
    BY <1>5 DEF Evict
  <1>6. ASSUME NEW m \in Mounts, Remount(m) PROVE pc'[s] = pc[s] \/ m = MountOf[s]
    BY <1>0, <1>6 DEF Remount, TypeOK
  <1> QED
    BY <1>0, <1>1, <1>2, <1>3, <1>4, <1>5, <1>6, Steps, ConstantsAssumption
    DEF CacheWriter, BreakPut

\* What is shown has been shown before, unless a transfer has just ended.
LEMMA ShownBefore ==
    ASSUME Known, [Next]_vars, NEW m \in Mounts, NEW p \in Paths,
           Shown(m, p)', cache'[m][p] # Absent,
           ~\E v \in Sessions : MountOf[v] = m /\ path[v] = p /\ EndFetch(v)
    PROVE  Shown(m, p)
  <1>0. Transport = "SCP" /\ TypeOK /\ Serial /\ ~Threaded
    BY DEF Known, Disciplined, Calm, IInv
  <1>1. ~Remount(m)
    BY <1>0 DEF Remount, TypeOK
  <1>2. CASE Fetching(m, p)' = {}
    <2>1. \A t \in Sessions : t \notin Fetching(m, p)
      BY <1>1, <1>2, FetchingStep DEF Fetching, Fetches
    <2> QED
      BY <2>1 DEF Shown, Fetching
  <1>3. ASSUME NEW s \in Sessions, MountOf[s] = m, path'[s] = p, pc'[s] \in Opens
        PROVE  Shown(m, p)
    <2>1. path[s] = p /\ (pc[s] \in Opens \/ OpenFd(s))
      BY <1>0, <1>3, SessionStep DEF Opens
    <2>2. OpenFd(s) => Fetching(m, p) = {}
      BY <1>0, <1>3, <2>1, NobodyFetches DEF OpenFd, InHandler, Fetches, Known
    <2> QED
      BY <1>3, <2>1, <2>2 DEF Shown
  <1> QED
    BY <1>2, <1>3 DEF Shown

LEMMA OwnThereStep ==
    /\ Known /\ ForeignReported /\ OwnThere /\ FetchesCarryOwn /\ [Next]_vars
    => OwnThere'
  <1> SUFFICES ASSUME Known, ForeignReported, OwnThere, FetchesCarryOwn, [Next]_vars,
                      NEW p \in Paths, NEW t \in Sessions, t \in acked'[p],
                      cache'[MountOf[t]][p] # Absent, Shown(MountOf[t], p)'
               PROVE  t \in cache'[MountOf[t]][p]
    BY DEF OwnThere
  <1> DEFINE m == MountOf[t]
  <1>0. Transport = "SCP" /\ TypeOK /\ m \in Mounts
    BY ConstantsAssumption DEF Known, Disciplined, IInv
  <1>1. CASE t \notin acked[p]
    <2>1. PICK v \in Sessions : EndPut(v)
      BY <1>1, OnlyPuts DEF StartPut, auxVars
    <2> QED
      BY <1>1, <2>1, NewlyReported DEF EndPut, Local
  <1>2. CASE t \in acked[p]
    <2>1. t \in remote[p]
      BY <1>2 DEF Known, IInv, NoLostUpdate
    <2>2. ASSUME cache[m][p] # Absent,
                 ~\E v \in Sessions : MountOf[v] = m /\ path[v] = p /\ EndFetch(v)
          PROVE  t \in cache[m][p]
      BY <1>0, <1>2, <2>2, ShownBefore DEF OwnThere
    <2>3. ASSUME NEW v \in Sessions, CacheWriter(v) PROVE t \in cache'[m][p]
      <3>1. PICK f : /\ Leaves(v, f)
                     /\ \A n \in Mounts, q \in Paths :
                          cache'[n][q] = IF n = MountOf[v] /\ q = path[v] THEN f ELSE cache[n][q]
        BY <2>3, CacheChange
      <3>2. \A w \in Sessions : EndFetch(w) => w = v /\ EndFetch(v)
        <4>1. \A w \in Sessions \ {v} : pc'[w] = pc[w]
          BY <1>0, <2>3 DEF CacheWriter, StartFetch, EndFetch, BreakFetch, FetchReturn, Mknod,
                            Truncate, ChangeOpenFile, Request, End, Goto, TypeOK
        <4>2. \A w \in Sessions : EndFetch(w) => pc'[w] # pc[w]
          BY <1>0 DEF EndFetch, FetchReturn, Goto, TypeOK
        <4> QED
          BY <4>1, <4>2
      <3>3. CASE ~(m = MountOf[v] /\ p = path[v])
        <4>1. cache'[m][p] = cache[m][p]
          BY <1>0, <3>1, <3>3
        <4> QED
          BY <2>2, <3>2, <3>3, <4>1
      <3>4. CASE m = MountOf[v] /\ p = path[v]
        <4>1. cache'[m][p] = f /\ cache[m][p] = Local(v)
          BY <1>0, <3>1, <3>4 DEF Local
        <4>2. CASE EndFetch(v) /\ f = buf[v]
          BY <1>2, <3>4, <4>1, <4>2 DEF EndFetch, FetchesCarryOwn, Fetches
        <4>3. CASE ~EndFetch(v) /\ Local(v) # Absent /\ Local(v) \subseteq f
          BY <2>2, <3>2, <4>1, <4>3
        <4>4. CASE StartFetch(v) /\ Local(v) = Absent
          <5>1. v \in Fetching(m, p)'
            BY <1>0, <3>4, <4>4 DEF StartFetch, Fetching, Goto, TypeOK
          <5>2. PICK s \in Sessions : MountOf[s] = m /\ path'[s] = p /\ pc'[s] \in Opens
            BY <5>1 DEF Shown
          <5>3. pc[s] \in Opens /\ path[s] = p
            BY <1>0, <4>4, <5>2 DEF StartFetch, Goto, TypeOK, Opens
          <5> QED
            BY <3>4, <4>4, <5>2, <5>3 DEF Known, ReadInv, OpenInCache, Local
        <4>5. CASE Remote(v) = Absent
          BY <2>1, <3>4, <4>5 DEF Remote, Absent
        <4> QED
          BY <3>1, <4>1, <4>2, <4>3, <4>4, <4>5
          DEF Leaves, EndFetch, StartFetch, Truncate, ChangeOpenFile
      <3> QED
        BY <3>3, <3>4
    <2>4. ASSUME cache'[m][p] = cache[m][p], ~\E v \in Sessions : EndFetch(v)
          PROVE  t \in cache'[m][p]
      BY <2>2, <2>4
    <2>5. ASSUME ~\E v \in Sessions : CacheWriter(v)
          PROVE  cache'[m][p] = cache[m][p]
      <3>1. ASSUME NEW v \in Sessions, Quiet(v) PROVE cache' = cache
        BY <1>0, <3>1, QuietStep
      <3>2. ASSUME NEW v \in Sessions, StartPut(v) \/ EndPut(v) \/ BreakPut(v)
            PROVE  cache' = cache
        BY <3>2 DEF StartPut, EndPut, BreakPut
      <3>3. ASSUME NEW n \in Mounts, NEW q \in Paths, Evict(n, q) \/ Remount(n)
            PROVE  cache'[m][p] = cache[m][p]
        BY <1>0, <3>3 DEF Evict, Remount, TypeOK
      <3> QED
        BY <2>5, <3>1, <3>2, <3>3, Steps, ConstantsAssumption
        DEF CacheWriter, vars, fileVars
    <2> QED
      BY <2>3, <2>4, <2>5 DEF CacheWriter
  <1> QED
    BY <1>1, <1>2

LEMMA FetchesCarryOwnStep ==
    Known /\ ForeignReported /\ FetchesCarryOwn /\ [Next]_vars => FetchesCarryOwn'
  <1> SUFFICES ASSUME Known, ForeignReported, FetchesCarryOwn, [Next]_vars,
                      NEW s \in Sessions, NEW t \in Sessions,
                      pc'[s] \in Fetches, MountOf[t] = MountOf[s], t \in acked'[path'[s]]
               PROVE  t \in buf'[s]
    BY DEF FetchesCarryOwn
  <1>0. /\ Transport = "SCP" /\ TypeOK /\ Serial /\ ~Threaded
        /\ path[s] \in Paths /\ path'[s] = path[s]
    BY SessionStep DEF Known, Disciplined, Calm, IInv, TypeOK, StartFetch, Fetches
  <1>1. CASE StartFetch(s)
    <2>1. t \in Remote(s)
      BY <1>0, <1>1 DEF StartFetch, auxVars, Known, IInv, NoLostUpdate, Remote
    <2>2. \A w \in Uploading(path[s]) : t \in buf[w]
      BY <2>1 DEF Uploading, Known, ForcedCopiesArrived, IInv, Roles, CarriesRemote, Carries, Remote
    <2>3. \A f \in RemoteReads(s) : t \in f
      BY <2>1, <2>2 DEF RemoteReads, Observed, Torn
    <2> QED
      BY <1>0, <1>1, <2>3 DEF StartFetch, TypeOK
  <1>2. CASE pc'[s] = pc[s] /\ buf'[s] = buf[s]
    <2>1. CASE t \in acked[path[s]]
      BY <1>2, <2>1 DEF FetchesCarryOwn
    <2>2. CASE t \notin acked[path[s]]
      <3>1. PICK v \in Sessions : EndPut(v)
        BY <1>0, <2>2, OnlyPuts DEF StartPut, auxVars
      <3>2. MountOf[v] = MountOf[s]
        BY <1>0, <2>2, <3>1, NewlyReported
      <3> QED
        BY <1>0, <1>2, <3>1, <3>2 DEF EndPut, Serial, InHandler, Fetches
    <2> QED
      BY <2>1, <2>2
  <1> QED
    BY <1>0, <1>1, <1>2, SessionStep

-------------------------------------------------------------------------------
(* The theorems *)

All == Known /\ OwnInv

LEMMA AllInit == Disciplined /\ Calm /\ Init => All
  <1> SUFFICES ASSUME Disciplined, Calm, Init PROVE All
    OBVIOUS
  <1>1. IInv /\ ReadInv
    BY IInvInit, ReadInit
  <1>2. MknodsCreate /\ MissingIsNowhere /\ ForcedCopiesArrived
    BY DEF Init, MknodsCreate, MissingIsNowhere, ForcedCopiesArrived
  <1>3. NoFetchUnderOpen /\ FetchesFound /\ ForeignReported /\ FetchesCarryOwn
    BY DEF Init, NoFetchUnderOpen, FetchesFound, ForeignReported, Foreign, FetchesCarryOwn,
           Fetches, Opens
  <1>4. RemoteReported /\ NothingForeign /\ OwnThere
    BY ConstantsAssumption DEF Init, RemoteReported, NothingForeign, OwnThere, Absent
  <1> QED
    BY <1>1, <1>2, <1>3, <1>4 DEF All, Known, OwnInv

LEMMA AllStep == All /\ [Next]_vars => All'
  <1> SUFFICES ASSUME All, [Next]_vars PROVE All'
    OBVIOUS
  <1>1. Telling
    BY DEF All, Known, Calm, Telling
  <1>2. IInv' /\ ReadInv' /\ MknodsCreate' /\ MissingIsNowhere' /\ ForcedCopiesArrived'
    BY <1>1, IInvStep, ReadStep, MknodsCreateStep, MissingIsNowhereStep, StaleStep
    DEF All, Known, IInv
  <1>3. NoFetchUnderOpen' /\ RemoteReported' /\ FetchesFound' /\ NothingForeign'
    BY NoFetchUnderOpenStep, RemoteReportedStep, FetchesFoundStep, NothingForeignStep
    DEF All, OwnInv
  <1>4. ForeignReported' /\ OwnThere' /\ FetchesCarryOwn'
    BY ForeignReportedStep, OwnThereStep, FetchesCarryOwnStep DEF All, OwnInv
  <1>5. (Disciplined /\ Calm)'
    BY DEF All, Known, Disciplined, Calm
  <1> QED
    BY <1>2, <1>3, <1>4, <1>5 DEF All, Known, OwnInv

LEMMA AllHolds == Disciplined /\ Calm => (Spec => []All)
  <1> SUFFICES ASSUME Disciplined, Calm PROVE Spec => []All
    OBVIOUS
  <1>1. Init => All
    BY AllInit
  <1> QED
    BY <1>1, AllStep, PTL DEF Spec

\* With -s a file that is opened through a mount shows every update that was
\* written through it and reported as copied back, even while the file is copied
\* again: no lookup, eviction, restart or other mount hides one.
THEOREM OwnUpdatesShown == Disciplined /\ Calm => (Spec => []OwnUpdatesVisible)
  <1> SUFFICES ASSUME Disciplined, Calm PROVE Spec => []OwnUpdatesVisible
    OBVIOUS
  <1>1. All => OwnUpdatesVisible
    <2> SUFFICES ASSUME All, NEW s \in Sessions, NEW t \in Sessions,
                        pc[s] = "opened", t \in acked[path[s]], MountOf[t] = MountOf[s],
                        NEW f \in LocalReads(s)
                 PROVE  t \in f
      BY DEF OwnUpdatesVisible
    <2>1. path[s] \in Paths /\ Local(s) # Absent /\ Shown(MountOf[s], path[s])
      BY DEF All, Known, IInv, TypeOK, ReadInv, OpenInCache, Opens, Shown
    <2>2. t \in Local(s)
      BY <2>1 DEF All, OwnInv, OwnThere, Local
    <2>3. \A v \in Fetching(MountOf[s], path[s]) : t \in buf[v]
      BY DEF All, OwnInv, FetchesCarryOwn, Fetching, Fetches
    <2> QED
      BY <2>2, <2>3 DEF LocalReads, Observed, Torn
  <1> QED
    BY <1>1, AllHolds, PTL

\* With -s the copy that nofs_open forces never takes a reader back: while a file
\* is open, what it shows of the remote stays.
THEOREM ReadersNeverGoBack == Disciplined /\ Calm => (Spec => OpenFilesNeverGoBack)
  <1> SUFFICES ASSUME Disciplined, Calm PROVE Spec => OpenFilesNeverGoBack
    OBVIOUS
  <1>1. ASSUME All, [Next]_vars
        PROVE  [\A s \in Sessions :
                    pc[s] = "opened" /\ pc'[s] = "opened" =>
                        Local(s) \cap Remote(s) \subseteq Local(s)']_vars
    <2> SUFFICES ASSUME NEW s \in Sessions, pc[s] = "opened", pc'[s] = "opened"
                 PROVE  Local(s) \cap Remote(s) \subseteq Local(s)'
      OBVIOUS
    <2>0. /\ Transport = "SCP" /\ TypeOK /\ Known /\ Local(s) # Absent
          /\ MountOf[s] \in Mounts /\ path[s] \in Paths /\ path'[s] = path[s]
      BY <1>1, SessionStep, ConstantsAssumption
      DEF All, Known, Disciplined, IInv, TypeOK, ReadInv, OpenInCache, Opens
    <2>1. ASSUME NEW v \in Sessions, CacheWriter(v)
          PROVE  Local(s) \cap Remote(s) \subseteq Local(s)'
      <3>1. PICK f : /\ Leaves(v, f)
                     /\ \A m \in Mounts, p \in Paths :
                          cache'[m][p] = IF m = MountOf[v] /\ p = path[v] THEN f ELSE cache[m][p]
        BY <2>0, <2>1, CacheChange
      <3>2. CASE ~SameCopy(s, v)
        BY <2>0, <3>1, <3>2 DEF SameCopy, Local
      <3>3. CASE SameCopy(s, v)
        <4>1. Local(v) = Local(s) /\ Remote(v) = Remote(s) /\ Local(s)' = f
          BY <2>0, <3>1, <3>3 DEF SameCopy, Local, Remote
        <4>2. CASE EndFetch(v)
          <5>1. pc[v] = "forced"
            BY <1>1, <3>3, <4>2 DEF EndFetch, All, OwnInv, NoFetchUnderOpen, Opens
          <5>2. Remote(v) \subseteq buf[v]
            BY <2>0, <5>1 DEF Known, IInv, Roles, CarriesRemote, Carries, ForcedCopiesArrived
          <5>3. ~(Truncate(v) \/ ChangeOpenFile(v) \/ Mknod(v) \/ StartFetch(v))
            BY <5>1 DEF Truncate, ChangeOpenFile, Mknod, StartFetch
          <5> QED
            BY <3>1, <4>1, <4>2, <5>2, <5>3 DEF Leaves
        <4>3. CASE ~EndFetch(v)
          BY <2>0, <3>1, <4>1, <4>3 DEF Leaves, Mknod
        <4> QED
          BY <4>2, <4>3
      <3> QED
        BY <3>2, <3>3
    <2>2. ASSUME NEW v \in Sessions, Quiet(v) PROVE cache' = cache
      BY <2>0, <2>2, QuietStep
    <2>3. ASSUME NEW v \in Sessions, StartPut(v) \/ EndPut(v) \/ BreakPut(v)
          PROVE  cache' = cache
      BY <2>3 DEF StartPut, EndPut, BreakPut
    <2>4. ASSUME NEW m \in Mounts, NEW p \in Paths, Evict(m, p) \/ Remount(m)
          PROVE  Local(s)' = Local(s)
      <3>1. CASE Evict(m, p)
        BY <2>0, <3>1 DEF Evict, Local, TypeOK
      <3>2. CASE Remount(m)
        <4>1. MountOf[s] # m
          BY <2>0, <3>2 DEF Remount, TypeOK
        <4> QED
          BY <2>0, <3>2, <4>1 DEF Remount, Local, TypeOK
      <3> QED
        BY <2>4, <3>1, <3>2
    <2> QED
      BY <2>0, <2>1, <2>2, <2>3, <2>4, <1>1, Steps, ConstantsAssumption
      DEF CacheWriter, Local, vars, fileVars
  <1> QED
    BY <1>1, AllHolds, PTL DEF Spec, OpenFilesNeverGoBack
===============================================================================
