--------------------------- MODULE NofsCreateProofs ---------------------------
(***************************************************************************)
(* Which handlers make files, and where, for all mounts, paths and         *)
(* sessions: the proofs of OnlyMknodInvents and CreatesOnlyWhereNoneIs.    *)
(***************************************************************************)
EXTENDS NofsProofs

\* A copy that has failed says something about the remote: the remote answers,
\* and what a copy that broke off has left is not removed.
Telling == "unreachable" \notin Faults /\ ~({"partial", "evict"} \subseteq Faults)

\* Only an application that creates is brought to nofs_mknod.
MknodsCreate ==
    \A s \in Sessions : call[s] = "mknod" /\ Live(s) => kind[s] = "create"

\* What a writer's request has not found, and has not left in pieces, is nowhere.
MissingIsNowhere ==
    \A s \in Sessions :
        pc[s] = "missing" /\ Writer(s) /\ (Local(s) = Absent \/ "partial" \notin Faults)
            => Remote(s) = Absent

-------------------------------------------------------------------------------
(* Cache files *)

\* Under the discipline only StartFetch and Mknod put a file where there is none.
LEMMA Inventors ==
    ASSUME Disciplined, TypeOK, Made, WritersHaveCopy, [Next]_vars,
           NEW m \in Mounts, NEW p \in Paths, cache[m][p] = Absent, cache'[m][p] # Absent
    PROVE  \E s \in Sessions :
                MountOf[s] = m /\ path[s] = p /\ (StartFetch(s) \/ Mknod(s))
  <1> USE DEF vars, fileVars, sessionVars, auxVars
  <1>0. Transport = "SCP"
    BY DEF Disciplined
  <1>1. ASSUME NEW s \in Sessions, CacheWriter(s)
        PROVE  MountOf[s] = m /\ path[s] = p /\ (StartFetch(s) \/ Mknod(s))
    <2>1. PICK f : SetLocal(s, f)
      BY <1>0, <1>1, CacheStep
    <2>2. MountOf[s] = m /\ path[s] = p /\ Local(s) = Absent
      BY <2>1, ConstantsAssumption DEF SetLocal, Local, TypeOK
    <2>3. ~EndFetch(s) /\ ~BreakFetch(s)
      BY <2>2 DEF EndFetch, BreakFetch, Made
    <2>4. ~ChangeOpenFile(s)
      BY <2>2 DEF ChangeOpenFile, WritersHaveCopy, Writer
    <2>5. ~Truncate(s)
      BY <2>2 DEF Truncate
    <2> QED
      BY <1>1, <2>2, <2>3, <2>4, <2>5 DEF CacheWriter
  <1>2. ASSUME NEW s \in Sessions, Quiet(s) PROVE FALSE
    BY <1>0, <1>2, QuietStep
  <1>3. ASSUME NEW s \in Sessions, StartPut(s) \/ EndPut(s) \/ BreakPut(s) PROVE FALSE
    BY <1>3 DEF StartPut, EndPut, BreakPut
  <1>4. ASSUME NEW n \in Mounts, NEW q \in Paths, Evict(n, q) \/ Remount(n) PROVE FALSE
    BY <1>4 DEF Evict, Remount, TypeOK
  <1> QED
    BY <1>1, <1>2, <1>3, <1>4, Steps, ConstantsAssumption DEF CacheWriter

\* A lookup, an open or a put never makes a file that the remote has not:
\* only nofs_mknod does.
THEOREM OnlyMknodMakes == Disciplined => (Spec => OnlyMknodInvents)
  <1> SUFFICES ASSUME Disciplined PROVE Spec => OnlyMknodInvents
    OBVIOUS
  <1> DEFINE Invents(m, p) == cache[m][p] = Absent /\ cache'[m][p] # Absent
             Known(m, p) ==
                \/ remote[p] # Absent
                \/ \E s \in Sessions :
                    MountOf[s] = m /\ path[s] = p /\ call[s] = "mknod" /\ pc[s] = "missing"
  <1>1. ASSUME IInv, [Next]_vars PROVE [\A m \in Mounts, p \in Paths : Invents(m, p) => Known(m, p)]_vars
    <2> SUFFICES ASSUME NEW m \in Mounts, NEW p \in Paths, Invents(m, p) PROVE Known(m, p)
      OBVIOUS
    <2>1. PICK s \in Sessions : MountOf[s] = m /\ path[s] = p /\ (StartFetch(s) \/ Mknod(s))
      BY <1>1, Inventors DEF IInv
    <2> QED
      BY <2>1 DEF StartFetch, Mknod, Remote
  <1> QED
    BY <1>1, InvariantHolds, PTL DEF Spec, OnlyMknodInvents

-------------------------------------------------------------------------------
(* nofs_mknod *)

LEMMA MknodsCreateStep == TypeOK /\ MknodsCreate /\ [Next]_vars => MknodsCreate'
  <1> SUFFICES ASSUME TypeOK, MknodsCreate, [Next]_vars, NEW s \in Sessions,
                      call'[s] = "mknod", Live(s)'
               PROVE  kind'[s] = "create"
    BY DEF MknodsCreate
  <1> USE DEF vars, fileVars, sessionVars, auxVars
  <1>1. ASSUME NEW v \in Sessions, Begin(v) PROVE kind'[s] = "create"
    BY <1>1 DEF Begin, Request, Goto, TypeOK, MknodsCreate, Live
  <1>2. ASSUME NEW v \in Sessions, Getattr(v) PROVE kind'[s] = "create"
    BY <1>2 DEF Getattr, Request, End, Goto, TypeOK, MknodsCreate, Live, Ended
  <1>3. ASSUME NEW v \in Sessions, Mknod(v) \/ Fsync(v) \/ Close(v) PROVE kind'[s] = "create"
    BY <1>3 DEF Mknod, Fsync, Close, Request, Goto, TypeOK, MknodsCreate, Live, Ended
  <1>4. ASSUME UNCHANGED <<call, kind>>, \A t \in Sessions : Live(t)' => Live(t)
        PROVE  kind'[s] = "create"
    BY <1>4 DEF MknodsCreate
  <1>5. ASSUME NEW v \in Sessions,
               \/ EnsureLocalFile(v) \/ FailFetch(v) \/ MknodFails(v) \/ Xattr(v)
               \/ Open(v) \/ OpenFd(v) \/ ReleaseReader(v) \/ FailPut(v)
        PROVE  UNCHANGED <<call, kind>> /\ \A t \in Sessions : Live(t)' => Live(t)
    BY <1>5 DEF EnsureLocalFile, FailFetch, FetchReturn, MknodFails, Xattr, Open, OpenFd,
                ReleaseReader, FailPut, PutReturn, End, Goto, TypeOK, Live, Ended
  <1>6. ASSUME NEW v \in Sessions,
               \/ StartFetch(v) \/ EndFetch(v) \/ BreakFetch(v) \/ Truncate(v)
               \/ ChangeOpenFile(v) \/ StartPut(v) \/ EndPut(v) \/ BreakPut(v)
        PROVE  UNCHANGED <<call, kind>> /\ \A t \in Sessions : Live(t)' => Live(t)
    BY <1>6 DEF StartFetch, EndFetch, BreakFetch, FetchReturn, Truncate, ChangeOpenFile,
                StartPut, EndPut, BreakPut, PutReturn, End, Goto, TypeOK, Live, Ended
  <1>7. ASSUME NEW m \in Mounts, NEW p \in Paths, Evict(m, p) \/ Remount(m)
        PROVE  UNCHANGED <<call, kind>> /\ \A t \in Sessions : Live(t)' => Live(t)
    BY <1>7 DEF Evict, Remount, TypeOK, Live, Ended
  <1>8. CASE UNCHANGED vars
    BY <1>8 DEF MknodsCreate, Live
  <1> QED
    BY <1>1, <1>2, <1>3, <1>4, <1>5, <1>6, <1>7, <1>8, Steps, ConstantsAssumption DEF Quiet

\* A request comes to "missing" from a copy that has failed, and while it is
\* there no other writer puts the path.
LEMMA MissingIsNowhereStep ==
    Disciplined /\ Telling /\ IInv /\ MissingIsNowhere /\ [Next]_vars => MissingIsNowhere'
  <1> SUFFICES ASSUME Disciplined, Telling, IInv, MissingIsNowhere, [Next]_vars,
                      NEW s \in Sessions, pc'[s] = "missing", Writer(s)',
                      Local(s)' = Absent \/ "partial" \notin Faults
               PROVE  Remote(s)' = Absent
    BY DEF MissingIsNowhere
  <1> USE DEF vars, fileVars, sessionVars, auxVars
  <1>0. Transport = "SCP" /\ TypeOK /\ Made /\ MountOf[s] \in Mounts /\ path[s] \in Paths
    BY ConstantsAssumption DEF Disciplined, IInv, TypeOK
  <1>1. CASE pc[s] # "missing"
    <2>1. FailFetch(s) \/ BreakFetch(s)
      <3>1. ASSUME NEW v \in Sessions, Quiet(v) PROVE FailFetch(s)
        <4>1. v = s
          BY <1>0, <1>1, <3>1, QuietStep
        <4> QED
          BY <1>0, <1>1, <3>1, <4>1
          DEF Quiet, Begin, EnsureLocalFile, Getattr, MknodFails, Xattr, Open, OpenFd, Fsync,
              Close, ReleaseReader, FailPut, PutReturn, Request, End, Goto, TypeOK
      <3>2. ASSUME NEW v \in Sessions, CacheWriter(v) PROVE BreakFetch(s)
        BY <1>0, <1>1, <3>2
        DEF CacheWriter, StartFetch, EndFetch, BreakFetch, FetchReturn, Mknod, Truncate,
            ChangeOpenFile, Request, End, Goto, TypeOK
      <3>3. ASSUME NEW v \in Sessions, StartPut(v) \/ EndPut(v) \/ BreakPut(v) PROVE FALSE
        BY <1>0, <1>1, <3>3 DEF StartPut, EndPut, BreakPut, PutReturn, Goto, TypeOK
      <3>4. ASSUME NEW m \in Mounts, NEW p \in Paths, Evict(m, p) \/ Remount(m) PROVE FALSE
        BY <1>0, <1>1, <3>4 DEF Evict, Remount, TypeOK
      <3> QED
        BY <1>1, <3>1, <3>2, <3>3, <3>4, Steps, ConstantsAssumption DEF CacheWriter
    <2>2. CASE FailFetch(s)
      BY <2>2 DEF FailFetch, Telling, Remote
    <2>3. CASE BreakFetch(s)
      <3>1. PICK f \in Torn(Local(s), buf[s]) : SetLocal(s, f)
        BY <2>3 DEF BreakFetch
      <3>2. "made" \in f
        BY <1>0, <2>3, FilesOf, LandedMade DEF BreakFetch, Made, Local, TypeOK
      <3>3. path' = path
        BY <2>3 DEF BreakFetch
      <3>4. Local(s)' # Absent
        BY <1>0, <3>1, <3>2, <3>3 DEF SetLocal, Local, TypeOK, Absent
      <3> QED
        BY <2>3, <3>4 DEF BreakFetch
    <2> QED
      BY <2>1, <2>2, <2>3
  <1>2. CASE pc[s] = "missing"
    <2> SUFFICES /\ path'[s] = path[s] /\ kind'[s] = kind[s] /\ Remote(s)' = Remote(s)
                 /\ Local(s)' = Absent => Local(s) = Absent \/ "partial" \notin Faults
      BY <1>2 DEF MissingIsNowhere, Writer
    <2>1. ASSUME NEW v \in Sessions, CacheWriter(v)
          PROVE  /\ path' = path /\ kind' = kind /\ remote' = remote
                 /\ Local(s)' = Absent => Local(s) = Absent
      <3>1. path' = path /\ kind' = kind /\ remote' = remote
        BY <2>1 DEF CacheWriter, StartFetch, EndFetch, BreakFetch, Mknod, Truncate, ChangeOpenFile
      <3> QED
        BY <1>0, <2>1, <3>1, CopiesStay DEF IInv, Local
    <2>2. ASSUME NEW v \in Sessions, Quiet(v)
          PROVE  /\ path'[s] = path[s] /\ kind'[s] = kind[s] /\ UNCHANGED <<remote, cache>>
      BY <1>0, <1>2, <2>2, QuietStep
    <2>3. ASSUME NEW v \in Sessions, StartPut(v) \/ EndPut(v) \/ BreakPut(v)
          PROVE  /\ path' = path /\ kind' = kind /\ Remote(s)' = Remote(s) /\ cache' = cache
      <3>1. path' = path /\ kind' = kind /\ cache' = cache
        BY <2>3 DEF StartPut, EndPut, BreakPut
      <3>2. Live(v) /\ Writer(v) /\ v # s
        BY <1>2, <2>3 DEF StartPut, EndPut, BreakPut, IInv, Roles, Live, Ended
      <3>3. Live(s) /\ Writer(s)
        BY <1>2, <3>1 DEF Live, Ended, Writer
      <3>4. path[v] # path[s]
        BY <3>2, <3>3, Separate DEF IInv
      <3>5. (\E f : SetRemote(v, f)) \/ remote' = remote
        BY <2>3 DEF StartPut, EndPut, BreakPut
      <3> QED
        BY <1>0, <3>1, <3>4, <3>5 DEF SetRemote, Remote, TypeOK
    <2>4. ASSUME NEW m \in Mounts, NEW p \in Paths, Evict(m, p)
          PROVE  UNCHANGED <<path, kind, remote>> /\ "partial" \notin Faults
      BY <2>4 DEF Evict, Telling
    <2>5. ASSUME NEW m \in Mounts, Remount(m)
          PROVE  UNCHANGED <<path, kind, remote>> /\ Local(s)' = Local(s)
      <3>1. MountOf[s] # m
        BY <1>0, <1>2, <2>5 DEF Remount, TypeOK
      <3> QED
        BY <1>0, <2>5, <3>1 DEF Remount, Local, TypeOK
    <2> QED
      BY <2>1, <2>2, <2>3, <2>4, <2>5, Steps, ConstantsAssumption DEF CacheWriter, Local, Remote
  <1> QED
    BY <1>1, <1>2

\* nofs_mknod takes a copy that has failed to mean that there is no such file;
\* that is so when the remote answers and nobody removes a torn copy.
THEOREM CreatesWhereNoneIs == Disciplined /\ Telling => (Spec => CreatesOnlyWhereNoneIs)
  <1> SUFFICES ASSUME Disciplined, Telling PROVE Spec => CreatesOnlyWhereNoneIs
    OBVIOUS
  <1> DEFINE J == MknodsCreate /\ MissingIsNowhere
  <1>1. Init => J
    BY DEF Init, MknodsCreate, MissingIsNowhere
  <1>2. IInv /\ J /\ [Next]_vars => J'
    BY MknodsCreateStep, MissingIsNowhereStep DEF IInv
  <1>3. ASSUME IInv, J, [Next]_vars
        PROVE  [\A s \in Sessions :
                    pc[s] = "missing" /\ call[s] = "mknod" /\ call'[s] = "open" =>
                        Remote(s) = Absent]_vars
    <2> SUFFICES ASSUME NEW s \in Sessions,
                        pc[s] = "missing", call[s] = "mknod", call'[s] = "open"
                 PROVE  Remote(s) = Absent
      OBVIOUS
    <2> USE DEF vars, fileVars, sessionVars, auxVars
    <2>0. TypeOK
      BY <1>3 DEF IInv
    <2>1. Mknod(s)
      <3>1. ASSUME NEW v \in Sessions, Quiet(v) PROVE FALSE
        <4>1. CASE Begin(v) \/ Getattr(v) \/ Fsync(v) \/ Close(v)
          BY <2>0, <4>1 DEF Begin, Getattr, Fsync, Close, Request, End, Goto, TypeOK
        <4>2. call' = call \/ Begin(v) \/ Getattr(v) \/ Fsync(v) \/ Close(v)
          BY <3>1 DEF Quiet, EnsureLocalFile, FailFetch, MknodFails, Xattr, Open, OpenFd,
              ReleaseReader, FailPut, End, Goto
        <4> QED
          BY <4>1, <4>2
      <3>2. ASSUME NEW v \in Sessions, CacheWriter(v) PROVE Mknod(s)
        BY <2>0, <3>2
        DEF CacheWriter, StartFetch, EndFetch, BreakFetch, FetchReturn, Mknod, Truncate,
            ChangeOpenFile, Request, End, Goto, TypeOK
      <3>3. ASSUME NEW v \in Sessions, StartPut(v) \/ EndPut(v) \/ BreakPut(v) PROVE FALSE
        BY <2>0, <3>3 DEF StartPut, EndPut, BreakPut
      <3>4. ASSUME NEW m \in Mounts, NEW p \in Paths, Evict(m, p) \/ Remount(m) PROVE FALSE
        BY <2>0, <3>4 DEF Evict, Remount, TypeOK
      <3> QED
        BY <1>3, <3>1, <3>2, <3>3, <3>4, Steps, ConstantsAssumption DEF CacheWriter
    <2>2. Writer(s) /\ Local(s) = Absent
      BY <1>3, <2>1 DEF MknodsCreate, Live, Ended, Writer, Writing, Mknod
    <2> QED
      BY <1>3, <2>2 DEF MissingIsNowhere
  <1> HIDE DEF J
  <1> QED
    BY <1>1, <1>2, <1>3, InvariantHolds, PTL DEF Spec, CreatesOnlyWhereNoneIs
===============================================================================
