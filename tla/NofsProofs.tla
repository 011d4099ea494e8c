------------------------------ MODULE NofsProofs ------------------------------
(***************************************************************************)
(* Machine-checked proofs about Nofs, for all mounts, paths, sessions and  *)
(* faults.                                                                 *)
(***************************************************************************)
EXTENDS NofsInvariant, TLAPS

-------------------------------------------------------------------------------
(* Types *)

\* What the operators on files return.
LEMMA TornType ==
    ASSUME NEW a \in File, NEW b \in File, NEW f \in Torn(a, b)
    PROVE  f \in File /\ a \cap b \subseteq f /\ f \subseteq a \cup b
  BY DEF Torn, File

LEMMA ObservedType ==
    ASSUME NEW a \in File, buf \in [Sessions -> File],
           NEW T \in SUBSET Sessions, NEW f \in Observed(a, T)
    PROVE  f \in File
  BY TornType DEF Observed

LEMMA LandedType ==
    ASSUME NEW a \in File, buf \in [Sessions -> File],
           NEW s \in Sessions, NEW f \in Landed(s, a)
    PROVE  f \in File
  BY TornType DEF Landed

LEMMA SmallFiles ==
    /\ Absent \in File /\ Empty \in File /\ Empty \cup {"pathname"} \in File
    /\ {"made", "base"} \in File
    /\ \A s \in Sessions : \A f \in File : f \cup {s} \in File
  BY DEF Absent, Empty, File, Update

LEMMA FilesOf ==
    ASSUME TypeOK, NEW s \in Sessions
    PROVE  Local(s) \in File /\ Remote(s) \in File /\ MountOf[s] \in Mounts
  BY ConstantsAssumption DEF TypeOK, Local, Remote

LEMMA SetLocalType ==
    ASSUME TypeOK, NEW s \in Sessions, NEW f \in File, SetLocal(s, f)
    PROVE  cache' \in [Mounts -> [Paths -> File]] /\ mixed' \in [Sessions -> BOOLEAN]
  BY DEF SetLocal, TypeOK

LEMMA SetRemoteType ==
    ASSUME TypeOK, NEW s \in Sessions, NEW f \in File, SetRemote(s, f)
    PROVE  remote' \in [Paths -> File] /\ mixed' \in [Sessions -> BOOLEAN]
  BY DEF SetRemote, TypeOK

LEMMA TypeInit == Init => TypeOK
  <1> SUFFICES ASSUME Init PROVE TypeOK
    OBVIOUS
  <1>1. (CHOOSE p \in Paths : TRUE) \in Paths
    BY ConstantsAssumption
  <1> QED
    BY <1>1, SmallFiles DEF Init, TypeOK, Uses, Calls, Places, Absent, File

LEMMA TypeStep == TypeOK /\ [Next]_vars => TypeOK'
  <1> SUFFICES ASSUME TypeOK, [Next]_vars PROVE TypeOK'
    OBVIOUS
  <1> USE DEF vars, fileVars, sessionVars, auxVars
  <1>1. ASSUME NEW s \in Sessions, Begin(s) PROVE TypeOK'
    BY <1>1, ConstantsAssumption DEF Begin, Request, Goto, TypeOK, Places, Calls, Uses
  <1>2. ASSUME NEW s \in Sessions, EnsureLocalFile(s) PROVE TypeOK'
    BY <1>2 DEF EnsureLocalFile, Goto, TypeOK, Places, InHandler
  <1>3. ASSUME NEW s \in Sessions, StartFetch(s) PROVE TypeOK'
    <2>1. buf' \in [Sessions -> File]
      BY <1>3, ObservedType, FilesOf DEF StartFetch, RemoteReads, Uploading, TypeOK
    <2>2. cache' \in [Mounts -> [Paths -> File]] /\ mixed' \in [Sessions -> BOOLEAN]
      BY <1>3, SetLocalType, SmallFiles DEF StartFetch, OpenDestination, TypeOK
    <2> QED
      BY <1>3, <2>1, <2>2 DEF StartFetch, Goto, TypeOK, Places, InHandler
  <1>4. ASSUME NEW s \in Sessions, FailFetch(s) PROVE TypeOK'
    <2>1. cache' \in [Mounts -> [Paths -> File]] /\ mixed' \in [Sessions -> BOOLEAN]
      BY <1>4, SetLocalType, SmallFiles DEF FailFetch, FailedDestination, TypeOK
    <2> QED
      BY <1>4, <2>1 DEF FailFetch, FetchReturn, Goto, TypeOK, Places, InHandler
  <1>5. ASSUME NEW s \in Sessions, EndFetch(s) PROVE TypeOK'
    <2>1. cache' \in [Mounts -> [Paths -> File]] /\ mixed' \in [Sessions -> BOOLEAN]
      BY <1>5, SetLocalType, LandedType, FilesOf DEF EndFetch, TypeOK
    <2> QED
      BY <1>5, <2>1, SmallFiles DEF EndFetch, FetchReturn, Goto, TypeOK, Places, InHandler
  <1>6. ASSUME NEW s \in Sessions, BreakFetch(s) PROVE TypeOK'
    <2>1. buf[s] \in File
      BY DEF TypeOK
    <2>2. cache' \in [Mounts -> [Paths -> File]] /\ mixed' \in [Sessions -> BOOLEAN]
      BY <1>6, <2>1, SetLocalType, TornType, FilesOf DEF BreakFetch
    <2> QED
      BY <1>6, <2>2, SmallFiles DEF BreakFetch, FetchReturn, Goto, TypeOK, Places, InHandler
  <1>7. ASSUME NEW s \in Sessions, Getattr(s) PROVE TypeOK'
    BY <1>7 DEF Getattr, Request, End, Goto, TypeOK, Places, Calls, Ended
  <1>8. ASSUME NEW s \in Sessions, Mknod(s) PROVE TypeOK'
    BY <1>8, SetLocalType, SmallFiles DEF Mknod, Request, Goto, TypeOK, Places, Calls
  <1>9. ASSUME NEW s \in Sessions, MknodFails(s) \/ Xattr(s) PROVE TypeOK'
    BY <1>9 DEF MknodFails, Xattr, End, Goto, TypeOK, Places, Ended
  <1>10. ASSUME NEW s \in Sessions, Open(s) PROVE TypeOK'
    BY <1>10 DEF Open, Goto, TypeOK, Places, InHandler, Ended
  <1>11. ASSUME NEW s \in Sessions, OpenFd(s) PROVE TypeOK'
    BY <1>11 DEF OpenFd, Goto, TypeOK, Places, Ended
  <1>12. ASSUME NEW s \in Sessions, Truncate(s) PROVE TypeOK'
    <2>1. cache' \in [Mounts -> [Paths -> File]] /\ mixed' \in [Sessions -> BOOLEAN]
      BY <1>12, SetLocalType, SmallFiles, FilesOf DEF Truncate, TypeOK
    <2> QED
      BY <1>12, <2>1 DEF Truncate, End, Goto, TypeOK, Places, Ended
  <1>13. ASSUME NEW s \in Sessions, ChangeOpenFile(s) PROVE TypeOK'
    BY <1>13, SetLocalType, SmallFiles, FilesOf DEF ChangeOpenFile, TypeOK
  <1>14. ASSUME NEW s \in Sessions, Fsync(s) \/ Close(s) \/ ReleaseReader(s) PROVE TypeOK'
    BY <1>14 DEF Fsync, Close, ReleaseReader, End, Goto, TypeOK, Places, Calls, Ended
  <1>15. ASSUME NEW s \in Sessions, StartPut(s) PROVE TypeOK'
    <2>1. \A f \in LocalReads(s) : f \in File
      BY ObservedType, FilesOf DEF LocalReads, Fetching, TypeOK
    <2>2. buf' \in [Sessions -> File]
      <3>1. CASE Transport = "SCP"
        BY <1>15, <3>1, <2>1 DEF StartPut, TypeOK
      <3>2. CASE Transport = "HTTP"
        BY <1>15, <3>2, SmallFiles DEF StartPut, TypeOK
      <3> QED
        BY <1>15, <3>1, <3>2 DEF StartPut
    <2>3. remote' \in [Paths -> File] /\ mixed' \in [Sessions -> BOOLEAN]
      BY <1>15, SetRemoteType, SmallFiles DEF StartPut, TypeOK
    <2> QED
      BY <1>15, <2>2, <2>3 DEF StartPut, Goto, TypeOK, Places, InHandler
  <1>16. ASSUME NEW s \in Sessions, FailPut(s) PROVE TypeOK'
    BY <1>16 DEF FailPut, PutReturn, Goto, TypeOK, Places, Ended
  <1>17. ASSUME NEW s \in Sessions, EndPut(s) PROVE TypeOK'
    <2>1. remote' \in [Paths -> File] /\ mixed' \in [Sessions -> BOOLEAN]
      BY <1>17, SetRemoteType, LandedType, FilesOf DEF EndPut, TypeOK
    <2>2. acked' \in [Paths -> SUBSET Update]
      BY <1>17 DEF EndPut, TypeOK, Update, File
    <2> QED
      BY <1>17, <2>1, <2>2, SmallFiles DEF EndPut, PutReturn, Goto, TypeOK, Places, Ended
  <1>18. ASSUME NEW s \in Sessions, BreakPut(s) PROVE TypeOK'
    <2>1. buf[s] \in File
      BY DEF TypeOK
    <2>2. remote' \in [Paths -> File] /\ mixed' \in [Sessions -> BOOLEAN]
      BY <1>18, <2>1, SetRemoteType, TornType, FilesOf DEF BreakPut
    <2> QED
      BY <1>18, <2>2, SmallFiles DEF BreakPut, PutReturn, Goto, TypeOK, Places, Ended
  <1>19. ASSUME NEW m \in Mounts, NEW p \in Paths, Evict(m, p) PROVE TypeOK'
    BY <1>19, SmallFiles DEF Evict, TypeOK
  <1>20. ASSUME NEW m \in Mounts, Remount(m) PROVE TypeOK'
    BY <1>20, SmallFiles DEF Remount, TypeOK, Places, Ended
  <1>21. CASE UNCHANGED vars
    BY <1>21 DEF TypeOK
  <1> QED
    BY <1>1, <1>2, <1>3, <1>4, <1>5, <1>6, <1>7, <1>8, <1>9, <1>10, <1>11, <1>12,
       <1>13, <1>14, <1>15, <1>16, <1>17, <1>18, <1>19, <1>20, <1>21
    DEF Next, Handler, Pickup, Application, Write, Ftruncate, Terminated

\* Every variable holds what it is declared to hold.
THEOREM TypeCorrect == Spec => []TypeOK
  BY TypeInit, TypeStep, PTL DEF Spec

-------------------------------------------------------------------------------
(* Who is where *)

\* Only Begin brings a session to life or changes what it uses.
LEMMA OnlyBegin ==
    ASSUME TypeOK, [Next]_vars, \A s \in Sessions : ~Begin(s)
    PROVE  /\ kind' = kind /\ path' = path
           /\ \A t \in Sessions : pc'[t] \notin Ended \cup {"new"} => Live(t)
  <1> USE DEF vars, fileVars, sessionVars, auxVars, Live, Ended, TypeOK, Goto, End, Request
  <1>1. ASSUME NEW s \in Sessions, Handler(s)
        PROVE  /\ kind' = kind /\ path' = path
               /\ \A t \in Sessions : pc'[t] \notin Ended \cup {"new"} => Live(t)
    <2>1. CASE StartFetch(s) \/ FailFetch(s) \/ EndFetch(s) \/ BreakFetch(s)
      BY <2>1 DEF StartFetch, FailFetch, EndFetch, BreakFetch, FetchReturn
    <2>2. CASE Getattr(s) \/ Mknod(s) \/ MknodFails(s) \/ Xattr(s) \/ Open(s) \/ OpenFd(s) \/ Truncate(s)
      BY <2>2 DEF Getattr, Mknod, MknodFails, Xattr, Open, OpenFd, Truncate
    <2>3. CASE EndPut(s) \/ BreakPut(s)
      BY <2>3 DEF EndPut, BreakPut, PutReturn
    <2> QED
      BY <1>1, <2>1, <2>2, <2>3 DEF Handler
  <1>2. ASSUME NEW s \in Sessions, Pickup(s)
        PROVE  /\ kind' = kind /\ path' = path
               /\ \A t \in Sessions : pc'[t] \notin Ended \cup {"new"} => Live(t)
    BY <1>2 DEF Pickup, EnsureLocalFile, StartPut, FailPut, ReleaseReader, PutReturn
  <1>3. ASSUME NEW s \in Sessions, Application(s)
        PROVE  /\ kind' = kind /\ path' = path
               /\ \A t \in Sessions : pc'[t] \notin Ended \cup {"new"} => Live(t)
    BY <1>3 DEF Application, Write, Ftruncate, ChangeOpenFile, Fsync, Close
  <1>4. ASSUME NEW m \in Mounts, NEW p \in Paths, Evict(m, p) \/ Remount(m)
        PROVE  /\ kind' = kind /\ path' = path
               /\ \A t \in Sessions : pc'[t] \notin Ended \cup {"new"} => Live(t)
    BY <1>4 DEF Evict, Remount
  <1>5. CASE UNCHANGED vars
    BY <1>5
  <1> QED
    BY <1>1, <1>2, <1>3, <1>4, <1>5, ConstantsAssumption DEF Next, Terminated

LEMMA ApartStep == Disciplined /\ TypeOK /\ Apart /\ [Next]_vars => Apart'
  <1> SUFFICES ASSUME Disciplined, TypeOK, Apart, [Next]_vars PROVE Apart'
    OBVIOUS
  <1>1. ASSUME NEW s \in Sessions, Begin(s) PROVE Apart'
    <2> DEFINE Pair(t, u) ==
            t # u /\ Live(t) /\ Live(u) /\ path[t] = path[u] =>
                /\ ~(Writer(t) /\ Writer(u))
                /\ Exclusion = "paths" /\ MountOf[t] = MountOf[u] =>
                        ~Writer(t) /\ ~Writer(u)
    <2>1. PICK k \in Kinds, p \in Paths :
            /\ Allowed(s, k, p)
            /\ kind' = [kind EXCEPT ![s] = k]
            /\ path' = [path EXCEPT ![s] = p]
      BY <1>1 DEF Begin
    <2>2. pc' = [pc EXCEPT ![s] = "access"]
      BY <1>1 DEF Begin, Request, Goto
    <2>3. ASSUME NEW t \in Sessions, NEW u \in Sessions, t # s, u # s PROVE Pair(t, u)'
      BY <2>1, <2>2, <2>3 DEF Apart, Live, Writer, TypeOK
    <2>4. ASSUME NEW u \in Sessions, u # s PROVE Pair(s, u)' /\ Pair(u, s)'
      <3>1. kind'[s] = k /\ kind'[u] = kind[u] /\ path'[s] = p /\ path'[u] = path[u]
        BY <2>1, <2>4 DEF TypeOK
      <3>2. pc'[u] = pc[u]
        BY <2>2, <2>4 DEF TypeOK
      <3>3. path[u] = p /\ Live(u) =>
                /\ Exclusion \in {"writers", "paths"} =>
                        ~(k \in Writing /\ kind[u] \in Writing)
                /\ Exclusion = "paths" /\ MountOf[u] = MountOf[s] =>
                        ~(k \in Writing \/ kind[u] \in Writing)
        BY <2>1, <2>4 DEF Allowed, Live
      <3>4. Exclusion \in {"writers", "paths"}
        BY DEF Disciplined
      <3> QED
        BY <3>1, <3>2, <3>3, <3>4 DEF Live, Writer
    <2>5. \A t, u \in Sessions : Pair(t, u)'
      BY <2>3, <2>4
    <2> QED
      BY <2>5 DEF Apart
  <1>2. CASE \A s \in Sessions : ~Begin(s)
    BY <1>2, OnlyBegin DEF Apart, Live, Writer
  <1> QED
    BY <1>1, <1>2

\* A handler that is running was running before, or has just been picked up.
LEMMA EnterHandler ==
    ASSUME TypeOK, [Next]_vars, NEW t \in Sessions, pc'[t] \in InHandler
    PROVE  \/ pc[t] \in InHandler
           \/ CanRun(t) /\ \A u \in Sessions : u # t => pc'[u] = pc[u]
  <1> USE DEF vars, fileVars, sessionVars, auxVars, InHandler, TypeOK, Goto, End, Request
  <1>1. ASSUME NEW s \in Sessions, Handler(s) PROVE pc[t] \in InHandler
    <2>1. CASE StartFetch(s) \/ FailFetch(s) \/ EndFetch(s) \/ BreakFetch(s)
      BY <2>1 DEF StartFetch, FailFetch, EndFetch, BreakFetch, FetchReturn
    <2>2. CASE Getattr(s) \/ Mknod(s) \/ MknodFails(s) \/ Xattr(s) \/ Open(s) \/ OpenFd(s) \/ Truncate(s)
      BY <2>2 DEF Getattr, Mknod, MknodFails, Xattr, Open, OpenFd, Truncate
    <2>3. CASE EndPut(s) \/ BreakPut(s)
      BY <2>3 DEF EndPut, BreakPut, PutReturn
    <2> QED
      BY <1>1, <2>1, <2>2, <2>3 DEF Handler
  <1>2. ASSUME NEW s \in Sessions, Pickup(s)
        PROVE  \/ pc[t] \in InHandler
               \/ CanRun(t) /\ \A u \in Sessions : u # t => pc'[u] = pc[u]
    BY <1>2 DEF Pickup, EnsureLocalFile, StartPut, FailPut, ReleaseReader, PutReturn
  <1>3. ASSUME NEW s \in Sessions, Application(s) PROVE pc[t] \in InHandler
    BY <1>3 DEF Application, Begin, Write, Ftruncate, ChangeOpenFile, Fsync, Close
  <1>4. ASSUME NEW m \in Mounts, NEW p \in Paths, Evict(m, p) \/ Remount(m)
        PROVE  pc[t] \in InHandler
    BY <1>4 DEF Evict, Remount
  <1>5. CASE UNCHANGED vars
    BY <1>5
  <1> QED
    BY <1>1, <1>2, <1>3, <1>4, <1>5, ConstantsAssumption DEF Next, Terminated

LEMMA SerialStep == TypeOK /\ Serial /\ [Next]_vars => Serial'
  BY EnterHandler DEF Serial, CanRun

LEMMA RolesStep == TypeOK /\ Roles /\ [Next]_vars => Roles'
  <1> SUFFICES ASSUME TypeOK, Roles, [Next]_vars PROVE Roles'
    OBVIOUS
  <1> USE DEF vars, fileVars, sessionVars, auxVars, Roles, Writer, Ended, TypeOK, Goto, End, Request
  <1>1. ASSUME NEW s \in Sessions, Handler(s) PROVE Roles'
    <2>1. CASE StartFetch(s) \/ FailFetch(s) \/ EndFetch(s) \/ BreakFetch(s)
      BY <2>1 DEF StartFetch, FailFetch, EndFetch, BreakFetch, FetchReturn
    <2>2. CASE Getattr(s) \/ Mknod(s) \/ MknodFails(s) \/ Xattr(s) \/ Open(s) \/ OpenFd(s) \/ Truncate(s)
      BY <2>2 DEF Getattr, Mknod, MknodFails, Xattr, Open, OpenFd, Truncate
    <2>3. CASE EndPut(s) \/ BreakPut(s)
      BY <2>3 DEF EndPut, BreakPut, PutReturn
    <2> QED
      BY <1>1, <2>1, <2>2, <2>3 DEF Handler
  <1>2. ASSUME NEW s \in Sessions, Pickup(s) PROVE Roles'
    BY <1>2 DEF Pickup, EnsureLocalFile, StartPut, FailPut, ReleaseReader, PutReturn
  <1>3. ASSUME NEW s \in Sessions, Application(s) PROVE Roles'
    BY <1>3 DEF Application, Begin, Write, Ftruncate, ChangeOpenFile, Fsync, Close
  <1>4. ASSUME NEW m \in Mounts, NEW p \in Paths, Evict(m, p) \/ Remount(m) PROVE Roles'
    BY <1>4 DEF Evict, Remount
  <1>5. CASE UNCHANGED vars
    BY <1>5
  <1> QED
    BY <1>1, <1>2, <1>3, <1>4, <1>5, ConstantsAssumption DEF Next, Terminated

\* Two sessions a writer cannot share its path with: another writer, and on
\* its mount, while it is inside a handler, anyone else inside one.
LEMMA Separate ==
    ASSUME Disciplined, TypeOK, Apart, Serial,
           NEW s \in Sessions, NEW t \in Sessions, s # t,
           path[s] = path[t], Writer(s), Live(s), Live(t)
    PROVE  /\ ~Writer(t)
           /\ MountOf[s] = MountOf[t] => ~(pc[s] \in InHandler /\ pc[t] \in InHandler)
           /\ MountOf[s] = MountOf[t] => ~(CanRun(t) /\ pc[s] \in InHandler)
  BY DEF Disciplined, Apart, Serial, CanRun

-------------------------------------------------------------------------------
(* What files and transfers hold *)

LEMMA ObservedMade ==
    ASSUME TypeOK, Made, NEW s \in Sessions
    PROVE  /\ Local(s) # Absent => \A f \in LocalReads(s) : "made" \in f
           /\ Remote(s) # Absent => \A f \in RemoteReads(s) : "made" \in f
  <1>1. Local(s) # Absent => "made" \in Local(s)
    BY FilesOf DEF Made, Local, TypeOK
  <1>2. Remote(s) # Absent => "made" \in Remote(s)
    BY DEF Made, Remote, TypeOK
  <1>3. \A t \in Fetching(MountOf[s], path[s]) \cup Uploading(path[s]) : "made" \in buf[t]
    BY DEF Made, Fetching, Uploading
  <1> QED
    BY <1>1, <1>2, <1>3 DEF LocalReads, RemoteReads, Observed, Torn

LEMMA LandedMade ==
    ASSUME NEW s \in Sessions, NEW a, "made" \in a, "made" \in buf[s]
    PROVE  \A f \in Landed(s, a) \cup Torn(a, buf[s]) : "made" \in f
  BY DEF Landed, Torn

\* The parts of Made that a change of cache, remote and buf can disturb.
LEMMA SetLocalMade ==
    ASSUME TypeOK, Made, NEW s \in Sessions, NEW f, "made" \in f, SetLocal(s, f)
    PROVE  /\ \A m \in Mounts, p \in Paths :
                /\ cache'[m][p] # Absent => "made" \in cache'[m][p]
                /\ cache[m][p] # Absent => cache'[m][p] # Absent
           /\ cache'[MountOf[s]][path[s]] # Absent
  BY ConstantsAssumption DEF SetLocal, Made, TypeOK, Absent

LEMMA SetRemoteMade ==
    ASSUME TypeOK, Made, NEW s \in Sessions, NEW f, "made" \in f, SetRemote(s, f)
    PROVE  /\ \A p \in Paths :
                /\ remote'[p] # Absent => "made" \in remote'[p]
                /\ remote[p] # Absent => remote'[p] # Absent
           /\ remote'[path[s]] # Absent
  BY DEF SetRemote, Made, TypeOK, Absent

\* Steps that move a session on and change no file and no transfer.
Quiet(s) ==
    \/ Begin(s) \/ EnsureLocalFile(s) \/ FailFetch(s) \/ Getattr(s) \/ MknodFails(s) \/ Xattr(s)
    \/ Open(s) \/ OpenFd(s) \/ Fsync(s) \/ Close(s) \/ ReleaseReader(s) \/ FailPut(s)

LEMMA QuietStep ==
    ASSUME TypeOK, Transport = "SCP", NEW s \in Sessions, Quiet(s)
    PROVE  /\ UNCHANGED <<remote, cache, buf, mixed, wrote, acked>>
           /\ \A t \in Sessions \ {s} :
                /\ pc'[t] = pc[t] /\ stale'[t] = stale[t]
                /\ path'[t] = path[t] /\ kind'[t] = kind[t]
           /\ \/ path' = path /\ kind' = kind
              \/ pc[s] = "new" /\ pc'[s] = "access"
           /\ pc[s] \notin {"got", "forced", "putting"} \cup Ended
           /\ pc'[s] \notin {"got", "forced", "putting"}
  <1> USE DEF vars, fileVars, sessionVars, auxVars, TypeOK, Goto, End, Request, Ended
  <1>1. CASE Begin(s)
    BY <1>1 DEF Begin
  <1>2. CASE EnsureLocalFile(s) \/ FailFetch(s) \/ Getattr(s)
    BY <1>2 DEF EnsureLocalFile, FailFetch, FailedDestination, FetchReturn, Getattr
  <1>3. CASE MknodFails(s) \/ Xattr(s) \/ Open(s) \/ OpenFd(s)
    BY <1>3 DEF MknodFails, Xattr, Open, OpenFd
  <1>4. CASE Fsync(s) \/ Close(s) \/ ReleaseReader(s) \/ FailPut(s)
    BY <1>4 DEF Fsync, Close, ReleaseReader, FailPut, PutReturn
  <1> QED
    BY <1>1, <1>2, <1>3, <1>4 DEF Quiet

\* Every step is one of these.
LEMMA Steps ==
    ASSUME [Next]_vars
    PROVE  \/ \E s \in Sessions :
                \/ Quiet(s) \/ StartFetch(s) \/ EndFetch(s) \/ BreakFetch(s) \/ Mknod(s)
                \/ Truncate(s) \/ ChangeOpenFile(s) \/ StartPut(s) \/ EndPut(s) \/ BreakPut(s)
           \/ \E m \in Mounts, p \in Paths : Evict(m, p)
           \/ \E m \in Mounts : Remount(m)
           \/ UNCHANGED vars
  BY DEF Next, Handler, Pickup, Application, Write, Ftruncate, Terminated, Quiet

\* What the steps that change a cache file put there has been made.
CacheWriter(s) ==
    StartFetch(s) \/ EndFetch(s) \/ BreakFetch(s) \/ Mknod(s) \/ Truncate(s) \/ ChangeOpenFile(s)

LEMMA CacheStep ==
    ASSUME Transport = "SCP", TypeOK, Made, WritersHaveCopy, NEW s \in Sessions, CacheWriter(s)
    PROVE  (\E f : "made" \in f /\ SetLocal(s, f)) \/ UNCHANGED <<cache, mixed>>
  <1>0. "made" \in Empty
    BY DEF Empty
  <1>1. CASE StartFetch(s) \/ Mknod(s)
    BY <1>0, <1>1 DEF StartFetch, OpenDestination, Mknod
  <1>2. CASE EndFetch(s) \/ BreakFetch(s)
    <2>1. "made" \in Local(s) /\ "made" \in buf[s]
      BY <1>2, FilesOf DEF EndFetch, BreakFetch, Made, Local, TypeOK
    <2> QED
      BY <1>2, <2>1, LandedMade DEF EndFetch, BreakFetch
  <1>3. CASE Truncate(s)
    BY <1>3, FilesOf DEF Truncate, Made, Local, TypeOK
  <1>4. CASE ChangeOpenFile(s)
    <2>1. Local(s) # Absent
      BY <1>4 DEF ChangeOpenFile, WritersHaveCopy, Writer
    <2> QED
      BY <1>4, <2>1, FilesOf DEF ChangeOpenFile, Made, Local, TypeOK
  <1> QED
    BY <1>1, <1>2, <1>3, <1>4 DEF CacheWriter

LEMMA CopiesStay ==
    ASSUME Transport = "SCP", TypeOK, Made, WritersHaveCopy, NEW s \in Sessions, CacheWriter(s)
    PROVE  \A m \in Mounts, p \in Paths :
                /\ cache'[m][p] # Absent => "made" \in cache'[m][p]
                /\ cache[m][p] # Absent => cache'[m][p] # Absent
  BY CacheStep, SetLocalMade DEF Made

LEMMA MadeStep == Disciplined /\ TypeOK /\ Made /\ WritersHaveCopy /\ [Next]_vars => Made'
  <1> SUFFICES ASSUME Disciplined, TypeOK, Made, WritersHaveCopy, [Next]_vars PROVE Made'
    OBVIOUS
  <1> USE DEF vars, fileVars, sessionVars, auxVars
  <1>0. Transport = "SCP" /\ "made" \in Empty /\ Empty # Absent
    BY DEF Disciplined, Empty, Absent
  <1>1. ASSUME NEW s \in Sessions, StartFetch(s) PROVE Made'
    <2>1. \A m \in Mounts, p \in Paths :
            /\ cache'[m][p] # Absent => "made" \in cache'[m][p]
            /\ cache[m][p] # Absent => cache'[m][p] # Absent
      BY <1>0, <1>1, CopiesStay DEF CacheWriter
    <2>2. cache'[MountOf[s]][path[s]] # Absent
      BY <1>0, <1>1, SetLocalMade DEF StartFetch, OpenDestination, Local
    <2>3. PICK f \in RemoteReads(s) : buf' = [buf EXCEPT ![s] = f]
      BY <1>1 DEF StartFetch
    <2>4. "made" \in f
      BY <1>1, ObservedMade DEF StartFetch
    <2>5. /\ remote' = remote /\ path' = path
          /\ pc' = [pc EXCEPT ![s] = IF pc[s] = "get" THEN "got" ELSE "forced"]
      BY <1>1 DEF StartFetch, Goto
    <2> QED
      BY <2>1, <2>2, <2>3, <2>4, <2>5, ConstantsAssumption DEF Made, Local, Remote, TypeOK
  <1>2. ASSUME NEW s \in Sessions, EndFetch(s) \/ BreakFetch(s) PROVE Made'
    <2>1. /\ remote' = remote /\ path' = path /\ buf' = [buf EXCEPT ![s] = Absent]
          /\ pc' = [pc EXCEPT ![s] = pc'[s]]
          /\ pc'[s] \in {"found", "missing", "fd"}
      BY <1>2 DEF EndFetch, BreakFetch, FetchReturn, Goto, TypeOK
    <2> QED
      BY <1>0, <1>2, <2>1, CopiesStay, ConstantsAssumption
      DEF CacheWriter, Made, Local, Remote, TypeOK
  <1>3. ASSUME NEW s \in Sessions, Mknod(s) \/ Truncate(s) \/ ChangeOpenFile(s) PROVE Made'
    <2>1. /\ remote' = remote /\ path' = path /\ buf' = buf
          /\ pc' = [pc EXCEPT ![s] = pc'[s]]
          /\ pc'[s] \notin {"got", "forced", "putting"}
      BY <1>3 DEF Mknod, Truncate, ChangeOpenFile, Request, End, Goto, TypeOK
    <2> QED
      BY <1>0, <1>3, <2>1, CopiesStay, ConstantsAssumption
      DEF CacheWriter, Made, Local, Remote, TypeOK
  <1>4. ASSUME NEW s \in Sessions, StartPut(s) PROVE Made'
    <2>1. /\ \A p \in Paths :
                /\ remote'[p] # Absent => "made" \in remote'[p]
                /\ remote[p] # Absent => remote'[p] # Absent
          /\ remote'[path[s]] # Absent
      BY <1>0, <1>4, SetRemoteMade DEF StartPut, Made, Remote
    <2>2. PICK f \in LocalReads(s) : buf' = [buf EXCEPT ![s] = f]
      BY <1>0, <1>4 DEF StartPut
    <2>3. "made" \in f
      BY <1>0, <1>4, ObservedMade DEF StartPut
    <2>4. cache' = cache /\ path' = path /\ pc' = [pc EXCEPT ![s] = "putting"]
      BY <1>4 DEF StartPut, Goto
    <2> QED
      BY <2>1, <2>2, <2>3, <2>4, ConstantsAssumption DEF Made, Local, Remote, TypeOK
  <1>5. ASSUME NEW s \in Sessions, EndPut(s) \/ BreakPut(s) PROVE Made'
    <2>1. "made" \in Remote(s) /\ "made" \in buf[s]
      BY <1>5, FilesOf DEF EndPut, BreakPut, Made, Remote, TypeOK
    <2>2. PICK f : "made" \in f /\ SetRemote(s, f)
      BY <1>5, <2>1, LandedMade DEF EndPut, BreakPut
    <2>3. /\ cache' = cache /\ path' = path /\ buf' = [buf EXCEPT ![s] = Absent]
          /\ pc' = [pc EXCEPT ![s] = pc'[s]]
          /\ pc'[s] \in {"opened"} \cup Ended
      BY <1>5 DEF EndPut, BreakPut, PutReturn, Goto, TypeOK, Ended
    <2> QED
      BY <2>2, <2>3, SetRemoteMade, ConstantsAssumption DEF Made, Local, Remote, TypeOK, Ended
  <1>6. ASSUME NEW s \in Sessions, Quiet(s) PROVE Made'
    BY <1>0, <1>6, QuietStep DEF Made, Local, Remote
  <1>7. ASSUME NEW m \in Mounts, NEW p \in Paths, Evict(m, p) PROVE Made'
    BY <1>7, ConstantsAssumption DEF Evict, Made, Local, Remote, TypeOK
  <1>8. ASSUME NEW m \in Mounts, Remount(m) PROVE Made'
    BY <1>8, ConstantsAssumption DEF Remount, Made, Local, Remote, TypeOK
  <1>9. CASE UNCHANGED vars
    BY <1>9 DEF Made, Local, Remote
  <1> QED
    BY <1>1, <1>2, <1>3, <1>4, <1>5, <1>6, <1>7, <1>8, <1>9, Steps

-------------------------------------------------------------------------------
(* A writer and its copy *)

LEMMA WritersHaveCopyStep ==
    Disciplined /\ TypeOK /\ Made /\ WritersHaveCopy /\ [Next]_vars => WritersHaveCopy'
  <1> SUFFICES ASSUME Disciplined, TypeOK, Made, WritersHaveCopy, [Next]_vars
               PROVE  WritersHaveCopy'
    OBVIOUS
  <1> USE DEF vars, fileVars, sessionVars, auxVars
  <1>0. Transport = "SCP"
    BY DEF Disciplined
  <1>1. ASSUME NEW s \in Sessions, CacheWriter(s) PROVE WritersHaveCopy'
    <2>1. /\ path' = path /\ kind' = kind
          /\ \A t \in Sessions : pc'[t] \in {"opened", "put", "putting"} => pc'[t] = pc[t]
      BY <1>1 DEF CacheWriter, StartFetch, EndFetch, BreakFetch, FetchReturn, Mknod, Truncate,
                  ChangeOpenFile, Request, End, Goto, TypeOK
    <2> QED
      BY <1>0, <1>1, <2>1, CopiesStay, ConstantsAssumption
      DEF WritersHaveCopy, Writer, Local, TypeOK
  <1>2. ASSUME NEW s \in Sessions, Quiet(s) PROVE WritersHaveCopy'
    <2>1. pc'[s] \in {"opened", "put", "putting"} =>
            (pc[s] = "fd" /\ Local(s) # Absent) \/ pc[s] \in {"opened", "put"}
      BY <1>2 DEF Quiet, Begin, EnsureLocalFile, FailFetch, FetchReturn, Getattr, MknodFails, Xattr,
                  Open, OpenFd, Fsync, Close, ReleaseReader, FailPut, PutReturn,
                  Request, End, Goto, TypeOK
    <2> QED
      BY <1>0, <1>2, <2>1, QuietStep DEF WritersHaveCopy, Writer, Local
  <1>3. ASSUME NEW s \in Sessions, StartPut(s) \/ EndPut(s) \/ BreakPut(s)
        PROVE  WritersHaveCopy'
    BY <1>3 DEF StartPut, EndPut, BreakPut, PutReturn, Goto, TypeOK, WritersHaveCopy, Writer, Local
  <1>4. ASSUME NEW m \in Mounts, NEW p \in Paths, Evict(m, p) PROVE WritersHaveCopy'
    BY <1>4, ConstantsAssumption DEF Evict, WritersHaveCopy, Writer, Local, TypeOK
  <1>5. ASSUME NEW m \in Mounts, Remount(m) PROVE WritersHaveCopy'
    BY <1>5, ConstantsAssumption DEF Remount, WritersHaveCopy, Writer, Local, TypeOK
  <1>6. CASE UNCHANGED vars
    BY <1>6 DEF WritersHaveCopy, Writer, Local
  <1> QED
    BY <1>1, <1>2, <1>3, <1>4, <1>5, <1>6, Steps DEF CacheWriter

\* A session that starts to fetch finds nothing in the cache, and none is
\* fetching for it yet; one that forces its copy is a writer inside a handler.
LEMMA NoFetchUnderWriterStep ==
    /\ Disciplined /\ TypeOK /\ Roles /\ Apart /\ Serial /\ WritersHaveCopy
    /\ NoFetchUnderWriter /\ [Next]_vars
    => NoFetchUnderWriter'
  <1> SUFFICES ASSUME Disciplined, TypeOK, Roles, Apart, Serial, WritersHaveCopy,
                      NoFetchUnderWriter, [Next]_vars,
                      NEW s \in Sessions, NEW t \in Sessions, s # t,
                      SameCopy(s, t)', HasForced(s)', pc'[t] \in {"get", "got"}
               PROVE  FALSE
    BY DEF NoFetchUnderWriter
  <1> USE DEF vars, fileVars, sessionVars, auxVars
  <1>1. path'[s] = path[s] /\ path'[t] = path[t] /\ kind'[s] = kind[s]
    <2>1. ASSUME NEW u \in Sessions, Begin(u) PROVE u # s /\ u # t
      BY <2>1 DEF Begin, Request, Goto, HasForced, TypeOK
    <2>2. ASSUME NEW u \in Sessions, Begin(u)
          PROVE  path'[s] = path[s] /\ path'[t] = path[t] /\ kind'[s] = kind[s]
      BY <2>1, <2>2 DEF Begin, TypeOK
    <2> QED
      BY <2>2, OnlyBegin
  <1>2. ASSUME NEW u \in Sessions, u # s, pc'[u] \in {"get", "got"}
        PROVE  \/ pc[u] \in {"get", "got"}
               \/ Local(u) = Absent /\ CanRun(u) /\ Live(u) /\ pc'[s] = pc[s]
    <2>1. ASSUME NEW v \in Sessions, CacheWriter(v) PROVE pc[u] \in {"get", "got"}
      BY <1>2, <2>1 DEF CacheWriter, StartFetch, EndFetch, BreakFetch, FetchReturn, Mknod,
                        Truncate, ChangeOpenFile, Request, End, Goto, TypeOK
    <2>2. ASSUME NEW v \in Sessions, Quiet(v), ~EnsureLocalFile(v) PROVE pc[u] \in {"get", "got"}
      BY <1>2, <2>2 DEF Quiet, Begin, FailFetch, FetchReturn, Getattr, MknodFails, Xattr, Open, OpenFd,
                        Fsync, Close, ReleaseReader, FailPut, PutReturn, Request, End, Goto, TypeOK
    <2>3. ASSUME NEW v \in Sessions, EnsureLocalFile(v)
          PROVE  \/ pc[u] \in {"get", "got"}
                 \/ Local(u) = Absent /\ CanRun(u) /\ Live(u) /\ pc'[s] = pc[s]
      BY <1>2, <2>3 DEF EnsureLocalFile, Goto, Live, Ended, TypeOK
    <2>4. ASSUME NEW v \in Sessions, StartPut(v) \/ EndPut(v) \/ BreakPut(v)
          PROVE  pc[u] \in {"get", "got"}
      BY <1>2, <2>4 DEF StartPut, EndPut, BreakPut, PutReturn, Goto, TypeOK
    <2>5. ASSUME NEW m \in Mounts, NEW p \in Paths, Evict(m, p) \/ Remount(m)
          PROVE  pc[u] \in {"get", "got"}
      BY <1>2, <2>5 DEF Evict, Remount
    <2>6. CASE UNCHANGED vars
      BY <1>2, <2>6
    <2> QED
      BY <2>1, <2>2, <2>3, <2>4, <2>5, <2>6, Steps, ConstantsAssumption DEF CacheWriter
  <1>3. HasForced(s) \/ (pc[s] = "force" /\ Writer(s) /\ pc'[t] = pc[t])
    <2>0. Writer(s) /\ pc'[s] \in {"forced", "fd", "opened", "put", "putting"}
      BY <1>1 DEF HasForced, Writer
    <2>1. ASSUME NEW v \in Sessions, CacheWriter(v)
          PROVE  HasForced(s) \/ (pc[s] = "force" /\ pc'[t] = pc[t])
      BY <2>0, <2>1 DEF CacheWriter, StartFetch, EndFetch, BreakFetch, FetchReturn, Mknod,
                        Truncate, ChangeOpenFile, Request, End, Goto, TypeOK, HasForced
    <2>2. ASSUME NEW v \in Sessions, Quiet(v), ~Open(v)
          PROVE  HasForced(s) \/ (pc[s] = "force" /\ pc'[t] = pc[t])
      BY <2>0, <2>2 DEF Quiet, Begin, EnsureLocalFile, FailFetch, FetchReturn, Getattr, MknodFails, Xattr,
                        OpenFd, Fsync, Close, ReleaseReader, FailPut, PutReturn,
                        Request, End, Goto, TypeOK, HasForced
    <2>3. ASSUME NEW v \in Sessions, Open(v) PROVE HasForced(s)
      BY <2>0, <2>3 DEF Open, Goto, TypeOK, HasForced, Writer
    <2>4. ASSUME NEW v \in Sessions, StartPut(v) \/ EndPut(v) \/ BreakPut(v) PROVE HasForced(s)
      BY <2>0, <2>4 DEF StartPut, EndPut, BreakPut, PutReturn, Goto, TypeOK, HasForced
    <2>5. ASSUME NEW m \in Mounts, NEW p \in Paths, Evict(m, p) \/ Remount(m) PROVE HasForced(s)
      BY <2>0, <2>5 DEF Evict, Remount, HasForced
    <2>6. CASE UNCHANGED vars
      BY <2>0, <2>6 DEF HasForced
    <2> QED
      BY <2>0, <2>1, <2>2, <2>3, <2>4, <2>5, <2>6, Steps, ConstantsAssumption DEF CacheWriter
  <1>4. SameCopy(s, t)
    BY <1>1 DEF SameCopy
  <1>5. CASE pc[t] \in {"get", "got"}
    BY <1>3, <1>4, <1>5, Separate
    DEF NoFetchUnderWriter, HasForced, SameCopy, Live, Ended, InHandler
  <1>6. CASE Local(t) = Absent /\ CanRun(t) /\ Live(t) /\ pc'[s] = pc[s]
    <2>1. HasForced(s)
      BY <1>3, <1>6 DEF HasForced
    <2>2. Live(s) /\ Writer(s)
      BY <2>1 DEF HasForced, Live, Ended
    <2>3. pc[s] \notin InHandler
      BY <1>4, <1>6, <2>2, Separate DEF SameCopy
    <2>4. Local(s) = Absent
      BY <1>4, <1>6 DEF SameCopy, Local
    <2> QED
      BY <2>1, <2>3, <2>4 DEF HasForced, InHandler, WritersHaveCopy
  <1> QED
    BY <1>2, <1>5, <1>6

LEMMA UnmixedStep ==
    /\ Disciplined /\ TypeOK /\ Made /\ Roles /\ Apart /\ Serial /\ WritersHaveCopy
    /\ Unmixed /\ [Next]_vars
    => Unmixed'
  <1> SUFFICES ASSUME Disciplined, TypeOK, Made, Roles, Apart, Serial, WritersHaveCopy,
                      Unmixed, [Next]_vars
               PROVE  Unmixed'
    OBVIOUS
  <1> USE DEF vars, fileVars, sessionVars, auxVars
  <1>0. Transport = "SCP"
    BY DEF Disciplined
  <1>1. ASSUME NEW v \in Sessions, CacheWriter(v) PROVE Unmixed'
    <2>1. /\ \A u \in Sessions \ {v} : pc'[u] = pc[u]
          /\ Live(v) /\ (pc[v] \in InHandler \/ Writer(v))
      BY <1>1 DEF CacheWriter, StartFetch, EndFetch, BreakFetch, FetchReturn, Mknod, Truncate,
                  ChangeOpenFile, Request, End, Goto, TypeOK, Live, Ended, InHandler, Writer
    <2>2. ~mixed'[v]
      BY <1>0, <1>1 DEF CacheWriter, StartFetch, OpenDestination, EndFetch, BreakFetch, Mknod,
                        Truncate, ChangeOpenFile, SetLocal, Unmixed
    <2>3. ASSUME NEW u \in Sessions, u # v, mixed'[u] PROVE pc'[u] = "got"
      <3>1. mixed[u] \/ u \in Fetching(MountOf[v], path[v])
        BY <1>0, <1>1, <2>3, CacheStep DEF SetLocal
      <3>2. CASE u \in Fetching(MountOf[v], path[v]) /\ pc[u] = "forced"
        <4>1. Writer(u) /\ Live(u) /\ pc[u] \in InHandler
          BY <3>2 DEF Roles, Live, Ended, InHandler
        <4>2. MountOf[u] = MountOf[v] /\ path[u] = path[v]
          BY <3>2 DEF Fetching
        <4> QED
          BY <2>1, <2>3, <4>1, <4>2, Separate
      <3> QED
        BY <2>1, <2>3, <3>1, <3>2 DEF Fetching, Unmixed
    <2> QED
      BY <2>2, <2>3 DEF Unmixed
  <1>2. ASSUME NEW v \in Sessions, StartPut(v) \/ EndPut(v) \/ BreakPut(v) PROVE Unmixed'
    <2>1. /\ \A u \in Sessions \ {v} : pc'[u] = pc[u]
          /\ Live(v) /\ Writer(v)
      BY <1>2 DEF StartPut, EndPut, BreakPut, PutReturn, Goto, TypeOK, Live, Ended, Roles
    <2>2. ~mixed'[v]
      BY <1>2 DEF StartPut, EndPut, BreakPut, SetRemote, Unmixed
    <2>3. ASSUME NEW u \in Sessions, u # v, mixed'[u] PROVE pc'[u] = "got"
      <3>1. mixed[u] \/ u \in Uploading(path[v])
        BY <1>2, <2>3 DEF StartPut, EndPut, BreakPut, SetRemote
      <3>2. u \notin Uploading(path[v])
        <4>1. u \in Uploading(path[v]) => path[u] = path[v] /\ Writer(u) /\ Live(u)
          BY DEF Uploading, Roles, Live, Ended
        <4> QED
          BY <2>1, <2>3, <4>1, Separate
      <3> QED
        BY <2>1, <2>3, <3>1, <3>2 DEF Unmixed
    <2> QED
      BY <2>2, <2>3 DEF Unmixed
  <1>3. ASSUME NEW s \in Sessions, Quiet(s) PROVE Unmixed'
    BY <1>0, <1>3, QuietStep DEF Unmixed
  <1>4. ASSUME NEW m \in Mounts, NEW p \in Paths, Evict(m, p) \/ Remount(m) PROVE Unmixed'
    BY <1>4 DEF Evict, Remount, Unmixed
  <1>5. CASE UNCHANGED vars
    BY <1>5 DEF Unmixed
  <1> QED
    BY <1>1, <1>2, <1>3, <1>4, <1>5, Steps, ConstantsAssumption DEF CacheWriter

\* The other sessions leave the file of a writer alone: none changes the remote
\* file, and what one does to the cache (a truncation) undoes nothing.
LEMMA OthersKeepCopy ==
    ASSUME Disciplined, TypeOK, Made, Roles, Apart, Serial, NoFetchUnderWriter, WritersHaveCopy,
           NEW s \in Sessions, HasForced(s), NEW v \in Sessions, v # s, CacheWriter(v)
    PROVE  /\ remote' = remote /\ path' = path /\ kind' = kind
           /\ pc'[s] = pc[s] /\ buf'[s] = buf[s]
           /\ stale'[s] = stale[s] /\ wrote'[s] = wrote[s]
           /\ pc[s] \in InHandler => Local(s)' = Local(s)
           /\ Local(s) \subseteq Local(s)'
           /\ Local(s)' = Local(s) \/ Truncate(v)
  <1> USE DEF vars, fileVars, sessionVars, auxVars
  <1>0. Transport = "SCP"
    BY DEF Disciplined
  <1>1. /\ remote' = remote /\ path' = path /\ kind' = kind
        /\ pc'[s] = pc[s] /\ buf'[s] = buf[s]
        /\ stale'[s] = stale[s] /\ wrote'[s] = wrote[s]
    BY DEF CacheWriter, StartFetch, EndFetch, BreakFetch, FetchReturn, Mknod, Truncate,
           ChangeOpenFile, Request, End, Goto, TypeOK
  <1>2. Live(v) /\ (pc[v] \in InHandler \/ Writer(v))
    BY DEF CacheWriter, StartFetch, EndFetch, BreakFetch, Mknod, Truncate, ChangeOpenFile,
           TypeOK, Live, Ended, InHandler, Writer
  <1>3. CASE ~SameCopy(s, v)
    <2>1. Local(s)' = Local(s)
      <3>1. (\E f : SetLocal(v, f)) \/ cache' = cache
        BY <1>0, CacheStep
      <3> QED
        BY <1>1, <1>3, <3>1, ConstantsAssumption DEF SetLocal, Local, SameCopy, TypeOK
    <2> QED
      BY <1>1, <2>1
  <1>4. CASE SameCopy(s, v)
    <2>1. Live(s) /\ Writer(s)
      BY DEF HasForced, Live, Ended
    <2>2. ~Writer(v) /\ pc[v] \in InHandler /\ pc[s] \notin InHandler
      BY <1>2, <1>4, <2>1, Separate DEF SameCopy
    <2>3. pc[v] \notin {"get", "got", "force", "forced"}
      BY <1>4, <2>2 DEF NoFetchUnderWriter, Roles
    <2>4. Local(v) # Absent
      BY <1>4, <2>2 DEF HasForced, InHandler, WritersHaveCopy, SameCopy, Local
    <2>5. Truncate(v)
      BY <2>2, <2>3, <2>4
      DEF CacheWriter, StartFetch, EndFetch, BreakFetch, Mknod, ChangeOpenFile, Writer
    <2>6. Local(s) \subseteq Local(s)'
      <3>1. SetLocal(v, Local(v) \cup {v}) \/ cache' = cache
        BY <2>5 DEF Truncate
      <3> QED
        BY <1>1, <1>4, <3>1, ConstantsAssumption DEF SetLocal, Local, SameCopy, TypeOK
    <2> QED
      BY <1>1, <2>2, <2>5, <2>6
  <1> QED
    BY <1>3, <1>4

LEMMA OthersKeepRemote ==
    ASSUME Disciplined, TypeOK, Roles, Apart, Serial,
           NEW s \in Sessions, HasForced(s), NEW v \in Sessions, v # s,
           StartPut(v) \/ EndPut(v) \/ BreakPut(v)
    PROVE  /\ cache' = cache /\ path' = path /\ kind' = kind
           /\ pc'[s] = pc[s] /\ buf'[s] = buf[s]
           /\ stale'[s] = stale[s] /\ wrote'[s] = wrote[s]
           /\ Remote(s)' = Remote(s)
  <1> USE DEF vars, fileVars, sessionVars, auxVars
  <1>1. /\ cache' = cache /\ path' = path /\ kind' = kind
        /\ pc'[s] = pc[s] /\ buf'[s] = buf[s]
        /\ stale'[s] = stale[s] /\ wrote'[s] = wrote[s]
    BY DEF StartPut, EndPut, BreakPut, PutReturn, Goto, TypeOK
  <1>2. Live(v) /\ Writer(v) /\ Live(s) /\ Writer(s)
    BY DEF StartPut, EndPut, BreakPut, Roles, Live, Ended, HasForced
  <1>3. path[v] # path[s]
    BY <1>2, Separate
  <1>4. (\E f : SetRemote(v, f)) \/ remote' = remote
    BY DEF StartPut, EndPut, BreakPut
  <1> QED
    BY <1>1, <1>3, <1>4 DEF SetRemote, Remote, TypeOK

\* What a writer reads when nobody else copies into the same file.
LEMMA WriterReads ==
    ASSUME Disciplined, TypeOK, Roles, Apart, Serial, NoFetchUnderWriter,
           NEW s \in Sessions, Writer(s)
    PROVE  /\ pc[s] = "force" => RemoteReads(s) = {Remote(s)}
           /\ pc[s] = "put" => LocalReads(s) = {Local(s)}
  <1>1. ASSUME pc[s] = "force" PROVE Uploading(path[s]) = {}
    BY <1>1, Separate DEF Uploading, Roles, Live, Ended
  <1>2. ASSUME pc[s] = "put" PROVE Fetching(MountOf[s], path[s]) = {}
    <2> SUFFICES ASSUME NEW t \in Sessions, t # s, SameCopy(s, t), pc[t] \in {"got", "forced"}
                 PROVE  FALSE
      BY <1>2 DEF Fetching, SameCopy
    <2>1. HasForced(s) /\ Live(s) /\ Live(t)
      BY <1>2 DEF HasForced, Live, Ended
    <2>2. pc[t] = "forced" /\ Writer(t)
      BY <2>1 DEF NoFetchUnderWriter, Roles
    <2> QED
      BY <2>1, <2>2, Separate DEF SameCopy
  <1> QED
    BY <1>1, <1>2 DEF RemoteReads, LocalReads, Observed

\* The own steps of a writer keep the remote file within what it carries.
LEMMA CarriesOwnSteps ==
    ASSUME Disciplined, TypeOK, Made, Roles, Apart, Serial, NoFetchUnderWriter, WritersHaveCopy,
           Unmixed, NEW s \in Sessions, Writer(s), ~stale'[s], ~stale[s], Carries(s),
           CacheWriter(s) \/ StartPut(s) \/ EndPut(s) \/ BreakPut(s)
    PROVE  Carries(s)'
  <1> USE DEF vars, fileVars, sessionVars, auxVars
  <1>0. /\ Transport = "SCP"
        /\ path' = path
        /\ MountOf[s] \in Mounts /\ path[s] \in Paths
    BY ConstantsAssumption DEF Disciplined, CacheWriter, StartFetch, EndFetch, BreakFetch, Mknod,
        Truncate, ChangeOpenFile, StartPut, EndPut, BreakPut, TypeOK
  <1>1. CASE StartFetch(s)
    <2>1. CASE pc[s] = "get"
      BY <1>1, <2>1 DEF StartFetch, Goto, TypeOK, Carries
    <2>2. CASE pc[s] = "force"
      <3>1. pc'[s] = "forced" /\ Remote(s)' = Remote(s) /\ buf'[s] = Remote(s)
        BY <1>1, <2>2, WriterReads DEF StartFetch, Goto, TypeOK, Remote
      <3> QED
        BY <3>1 DEF Carries
    <2> QED
      BY <1>1, <2>1, <2>2 DEF StartFetch
  <1>2. CASE EndFetch(s)
    <2>1. CASE pc[s] = "got"
      BY <1>2, <2>1 DEF EndFetch, FetchReturn, Goto, TypeOK, Carries
    <2>2. CASE pc[s] = "forced"
      <3>1. SetLocal(s, buf[s])
        BY <1>2, <2>2 DEF EndFetch, Landed, Unmixed
      <3>2. pc'[s] = "fd" /\ Remote(s)' = Remote(s) /\ Local(s)' = buf[s]
        BY <1>0, <1>2, <2>2, <3>1
        DEF EndFetch, FetchReturn, Goto, TypeOK, SetLocal, Local, Remote
      <3> QED
        BY <2>2, <3>2 DEF Carries
    <2> QED
      BY <1>2, <2>1, <2>2 DEF EndFetch
  <1>3. CASE BreakFetch(s)
    <2>1. CASE pc[s] = "got"
      BY <1>3, <2>1 DEF BreakFetch, FetchReturn, Goto, TypeOK, Carries
    <2>2. CASE pc[s] = "forced"
      <3>1. pc'[s] = "fd" /\ Remote(s)' = Remote(s) /\ Remote(s) = Absent
        BY <1>3, <2>2 DEF BreakFetch, FetchReturn, Goto, TypeOK, Remote
      <3> QED
        BY <3>1 DEF Carries, Absent
    <2> QED
      BY <1>3, <2>1, <2>2 DEF BreakFetch
  <1>4. CASE Mknod(s) \/ Truncate(s)
    BY <1>4 DEF Mknod, Truncate, Request, End, Goto, TypeOK, Carries
  <1>5. CASE ChangeOpenFile(s)
    <2>1. /\ pc[s] = "opened" /\ pc'[s] = "opened" /\ Remote(s)' = Remote(s)
          /\ Local(s)' = Local(s) \cup {s}
      BY <1>0, <1>5 DEF ChangeOpenFile, SetLocal, Local, Remote, TypeOK
    <2> QED
      BY <2>1 DEF Carries
  <1>6. CASE StartPut(s)
    <2>1. /\ pc[s] = "put" /\ pc'[s] = "putting" /\ Local(s)' = Local(s) /\ Local(s) # Absent
          /\ buf'[s] = Local(s)
      BY <1>0, <1>6, WriterReads DEF StartPut, Goto, TypeOK, Local
    <2>2. "made" \in Local(s)
      BY <1>0, <2>1 DEF Made, Local
    <2>3. Remote(s)' = Remote(s) \/ Remote(s)' = Empty
      BY <1>0, <1>6 DEF StartPut, SetRemote, Remote, TypeOK
    <2> QED
      BY <2>1, <2>2, <2>3 DEF Carries, Empty
  <1>7. CASE EndPut(s)
    <2>1. SetRemote(s, buf[s])
      BY <1>7 DEF EndPut, Landed, Unmixed
    <2>2. /\ pc[s] = "putting" /\ Local(s)' = Local(s) /\ Remote(s)' = buf[s]
          /\ pc'[s] \in {"opened"} \cup Ended
      BY <1>0, <1>7, <2>1 DEF EndPut, PutReturn, Goto, TypeOK, SetRemote, Local, Remote, Ended
    <2> QED
      BY <2>2 DEF Carries, Ended
  <1>8. CASE BreakPut(s)
    <2>1. PICK f \in Torn(Remote(s), buf[s]) : SetRemote(s, f)
      BY <1>8 DEF BreakPut
    <2>2. f \subseteq Remote(s) \cup buf[s]
      BY DEF Torn
    <2>3. /\ pc[s] = "putting" /\ Local(s)' = Local(s) /\ Remote(s)' = f
          /\ pc'[s] \in {"opened"} \cup Ended
      BY <1>0, <1>8, <2>1 DEF BreakPut, PutReturn, Goto, TypeOK, SetRemote, Local, Remote, Ended
    <2> QED
      BY <2>2, <2>3 DEF Carries, Ended
  <1> QED
    BY <1>1, <1>2, <1>3, <1>4, <1>5, <1>6, <1>7, <1>8 DEF CacheWriter

LEMMA CarriesRemoteStep ==
    /\ Disciplined /\ TypeOK /\ Made /\ Roles /\ Apart /\ Serial /\ NoFetchUnderWriter
    /\ WritersHaveCopy /\ Unmixed /\ CarriesRemote /\ [Next]_vars
    => CarriesRemote'
  <1> SUFFICES ASSUME Disciplined, TypeOK, Made, Roles, Apart, Serial, NoFetchUnderWriter,
                      WritersHaveCopy, Unmixed, CarriesRemote, [Next]_vars,
                      NEW s \in Sessions, Writer(s)', ~stale'[s]
               PROVE  Carries(s)'
    BY DEF CarriesRemote
  <1> USE DEF vars, fileVars, sessionVars, auxVars
  <1>0. Transport = "SCP" /\ MountOf[s] \in Mounts /\ path[s] \in Paths
    BY ConstantsAssumption DEF Disciplined, TypeOK
  <1>1. ASSUME NEW v \in Sessions,
               CacheWriter(v) \/ StartPut(v) \/ EndPut(v) \/ BreakPut(v)
        PROVE  Carries(s)'
    <2>1. Writer(s) /\ (~stale[s] \/ pc'[s] \notin {"forced", "fd", "opened", "put", "putting"})
      BY <1>1 DEF CacheWriter, StartFetch, EndFetch, BreakFetch, FetchReturn, Mknod, Truncate,
                  ChangeOpenFile, StartPut, EndPut, BreakPut, TypeOK, Writer
    <2>2. CASE v = s
      <3>1. CASE stale[s]
        BY <2>1, <3>1 DEF Carries
      <3>2. CASE ~stale[s]
        BY <1>1, <2>1, <2>2, <3>2, CarriesOwnSteps DEF CarriesRemote
      <3> QED
        BY <3>1, <3>2
    <2>3. CASE v # s /\ HasForced(s)
      <3>1. CASE CacheWriter(v)
        <4>1. /\ remote' = remote /\ path' = path /\ pc'[s] = pc[s] /\ buf'[s] = buf[s]
              /\ stale'[s] = stale[s]
              /\ pc[s] \in InHandler => Local(s)' = Local(s)
              /\ Local(s) \subseteq Local(s)'
          BY <2>3, <3>1, OthersKeepCopy
        <4> QED
          BY <2>1, <4>1 DEF CarriesRemote, Carries, Remote, InHandler
      <3>2. CASE StartPut(v) \/ EndPut(v) \/ BreakPut(v)
        <4>1. /\ cache' = cache /\ path' = path /\ pc'[s] = pc[s] /\ buf'[s] = buf[s]
              /\ stale'[s] = stale[s] /\ Remote(s)' = Remote(s)
          BY <2>3, <3>2, OthersKeepRemote
        <4> QED
          BY <2>1, <4>1 DEF CarriesRemote, Carries, Local
      <3> QED
        BY <1>1, <3>1, <3>2
    <2>4. CASE v # s /\ ~HasForced(s)
      <3>1. pc'[s] = pc[s]
        BY <1>1, <2>4 DEF CacheWriter, StartFetch, EndFetch, BreakFetch, FetchReturn, Mknod,
            Truncate, ChangeOpenFile, StartPut, EndPut, BreakPut, PutReturn,
            Request, End, Goto, TypeOK
      <3> QED
        BY <2>1, <2>4, <3>1 DEF HasForced, Carries
    <2> QED
      BY <2>2, <2>3, <2>4
  <1>2. ASSUME NEW v \in Sessions, Quiet(v) PROVE Carries(s)'
    <2>1. CASE v # s
      BY <1>0, <1>2, <2>1, QuietStep DEF CarriesRemote, Carries, Local, Remote, Writer
    <2>2. CASE v = s
      <3>1. UNCHANGED <<remote, cache, buf>>
        BY <1>0, <1>2, QuietStep
      <3>2. CASE FailFetch(s)
        <4>1. path'[s] = path[s] /\ pc'[s] = "fd" => Remote(s) = Absent
          BY <3>2 DEF FailFetch, FetchReturn, Goto, TypeOK
        <4>2. path'[s] = path[s] /\ pc'[s] \in {"found", "missing", "fd"}
          BY <3>2 DEF FailFetch, FetchReturn, Goto, TypeOK
        <4> QED
          BY <3>1, <4>1, <4>2 DEF Carries, Remote, Absent
      <3>3. CASE OpenFd(s)
        <4>1. /\ pc[s] = "fd" /\ pc'[s] \in {"opened", "done"} /\ path' = path
              /\ pc'[s] = "opened" => Local(s) # Absent
              /\ ~stale[s] /\ Writer(s)
          BY <3>3 DEF OpenFd, Goto, TypeOK, Writer
        <4> QED
          BY <3>1, <4>1 DEF CarriesRemote, Carries, Local, Remote
      <3>4. CASE Fsync(s) \/ Close(s) \/ FailPut(s)
        <4>1. /\ pc[s] \in {"opened", "put"} /\ path' = path /\ ~stale[s] /\ Writer(s)
              /\ pc'[s] \in {"opened", "put", "close", "done", "leaked"}
          BY <3>4 DEF Fsync, Close, FailPut, PutReturn, Goto, TypeOK, Writer
        <4> QED
          BY <3>1, <4>1 DEF CarriesRemote, Carries, Local, Remote
      <3>5. CASE Begin(s) \/ EnsureLocalFile(s) \/ Getattr(s) \/ MknodFails(s) \/ Xattr(s) \/ Open(s)
                    \/ ReleaseReader(s)
        <4>1. pc'[s] \notin {"forced", "fd", "opened", "put", "putting"}
          BY <3>5 DEF Begin, EnsureLocalFile, Getattr, MknodFails, Xattr, Open, ReleaseReader,
                      Request, End, Goto, TypeOK, Writer
        <4> QED
          BY <4>1 DEF Carries
      <3> QED
        BY <1>2, <2>2, <3>2, <3>3, <3>4, <3>5 DEF Quiet
    <2> QED
      BY <2>1, <2>2
  <1>3. ASSUME NEW m \in Mounts, NEW p \in Paths, Evict(m, p) PROVE Carries(s)'
    <2>1. /\ Remote(s)' = Remote(s) /\ pc'[s] = pc[s] /\ buf'[s] = buf[s]
          /\ Carries(s)
      BY <1>3 DEF Evict, CarriesRemote, Remote, Writer
    <2>2. /\ Local(s)' = Local(s) \/ Local(s)' = Absent
          /\ pc[s] \in {"opened", "put", "putting"} => Local(s)' = Local(s)
      BY <1>0, <1>3 DEF Evict, Local, TypeOK
    <2> QED
      BY <2>1, <2>2 DEF Carries
  <1>4. ASSUME NEW m \in Mounts, Remount(m) PROVE Carries(s)'
    <2>1. CASE pc'[s] \in {"new", "done"}
      BY <2>1 DEF Carries
    <2>2. CASE MountOf[s] # m
      <3>1. /\ Remote(s)' = Remote(s) /\ pc'[s] = pc[s] /\ buf'[s] = buf[s]
            /\ Local(s)' = Local(s) /\ Carries(s)
        BY <1>0, <1>4, <2>2 DEF Remount, CarriesRemote, Remote, Local, Writer, TypeOK
      <3> QED
        BY <3>1 DEF Carries
    <2>3. MountOf[s] = m => pc'[s] \in {"new", "done"}
      BY <1>4 DEF Remount
    <2> QED
      BY <2>1, <2>2, <2>3
  <1>5. CASE UNCHANGED vars
    BY <1>5 DEF CarriesRemote, Carries, Local, Remote, Writer
  <1> QED
    BY <1>1, <1>2, <1>3, <1>4, <1>5, Steps DEF CacheWriter

LEMMA CarriesOwnStep ==
    /\ Disciplined /\ TypeOK /\ Made /\ Roles /\ Apart /\ Serial /\ NoFetchUnderWriter
    /\ WritersHaveCopy /\ CarriesOwn /\ [Next]_vars
    => CarriesOwn'
  <1> DEFINE Own(s) ==
        /\ Writer(s) /\ pc[s] \in {"opened", "put", "putting"} \cup Ended
        /\ pc[s] \in {"opened", "put", "putting"} => s \in Local(s)
        /\ pc[s] = "putting" => s \in buf[s]
  <1> SUFFICES ASSUME Disciplined, TypeOK, Made, Roles, Apart, Serial, NoFetchUnderWriter,
                      WritersHaveCopy, CarriesOwn, [Next]_vars,
                      NEW s \in Sessions, wrote'[s]
               PROVE  Own(s)'
    BY DEF CarriesOwn
  <1> USE DEF vars, fileVars, sessionVars, auxVars
  <1>0. Transport = "SCP" /\ MountOf[s] \in Mounts /\ path[s] \in Paths
    BY ConstantsAssumption DEF Disciplined, TypeOK
  <1>1. wrote[s] => Own(s)
    BY DEF CarriesOwn
  <1>2. CASE ChangeOpenFile(s)
    BY <1>0, <1>2 DEF ChangeOpenFile, SetLocal, Local, Writer, TypeOK
  <1>3. ASSUME NEW v \in Sessions, CacheWriter(v), ~ChangeOpenFile(s) PROVE Own(s)'
    <2>1. wrote[s]
      BY <1>3 DEF CacheWriter, StartFetch, EndFetch, BreakFetch, Mknod, Truncate,
                  ChangeOpenFile, TypeOK
    <2>2. v # s
      BY <1>1, <1>3, <2>1 DEF CacheWriter, StartFetch, EndFetch, BreakFetch, Mknod, Truncate, Ended
    <2>3. CASE pc[s] \in Ended
      <3>1. pc'[s] = pc[s] /\ kind' = kind
        BY <1>3, <2>2 DEF CacheWriter, StartFetch, EndFetch, BreakFetch, FetchReturn, Mknod,
            Truncate, ChangeOpenFile, Request, End, Goto, TypeOK
      <3> QED
        BY <1>1, <2>1, <2>3, <3>1 DEF Writer, Ended
    <2>4. CASE HasForced(s)
      <3>1. /\ kind' = kind /\ pc'[s] = pc[s] /\ buf'[s] = buf[s]
            /\ Local(s) \subseteq Local(s)'
        BY <1>3, <2>2, <2>4, OthersKeepCopy
      <3> QED
        BY <1>1, <2>1, <3>1 DEF Writer
    <2> QED
      BY <1>1, <2>1, <2>3, <2>4 DEF HasForced
  <1>4. ASSUME NEW v \in Sessions, StartPut(v) \/ EndPut(v) \/ BreakPut(v) PROVE Own(s)'
    <2>1. wrote[s] /\ kind' = kind /\ cache' = cache /\ path' = path
      BY <1>4 DEF StartPut, EndPut, BreakPut
    <2>2. CASE v # s
      <3>1. pc'[s] = pc[s] /\ buf'[s] = buf[s]
        BY <1>4, <2>2 DEF StartPut, EndPut, BreakPut, PutReturn, Goto, TypeOK
      <3> QED
        BY <1>1, <2>1, <3>1 DEF Writer, Local
    <2>3. CASE StartPut(s)
      <3>1. pc[s] = "put" /\ pc'[s] = "putting" /\ buf'[s] = Local(s)
        BY <1>0, <1>1, <2>1, <2>3, WriterReads DEF StartPut, Goto, TypeOK
      <3> QED
        BY <1>1, <2>1, <3>1 DEF Writer, Local
    <2>4. CASE EndPut(s) \/ BreakPut(s)
      <3>1. pc[s] = "putting" /\ pc'[s] \in {"opened"} \cup Ended
        BY <2>4 DEF EndPut, BreakPut, PutReturn, Goto, TypeOK, Ended
      <3> QED
        BY <1>1, <2>1, <3>1 DEF Writer, Local, Ended
    <2> QED
      BY <1>4, <2>2, <2>3, <2>4
  <1>5. ASSUME NEW v \in Sessions, Quiet(v) PROVE Own(s)'
    <2>1. wrote[s] /\ UNCHANGED <<cache, buf>>
      BY <1>0, <1>5, QuietStep
    <2>2. CASE v # s
      BY <1>0, <1>1, <1>5, <2>1, <2>2, QuietStep DEF Writer, Local
    <2>3. CASE v = s
      <3>1. Fsync(s) \/ Close(s) \/ FailPut(s)
        BY <1>1, <1>5, <2>1, <2>3 DEF Quiet, Begin, EnsureLocalFile, FailFetch, Getattr,
            MknodFails, Xattr, Open, OpenFd, ReleaseReader, Ended
      <3>2. /\ kind' = kind /\ path' = path
            /\ pc[s] \in {"opened", "put"} /\ pc'[s] \in {"opened", "put"} \cup Ended
        BY <1>1, <2>1, <3>1 DEF Fsync, Close, FailPut, PutReturn, Goto, TypeOK, Ended, Writer
      <3> QED
        BY <1>1, <2>1, <3>2 DEF Writer, Local, Ended
    <2> QED
      BY <2>2, <2>3
  <1>6. ASSUME NEW m \in Mounts, NEW p \in Paths, Evict(m, p) PROVE Own(s)'
    BY <1>0, <1>1, <1>6 DEF Evict, Local, Writer, TypeOK
  <1>7. ASSUME NEW m \in Mounts, Remount(m) PROVE Own(s)'
    <2>1. wrote[s] /\ kind' = kind /\ path' = path
      BY <1>7 DEF Remount
    <2>2. CASE MountOf[s] = m
      BY <1>1, <1>7, <2>1, <2>2 DEF Remount, Writer, Ended
    <2>3. CASE MountOf[s] # m
      BY <1>0, <1>1, <1>7, <2>1, <2>3 DEF Remount, Writer, Local, TypeOK
    <2> QED
      BY <2>2, <2>3
  <1>8. CASE UNCHANGED vars
    BY <1>1, <1>8 DEF Writer, Local
  <1> QED
    BY <1>2, <1>3, <1>4, <1>5, <1>6, <1>7, <1>8, Steps DEF CacheWriter

-------------------------------------------------------------------------------
(* Nothing is lost *)

\* A session that once went without its forced copy stays marked.
LEMMA StaleStays ==
    ASSUME TypeOK, [Next]_vars, NEW s \in Sessions, ~stale'[s]
    PROVE  ~stale[s]
  <1> USE DEF vars, fileVars, sessionVars, auxVars
  <1>1. ASSUME NEW v \in Sessions, FailFetch(v) \/ EndFetch(v) \/ BreakFetch(v) PROVE ~stale[s]
    BY <1>1 DEF FailFetch, EndFetch, BreakFetch, FetchReturn, TypeOK
  <1>2. ASSUME NEW v \in Sessions, Quiet(v), ~FailFetch(v) PROVE ~stale[s]
    BY <1>2 DEF Quiet, Begin, EnsureLocalFile, Getattr, MknodFails, Xattr, Open, OpenFd, Fsync, Close,
                ReleaseReader, FailPut
  <1>3. ASSUME NEW v \in Sessions,
               StartFetch(v) \/ Mknod(v) \/ Truncate(v) \/ ChangeOpenFile(v)
               \/ StartPut(v) \/ EndPut(v) \/ BreakPut(v)
        PROVE  ~stale[s]
    BY <1>3 DEF StartFetch, Mknod, Truncate, ChangeOpenFile, StartPut, EndPut, BreakPut
  <1>4. ASSUME NEW m \in Mounts, NEW p \in Paths, Evict(m, p) \/ Remount(m) PROVE ~stale[s]
    BY <1>4 DEF Evict, Remount
  <1>5. CASE UNCHANGED vars
    BY <1>5
  <1> QED
    BY <1>1, <1>2, <1>3, <1>4, <1>5, Steps, ConstantsAssumption

\* What a put does to the remote file and to what is reported.
LEMMA PutStep ==
    ASSUME Disciplined, TypeOK, Made, Roles, WritersHaveCopy, Unmixed, CarriesRemote, CarriesOwn,
           NEW s \in Sessions, ~stale[s], StartPut(s) \/ EndPut(s) \/ BreakPut(s)
    PROVE  /\ \A p \in Paths : remote[p] \subseteq remote'[p]
           /\ \A p \in Paths : acked'[p] \subseteq acked[p] \cup remote'[p]
  <1>0. Transport = "SCP" /\ path[s] \in Paths
    BY DEF Disciplined, TypeOK
  <1>1. CASE StartPut(s)
    <2>1. acked' = acked
      BY <1>1 DEF StartPut, auxVars
    <2>2. remote' = remote \/ (Remote(s) = Absent /\ SetRemote(s, Empty))
      BY <1>0, <1>1 DEF StartPut
    <2>3. \A p \in Paths : remote[p] \subseteq remote'[p]
      BY <1>0, <2>2 DEF SetRemote, Remote, Absent, TypeOK
    <2> QED
      BY <2>1, <2>3
  <1>2. CASE EndPut(s)
    <2>1. Writer(s) /\ Remote(s) \subseteq buf[s] /\ (wrote[s] => s \in buf[s])
      BY <1>2 DEF EndPut, Roles, CarriesRemote, Carries, CarriesOwn
    <2>2. remote' = [remote EXCEPT ![path[s]] = buf[s]]
      BY <1>2 DEF EndPut, Landed, Unmixed, SetRemote
    <2>3. acked' = [acked EXCEPT ![path[s]] = @ \cup buf[s] \cup (IF wrote[s] THEN {s} ELSE {})]
      BY <1>0, <1>2 DEF EndPut
    <2>4. \A p \in Paths : remote[p] \subseteq remote'[p]
      BY <1>0, <2>1, <2>2 DEF Remote, TypeOK
    <2>5. \A p \in Paths : acked'[p] \subseteq acked[p] \cup remote'[p]
      BY <1>0, <2>1, <2>2, <2>3 DEF TypeOK
    <2> QED
      BY <2>4, <2>5
  <1>3. CASE BreakPut(s)
    <2>1. Writer(s) /\ Remote(s) \subseteq buf[s]
      BY <1>3 DEF BreakPut, Roles, CarriesRemote, Carries
    <2>2. PICK f \in Torn(Remote(s), buf[s]) : remote' = [remote EXCEPT ![path[s]] = f]
      BY <1>3 DEF BreakPut, SetRemote
    <2>3. Remote(s) \subseteq f
      BY <2>1 DEF Torn
    <2>4. acked' = acked
      BY <1>3 DEF BreakPut, auxVars
    <2>5. \A p \in Paths : remote[p] \subseteq remote'[p]
      BY <1>0, <2>2, <2>3 DEF Remote, TypeOK
    <2> QED
      BY <2>4, <2>5
  <1> QED
    BY <1>1, <1>2, <1>3

LEMMA RemoteGrows ==
    ASSUME Disciplined, IInv, [Next]_vars, ForcedCopiesArrived
    PROVE  /\ \A p \in Paths : remote[p] \subseteq remote'[p]
           /\ \A p \in Paths : acked'[p] \subseteq acked[p] \cup remote'[p]
  <1> USE DEF vars, fileVars, sessionVars, auxVars, IInv
  <1>0. Transport = "SCP"
    BY DEF Disciplined
  <1>1. ASSUME NEW s \in Sessions, StartPut(s) \/ EndPut(s) \/ BreakPut(s)
        PROVE  /\ \A p \in Paths : remote[p] \subseteq remote'[p]
               /\ \A p \in Paths : acked'[p] \subseteq acked[p] \cup remote'[p]
    BY <1>1, PutStep DEF ForcedCopiesArrived
  <1>2. ASSUME NEW s \in Sessions, Quiet(s) PROVE UNCHANGED <<remote, acked>>
    BY <1>0, <1>2, QuietStep
  <1>3. ASSUME NEW s \in Sessions, CacheWriter(s) PROVE UNCHANGED <<remote, acked>>
    BY <1>3 DEF CacheWriter, StartFetch, EndFetch, BreakFetch, Mknod, Truncate, ChangeOpenFile
  <1>4. ASSUME NEW m \in Mounts, NEW p \in Paths, Evict(m, p) \/ Remount(m)
        PROVE  UNCHANGED <<remote, acked>>
    BY <1>4 DEF Evict, Remount
  <1> QED
    BY <1>1, <1>2, <1>3, <1>4, Steps, ConstantsAssumption DEF CacheWriter

LEMMA NoLostUpdateStep == Disciplined /\ IInv /\ [Next]_vars => NoLostUpdate'
  <1> SUFFICES ASSUME Disciplined, IInv, [Next]_vars, ForcedCopiesArrived'
               PROVE  \A p \in Paths : acked'[p] \subseteq remote'[p]
    BY DEF NoLostUpdate
  <1>1. ForcedCopiesArrived
    BY StaleStays DEF ForcedCopiesArrived, IInv
  <1>2. \A p \in Paths : acked[p] \subseteq remote[p]
    BY <1>1 DEF IInv, NoLostUpdate
  <1> QED
    BY <1>1, <1>2, RemoteGrows

LEMMA IInvInit == Init => IInv
  <1> SUFFICES ASSUME Init PROVE IInv
    OBVIOUS
  <1>1. TypeOK
    BY TypeInit
  <1>2. Made
    BY ConstantsAssumption DEF Init, Made, Absent
  <1>3. Roles /\ Apart /\ Serial /\ NoFetchUnderWriter /\ WritersHaveCopy
    BY DEF Init, Roles, Apart, Live, Ended, Serial, InHandler, NoFetchUnderWriter, HasForced,
           WritersHaveCopy
  <1>4. Unmixed /\ CarriesRemote /\ CarriesOwn /\ NoLostUpdate
    BY DEF Init, Unmixed, CarriesRemote, Carries, CarriesOwn, NoLostUpdate
  <1> QED
    BY <1>1, <1>2, <1>3, <1>4 DEF IInv

LEMMA IInvStep == Disciplined /\ IInv /\ [Next]_vars => IInv'
  <1> SUFFICES ASSUME Disciplined, IInv, [Next]_vars PROVE IInv'
    OBVIOUS
  <1>1. TypeOK' /\ Made' /\ Roles' /\ Apart' /\ Serial'
    BY TypeStep, MadeStep, RolesStep, ApartStep, SerialStep DEF IInv
  <1>2. NoFetchUnderWriter' /\ WritersHaveCopy' /\ Unmixed'
    BY NoFetchUnderWriterStep, WritersHaveCopyStep, UnmixedStep DEF IInv
  <1>3. CarriesRemote' /\ CarriesOwn' /\ NoLostUpdate'
    BY CarriesRemoteStep, CarriesOwnStep, NoLostUpdateStep DEF IInv
  <1> QED
    BY <1>1, <1>2, <1>3 DEF IInv

\* Under the discipline, IInv holds in every reachable state.
THEOREM InvariantHolds == Disciplined => (Spec => []IInv)
  <1> SUFFICES ASSUME Disciplined PROVE Spec => []IInv
    OBVIOUS
  <1>1. IInv /\ [Next]_vars => IInv'
    BY IInvStep
  <1> QED
    BY <1>1, IInvInit, PTL DEF Spec

\* Whatever fails or dies, what nofs_release and nofs_fsync have reported as
\* copied back stays on the remote.
THEOREM NothingLost == Disciplined => (Spec => []NoLostUpdate)
  <1> SUFFICES ASSUME Disciplined PROVE Spec => []NoLostUpdate
    OBVIOUS
  <1>1. IInv => NoLostUpdate
    BY DEF IInv
  <1> QED
    BY <1>1, InvariantHolds, PTL

\* A file that nofs_open has opened for writing is never behind the remote.
THEOREM WritersUpToDate == Disciplined => (Spec => []WriterHasRemote)
  <1> SUFFICES ASSUME Disciplined PROVE Spec => []WriterHasRemote
    OBVIOUS
  <1>1. IInv => WriterHasRemote
    BY DEF IInv, CarriesRemote, Carries, Writer, WriterHasRemote
  <1> QED
    BY <1>1, InvariantHolds, PTL

\* No step, a put that breaks off included, takes an update from the remote.
THEOREM RemoteOnlyGrows == Disciplined => (Spec => RemoteNeverShrinks)
  <1> SUFFICES ASSUME Disciplined PROVE Spec => RemoteNeverShrinks
    OBVIOUS
  <1>1. IInv /\ [Next]_vars =>
            [ForcedCopiesArrived => \A p \in Paths : remote[p] \subseteq remote'[p]]_vars
    BY RemoteGrows
  <1> QED
    BY <1>1, InvariantHolds, PTL DEF Spec, RemoteNeverShrinks
===============================================================================
