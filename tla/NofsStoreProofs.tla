--------------------------- MODULE NofsStoreProofs ----------------------------
(***************************************************************************)
(* The proof that nofs over scp implements SharedStore when the            *)
(* applications are disciplined, for all mounts, paths, sessions and       *)
(* faults.                                                                 *)
(***************************************************************************)
EXTENDS NofsStore, NofsProofs

\* A put sends what is in the cache, also when the forced copy has not arrived.
SendsCopy == \A s \in Sessions : pc[s] = "putting" => buf[s] \subseteq Local(s)

\* A step leaves what s has checked out as it is.
KeepsOut(s) ==
    /\ HasOut(s)' <=> HasOut(s)
    /\ HasOut(s) => path'[s] = path[s] /\ Local(s)' = Local(s)

-------------------------------------------------------------------------------
(* What is checked out *)

LEMMA KeepsAt ==
    ASSUME NEW s \in Sessions, KeepsOut(s)
    PROVE  \A p \in Paths : CheckedOut'[p][s] = CheckedOut[p][s]
  BY DEF CheckedOut, KeepsOut

LEMMA AllKept ==
    ASSUME \A s \in Sessions : KeepsOut(s)
    PROVE  CheckedOut' = CheckedOut
  <1>1. \A p \in Paths, s \in Sessions : CheckedOut'[p][s] = CheckedOut[p][s]
    BY KeepsAt
  <1>2. \A p \in Paths : CheckedOut'[p] = CheckedOut[p]
    BY <1>1 DEF CheckedOut
  <1> QED
    BY <1>2 DEF CheckedOut

LEMMA OnlyOneChanges ==
    ASSUME TypeOK', NEW v \in Sessions, path'[v] = path[v],
           \A s \in Sessions \ {v} : KeepsOut(s)
    PROVE  Store!OnlyCopyOf(v, path[v])
  <1>1. CheckedOut' \in [Paths -> [Sessions -> SUBSET Update]]
    <2>1. \A s \in Sessions : Local(s)' \in SUBSET Update
      BY ConstantsAssumption DEF TypeOK, Local, File
    <2> QED
      BY <2>1 DEF CheckedOut
  <1>2. \A p \in Paths, s \in Sessions :
            <<p, s>> # <<path[v], v>> => CheckedOut'[p][s] = CheckedOut[p][s]
    BY KeepsAt DEF CheckedOut
  <1> QED
    BY <1>1, <1>2 DEF Store!OnlyCopyOf

LEMMA GivenUp ==
    ASSUME NEW G \in SUBSET Sessions, \A s \in Sessions \ G : KeepsOut(s),
           \A s \in G : ~HasOut(s)'
    PROVE  Store!Drop(G)
  <1> DEFINE D == [p \in Paths |->
                      [s \in Sessions |-> IF s \in G THEN {} ELSE CheckedOut[p][s]]]
  <1>1. \A p \in Paths, s \in Sessions : CheckedOut'[p][s] = D[p][s]
    BY KeepsAt DEF CheckedOut
  <1>2. \A p \in Paths : CheckedOut'[p] = D[p]
    BY <1>1 DEF CheckedOut
  <1> QED
    BY <1>2 DEF CheckedOut, Store!Drop

-------------------------------------------------------------------------------
(* The other sessions *)

\* No two sessions have a file checked out.
LEMMA OneHolder ==
    ASSUME Apart, NEW s \in Sessions, NEW t \in Sessions, s # t, HasOut(s),
           path[s] = path[t], Live(t)
    PROVE  ~Writer(t)
  BY DEF Apart, HasOut, Live, Ended

\* A transfer and a creation leave what the others have checked out alone.
LEMMA OthersKeepOut ==
    ASSUME Disciplined, IInv, NEW v \in Sessions, CacheWriter(v), ~Truncate(v),
           NEW s \in Sessions \ {v}
    PROVE  KeepsOut(s)
  <1>1. kind' = kind /\ pc'[s] = pc[s] /\ path' = path
    BY DEF IInv, TypeOK, CacheWriter, StartFetch, EndFetch, BreakFetch, FetchReturn, Mknod,
           ChangeOpenFile, Goto, Request, sessionVars
  <1>2. ASSUME HasOut(s) PROVE Local(s)' = Local(s)
    <2>1. HasForced(s)
      BY <1>2 DEF HasOut, HasForced
    <2> QED
      BY <2>1, OthersKeepCopy DEF IInv
  <1> QED
    BY <1>1, <1>2 DEF KeepsOut, HasOut, Writer

\* Nor does anything that leaves the cache and the other sessions as they are.
LEMMA QuietKeepsOut ==
    ASSUME cache' = cache, NEW s \in Sessions,
           path'[s] = path[s], kind'[s] = kind[s], HasOut(s)' <=> HasOut(s)
    PROVE  KeepsOut(s)
  BY DEF KeepsOut, Local

-------------------------------------------------------------------------------
(* The steps *)

Behind == {s \in Sessions : stale[s]}

\* Nothing the store knows of happens.
Stutters == UNCHANGED <<remote, CheckedOut, Behind, acked>>

LEMMA StutterSteps ==
    ASSUME Disciplined, IInv, NEW v \in Sessions,
           \/ Begin(v) \/ EnsureLocalFile(v) \/ Getattr(v) \/ MknodFails(v) \/ Xattr(v)
           \/ Open(v) \/ Fsync(v) \/ Close(v) \/ ReleaseReader(v)
    PROVE  Stutters
  <1> USE DEF fileVars, auxVars
  <1>1. UNCHANGED <<cache, remote, stale, acked>>
    BY DEF Begin, EnsureLocalFile, Getattr, MknodFails, Xattr, Open, Fsync, Close, ReleaseReader
  <1>2. ASSUME NEW s \in Sessions PROVE KeepsOut(s)
    <2>1. CASE Begin(v)
      BY <1>1, <2>1 DEF Begin, Request, Goto, IInv, TypeOK, KeepsOut, HasOut, Writer, Local
    <2>2. CASE \/ EnsureLocalFile(v) \/ Getattr(v) \/ MknodFails(v) \/ Xattr(v)
               \/ Open(v) \/ ReleaseReader(v)
      <3>1. path' = path /\ kind' = kind
        BY <2>2 DEF EnsureLocalFile, Getattr, MknodFails, Xattr, Open, ReleaseReader
      <3>2. HasOut(s)' <=> HasOut(s)
        BY <2>2, <3>1 DEF EnsureLocalFile, Getattr, MknodFails, Xattr, Open, ReleaseReader,
                          Request, End, Goto, IInv, TypeOK, HasOut, Writer
      <3> QED
        BY <1>1, <3>1, <3>2, QuietKeepsOut
    <2>3. CASE Fsync(v) \/ Close(v)
      <3>1. path' = path /\ kind' = kind
        BY <2>3 DEF Fsync, Close
      <3>2. HasOut(s)' <=> HasOut(s)
        BY <2>3, <3>1 DEF Fsync, Close, Goto, IInv, TypeOK, HasOut, Writer
      <3> QED
        BY <1>1, <3>1, <3>2, QuietKeepsOut
    <2> QED
      BY <2>1, <2>2, <2>3
  <1> QED
    BY <1>1, <1>2, AllKept DEF Stutters, Behind

\* The transfers from the remote, and the creation of a file.
LEMMA FetchSteps ==
    ASSUME Disciplined, IInv, NEW v \in Sessions,
           StartFetch(v) \/ FailFetch(v) \/ EndFetch(v) \/ BreakFetch(v) \/ Mknod(v)
    PROVE  Stutters \/ Store!FallBehind(v)
  <1> USE DEF fileVars, auxVars
  <1>0. Transport = "SCP"
    BY DEF Disciplined
  <1>1. ASSUME NEW s \in Sessions, s # v PROVE KeepsOut(s)
    <2>1. CASE FailFetch(v)
      BY <1>0, <1>1, <2>1, QuietKeepsOut
      DEF FailFetch, FailedDestination, FetchReturn, Goto, IInv, TypeOK, HasOut, Writer
    <2>2. CASE StartFetch(v) \/ EndFetch(v) \/ BreakFetch(v) \/ Mknod(v)
      <3>1. CacheWriter(v) /\ ~Truncate(v)
        BY <2>2 DEF CacheWriter, StartFetch, EndFetch, BreakFetch, Mknod, Truncate
      <3> QED
        BY <1>1, <3>1, OthersKeepOut
    <2> QED
      BY <2>1, <2>2
  <1>2. ~HasOut(v) /\ ~HasOut(v)'
    BY DEF StartFetch, FailFetch, EndFetch, BreakFetch, FetchReturn, Mknod, Request, Goto,
           IInv, TypeOK, HasOut
  <1>3. CheckedOut' = CheckedOut
    <2>1. KeepsOut(v)
      BY <1>2 DEF KeepsOut
    <2> QED
      BY <1>1, <2>1, AllKept
  <1>4. UNCHANGED <<remote, acked>>
    BY DEF StartFetch, FailFetch, EndFetch, BreakFetch, Mknod
  <1>5. /\ \A s \in Sessions \ {v} : stale'[s] <=> stale[s]
        /\ stale[v] => stale'[v]
    <2>1. CASE StartFetch(v) \/ Mknod(v)
      BY <2>1 DEF StartFetch, Mknod
    <2>2. CASE FailFetch(v) \/ EndFetch(v) \/ BreakFetch(v)
      BY <2>2 DEF FailFetch, EndFetch, BreakFetch, FetchReturn, IInv, TypeOK
    <2> QED
      BY <2>1, <2>2
  <1>6. CASE stale'[v] /\ ~stale[v]
    <2>1. Behind' = Behind \cup {v}
      BY <1>5, <1>6 DEF Behind
    <2> QED
      BY <1>3, <1>4, <2>1 DEF Store!FallBehind, Behind
  <1>7. CASE stale'[v] => stale[v]
    <2>1. Behind' = Behind
      BY <1>5, <1>7 DEF Behind
    <2> QED
      BY <1>3, <1>4, <2>1 DEF Stutters
  <1> QED
    BY <1>6, <1>7

\* nofs_open opens the copy it has forced.
LEMMA CheckOutStep ==
    ASSUME Disciplined, IInv, TypeOK', NEW v \in Sessions, OpenFd(v)
    PROVE  Stutters \/ Store!CheckOut(v, path[v])
  <1> USE DEF fileVars, auxVars
  <1>1. UNCHANGED <<cache, remote, stale, acked, path, kind>> /\ pc[v] = "fd"
    BY DEF OpenFd
  <1>2. ASSUME NEW s \in Sessions, s # v PROVE KeepsOut(s)
    BY <1>1, <1>2, QuietKeepsOut DEF OpenFd, Goto, IInv, TypeOK, HasOut, Writer
  <1>3. CASE pc'[v] = "opened" /\ Writer(v)
    <2>1. \A s \in Sessions : CheckedOut[path[v]][s] = {}
      <3>1. ASSUME NEW s \in Sessions, path[s] = path[v] PROVE ~HasOut(s)
        BY <1>1, <1>3, <3>1, OneHolder DEF Live, Ended, HasOut, IInv
      <3> QED
        BY <3>1 DEF CheckedOut, IInv, TypeOK
    <2>2. Store!OnlyCopyOf(v, path[v])
      BY <1>1, <1>2, OnlyOneChanges
    <2>3. ~stale[v] => remote[path[v]] \subseteq CheckedOut'[path[v]][v]
      <3>1. CheckedOut'[path[v]][v] = Local(v)
        BY <1>1, <1>3 DEF CheckedOut, HasOut, Writer, Local, IInv, TypeOK
      <3>2. Local(v) # Absent
        BY <1>1, <1>3 DEF OpenFd, Goto, IInv, TypeOK
      <3> QED
        BY <1>1, <1>3, <3>1, <3>2 DEF IInv, CarriesRemote, Carries, Remote
    <2> QED
      BY <1>1, <2>1, <2>2, <2>3 DEF Store!CheckOut
  <1>4. CASE ~(pc'[v] = "opened" /\ Writer(v))
    <2>1. KeepsOut(v)
      BY <1>1, <1>4 DEF KeepsOut, OpenFd, Goto, HasOut, Writer, IInv, TypeOK
    <2> QED
      BY <1>1, <1>2, <2>1, AllKept DEF Stutters, Behind
  <1> QED
    BY <1>3, <1>4

\* The file a session has open is changed, by itself ...
LEMMA WriteStep ==
    ASSUME Disciplined, IInv, TypeOK', NEW v \in Sessions, ChangeOpenFile(v)
    PROVE  Store!Change(v, path[v])
  <1> USE DEF fileVars, auxVars
  <1>1. CacheWriter(v) /\ ~Truncate(v)
    BY DEF CacheWriter, ChangeOpenFile, Truncate
  <1>2. UNCHANGED <<remote, stale, acked, path, kind, pc>> /\ HasOut(v)
    BY DEF ChangeOpenFile, HasOut, Writer
  <1>3. Store!OnlyCopyOf(v, path[v])
    BY <1>1, <1>2, OthersKeepOut, OnlyOneChanges
  <1>4. Local(v) # {} /\ Local(v) \subseteq Local(v)'
    <2>1. Local(v) # {}
      BY <1>2 DEF IInv, WritersHaveCopy, HasOut, Absent
    <2>2. cache' = [cache EXCEPT ![MountOf[v]][path[v]] = Local(v) \cup {v}]
      BY DEF ChangeOpenFile, SetLocal
    <2> QED
      BY <1>2, <2>1, <2>2, ConstantsAssumption DEF Local, IInv, TypeOK
  <1>5. CheckedOut[path[v]][v] = Local(v) /\ CheckedOut'[path[v]][v] = Local(v)'
    BY <1>2 DEF CheckedOut, HasOut, Writer, IInv, TypeOK
  <1> QED
    BY <1>2, <1>3, <1>4, <1>5 DEF Store!Change

\* ... or by a truncation that comes in for its path.
LEMMA TruncateStep ==
    ASSUME Disciplined, IInv, TypeOK', NEW v \in Sessions, Truncate(v)
    PROVE  Stutters \/ \E s \in Sessions : Store!Change(s, path[s])
  <1> USE DEF fileVars, auxVars
  <1>1. UNCHANGED <<remote, stale, acked, path, kind>>
    BY DEF Truncate, End
  <1>2. \A s \in Sessions : HasOut(s)' <=> HasOut(s)
    BY <1>1 DEF Truncate, End, Goto, HasOut, Writer, Ended, IInv, TypeOK
  <1>3. CASE \A s \in Sessions : HasOut(s) => Local(s)' = Local(s)
    BY <1>1, <1>2, <1>3, AllKept DEF KeepsOut, Stutters, Behind
  <1>4. ASSUME NEW s \in Sessions, HasOut(s), Local(s)' # Local(s)
        PROVE  Store!Change(s, path[s])
    <2>1. s # v /\ HasForced(s) /\ CacheWriter(v)
      BY <1>4 DEF Truncate, HasOut, HasForced, CacheWriter
    <2>2. Local(s) \subseteq Local(s)'
      BY <2>1, OthersKeepCopy DEF IInv
    <2>3. SetLocal(v, Local(v) \cup {v}) /\ SameCopy(s, v)
      BY <1>1, <1>4, ConstantsAssumption
      DEF Truncate, SetLocal, Local, SameCopy, IInv, TypeOK
    <2>4. ASSUME NEW t \in Sessions, t # s PROVE KeepsOut(t)
      <3>1. ASSUME HasOut(t) PROVE ~SameCopy(t, v)
        BY <1>4, <2>3, <2>4, <3>1, OneHolder DEF SameCopy, HasOut, Live, Ended, IInv
      <3>2. ASSUME ~SameCopy(t, v) PROVE Local(t)' = Local(t)
        BY <1>1, <2>3, <3>2, ConstantsAssumption DEF SetLocal, Local, SameCopy, IInv, TypeOK
      <3> QED
        BY <1>1, <1>2, <3>1, <3>2 DEF KeepsOut
    <2>5. Store!OnlyCopyOf(s, path[s])
      BY <1>1, <2>4, OnlyOneChanges
    <2>6. CheckedOut[path[s]][s] = Local(s) /\ CheckedOut'[path[s]][s] = Local(s)'
      BY <1>1, <1>2, <1>4 DEF CheckedOut, IInv, TypeOK
    <2>7. Local(s) # {}
      BY <1>4 DEF IInv, WritersHaveCopy, HasOut, Absent
    <2> QED
      BY <1>1, <2>2, <2>5, <2>6, <2>7 DEF Store!Change
  <1> QED
    BY <1>3, <1>4

\* What a put does to the cache and to the sessions.
LEMMA PutKeepsOthers ==
    ASSUME TypeOK, NEW v \in Sessions,
           FailPut(v) \/ StartPut(v) \/ EndPut(v) \/ BreakPut(v)
    PROVE  /\ UNCHANGED <<cache, path, kind, stale>>
           /\ \A s \in Sessions \ {v} : KeepsOut(s)
           /\ KeepsOut(v) \/ ~HasOut(v)'
  <1> USE DEF fileVars, auxVars
  <1>1. UNCHANGED <<cache, path, kind, stale>>
    BY DEF FailPut, StartPut, EndPut, BreakPut
  <1>2. \A s \in Sessions \ {v} : pc'[s] = pc[s]
    BY DEF FailPut, StartPut, EndPut, BreakPut, PutReturn, Goto, TypeOK
  <1>3. \A s \in Sessions \ {v} : KeepsOut(s)
    BY <1>1, <1>2, QuietKeepsOut DEF HasOut, Writer
  <1>4. HasOut(v)' => HasOut(v)
    BY <1>1 DEF FailPut, StartPut, EndPut, BreakPut, HasOut, Writer
  <1> QED
    BY <1>1, <1>3, <1>4, QuietKeepsOut

\* What has been checked out is kept or given up.
LEMMA KeptOrGivenUp ==
    ASSUME NEW v \in Sessions, \A s \in Sessions \ {v} : KeepsOut(s),
           KeepsOut(v) \/ ~HasOut(v)'
    PROVE  Store!Drop({v}) \/ CheckedOut' = CheckedOut
  <1>1. CASE KeepsOut(v)
    BY <1>1, AllKept
  <1>2. CASE ~HasOut(v)'
    BY <1>2, GivenUp
  <1> QED
    BY <1>1, <1>2

\* A put that the other side refuses, or that has nothing to send.
LEMMA FailPutStep ==
    ASSUME IInv, NEW v \in Sessions, FailPut(v)
    PROVE  Stutters \/ Store!Lose({v})
  BY PutKeepsOthers, KeptOrGivenUp
  DEF IInv, FailPut, fileVars, auxVars, Stutters, Behind, Store!Lose

\* The content of a put: what the session has checked out, and all of the
\* remote file unless the forced copy has not arrived.
LEMMA PutContent ==
    ASSUME Disciplined, IInv, SendsCopy, NEW v \in Sessions, EndPut(v) \/ BreakPut(v)
    PROVE  \E f \in File :
            /\ remote' = [remote EXCEPT ![path[v]] = f]
            /\ f \subseteq Remote(v) \cup Local(v)
            /\ ~stale[v] => Remote(v) \subseteq f
            /\ \/ acked' = acked
               \/ acked' = [acked EXCEPT ![path[v]] = @ \cup f]
  <1>0. Transport = "SCP" /\ Remote(v) \in File /\ buf[v] \in File
    BY FilesOf DEF Disciplined, IInv, TypeOK
  <1>1. buf[v] \subseteq Local(v) /\ Writer(v)
    BY DEF SendsCopy, EndPut, BreakPut, IInv, Roles
  <1>2. ~stale[v] => Remote(v) \subseteq buf[v]
    BY <1>1 DEF EndPut, BreakPut, IInv, CarriesRemote, Carries
  <1>3. CASE EndPut(v)
    <2>1. remote' = [remote EXCEPT ![path[v]] = buf[v]]
      BY <1>3 DEF EndPut, Landed, SetRemote, IInv, Unmixed
    <2>2. acked' = [acked EXCEPT ![path[v]] = @ \cup buf[v]]
      <3>1. wrote[v] => v \in buf[v]
        BY <1>3 DEF EndPut, IInv, CarriesOwn
      <3>2. buf[v] \cup (IF wrote[v] THEN {v} ELSE {}) = buf[v]
        BY <3>1
      <3>3. acked' = [acked EXCEPT ![path[v]] =
                        acked[path[v]] \cup (buf[v] \cup (IF wrote[v] THEN {v} ELSE {}))]
        BY <1>0, <1>3 DEF EndPut
      <3> QED
        BY <3>2, <3>3
    <2> QED
      BY <1>0, <1>1, <1>2, <2>1, <2>2
  <1>4. CASE BreakPut(v)
    <2>1. PICK f \in Torn(Remote(v), buf[v]) : remote' = [remote EXCEPT ![path[v]] = f]
      BY <1>4 DEF BreakPut, SetRemote
    <2>2. f \in File /\ Remote(v) \cap buf[v] \subseteq f /\ f \subseteq Remote(v) \cup buf[v]
      BY <1>0, <2>1, TornType
    <2>3. acked' = acked
      BY <1>4 DEF BreakPut, auxVars
    <2> QED
      BY <1>1, <1>2, <2>1, <2>2, <2>3
  <1> QED
    BY <1>3, <1>4

\* persist_local_file_to_remote stores what has been checked out.
LEMMA PutSteps ==
    ASSUME Disciplined, IInv, SendsCopy, NEW v \in Sessions,
           StartPut(v) \/ EndPut(v) \/ BreakPut(v)
    PROVE  Stutters \/ Store!Store(v, path[v])
  <1> USE DEF fileVars, auxVars
  <1>0. /\ UNCHANGED <<cache, path, kind, stale>>
        /\ Store!Drop({v}) \/ CheckedOut' = CheckedOut
    BY PutKeepsOthers, KeptOrGivenUp DEF IInv
  <1>1. HasOut(v) /\ Local(v) # {} /\ CheckedOut[path[v]][v] = Local(v)
    <2>1. HasOut(v)
      BY DEF StartPut, EndPut, BreakPut, HasOut, IInv, Roles
    <2> QED
      BY <2>1 DEF HasOut, CheckedOut, Absent, IInv, WritersHaveCopy, TypeOK
  <1>2. ASSUME NEW f \in File, remote' = [remote EXCEPT ![path[v]] = f],
               f \subseteq Remote(v) \cup Local(v), ~stale[v] => Remote(v) \subseteq f,
               acked' = acked \/ acked' = [acked EXCEPT ![path[v]] = @ \cup f]
        PROVE  Store!Store(v, path[v])
    <2>1. remote'[path[v]] = f /\ path[v] \in Paths
      BY <1>2 DEF IInv, TypeOK
    <2>2. Store!OnlyFile(path[v])
      BY <1>2 DEF Store!OnlyFile, IInv, TypeOK, File
    <2> QED
      BY <1>0, <1>1, <1>2, <2>1, <2>2 DEF Store!Store, Remote
  <1>3. CASE StartPut(v)
    <2>1. CheckedOut' = CheckedOut
      <3>1. HasOut(v)'
        BY <1>0, <1>1, <1>3 DEF StartPut, Goto, HasOut, Writer, IInv, TypeOK
      <3>2. \A s \in Sessions : KeepsOut(s)
        BY <1>3, <3>1, PutKeepsOthers DEF IInv
      <3> QED
        BY <3>2, AllKept
    <2>2. acked' = acked
      BY <1>3 DEF StartPut
    <2>3. CASE remote' = remote
      BY <1>0, <2>1, <2>2, <2>3 DEF Stutters, Behind
    <2>4. CASE remote' # remote
      <3>1. Remote(v) = Absent /\ remote' = [remote EXCEPT ![path[v]] = Empty]
        BY <1>3, <2>4 DEF StartPut, SetRemote, Disciplined
      <3>2. Empty \subseteq Local(v)
        BY <1>1, ConstantsAssumption DEF Empty, Local, IInv, Made, TypeOK, Absent
      <3> QED
        BY <1>2, <2>2, <3>1, <3>2, SmallFiles DEF Absent
    <2> QED
      BY <2>3, <2>4
  <1>4. CASE EndPut(v) \/ BreakPut(v)
    BY <1>2, <1>4, PutContent
  <1> QED
    BY <1>3, <1>4

\* From outside: no file that is open goes, except with its mount.
LEMMA OutsideSteps ==
    ASSUME IInv, NEW m \in Mounts, (\E p \in Paths : Evict(m, p)) \/ Remount(m)
    PROVE  Stutters \/ \E gone \in SUBSET Sessions : Store!Lose(gone)
  <1> USE DEF fileVars, sessionVars, auxVars
  <1>1. ASSUME NEW p \in Paths, Evict(m, p) PROVE Stutters
    <2>1. ASSUME NEW s \in Sessions PROVE KeepsOut(s)
      <3>1. HasOut(s) => ~(MountOf[s] = m /\ path[s] = p)
        BY <1>1 DEF Evict, HasOut
      <3> QED
        BY <1>1, <3>1, ConstantsAssumption
        DEF Evict, KeepsOut, HasOut, Writer, Local, IInv, TypeOK
    <2> QED
      BY <1>1, <2>1, AllKept DEF Evict, Stutters, Behind
  <1>2. CASE Remount(m)
    <2> DEFINE gone == {s \in Sessions : MountOf[s] = m}
    <2>1. UNCHANGED <<remote, path, kind, stale, acked>>
      BY <1>2 DEF Remount
    <2>2. ASSUME NEW s \in Sessions \ gone PROVE KeepsOut(s)
      BY <1>2, <2>1, ConstantsAssumption
      DEF Remount, KeepsOut, HasOut, Writer, Local, IInv, TypeOK
    <2>3. ASSUME NEW s \in gone PROVE ~HasOut(s)'
      BY <1>2, <2>1 DEF Remount, HasOut, IInv, TypeOK
    <2>4. Store!Drop(gone)
      BY <2>2, <2>3, GivenUp
    <2> QED
      BY <2>1, <2>4 DEF Store!Lose
  <1> QED
    BY <1>1, <1>2

-------------------------------------------------------------------------------
(* The implementation *)

LEMMA SendsCopyStep ==
    ASSUME Disciplined, IInv, TypeOK', SendsCopy, [Next]_vars
    PROVE  SendsCopy'
  <1> USE DEF vars, fileVars, sessionVars, auxVars
  <1> SUFFICES ASSUME NEW s \in Sessions, pc'[s] = "putting"
               PROVE  buf'[s] \subseteq Local(s)'
    BY DEF SendsCopy
  <1>0. Transport = "SCP"
    BY DEF Disciplined
  <1>1. ASSUME NEW v \in Sessions, CacheWriter(v) PROVE buf'[s] \subseteq Local(s)'
    <2>1. s # v
      BY <1>1 DEF CacheWriter, StartFetch, EndFetch, BreakFetch, FetchReturn, Mknod, Truncate,
                  ChangeOpenFile, Request, End, Goto, IInv, TypeOK
    <2>2. pc[s] = "putting"
      BY <1>1, <2>1 DEF CacheWriter, StartFetch, EndFetch, BreakFetch, FetchReturn, Mknod,
                        Truncate, ChangeOpenFile, Request, End, Goto, IInv, TypeOK
    <2>3. HasForced(s)
      BY <2>2 DEF HasForced, IInv, Roles
    <2> QED
      BY <1>1, <2>1, <2>2, <2>3, OthersKeepCopy DEF SendsCopy, IInv
  <1>2. ASSUME NEW v \in Sessions, StartPut(v) \/ EndPut(v) \/ BreakPut(v)
        PROVE  buf'[s] \subseteq Local(s)'
    <2>1. cache' = cache /\ path' = path
      BY <1>2 DEF StartPut, EndPut, BreakPut
    <2>2. CASE s # v
      BY <1>2, <2>1, <2>2
      DEF StartPut, EndPut, BreakPut, PutReturn, Goto, SendsCopy, Local, IInv, TypeOK
    <2>3. CASE s = v
      <3>1. StartPut(s)
        BY <1>2, <2>3 DEF EndPut, BreakPut, PutReturn, Goto, IInv, TypeOK
      <3>2. buf'[s] \in LocalReads(s) /\ Writer(s) /\ pc[s] = "put"
        BY <1>0, <3>1 DEF StartPut, IInv, TypeOK, Roles
      <3>3. LocalReads(s) = {Local(s)}
        BY <3>2, WriterReads DEF IInv
      <3> QED
        BY <2>1, <3>2, <3>3 DEF Local
    <2> QED
      BY <2>2, <2>3
  <1>3. ASSUME NEW v \in Sessions, Quiet(v) PROVE buf'[s] \subseteq Local(s)'
    <2>1. s # v /\ cache' = cache /\ buf' = buf /\ pc[s] = "putting" /\ path'[s] = path[s]
      BY <1>0, <1>3, QuietStep DEF IInv
    <2> QED
      BY <2>1 DEF SendsCopy, Local
  <1>4. ASSUME NEW m \in Mounts, NEW p \in Paths, Evict(m, p) \/ Remount(m)
        PROVE  buf'[s] \subseteq Local(s)'
    <2>1. /\ pc[s] = "putting" /\ path' = path /\ buf'[s] = buf[s]
          /\ cache'[MountOf[s]][path[s]] = cache[MountOf[s]][path[s]]
      <3>1. /\ MountOf[s] \in Mounts /\ path[s] \in Paths
            /\ cache \in [Mounts -> [Paths -> File]]
            /\ pc \in [Sessions -> Places] /\ buf \in [Sessions -> File]
        BY ConstantsAssumption DEF IInv, TypeOK
      <3>2. CASE Evict(m, p)
        <4>1. pc' = pc /\ path' = path /\ buf' = buf /\ pc[s] = "putting"
          BY <3>2 DEF Evict
        <4>2. ~(MountOf[s] = m /\ path[s] = p) /\ cache' = [cache EXCEPT ![m][p] = Absent]
          BY <3>2, <4>1 DEF Evict
        <4> QED
          BY <3>1, <4>1, <4>2
      <3>3. CASE Remount(m)
        <4>1. pc[s] = "putting" /\ MountOf[s] # m
          BY <3>1, <3>3 DEF Remount
        <4>2. path' = path /\ buf'[s] = buf[s]
          BY <3>1, <3>3, <4>1 DEF Remount
        <4>3. cache' = [cache EXCEPT ![m] = [q \in Paths |-> Absent]]
          BY <3>3 DEF Remount
        <4> QED
          BY <3>1, <4>1, <4>2, <4>3
      <3> QED
        BY <1>4, <3>2, <3>3
    <2> QED
      BY <2>1 DEF SendsCopy, Local
  <1>5. CASE UNCHANGED vars
    BY <1>5 DEF SendsCopy, Local
  <1> QED
    BY <1>1, <1>2, <1>3, <1>4, <1>5, Steps, ConstantsAssumption DEF CacheWriter

LEMMA StoreInit == Init => Store!Init
  <1> SUFFICES ASSUME Init PROVE Store!Init
    OBVIOUS
  <1>1. \A s \in Sessions : ~HasOut(s)
    BY DEF Init, HasOut
  <1>2. CheckedOut = [p \in Paths |-> [s \in Sessions |-> {}]]
    BY <1>1 DEF CheckedOut
  <1>3. remote \in [Paths -> SUBSET Update]
    BY TypeInit DEF TypeOK, File
  <1>4. {s \in Sessions : stale[s]} = {}
    BY DEF Init
  <1> QED
    BY <1>2, <1>3, <1>4 DEF Store!Init, Init

LEMMA StoreStep ==
    ASSUME Disciplined, IInv, TypeOK', SendsCopy, [Next]_vars
    PROVE  [Store!Next]_(Store!vars)
  <1>0. Stutters => UNCHANGED Store!vars
    BY DEF Stutters, Behind, Store!vars
  <1>p. \A s \in Sessions : path[s] \in Paths
    BY DEF IInv, TypeOK
  <1>1. ASSUME NEW v \in Sessions, Quiet(v) PROVE Stutters \/ Store!Next
    <2>1. CASE OpenFd(v)
      BY <1>p, <2>1, CheckOutStep DEF Store!Next
    <2>2. CASE FailFetch(v)
      BY <2>2, FetchSteps DEF Store!Next
    <2>3. CASE FailPut(v)
      BY <2>3, FailPutStep DEF Store!Next
    <2>4. CASE ~(OpenFd(v) \/ FailFetch(v) \/ FailPut(v))
      BY <1>1, <2>4, StutterSteps DEF Quiet
    <2> QED
      BY <2>1, <2>2, <2>3, <2>4
  <1>2. ASSUME NEW v \in Sessions, StartFetch(v) \/ EndFetch(v) \/ BreakFetch(v) \/ Mknod(v)
        PROVE  Stutters \/ Store!Next
    BY <1>2, FetchSteps DEF Store!Next
  <1>3. ASSUME NEW v \in Sessions, Truncate(v) \/ ChangeOpenFile(v)
        PROVE  Stutters \/ Store!Next
    BY <1>p, <1>3, TruncateStep, WriteStep DEF Store!Next
  <1>4. ASSUME NEW v \in Sessions, StartPut(v) \/ EndPut(v) \/ BreakPut(v)
        PROVE  Stutters \/ Store!Next
    BY <1>p, <1>4, PutSteps DEF Store!Next
  <1>5. ASSUME NEW m \in Mounts, (\E p \in Paths : Evict(m, p)) \/ Remount(m)
        PROVE  Stutters \/ Store!Next
    BY <1>5, OutsideSteps DEF Store!Next
  <1>6. UNCHANGED vars => Stutters
    <2> SUFFICES ASSUME UNCHANGED vars PROVE Stutters
      OBVIOUS
    <2>1. \A s \in Sessions : KeepsOut(s)
      BY DEF vars, fileVars, sessionVars, KeepsOut, HasOut, Writer, Local
    <2> QED
      BY <2>1, AllKept DEF vars, fileVars, auxVars, Stutters, Behind
  <1> QED
    BY <1>0, <1>1, <1>2, <1>3, <1>4, <1>5, <1>6, Steps

\* Under the discipline every behaviour of nofs over scp is one of the store:
\* caches, transfers, failures and restarts are not seen from the outside.
THEOREM StoreImplemented == Disciplined => (Spec => ImplementsStore)
  <1> SUFFICES ASSUME Disciplined PROVE Spec => Store!Spec
    BY DEF ImplementsStore
  <1>1. Init => SendsCopy
    BY DEF Init, SendsCopy
  <1>2. IInv /\ IInv' /\ SendsCopy /\ [Next]_vars => SendsCopy'
    BY SendsCopyStep DEF IInv
  <1>3. IInv /\ IInv' /\ SendsCopy /\ [Next]_vars => [Store!Next]_(Store!vars)
    BY StoreStep DEF IInv
  <1> QED
    BY <1>1, <1>2, <1>3, StoreInit, InvariantHolds, PTL DEF Spec, Store!Spec
===============================================================================
