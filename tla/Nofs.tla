--------------------------------- MODULE Nofs ---------------------------------
(***************************************************************************)
(* The path of a regular file through nofs: the handlers of src/src/nofs.c *)
(* that look at, create, open, change and close a file, the cache          *)
(* directory of every mount, and the remote tree they copy from and to.    *)
(*                                                                         *)
(* A session is one application's use of one path.  The kernel turns it    *)
(* into requests (getattr, mknod, open, ..., release) and nofs serves each *)
(* request by a handler.  A handler that calls system("scp ...") or        *)
(* system("wget ...") takes several steps, so that other handlers, the     *)
(* other mounts and the user can step in between.                          *)
(***************************************************************************)
EXTENDS Integers, FiniteSets

CONSTANTS
    Mounts,      \* running nofs processes, each with its own cache directory
    Paths,       \* regular files below the remote root
    Sessions,    \* uses of a file by applications
    MountOf,     \* the mount each session goes through
    Present,     \* the paths that exist on the remote at the start
    Kinds,       \* the uses that occur: subset of Uses
    Transport,   \* "SCP" or "HTTP": the transport flag of struct nofs_state
    Threaded,    \* FALSE: the filesystem is mounted with -s
    Exclusion,   \* which overlapping uses the applications avoid
    Faults,      \* the failures that occur
    FdLimit      \* descriptors a nofs process may hold

(***************************************************************************)
(* A file is the set of updates its content has incorporated.  "made" is   *)
(* its creation, so a missing file is {}; "base" is the content the remote *)
(* starts with; "pathname" is the text of a cache path; session s adds s.  *)
(***************************************************************************)
Update == Sessions \cup {"made", "base", "pathname"}
File == SUBSET Update
Absent == {}
Empty == {"made"}

Uses == {"stat", "read", "write", "create", "truncate", "xattr"}
Writing == {"write", "create"}
Calls == {"getattr", "mknod", "open", "truncate", "xattr", "fsync", "release"}

ASSUME ConstantsAssumption ==
    /\ Sessions \cap {"made", "base", "pathname"} = {}
    /\ MountOf \in [Sessions -> Mounts]
    /\ Paths # {} /\ Present \subseteq Paths
    /\ Kinds \subseteq Uses
    /\ Transport \in {"SCP", "HTTP"}
    /\ Threaded \in BOOLEAN
    /\ Exclusion \in {"none", "opens", "writers", "paths"}
    /\ Faults \subseteq {"unreachable", "partial", "evict", "remount"}
    /\ FdLimit \in Nat

VARIABLES
    remote,   \* the remote tree: path -> File
    cache,    \* the cache directories: mount -> path -> File
    kind,     \* session -> what it uses the path for
    path,     \* session -> the path it uses
    pc,       \* session -> how far its current request is
    call,     \* session -> the handler of its current request
    buf,      \* session -> what its running transfer carries
    mixed,    \* session -> its destination changed under its transfer
    wrote,    \* auxiliary: session has changed the open file
    stale,    \* auxiliary: session opened for writing without the forced copy
    acked     \* auxiliary: path -> updates a successful put has reported

fileVars == <<remote, cache>>
sessionVars == <<kind, path, pc, call, buf, mixed>>
auxVars == <<wrote, stale, acked>>
vars == <<fileVars, sessionVars, auxVars>>

\* Where a session can be.  "access", "put" and "close" are requests nofs has
\* yet to pick up; "opened" is the application's turn; the rest are positions
\* inside a handler, where "found" and "missing" are what ensure_local_file has
\* returned, except for the ends "done" and "leaked".
InHandler == {"get", "got", "found", "missing", "force", "forced", "fd", "putting"}
Ended == {"done", "leaked"}
Places == InHandler \cup Ended \cup {"new", "access", "opened", "put", "close"}
HoldsFd == {"opened", "put", "putting", "close", "leaked"}

Init ==
    /\ remote = [p \in Paths |-> IF p \in Present THEN {"made", "base"} ELSE Absent]
    /\ cache = [m \in Mounts |-> [p \in Paths |-> Absent]]
    /\ kind = [s \in Sessions |-> "stat"]
    /\ path = [s \in Sessions |-> CHOOSE p \in Paths : TRUE]
    /\ pc = [s \in Sessions |-> "new"]
    /\ call = [s \in Sessions |-> "getattr"]
    /\ buf = [s \in Sessions |-> Absent]
    /\ mixed = [s \in Sessions |-> FALSE]
    /\ wrote = [s \in Sessions |-> FALSE]
    /\ stale = [s \in Sessions |-> FALSE]
    /\ acked = [p \in Paths |-> {}]

-------------------------------------------------------------------------------
(* Files and transfers *)

Local(s) == cache[MountOf[s]][path[s]]
Remote(s) == remote[path[s]]

\* Transfers that write a cache file, and transfers that write a remote file.
\* http_server.py answers one request at a time: no client sees its half upload.
Fetching(m, p) ==
    {t \in Sessions : MountOf[t] = m /\ path[t] = p /\ pc[t] \in {"got", "forced"}}
Uploading(p) ==
    {t \in Sessions : Transport = "SCP" /\ path[t] = p /\ pc[t] = "putting"}

\* What a file can hold while new content is copied over the old, or when the
\* copy breaks off: any update only one of them has may be there or not.
Torn(old, new) == {f \in SUBSET (old \cup new) : old \cap new \subseteq f}

\* What a reader of a file can find while transfers are writing it.
Observed(file, writers) == {file} \cup UNION {Torn(file, buf[t]) : t \in writers}

\* What a complete transfer leaves in its destination.
Landed(s, file) == IF mixed[s] THEN Torn(file, buf[s]) ELSE {buf[s]}

\* What a handler reads through a cache file, and a transfer from the remote.
LocalReads(s) == Observed(Local(s), Fetching(MountOf[s], path[s]))
RemoteReads(s) == Observed(Remote(s), Uploading(path[s]))

\* A file changes: the other transfers into it may keep the change or undo it.
SetLocal(s, file) ==
    /\ cache' = [cache EXCEPT ![MountOf[s]][path[s]] = file]
    /\ mixed' = [t \in Sessions |->
                    t # s /\ (mixed[t] \/ t \in Fetching(MountOf[s], path[s]))]
SetRemote(s, file) ==
    /\ remote' = [remote EXCEPT ![path[s]] = file]
    /\ mixed' = [t \in Sessions |-> t # s /\ (mixed[t] \/ t \in Uploading(path[s]))]

\* Mutant: the command of nofs_get_file always truncates its output.
OpenDestinationTruncates(s) == SetLocal(s, Empty)

\* The destination is opened: wget -O truncates it, scp only creates it.
OpenDestination(s) ==
    IF Transport = "HTTP" \/ Local(s) = Absent
    THEN SetLocal(s, Empty)
    ELSE UNCHANGED <<cache, mixed>>

\* Mutant: every transfer opens its output first.
FailedDestinationOpened(s) == SetLocal(s, IF Local(s) = Absent THEN Empty ELSE Local(s))

\* wget has opened its output file when it learns that there is nothing to get.
FailedDestination(s) ==
    IF Transport = "HTTP" THEN SetLocal(s, Empty) ELSE UNCHANGED <<cache, mixed>>

FdFree(m) ==
    Cardinality({t \in Sessions : MountOf[t] = m /\ pc[t] \in HoldsFd}) < FdLimit

\* With -s libfuse serves the next request when the last one has returned.
CanRun(s) ==
    Threaded \/ \A t \in Sessions \ {s} :
                    MountOf[t] = MountOf[s] => pc[t] \notin InHandler

Goto(s, place) == pc' = [pc EXCEPT ![s] = place]
Request(s, op) == Goto(s, "access") /\ call' = [call EXCEPT ![s] = op]
End(s) == Goto(s, "done") /\ UNCHANGED call

-------------------------------------------------------------------------------
(* The application and the kernel *)

\* A discipline of the applications.  "opens": as far as they can tell they never
\* have one path open for writing twice, on any mount, that is, up to close(2).
\* "writers": nor until nofs_release has put the file, which nofs lets nobody
\* see.  "paths": in addition every other use of the path keeps away from the
\* mount that writes it.
Allowed(s, k, p) ==
    \A t \in Sessions \ {s} :
        path[t] = p /\ pc[t] \notin Ended \cup {"new"} =>
            /\ Exclusion = "opens" /\ k \in Writing /\ kind[t] \in Writing =>
                    call[t] = "release"
            /\ Exclusion \in {"writers", "paths"} =>
                    ~(k \in Writing /\ kind[t] \in Writing)
            /\ Exclusion = "paths" /\ MountOf[t] = MountOf[s] =>
                    ~(k \in Writing \/ kind[t] \in Writing)

\* A session starts: whatever the use, the kernel looks the name up first.
Begin(s) ==
    /\ pc[s] = "new"
    /\ \E k \in Kinds, p \in Paths :
        /\ Allowed(s, k, p)
        /\ kind' = [kind EXCEPT ![s] = k]
        /\ path' = [path EXCEPT ![s] = p]
    /\ Request(s, "getattr")
    /\ UNCHANGED <<fileVars, buf, mixed, auxVars>>

-------------------------------------------------------------------------------
(* ensure_local_file and force_local_file_update *)

\* Mutants: what is not in the cache is taken to be nowhere; the result of
\* access() ends the request.
EnsureOnlyChecks(s) ==
    /\ pc[s] = "access" /\ CanRun(s)
    /\ Goto(s, IF Local(s) # Absent THEN "found" ELSE "missing")
    /\ UNCHANGED <<fileVars, kind, path, call, buf, mixed, auxVars>>
EnsureReturnsErrno(s) ==
    /\ pc[s] = "access" /\ CanRun(s)
    /\ Goto(s, IF Local(s) # Absent THEN "found" ELSE "errno")
    /\ UNCHANGED <<fileVars, kind, path, call, buf, mixed, auxVars>>

\* ensure_local_file: the copy in the cache, if there is one, is good enough.
EnsureLocalFile(s) ==
    /\ pc[s] = "access" /\ CanRun(s)
    /\ Goto(s, IF Local(s) # Absent THEN "found" ELSE "get")
    /\ UNCHANGED <<fileVars, kind, path, call, buf, mixed, auxVars>>

\* Mutant: a copy that fails is tried again for ever.
FetchRetries(s, success) ==
    /\ Goto(s, IF ~success THEN pc[s] ELSE IF pc[s] = "got" THEN "found" ELSE "fd")
    /\ UNCHANGED stale

\* force_local_file_update returns.  ensure_local_file hands its result on;
\* nofs_open drops the result of the copy it forces.
FetchReturn(s, success) ==
    IF pc[s] \in {"get", "got"}
    THEN Goto(s, IF success THEN "found" ELSE "missing") /\ UNCHANGED stale
    ELSE /\ Goto(s, "fd")
         /\ stale' = [stale EXCEPT ![s] = @ \/ (~success /\ Remote(s) # Absent)]

\* The command of nofs_get_file starts.
StartFetch(s) ==
    /\ pc[s] \in {"get", "force"}
    /\ Remote(s) # Absent
    /\ \E f \in RemoteReads(s) : buf' = [buf EXCEPT ![s] = f]
    /\ OpenDestination(s)
    /\ Goto(s, IF pc[s] = "get" THEN "got" ELSE "forced")
    /\ UNCHANGED <<remote, kind, path, call, auxVars>>

\* There is no such file on the remote, or the remote does not answer.
FailFetch(s) ==
    /\ pc[s] \in {"get", "force"}
    /\ Remote(s) = Absent \/ "unreachable" \in Faults
    /\ FailedDestination(s)
    /\ FetchReturn(s, FALSE)
    /\ UNCHANGED <<remote, kind, path, call, buf, wrote, acked>>

\* The transfer ends with all the content in place ...
EndFetch(s) ==
    /\ pc[s] \in {"got", "forced"}
    /\ \E f \in Landed(s, Local(s)) : SetLocal(s, f)
    /\ buf' = [buf EXCEPT ![s] = Absent]
    /\ FetchReturn(s, TRUE)
    /\ UNCHANGED <<remote, kind, path, call, wrote, acked>>

\* ... or breaks off, and the part that has arrived stays.
BreakFetch(s) ==
    /\ pc[s] \in {"got", "forced"} /\ "partial" \in Faults
    /\ \E f \in Torn(Local(s), buf[s]) : SetLocal(s, f)
    /\ buf' = [buf EXCEPT ![s] = Absent]
    /\ FetchReturn(s, FALSE)
    /\ UNCHANGED <<remote, kind, path, call, wrote, acked>>

-------------------------------------------------------------------------------
(* The handlers that start with ensure_local_file *)

\* nofs_getattr overwrites ensure_local_file's result with that of lstat().
\* The kernel goes on with what the application asked for.
Getattr(s) ==
    /\ pc[s] \in {"found", "missing"} /\ call[s] = "getattr"
    /\ \/ /\ Local(s) # Absent /\ kind[s] # "stat"
          /\ Request(s, IF kind[s] \in {"truncate", "xattr"} THEN kind[s] ELSE "open")
       \/ /\ Local(s) = Absent /\ kind[s] = "create"
          /\ Request(s, "mknod")
       \/ /\ IF Local(s) = Absent THEN kind[s] # "create" ELSE kind[s] = "stat"
          /\ End(s)
    /\ UNCHANGED <<fileVars, kind, path, buf, mixed, auxVars>>

\* nofs_mknod creates the file in the cache when the copy has failed, and
\* fails when there is a copy.  The kernel opens what it has created.
Mknod(s) ==
    /\ pc[s] = "missing" /\ call[s] = "mknod"
    /\ Local(s) = Absent /\ FdFree(MountOf[s])
    /\ SetLocal(s, Empty)
    /\ Request(s, "open")
    /\ UNCHANGED <<remote, kind, path, buf, auxVars>>

MknodFails(s) ==
    /\ pc[s] \in {"found", "missing"} /\ call[s] = "mknod"
    /\ pc[s] = "found" \/ Local(s) # Absent \/ ~FdFree(MountOf[s])
    /\ End(s)
    /\ UNCHANGED <<fileVars, kind, path, buf, mixed, auxVars>>

\* Mutant: an open for writing is content with the copy in the cache.
OpenKeepsCopy(s) ==
    /\ pc[s] \in {"found", "missing"} /\ call[s] = "open"
    /\ Goto(s, IF pc[s] = "missing" THEN "done" ELSE "fd")
    /\ UNCHANGED <<fileVars, kind, path, call, buf, mixed, auxVars>>

\* nofs_open: an O_CREAT never arrives here, so a failed copy ends it; to open
\* for writing it copies the remote file again.
Open(s) ==
    /\ pc[s] \in {"found", "missing"} /\ call[s] = "open"
    /\ Goto(s, CASE pc[s] = "missing" -> "done"
                 [] pc[s] = "found" /\ kind[s] \in Writing -> "force"
                 [] OTHER -> "fd")
    /\ UNCHANGED <<fileVars, kind, path, call, buf, mixed, auxVars>>

\* Mutant: without a free descriptor open(2) is tried again.
OpenFdRetries(s) ==
    /\ pc[s] = "fd"
    /\ Goto(s, CASE Local(s) = Absent -> "done"
                 [] Local(s) # Absent /\ FdFree(MountOf[s]) -> "opened"
                 [] OTHER -> "fd")
    /\ UNCHANGED <<fileVars, kind, path, call, buf, mixed, auxVars>>

\* nofs_open: the open(2) of the cache file.
OpenFd(s) ==
    /\ pc[s] = "fd"
    /\ Goto(s, IF Local(s) # Absent /\ FdFree(MountOf[s]) THEN "opened" ELSE "done")
    /\ UNCHANGED <<fileVars, kind, path, call, buf, mixed, auxVars>>

\* nofs_truncate changes the copy in the cache and nothing else.
Truncate(s) ==
    /\ pc[s] \in {"found", "missing"} /\ call[s] = "truncate"
    /\ IF pc[s] = "found" /\ Local(s) # Absent
       THEN SetLocal(s, Local(s) \cup {s})
       ELSE UNCHANGED <<cache, mixed>>
    /\ End(s)
    /\ UNCHANGED <<remote, kind, path, buf, auxVars>>

\* The handlers of extended attributes copy the file if they have to; the
\* attributes themselves stay in the cache, no transfer carries them.
Xattr(s) ==
    /\ pc[s] \in {"found", "missing"} /\ call[s] = "xattr"
    /\ End(s)
    /\ UNCHANGED <<fileVars, kind, path, buf, mixed, auxVars>>

-------------------------------------------------------------------------------
(* The handlers of an open file *)

ChangeOpenFile(s) ==
    /\ pc[s] = "opened" /\ kind[s] \in Writing /\ CanRun(s)
    /\ SetLocal(s, Local(s) \cup {s})
    /\ wrote' = [wrote EXCEPT ![s] = TRUE]
    /\ UNCHANGED <<remote, kind, path, pc, call, buf, stale, acked>>

\* nofs_write and nofs_ftruncate go to the cache file through fi->fh.
Write(s) == ChangeOpenFile(s)
Ftruncate(s) == ChangeOpenFile(s)

\* The application asks for nofs_fsync; without a put it has no effect here.
Fsync(s) ==
    /\ pc[s] = "opened" /\ kind[s] \in Writing
    /\ Goto(s, "put")
    /\ call' = [call EXCEPT ![s] = "fsync"]
    /\ UNCHANGED <<fileVars, kind, path, buf, mixed, auxVars>>

\* close(2): nofs_flush does nothing, so the application goes on; the kernel
\* queues the request for nofs_release, which nobody waits for.
Close(s) ==
    /\ pc[s] = "opened" /\ CanRun(s)
    /\ Goto(s, IF kind[s] \in Writing THEN "put" ELSE "close")
    /\ call' = [call EXCEPT ![s] = "release"]
    /\ UNCHANGED <<fileVars, kind, path, buf, mixed, auxVars>>

\* nofs_release of a file open for reading: close(2).
ReleaseReader(s) ==
    /\ pc[s] = "close" /\ CanRun(s)
    /\ End(s)
    /\ UNCHANGED <<fileVars, kind, path, buf, mixed, auxVars>>

\* persist_local_file_to_remote returns: nofs_fsync hands the result on,
\* nofs_release closes the descriptor only after success.
PutReturn(s, success) ==
    Goto(s, CASE call[s] = "fsync" -> "opened"
              [] call[s] # "fsync" /\ success -> "done"
              [] OTHER -> "leaked")

\* Mutant: the upload truncates the remote file first.
StartPutTruncates(s) ==
    /\ pc[s] = "put" /\ CanRun(s) /\ Local(s) # Absent
    /\ \E f \in LocalReads(s) : buf' = [buf EXCEPT ![s] = f]
    /\ SetRemote(s, Empty)
    /\ Goto(s, "putting")
    /\ UNCHANGED <<cache, kind, path, call, auxVars>>

\* The command of nofs_put_file starts.  scp sends what it finds under the
\* path of the cache file; curl, told file=<path> without an @, the path.
StartPut(s) ==
    /\ pc[s] = "put" /\ CanRun(s)
    /\ \/ /\ Transport = "SCP" /\ Local(s) # Absent
          /\ \E f \in LocalReads(s) : buf' = [buf EXCEPT ![s] = f]
          /\ IF Remote(s) = Absent
             THEN SetRemote(s, Empty)
             ELSE UNCHANGED <<remote, mixed>>
       \/ /\ Transport = "HTTP"
          /\ \E f \in {Empty, Empty \cup {"pathname"}} : buf' = [buf EXCEPT ![s] = f]
          /\ UNCHANGED <<remote, mixed>>
    /\ Goto(s, "putting")
    /\ UNCHANGED <<cache, kind, path, call, auxVars>>

FailPut(s) ==
    /\ pc[s] = "put" /\ CanRun(s)
    /\ (Transport = "SCP" /\ Local(s) = Absent) \/ "unreachable" \in Faults
    /\ PutReturn(s, FALSE)
    /\ UNCHANGED <<fileVars, kind, path, call, buf, mixed, auxVars>>

\* All the content has arrived.  Over HTTP the put fails even then: do_POST
\* never ends its header, so curl gets an empty reply.
EndPut(s) ==
    /\ pc[s] = "putting"
    /\ \E f \in Landed(s, Remote(s)) : SetRemote(s, f)
    /\ buf' = [buf EXCEPT ![s] = Absent]
    /\ PutReturn(s, Transport = "SCP")
    /\ acked' = IF Transport = "SCP"
                THEN [acked EXCEPT ![path[s]] =
                        @ \cup buf[s] \cup (IF wrote[s] THEN {s} ELSE {})]
                ELSE acked
    /\ UNCHANGED <<cache, kind, path, call, wrote, stale>>

\* The upload breaks off: scp writes in place and cuts the file at the end.
BreakPut(s) ==
    /\ pc[s] = "putting" /\ "partial" \in Faults /\ Transport = "SCP"
    /\ \E f \in Torn(Remote(s), buf[s]) : SetRemote(s, f)
    /\ buf' = [buf EXCEPT ![s] = Absent]
    /\ PutReturn(s, FALSE)
    /\ UNCHANGED <<cache, kind, path, call, auxVars>>

-------------------------------------------------------------------------------
(* What happens to a cache directory from outside *)

\* The user removes a file of the cache that no handler has open, as
\* src/test/test-cat-fs.sh does between two reads.
Evict(m, p) ==
    /\ "evict" \in Faults /\ cache[m][p] # Absent
    /\ \A s \in Sessions :
        MountOf[s] = m /\ path[s] = p =>
            pc[s] \notin {"got", "forced", "opened", "put", "putting", "close"}
    /\ cache' = [cache EXCEPT ![m][p] = Absent]
    /\ UNCHANGED <<remote, sessionVars, auxVars>>

\* nofs dies with all that is open in it, and src/mount.sh starts it again on
\* a new cache directory.  A put that dies with it has broken off before.
Remount(m) ==
    /\ "remount" \in Faults
    /\ \A s \in Sessions : MountOf[s] = m => pc[s] # "putting"
    /\ cache' = [cache EXCEPT ![m] = [p \in Paths |-> Absent]]
    /\ LET dies(s) == MountOf[s] = m /\ pc[s] # "new" IN
        /\ pc' = [s \in Sessions |-> IF dies(s) THEN "done" ELSE pc[s]]
        /\ buf' = [s \in Sessions |-> IF dies(s) THEN Absent ELSE buf[s]]
        /\ mixed' = [s \in Sessions |-> ~dies(s) /\ mixed[s]]
    /\ UNCHANGED <<remote, kind, path, call, auxVars>>

-------------------------------------------------------------------------------
\* The steps nofs takes by itself once it has picked a request up ...
Handler(s) ==
    \/ StartFetch(s) \/ FailFetch(s) \/ EndFetch(s) \/ BreakFetch(s)
    \/ Getattr(s) \/ Mknod(s) \/ MknodFails(s) \/ Open(s) \/ OpenFd(s)
    \/ Truncate(s) \/ Xattr(s) \/ EndPut(s) \/ BreakPut(s)

\* ... the requests it picks up ...
Pickup(s) == EnsureLocalFile(s) \/ StartPut(s) \/ FailPut(s) \/ ReleaseReader(s)

\* ... and what the application does.
Application(s) == Begin(s) \/ Write(s) \/ Ftruncate(s) \/ Fsync(s) \/ Close(s)

Terminated == (\A s \in Sessions : pc[s] \in Ended) /\ UNCHANGED vars

Next ==
    \/ \E s \in Sessions : Handler(s) \/ Pickup(s) \/ Application(s)
    \/ \E m \in Mounts, p \in Paths : Evict(m, p)
    \/ \E m \in Mounts : Remount(m)
    \/ Terminated

Spec == Init /\ [][Next]_vars

\* A command that has been started ends, a handler goes on, and libfuse serves
\* the requests in turn: none waits for ever behind later ones.
Fairness == \A s \in Sessions : WF_vars(Handler(s)) /\ SF_vars(Pickup(s))

FairSpec == Spec /\ Fairness
===============================================================================
