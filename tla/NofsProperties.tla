---------------------------- MODULE NofsProperties ----------------------------
(***************************************************************************)
(* What nofs promises the applications that share a remote directory, and  *)
(* what its comments say of it, as properties of Nofs.                     *)
(***************************************************************************)
EXTENDS Nofs

\* Every variable holds what its declaration in Nofs says.
TypeOK ==
    /\ remote \in [Paths -> File]
    /\ cache \in [Mounts -> [Paths -> File]]
    /\ kind \in [Sessions -> Uses]
    /\ path \in [Sessions -> Paths]
    /\ pc \in [Sessions -> Places]
    /\ call \in [Sessions -> Calls]
    /\ buf \in [Sessions -> File]
    /\ mixed \in [Sessions -> BOOLEAN]
    /\ wrote \in [Sessions -> BOOLEAN]
    /\ stale \in [Sessions -> BOOLEAN]
    /\ acked \in [Paths -> SUBSET Update]

\* Every open for writing has started from the copy nofs_open forces.
ForcedCopiesArrived == \A s \in Sessions : ~stale[s]

-------------------------------------------------------------------------------
(* Updates and the remote *)

\* What nofs_release and nofs_fsync have reported as copied back, which is the
\* content they sent and the session's own changes, is on the remote for good:
\* no later open, fetch or put of any mount undoes it.
NoLostUpdate ==
    ForcedCopiesArrived => \A p \in Paths : acked[p] \subseteq remote[p]

\* No step takes from a remote file an update it has, reported or not: what
\* nofs_open copied before the writing covers what persist_local_file_to_remote
\* replaces, even when the put breaks off.
RemoteNeverShrinks ==
    [][ForcedCopiesArrived => \A p \in Paths : remote[p] \subseteq remote'[p]]_vars

\* A file open for writing is never behind the remote, from the forced copy of
\* nofs_open to the last put of nofs_release.
WriterHasRemote ==
    \A s \in Sessions :
        pc[s] \in {"opened", "put"} /\ kind[s] \in Writing /\ ~stale[s] =>
            Remote(s) \subseteq Local(s)

\* nofs_mknod creates a file in the cache only where the remote has none.
CreatesOnlyWhereNoneIs ==
    [][\A s \in Sessions :
        pc[s] = "missing" /\ call[s] = "mknod" /\ call'[s] = "open" =>
            Remote(s) = Absent]_vars

\* A handler that looks for a file never makes one: a cache file appears where
\* there was none because the remote has it, or because nofs_mknod creates it.
\* Over HTTP wget makes an empty one (FailedDestination); scp does not.
OnlyMknodInvents ==
    [][\A m \in Mounts, p \in Paths :
        cache[m][p] = Absent /\ cache'[m][p] # Absent =>
            \/ remote[p] # Absent
            \/ \E s \in Sessions :
                MountOf[s] = m /\ path[s] = p /\ call[s] = "mknod" /\ pc[s] = "missing"]_vars

-------------------------------------------------------------------------------
(* Reads *)

\* Nobody reads a half copied file: a nofs_read that libfuse may run finds the
\* content the remote had from the start and still has, although other handlers
\* truncate and copy the cache file, and ensure_local_file takes any file that
\* is there for a copy.
WholeRead ==
    \A s \in Sessions :
        pc[s] = "opened" /\ CanRun(s) /\ "base" \in Remote(s) =>
            \A f \in LocalReads(s) : "base" \in f

\* A file opened through a mount shows every update that was written through
\* the same mount and reported as copied back.
OwnUpdatesVisible ==
    \A s, t \in Sessions :
        /\ ForcedCopiesArrived
        /\ pc[s] = "opened" /\ t \in acked[path[s]] /\ MountOf[t] = MountOf[s]
        => \A f \in LocalReads(s) : t \in f

\* While a file is open, no update that it shows and the remote has goes away:
\* the copy another nofs_open forces never takes a reader back.
OpenFilesNeverGoBack ==
    [][\A s \in Sessions :
        pc[s] = "opened" /\ pc'[s] = "opened" =>
            Local(s) \cap Remote(s) \subseteq Local(s)']_vars

-------------------------------------------------------------------------------
(* Progress *)

\* Every request a session makes is answered.
EveryRequestIsAnswered ==
    \A s \in Sessions :
        pc[s] \notin Ended \cup {"new", "opened"} ~>
            pc[s] \in Ended \cup {"opened"}

-------------------------------------------------------------------------------
(* What comments of nofs.c say, and the code does not do *)

\* nofs.c:512, of nofs_flush, which close(2) waits for: "this will flush to the
\* remote server if the file was opened for writing": what a session has changed
\* before its close(2) reaches the remote and stays.
ClosedIsStored ==
    \A s \in Sessions :
        pc[s] = "put" /\ call[s] = "release" /\ wrote[s] ~> [](s \in Remote(s))

\* nofs.c:547, of nofs_release: "then we need to copy it back".  The remote
\* holds nothing that was in no cache file.
PutsCopyContent ==
    \A p \in Paths : "pathname" \notin remote[p]

\* nofs.c:394: "Force local file copy if we are opening the file for writing".
OpensForWritingHaveCopy ==
    \A s \in Sessions :
        pc[s] = "opened" /\ kind[s] \in Writing => Remote(s) \subseteq Local(s)

\* nofs.c:590, of nofs_fsync: "then we need to copy it back": after an fsync(2)
\* that reports success the remote has the session's changes.
FsyncStores ==
    [][\A s \in Sessions :
        pc[s] = "putting" /\ call[s] = "fsync" /\ acked' # acked
            /\ pc'[s] = "opened" /\ wrote[s] => s \in Remote(s)']_vars
===============================================================================
