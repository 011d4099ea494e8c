---------------------------- MODULE NofsInvariant -----------------------------
(***************************************************************************)
(* Why no update is lost over SCP when the applications keep writers of    *)
(* one path apart: the inductive invariant behind NoLostUpdate,            *)
(* RemoteNeverShrinks and WriterHasRemote.                                 *)
(***************************************************************************)
EXTENDS NofsProperties

\* The conditions: scp, and either -s and one writer of a path at a time, the put
\* of its nofs_release included, or no other use of a path on the mount that
\* writes it.
Disciplined ==
    /\ Transport = "SCP"
    /\ Exclusion = "paths" \/ (Exclusion = "writers" /\ ~Threaded)

Live(s) == pc[s] \notin Ended \cup {"new"}
Writer(s) == kind[s] \in Writing
SameCopy(s, t) == MountOf[s] = MountOf[t] /\ path[s] = path[t]

\* A writer whose copy in the cache is, or is about to be, the one it forced.
HasForced(s) ==
    Writer(s) /\ pc[s] \in {"forced", "fd", "opened", "put", "putting"}

\* A file that exists has been made, and what a transfer writes exists.
Made ==
    /\ \A p \in Paths : remote[p] # Absent => "made" \in remote[p]
    /\ \A m \in Mounts, p \in Paths : cache[m][p] # Absent => "made" \in cache[m][p]
    /\ \A s \in Sessions :
        /\ pc[s] \in {"got", "forced", "putting"} => "made" \in buf[s]
        /\ pc[s] \in {"got", "forced"} => Local(s) # Absent
        /\ pc[s] = "putting" => Remote(s) # Absent

\* Only a use for writing forces a copy or puts one.
Roles ==
    \A s \in Sessions : pc[s] \in {"force", "forced", "put", "putting"} => Writer(s)

\* The applications keep to their discipline.
Apart ==
    \A s, t \in Sessions :
        s # t /\ Live(s) /\ Live(t) /\ path[s] = path[t] =>
            /\ ~(Writer(s) /\ Writer(t))
            /\ Exclusion = "paths" /\ MountOf[s] = MountOf[t] =>
                    ~Writer(s) /\ ~Writer(t)

\* With -s one handler of a mount runs at a time.
Serial ==
    ~Threaded =>
        \A s, t \in Sessions :
            s # t /\ MountOf[s] = MountOf[t] =>
                ~(pc[s] \in InHandler /\ pc[t] \in InHandler)

\* No copy that ensure_local_file has started comes in under a writer ...
NoFetchUnderWriter ==
    \A s, t \in Sessions :
        s # t /\ SameCopy(s, t) /\ HasForced(s) => pc[t] \notin {"get", "got"}

\* ... because its file stays in the cache for as long as it is open.
WritersHaveCopy ==
    \A s \in Sessions :
        Writer(s) /\ pc[s] \in {"opened", "put", "putting"} => Local(s) # Absent

\* Nothing changes under a forced copy or a put.
Unmixed == \A s \in Sessions : mixed[s] => pc[s] = "got"

\* A writer that got its forced copy carries the whole remote file through its
\* open, its writes and its puts, and its own update with it.
Carries(s) ==
    /\ pc[s] = "forced" => Remote(s) \subseteq buf[s]
    /\ pc[s] = "fd" => Local(s) = Absent \/ Remote(s) \subseteq Local(s)
    /\ pc[s] \in {"opened", "put", "putting"} => Remote(s) \subseteq Local(s)
    /\ pc[s] = "putting" => Remote(s) \subseteq buf[s] /\ buf[s] \subseteq Local(s)

CarriesRemote == \A s \in Sessions : Writer(s) /\ ~stale[s] => Carries(s)

CarriesOwn ==
    \A s \in Sessions :
        wrote[s] =>
            /\ Writer(s) /\ pc[s] \in {"opened", "put", "putting"} \cup Ended
            /\ pc[s] \in {"opened", "put", "putting"} => s \in Local(s)
            /\ pc[s] = "putting" => s \in buf[s]

IInv ==
    /\ TypeOK
    /\ Made
    /\ Roles
    /\ Apart
    /\ Serial
    /\ NoFetchUnderWriter
    /\ WritersHaveCopy
    /\ Unmixed
    /\ CarriesRemote
    /\ CarriesOwn
    /\ NoLostUpdate
===============================================================================
