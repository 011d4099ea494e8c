------------------------------ MODULE NofsStore -------------------------------
(***************************************************************************)
(* Nofs over scp implements SharedStore when the applications are          *)
(* disciplined.  The stored files are the remote's.  What a session has    *)
(* checked out is the copy in the cache, from the open(2) of nofs_open to  *)
(* the end of nofs_release; before and after, what is in the cache is      *)
(* nobody's.                                                               *)
(***************************************************************************)
EXTENDS NofsInvariant

\* The session has its file open for writing.
HasOut(s) == Writer(s) /\ pc[s] \in {"opened", "put", "putting"}

CheckedOut ==
    [p \in Paths |->
        [s \in Sessions |-> IF path[s] = p /\ HasOut(s) THEN Local(s) ELSE {}]]

Store == INSTANCE SharedStore WITH
    Users <- Sessions,
    Names <- Paths,
    Updates <- Update,
    files <- remote,
    out <- CheckedOut,
    behind <- {s \in Sessions : stale[s]},
    reported <- acked

\* The caches, the transfers and the requests of nofs_open, nofs_write,
\* nofs_fsync and nofs_release do what the store they stand for does: a file is
\* checked out whole, by one session at a time, and what is checked in was
\* checked out.
ImplementsStore == Store!Spec
===============================================================================
