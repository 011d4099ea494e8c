----------------------------- MODULE SharedStore ------------------------------
(***************************************************************************)
(* What nofs promises to applications that share files and keep writers of *)
(* one file apart: a store from which a file is checked out, changed and   *)
(* checked in.  There are no caches, transfers, descriptors or requests    *)
(* here; a mount that dies only loses what is checked out through it.      *)
(***************************************************************************)
CONSTANTS Users, Names, Updates

VARIABLES
    files,     \* name -> the updates the stored file has
    out,       \* name -> user -> the user's copy, {} when it has none
    behind,    \* the users that were told of a copy that did not arrive whole
    reported   \* name -> the updates whose storing has been reported

vars == <<files, out, behind, reported>>

Init ==
    /\ files \in [Names -> SUBSET Updates]
    /\ out = [n \in Names |-> [u \in Users |-> {}]]
    /\ behind = {}
    /\ reported = [n \in Names |-> {}]

\* Nobody's copy of another file changes, and no other user's of this one.
OnlyCopyOf(u, n) ==
    /\ out' \in [Names -> [Users -> SUBSET Updates]]
    /\ \A m \in Names, v \in Users : <<m, v>> # <<n, u>> => out'[m][v] = out[m][v]

OnlyFile(n) ==
    /\ files' \in [Names -> SUBSET Updates]
    /\ \A m \in Names \ {n} : files'[m] = files[m]

\* The copy that is about to be checked out is not what the store has.
FallBehind(u) ==
    /\ behind' = behind \cup {u}
    /\ UNCHANGED <<files, out, reported>>

\* One user at a time has a file, and unless it is behind its copy has all of it.
CheckOut(u, n) ==
    /\ \A v \in Users : out[n][v] = {}
    /\ OnlyCopyOf(u, n)
    /\ u \notin behind => files[n] \subseteq out'[n][u]
    /\ UNCHANGED <<files, behind, reported>>

\* A copy that is out only gains updates, its user's or a truncation's.
Change(u, n) ==
    /\ out[n][u] # {}
    /\ OnlyCopyOf(u, n)
    /\ out[n][u] \subseteq out'[n][u]
    /\ UNCHANGED <<files, behind, reported>>

\* Users give up their copies, or lose them when their mount dies.
Drop(gone) ==
    out' = [n \in Names |-> [u \in Users |-> IF u \in gone THEN {} ELSE out[n][u]]]

\* All or part of a copy is stored: nothing appears that the copy has not got,
\* and nothing goes away unless the user is behind.  The user may be told, and
\* may give up its copy.
Store(u, n) ==
    /\ out[n][u] # {}
    /\ OnlyFile(n)
    /\ files'[n] \subseteq files[n] \cup out[n][u]
    /\ u \notin behind => files[n] \subseteq files'[n]
    /\ \/ reported' = [reported EXCEPT ![n] = @ \cup files'[n]]
       \/ UNCHANGED reported
    /\ Drop({u}) \/ UNCHANGED out
    /\ UNCHANGED behind

Lose(gone) == Drop(gone) /\ UNCHANGED <<files, behind, reported>>

Next ==
    \/ \E u \in Users :
        \/ FallBehind(u)
        \/ \E n \in Names : CheckOut(u, n) \/ Change(u, n) \/ Store(u, n)
    \/ \E gone \in SUBSET Users : Lose(gone)

Spec == Init /\ [][Next]_vars

\* What has been reported as stored stays stored, as long as nobody is behind.
ReportedStays == behind = {} => \A n \in Names : reported[n] \subseteq files[n]
===============================================================================
