------------------------------- MODULE Process --------------------------------
(***************************************************************************)
(* A nofs process from its command line to its end: what Startup does      *)
(* until fuse_main serves, then the requests of Handlers.                  *)
(***************************************************************************)
EXTENDS Startup, Handlers

vars == <<startVars, handlerVars>>

Init == StartInit /\ HandlersInit

Next ==
    \/ Start /\ UNCHANGED handlerVars
    \/ pc = "idle" /\ Destroy /\ UNCHANGED handlerVars
    \/ stage = "serving" /\ Serve /\ UNCHANGED startVars
    \/ stage \in {"ended", "aborted", "crashed"} /\ UNCHANGED vars

Spec == Init /\ [][Next]_vars

\* Every variable of the process holds what Startup and Handlers declare.
TypeOK == StartTypeOK /\ HandlersTypeOK
===============================================================================
