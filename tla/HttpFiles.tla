------------------------------ MODULE HttpFiles -------------------------------
(***************************************************************************)
(* HttpServer implements FileServer.  The files it stands for are those    *)
(* that complete uploads leave, so that one takes effect when              *)
(* deal_post_data opens the file; until its last line is written only the  *)
(* server knows.                                                           *)
(***************************************************************************)
EXTENDS HttpInvariant

AskedFor(c) ==
    [method |-> request[c].method, name |-> Name(c),
     typed |-> request[c].form # "untyped", content |-> request[c].content]

AskedNow == [c \in Clients |-> IF pc[c] = "idle" THEN <<>> ELSE <<AskedFor(c)>>]

StoredNow == {c \in Clients : pc[c] \in Storing /\ lost[c] = 0}

HeldNow == [n \in Names |-> Held(n)]

Files == INSTANCE FileServer WITH
    Contents <- Seq(Byte),
    files <- HeldNow,
    asked <- AskedNow,
    stored <- StoredNow,
    told <- reply

\* GET, HEAD and POST do what the file server they stand for does: no client is
\* told of a half written file, and no upload replaces a file but the one it
\* names, nor is stored twice, nor after it was answered.  What is stored is all that
\* was sent, unless the part has no Content-Type: then the end of it.
ImplementsFileServer == Files!Spec
===============================================================================
