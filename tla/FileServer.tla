------------------------------ MODULE FileServer ------------------------------
(***************************************************************************)
(* What an HTTP server with upload promises: a request takes effect at one *)
(* moment between its arrival and its answer.  A GET answers with what the *)
(* file holds at that moment, an upload replaces the file as a whole, once *)
(* and no other, or not at all.  An upload that does not say what type of  *)
(* content it has may lose its beginning.  There are no connections,       *)
(* forms, lines or half written files here.                                *)
(***************************************************************************)
EXTENDS Naturals, Sequences

CONSTANTS Clients, Names, Writable, Contents

VARIABLES
    files,      \* name -> <<>> if missing, else <<content>>
    asked,      \* client -> <<>> if it waits for nothing, else <<request>>
    stored,     \* the clients whose upload has taken effect
    told        \* client -> what it has got back

vars == <<files, asked, stored, told>>

Request == [method : {"GET", "HEAD", "POST"}, name : Names,
            typed : BOOLEAN, content : Contents]
Nothing == [status |-> "none", body |-> <<>>]

Init ==
    /\ files \in [Names -> Seq(Contents)]
    /\ \A n \in Names : Len(files[n]) <= 1
    /\ asked = [c \in Clients |-> <<>>]
    /\ stored = {}
    /\ told = [c \in Clients |-> Nothing]

Waits(c, methods) == asked[c] # <<>> /\ asked[c][1].method \in methods
File(c) == files[asked[c][1].name]

Ask(c) ==
    /\ asked[c] = <<>>
    /\ asked' \in [Clients -> Seq(Request)]
    /\ asked'[c] # <<>>
    /\ \A d \in Clients \ {c} : asked'[d] = asked[d]
    /\ told' = [told EXCEPT ![c] = Nothing]
    /\ UNCHANGED <<files, stored>>

Tell(c, status, body) ==
    /\ told' = [told EXCEPT ![c] = [status |-> status, body |-> body]]
    /\ asked' = [asked EXCEPT ![c] = <<>>]
    /\ stored' = stored \ {c}
    /\ UNCHANGED files

Get(c) == Waits(c, {"GET"}) /\ File(c) # <<>> /\ Tell(c, "200", File(c)[1])
Describe(c) == Waits(c, {"HEAD"}) /\ File(c) # <<>> /\ Tell(c, "200", <<>>)
Missing(c) == Waits(c, {"GET", "HEAD"}) /\ File(c) = <<>> /\ Tell(c, "404", <<>>)

\* What may be stored of an upload: all, or the end of it.
Kept(r) ==
    {SubSeq(r.content, lost + 1, Len(r.content)) :
        lost \in IF r.typed THEN {0} ELSE 0..Len(r.content)}

\* An upload takes effect.
Replace(c) ==
    /\ Waits(c, {"POST"}) /\ c \notin stored
    /\ asked[c][1].name \in Writable
    /\ \E content \in Kept(asked[c][1]) :
        files' = [files EXCEPT ![asked[c][1].name] = <<content>>]
    /\ stored' = stored \cup {c}
    /\ UNCHANGED <<asked, told>>

\* An upload is answered, whether it took effect or not.
EndPost(c) == Waits(c, {"POST"}) /\ Tell(c, "empty", <<>>)

Next ==
    \E c \in Clients :
        Ask(c) \/ Get(c) \/ Describe(c) \/ Missing(c) \/ Replace(c) \/ EndPost(c)

Spec == Init /\ [][Next]_vars
===============================================================================
