---------------------------- MODULE HttpInvariant -----------------------------
(***************************************************************************)
(* Why an upload leaves what it leaves: the inductive invariant behind     *)
(* FilesAreWhole, GetsSendWholeFiles and RemainIsLeft.                     *)
(***************************************************************************)
EXTENDS HttpServer

\* What follows a content, and the name of its file.
Ending == EndLine \o <<"boundary">>
Blank(r) == EndLine \o (r.content \o Ending)
AfterName(r) == IF r.form = "typed" THEN <<"type">> \o Blank(r) ELSE Blank(r)

\* Whole lines, none of them a mark.
Lines == {bytes \in Seq(Byte) : bytes = <<>> \/ bytes[Len(bytes)] = "LF"}

\* How many of the symbols that are left may be marks, if some never arrive.
MarksLeft == [form |-> 3, name |-> 2, skip |-> 1, part |-> 0, first |-> 0, loop |-> 0]

\* A form that is cut short: the boundary at its end is not part of it.
CutShort(c) ==
    /\ \A i \in 1..Len(rest[c]) : i > MarksLeft[pc[c]] => rest[c][i] \in Byte
    /\ pc[c] = "loop" => preline[c] \in Seq(Byte)

\* The content and what the form puts behind it are written, kept back or left.
AddsUp(written, line, left, content) == (written \o line) \o left = content \o Ending

\* The file is open and was emptied; it is to hold content.  An untyped part may
\* have lost its line end to the lines skipped, so that the boundary is taken
\* for the first line of an empty content.
Opening(c, content) ==
    /\ store[Name(c)] = <<<<>>>>
    /\ \/ rest[c] = content \o Ending
       \/ rest[c] = <<"boundary">> /\ content = <<>>
Filling(c, content) ==
    \/ LET written == store[Name(c)][1] IN
        /\ store[Name(c)] = <<written>> /\ written \in Lines
        /\ preline[c] \in Lines \ {<<>>}
        /\ AddsUp(written, preline[c], rest[c], content)
    \/ /\ store[Name(c)] = <<<<>>>> /\ content = <<>>
       /\ preline[c] = <<"boundary">> /\ rest[c] = <<>>

\* A form that arrives as a whole.
Whole(c) ==
    LET r == request[c] IN
    /\ pc[c] = "form" => rest[c] = Body(r)
    /\ pc[c] \in {"name", "skip", "part"} => r.form # "raw"
    /\ pc[c] = "name" => rest[c] = <<"disposition">> \o AfterName(r)
    /\ pc[c] = "skip" => rest[c] = AfterName(r)
    /\ pc[c] = "part" =>
        rest[c] = IF r.form = "typed" THEN Blank(r) ELSE r.content \o Ending
    /\ pc[c] \in Storing => intended[Name(c)] = <<Sent(r)>>
    /\ pc[c] = "first" => Opening(c, Stored(r))
    /\ pc[c] = "loop" => Filling(c, Stored(r))

Upload(c) ==
    pc[c] \in Posting =>
        /\ remain[c] = Len(rest[c]) + lost[c]
        /\ IF lost[c] > 0 THEN CutShort(c) ELSE Whole(c)

\* The request is one for the handler that has it.
Asked(c) ==
    /\ pc[c] = "head" => request[c].method \in {"GET", "HEAD"}
    /\ pc[c] = "copy" => request[c].method = "GET"
    /\ pc[c] \in Posting => request[c].method = "POST"

\* One connection at a time.
Alone == \A c, d \in Clients : pc[c] \in Handling /\ pc[d] \in Handling => c = d

Opened(c) == pc[c] \in Storing \cup {"copy"} => store[Name(c)] # <<>>

\* A file is what the last form left, unless an upload is about to fill it.
Kept ==
    \A n \in Names :
        \/ store[n] = Held(n)
        \/ \E c \in Clients : pc[c] \in Storing /\ Name(c) = n

IInv ==
    /\ TypeOK /\ Alone /\ Kept
    /\ \A c \in Clients : Asked(c) /\ Opened(c) /\ Upload(c)
===============================================================================
