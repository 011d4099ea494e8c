------------------------------ MODULE HttpServer ------------------------------
(***************************************************************************)
(* The server nofs talks to over HTTP, http_server.py of the benchmarks:   *)
(* it hands files out to wget (GET), describes them (HEAD) and stores what *)
(* curl uploads as a multipart form (POST).  HTTPServer answers one        *)
(* connection at a time.  do_POST reads the form line by line; the client  *)
(* may go away before it has sent all of it.                               *)
(***************************************************************************)
EXTENDS Integers, Sequences, SequencesExt

CONSTANTS
    Clients,
    Names,       \* files below the directory the server runs in
    Writable,    \* the names open(fn, 'wb') succeeds for
    Present,     \* the names that exist at the start
    Contents,    \* file contents clients upload
    Forms,       \* the kinds of POST that occur
    Cuts         \* TRUE: a client may go away in the middle of its form

Byte == {"x", "CR", "LF"}

\* A part of a form is "typed" if a Content-Type line follows its Content-
\* Disposition line, else "untyped" (curl does that for a text with a filename
\* that has no known extension); a "raw" request has no form at all.
AllForms == {"typed", "untyped", "raw"}

ASSUME ServerAssumption ==
    /\ Names # {} /\ Writable \subseteq Names /\ Present \subseteq Names
    /\ Contents \subseteq Seq(Byte)
    /\ Forms \subseteq AllForms
    /\ Cuts \in BOOLEAN

VARIABLES
    store,      \* the directory: name -> <<>> if missing, else <<content>>
    request,    \* client -> its request
    pc,         \* client -> how far its request is
    rest,       \* client -> what is left to read from its connection
    remain,     \* client -> remainbytes of deal_post_data
    preline,    \* client -> preline of deal_post_data
    lost,       \* auxiliary: client -> bytes of its form that never arrive
    reply,      \* client -> what it has got back
    intended    \* auxiliary: name -> the last form sent for it that arrived as a
                \* whole and was stored, <<>> if none was and it did not exist

postVars == <<rest, remain, preline, lost>>
vars == <<store, request, pc, postVars, reply, intended>>

Request ==
    [method : {"GET", "HEAD"}, name : Names, form : {"raw"}, content : {<<>>}]
    \cup [method : {"POST"}, name : Names, form : {"raw"}, content : {<<>>}]
    \cup [method : {"POST"}, name : Names, form : AllForms \ {"raw"}, content : Contents]
NoRequest == CHOOSE r \in Request : r.method = "GET"

\* Where deal_post_data is; from "first" on it has the file open.
Storing == {"first", "loop"}
Posting == {"form", "name", "skip", "part"} \cup Storing
Handling == {"head", "copy"} \cup Posting
Places == {"idle", "waiting"} \cup Handling

\* Marks of a form.  Each stands for a whole line, its end included: the
\* boundary, the part's Content-Disposition and its Content-Type.
Mark == {"boundary", "disposition", "type"}
Text == Seq(Byte \cup Mark)

\* The body of a POST as curl writes it, with a line end of its own behind the
\* content.
EndLine == <<"CR", "LF">>
Heading(form) ==
    <<"boundary", "disposition">>
    \o (IF form = "typed" THEN <<"type">> ELSE <<>>) \o EndLine
Body(r) ==
    IF r.form = "raw" THEN <<>>
    ELSE Heading(r.form) \o r.content \o EndLine \o <<"boundary">>

\* rfile.readline(): all up to the next line end, or what there is when the
\* client has gone, which may be nothing.
EndsLine == Mark \cup {"LF"}
LineEnds(bytes) == {i \in 1..Len(bytes) : bytes[i] \in EndsLine}
LineLength(bytes) ==
    LET ends == LineEnds(bytes) IN IF ends = {} THEN Len(bytes) ELSE Min(ends)
Line(bytes) == SubSeq(bytes, 1, LineLength(bytes))
AfterLine(bytes) == SubSeq(bytes, LineLength(bytes) + 1, Len(bytes))

\* What a client has sent.
Sent(r) == [form |-> r.form, content |-> r.content]

Init ==
    /\ store = [n \in Names |-> IF n \in Present THEN <<<<"x">>>> ELSE <<>>]
    /\ request = [c \in Clients |-> NoRequest]
    /\ pc = [c \in Clients |-> "idle"]
    /\ rest = [c \in Clients |-> <<>>]
    /\ remain = [c \in Clients |-> 0]
    /\ preline = [c \in Clients |-> <<>>]
    /\ lost = [c \in Clients |-> 0]
    /\ reply = [c \in Clients |-> [status |-> "none", body |-> <<>>]]
    /\ intended = [n \in Names |-> IF n \in Present
                                   THEN <<[form |-> "typed", content |-> <<"x">>]>>
                                   ELSE <<>>]

Name(c) == request[c].name
Goto(c, place) == pc' = [pc EXCEPT ![c] = place]

-------------------------------------------------------------------------------
\* A client connects and sends a request.
Send(c) ==
    /\ pc[c] = "idle"
    /\ \E r \in Request :
        /\ r.form \in Forms
        /\ request' = [request EXCEPT ![c] = r]
    /\ reply' = [reply EXCEPT ![c] = [status |-> "none", body |-> <<>>]]
    /\ Goto(c, "waiting")
    /\ UNCHANGED <<store, postVars, intended>>

Answer(c, status, body) ==
    /\ reply' = [reply EXCEPT ![c] = [status |-> status, body |-> body]]
    /\ request' = [request EXCEPT ![c] = NoRequest]
    /\ Goto(c, "idle")

\* Mutant: a server with a thread for every connection.
AcceptAlways(c) ==
    /\ pc[c] = "waiting" /\ request[c].method # "POST"
    /\ Goto(c, "head")
    /\ UNCHANGED <<store, request, postVars, reply, intended>>

\* do_GET, do_HEAD: the next connection is taken up when the last one is done.
AcceptGet(c) ==
    /\ pc[c] = "waiting" /\ request[c].method # "POST"
    /\ \A d \in Clients : pc[d] \notin Handling
    /\ Goto(c, "head")
    /\ UNCHANGED <<store, request, postVars, reply, intended>>

\* do_POST: as much of the form arrives as the client sends before it goes.
AcceptPost(c) ==
    /\ pc[c] = "waiting" /\ request[c].method = "POST"
    /\ \A d \in Clients : pc[d] \notin Handling
    /\ LET body == Body(request[c]) IN
        \E arrived \in IF Cuts THEN Prefixes(body) ELSE {body} :
            /\ rest' = [rest EXCEPT ![c] = arrived]
            /\ lost' = [lost EXCEPT ![c] = Len(body) - Len(arrived)]
            /\ remain' = [remain EXCEPT ![c] = Len(body)]
    /\ Goto(c, "form")
    /\ UNCHANGED <<store, request, preline, reply, intended>>

-------------------------------------------------------------------------------
(* GET and HEAD *)

\* Mutant: do_HEAD copies the file as do_GET does.
SendHeadCopies(c) ==
    /\ pc[c] = "head"
    /\ \/ store[Name(c)] = <<>> /\ Answer(c, "404", <<>>)
       \/ store[Name(c)] # <<>> /\ Goto(c, "copy") /\ UNCHANGED <<request, reply>>
    /\ UNCHANGED <<store, postVars, intended>>

\* send_head: open the file and send the header; do_HEAD stops there.
SendHead(c) ==
    /\ pc[c] = "head"
    /\ \/ store[Name(c)] = <<>> /\ Answer(c, "404", <<>>)
       \/ /\ store[Name(c)] # <<>> /\ request[c].method = "HEAD"
          /\ Answer(c, "200", <<>>)
       \/ /\ store[Name(c)] # <<>> /\ request[c].method = "GET"
          /\ Goto(c, "copy") /\ UNCHANGED <<request, reply>>
    /\ UNCHANGED <<store, postVars, intended>>

\* copyfile sends what the file holds.
CopyFile(c) ==
    /\ pc[c] = "copy"
    /\ Answer(c, "200", store[Name(c)][1])
    /\ UNCHANGED <<store, postVars, intended>>

-------------------------------------------------------------------------------
(* POST: deal_post_data *)

\* It returns: do_POST sends a status line it never flushes, whatever the
\* result, so that the client finds an empty reply.
Return(c) ==
    /\ Answer(c, "empty", <<>>)
    /\ rest' = [rest EXCEPT ![c] = <<>>]
    /\ remain' = [remain EXCEPT ![c] = 0]
    /\ preline' = [preline EXCEPT ![c] = <<>>]
    /\ lost' = [lost EXCEPT ![c] = 0]

\* Mutant: the end of a line is counted once more.
ReadLineCountsEnd(c) ==
    /\ rest' = [rest EXCEPT ![c] = AfterLine(rest[c])]
    /\ remain' = [remain EXCEPT ![c] = @ - LineLength(rest[c]) - 1]

\* Every readline() is counted in remainbytes.
ReadLine(c) ==
    /\ rest' = [rest EXCEPT ![c] = AfterLine(rest[c])]
    /\ remain' = [remain EXCEPT ![c] = @ - LineLength(rest[c])]

\* The next line has to be a certain one, or the upload is given up.
Expect(c, place, line, next) ==
    /\ pc[c] = place
    /\ \/ /\ Line(rest[c]) = line /\ ReadLine(c) /\ Goto(c, next)
          /\ UNCHANGED <<preline, lost, request, reply>>
       \/ Line(rest[c]) # line /\ Return(c)
    /\ UNCHANGED <<store, intended>>

\* The first line has to name the boundary, the second the file.
Form(c) == Expect(c, "form", <<"boundary">>, "name")
FileName(c) == Expect(c, "name", <<"disposition">>, "skip")

\* Two lines are skipped.
Skip(c) ==
    /\ pc[c] = "skip"
    /\ ReadLine(c)
    /\ Goto(c, "part")
    /\ UNCHANGED <<store, preline, lost, request, reply, intended>>

\* Mutant: the file is opened for appending.
PartAppends(c) ==
    /\ pc[c] = "part"
    /\ \/ /\ Name(c) \in Writable
          /\ ReadLine(c)
          /\ store' = [store EXCEPT ![Name(c)] = IF @ = <<>> THEN <<<<>>>> ELSE @]
          /\ intended' = IF lost[c] > 0 THEN intended
                         ELSE [intended EXCEPT ![Name(c)] = <<Sent(request[c])>>]
          /\ Goto(c, "first")
          /\ UNCHANGED <<preline, lost, request, reply>>
       \/ Name(c) \notin Writable /\ Return(c) /\ UNCHANGED <<store, intended>>

\* After the second the file is opened, which empties it.
Part(c) ==
    /\ pc[c] = "part"
    /\ \/ /\ Name(c) \in Writable
          /\ ReadLine(c)
          /\ store' = [store EXCEPT ![Name(c)] = <<<<>>>>]
          /\ intended' = IF lost[c] > 0 THEN intended
                         ELSE [intended EXCEPT ![Name(c)] = <<Sent(request[c])>>]
          /\ Goto(c, "first")
          /\ UNCHANGED <<preline, lost, request, reply>>
       \/ Name(c) \notin Writable /\ Return(c) /\ UNCHANGED <<store, intended>>

\* The first line of the content.
First(c) ==
    /\ pc[c] = "first"
    /\ preline' = [preline EXCEPT ![c] = Line(rest[c])]
    /\ ReadLine(c)
    /\ Goto(c, "loop")
    /\ UNCHANGED <<store, lost, request, reply, intended>>

Write(c, bytes) == store' = [store EXCEPT ![Name(c)] = <<@[1] \o bytes>>]

\* The line end in front of the boundary belongs to the form, not to the file.
Chomp(line) ==
    IF Len(line) > 1 /\ line[Len(line) - 1] = "CR"
    THEN Front(Front(line))
    ELSE Front(line)

\* The line read before the last one is written, and kept back until the next.
WritePreline(c) ==
    /\ Line(rest[c]) # <<"boundary">>
    /\ Write(c, preline[c])
    /\ preline' = [preline EXCEPT ![c] = Line(rest[c])]
    /\ ReadLine(c)
    /\ UNCHANGED <<pc, lost, request, reply>>

\* Mutants: the CR of the line before the boundary is written with it; the loop
\* goes on when nothing remains.
LoopKeepsLineEnd(c) ==
    /\ pc[c] = "loop" /\ remain[c] > 0
    /\ \/ Line(rest[c]) = <<"boundary">> /\ Write(c, Front(preline[c])) /\ Return(c)
       \/ WritePreline(c)
    /\ UNCHANGED intended
EndsNever(c) == pc[c] = "loop" /\ remain[c] <= 0 /\ UNCHANGED vars

\* One round of the loop.  A client that has gone leaves empty lines to read.
Loop(c) ==
    /\ pc[c] = "loop" /\ remain[c] > 0
    /\ \/ Line(rest[c]) = <<"boundary">> /\ Write(c, Chomp(preline[c])) /\ Return(c)
       \/ WritePreline(c)
    /\ UNCHANGED intended

\* "Unexpect Ends of data.": everything has been read and no boundary seen.
Ends(c) ==
    /\ pc[c] = "loop" /\ remain[c] <= 0
    /\ Return(c)
    /\ UNCHANGED <<store, intended>>

-------------------------------------------------------------------------------
Accept(c) == AcceptGet(c) \/ AcceptPost(c)
Handler(c) ==
    \/ SendHead(c) \/ CopyFile(c)
    \/ Form(c) \/ FileName(c) \/ Skip(c) \/ Part(c) \/ First(c) \/ Loop(c) \/ Ends(c)

Next == \E c \in Clients : Send(c) \/ Accept(c) \/ Handler(c)

Spec == Init /\ [][Next]_vars

\* The server goes on with what it does, and the listen queue is served in turn.
Fairness == \A c \in Clients : WF_vars(Handler(c)) /\ SF_vars(Accept(c))

FairSpec == Spec /\ Fairness

-------------------------------------------------------------------------------
(* Properties *)

\* Every variable holds what its declaration says.
TypeOK ==
    /\ store \in [Names -> Seq(Seq(Byte))]
    /\ intended \in [Names -> Seq([form : AllForms \ {"raw"}, content : Seq(Byte)])]
    /\ request \in [Clients -> Request]
    /\ pc \in [Clients -> Places]
    /\ {rest, preline} \subseteq [Clients -> Text]
    /\ {remain, lost} \subseteq [Clients -> Nat]
    /\ reply \in [Clients -> [status : {"none", "200", "404", "empty"}, body : Seq(Byte)]]

\* What a complete form leaves in its file: the content the client sent if the part
\* has a Content-Type.  If it has none, its first line is missing, and no more: that
\* line is skipped as the second one after the Content-Disposition.
Stored(form) ==
    IF form.form = "typed" THEN form.content ELSE AfterLine(form.content)
Held(n) == IF intended[n] = <<>> THEN <<>> ELSE <<Stored(intended[n][1])>>

\* Whenever no upload is half way through deal_post_data, every file is what the
\* last complete form left: the lines written one behind the other are the content
\* the client sent, without the line end the form adds; if the form had no
\* Content-Type, they are all of the content but its first line.
FilesAreWhole ==
    (\A c \in Clients : pc[c] \notin Storing) => \A n \in Names : store[n] = Held(n)

\* do_GET never sends a file an upload has emptied and not yet filled.
GetsSendWholeFiles ==
    \A c \in Clients : pc[c] = "copy" => store[Name(c)] = Held(Name(c))

\* remainbytes is what deal_post_data has still to read, arrived or not: it
\* never waits for a byte behind the form, nor stops in front of its end.
RemainIsLeft ==
    \A c \in Clients :
        pc[c] \in Posting => remain[c] = Len(rest[c]) + lost[c]

\* As long as no client goes away, every request is answered, also one whose
\* form deal_post_data does not understand or has read to the end too early.
AnsweredUnlessCut ==
    ([](\A c \in Clients : lost[c] = 0)) =>
        \A c \in Clients : pc[c] = "waiting" ~> pc[c] = "idle"

\* http_server.py:100, of a form that ends too early: "Unexpect Ends of data."
\* The upload is given up and the next connection served.
EveryRequestIsAnswered ==
    \A c \in Clients : pc[c] = "waiting" ~> pc[c] = "idle"
==============================================================================
