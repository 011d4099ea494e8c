---------------------------- MODULE MCHttpServer ------------------------------
(***************************************************************************)
(* Instances of HttpServer for TLC.                                        *)
(***************************************************************************)
EXTENDS HttpFiles

\* Content with no line end, with one in the middle, with one at the end, and
\* with a CR in front of the line end the form adds.
SomeContents ==
    {<<>>, <<"x">>, <<"x", "LF">>, <<"LF", "x", "CR">>}
===============================================================================
