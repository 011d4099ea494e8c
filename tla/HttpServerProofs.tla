--------------------------- MODULE HttpServerProofs ---------------------------
(***************************************************************************)
(* Machine-checked proofs about the server: for any number of clients,     *)
(* names, and contents of any length.                                      *)
(***************************************************************************)
EXTENDS HttpFiles, SequenceTheorems, WellFoundedInduction, TLAPS

-------------------------------------------------------------------------------
(* Lines *)

LEMMA NatIsWellFounded ==
    \E R : IsWellFoundedOn(R, Nat) /\ \A x, y \in Nat : <<y, x>> \in R <=> y < x
  <1>1. \A x, y \in Nat : <<y, x>> \in OpToRel(<, Nat) <=> y < x
    BY DEF OpToRel
  <1> QED
    BY <1>1, NatLessThanWellFounded, Zenon

LEMMA HasLeast ==
    ASSUME NEW S \in SUBSET Nat, S # {}
    PROVE  Min(S) \in S /\ \A y \in S : Min(S) <= y
  <1>1. PICK R : IsWellFoundedOn(R, Nat) /\ \A x, y \in Nat : <<y, x>> \in R <=> y < x
    BY NatIsWellFounded
  <1>2. PICK x \in S : \A y \in S : ~(<<y, x>> \in R)
    BY <1>1, WFMin, Zenon
  <1>3. \A y \in S : ~(y < x)
    BY <1>1, <1>2, Zenon
  <1>4. \A y \in S : x <= y
    BY <1>3
  <1> QED
    BY <1>4, Zenon DEF Min

\* A line goes up to the first line end, and reading it takes nothing else.
LEMMA LineLengths ==
    ASSUME NEW bytes \in Text
    PROVE  /\ LineLength(bytes) \in 0..Len(bytes)
           /\ bytes # <<>> => LineLength(bytes) >= 1
           /\ \A i \in 1..LineLength(bytes) - 1 : bytes[i] \notin EndsLine
           /\ (\E i \in 1..Len(bytes) : bytes[i] \in EndsLine)
                => LineLength(bytes) >= 1 /\ bytes[LineLength(bytes)] \in EndsLine
           /\ (\A i \in 1..Len(bytes) : bytes[i] \notin EndsLine)
                => LineLength(bytes) = Len(bytes)
  <1>1. Len(bytes) \in Nat /\ (bytes # <<>> => Len(bytes) > 0)
    BY DEF Text
  <1>2. CASE LineEnds(bytes) = {}
    <2>1. LineLength(bytes) = Len(bytes)
      BY <1>2 DEF LineLength
    <2>2. \A i \in 1..Len(bytes) : bytes[i] \notin EndsLine
      BY <1>2 DEF LineEnds
    <2> QED
      BY <1>1, <2>1, <2>2
  <1>3. CASE LineEnds(bytes) # {}
    <2>1. LineEnds(bytes) \in SUBSET Nat
      BY DEF LineEnds
    <2>2. LineLength(bytes) = Min(LineEnds(bytes))
      BY <1>3 DEF LineLength
    <2>3. /\ LineLength(bytes) \in LineEnds(bytes)
          /\ \A i \in LineEnds(bytes) : LineLength(bytes) <= i
      BY <1>3, <2>1, <2>2, HasLeast
    <2> QED
      BY <1>1, <2>3 DEF LineEnds
  <1> QED
    BY <1>2, <1>3

LEMMA LineSplits ==
    ASSUME NEW bytes \in Text
    PROVE  /\ Line(bytes) \in Text /\ AfterLine(bytes) \in Text
           /\ bytes = Line(bytes) \o AfterLine(bytes)
           /\ Len(Line(bytes)) = LineLength(bytes)
           /\ Len(AfterLine(bytes)) = Len(bytes) - LineLength(bytes)
           /\ \A i \in 1..LineLength(bytes) : Line(bytes)[i] = bytes[i]
           /\ \A i \in 1..Len(AfterLine(bytes)) :
                AfterLine(bytes)[i] = bytes[i + LineLength(bytes)]
  <1> DEFINE n == LineLength(bytes)
  <1>1. n \in 0..Len(bytes) /\ Len(bytes) \in Nat
    BY LineLengths DEF Text
  <1>2. \A i \in 1..Len(bytes) : bytes[i] \in Byte \cup Mark
    BY DEF Text
  <1> HIDE DEF n
  <1>3. /\ SubSeq(bytes, 1, n) \in Text /\ Len(SubSeq(bytes, 1, n)) = n
        /\ \A i \in 1..n : SubSeq(bytes, 1, n)[i] = bytes[i]
    BY <1>1, <1>2, SubSeqProperties DEF Text
  <1>4. /\ SubSeq(bytes, n + 1, Len(bytes)) \in Text
        /\ Len(SubSeq(bytes, n + 1, Len(bytes))) = Len(bytes) - n
        /\ \A i \in 1..Len(bytes) - n : SubSeq(bytes, n + 1, Len(bytes))[i] = bytes[i + n]
    BY <1>1, <1>2, SubSeqProperties DEF Text
  <1>5. SubSeq(bytes, 1, n) \o SubSeq(bytes, n + 1, Len(bytes)) = SubSeq(bytes, 1, Len(bytes))
    <2>1. /\ bytes \in Seq(Byte \cup Mark) /\ 1 \in 1..Len(bytes) + 1
          /\ n \in 1 - 1..Len(bytes) /\ Len(bytes) \in n..Len(bytes)
      BY <1>1 DEF Text
    <2> QED
      BY <2>1, ConcatAdjacentSubSeq, Zenon
  <1>6. SubSeq(bytes, 1, Len(bytes)) = bytes
    BY SubSeqFull DEF Text
  <1> QED
    BY <1>3, <1>4, <1>5, <1>6 DEF n, Line, AfterLine

LEMMA LineIs ==
    ASSUME NEW bytes \in Text, NEW n \in 1..Len(bytes), bytes[n] \in EndsLine,
           \A i \in 1..n - 1 : bytes[i] \notin EndsLine
    PROVE  LineLength(bytes) = n
  <1>1. LineLength(bytes) >= 1 /\ bytes[LineLength(bytes)] \in EndsLine
    BY LineLengths
  <1>2. \A i \in 1..LineLength(bytes) - 1 : bytes[i] \notin EndsLine
    BY LineLengths
  <1>3. LineLength(bytes) \in Nat
    BY LineLengths
  <1> QED
    BY <1>1, <1>2, <1>3

\* The first line of two texts put together, when the first of them ends one.
LEMMA LineOfConcat ==
    ASSUME NEW s \in Text, NEW t \in Text, s # <<>>, s[Len(s)] \in EndsLine,
           \A i \in 1..Len(s) - 1 : s[i] \notin EndsLine
    PROVE  Line(s \o t) = s /\ AfterLine(s \o t) = t /\ LineLength(s \o t) = Len(s)
  <1>1. /\ s \o t \in Text /\ Len(s \o t) = Len(s) + Len(t)
        /\ \A i \in 1..Len(s) + Len(t) :
                (s \o t)[i] = IF i <= Len(s) THEN s[i] ELSE t[i - Len(s)]
    BY ConcatProperties DEF Text
  <1>2. Len(s) \in Nat \ {0} /\ Len(t) \in Nat
    BY DEF Text
  <1>3. LineLength(s \o t) = Len(s)
    <2>1. /\ Len(s) \in 1..Len(s \o t) /\ (s \o t)[Len(s)] \in EndsLine
          /\ \A i \in 1..Len(s) - 1 : (s \o t)[i] \notin EndsLine
      BY <1>1, <1>2
    <2> QED
      BY <1>1, <2>1, LineIs, Zenon
  <1>4. /\ Line(s \o t) \in Text /\ AfterLine(s \o t) \in Text
        /\ Len(Line(s \o t)) = Len(s)
        /\ Len(AfterLine(s \o t)) = Len(s \o t) - Len(s)
        /\ \A i \in 1..Len(s) : Line(s \o t)[i] = (s \o t)[i]
        /\ \A i \in 1..Len(AfterLine(s \o t)) :
                AfterLine(s \o t)[i] = (s \o t)[i + Len(s)]
    <2> DEFINE b == s \o t
    <2>1. b \in Text
      BY <1>1
    <2>2. /\ Line(b) \in Text /\ AfterLine(b) \in Text
          /\ Len(Line(b)) = LineLength(b)
          /\ Len(AfterLine(b)) = Len(b) - LineLength(b)
          /\ \A i \in 1..LineLength(b) : Line(b)[i] = b[i]
          /\ \A i \in 1..Len(AfterLine(b)) : AfterLine(b)[i] = b[i + LineLength(b)]
      BY <2>1, LineSplits, Zenon
    <2> QED
      BY <1>3, <2>2
  <1>5. Line(s \o t) = s
    <2>1. \A i \in 1..Len(s) : Line(s \o t)[i] = s[i]
      BY <1>1, <1>2, <1>4
    <2> QED
      BY <1>4, <2>1, SeqEqual, Zenon DEF Text
  <1>6. AfterLine(s \o t) = t
    <2>1. Len(AfterLine(s \o t)) = Len(t)
      BY <1>1, <1>2, <1>4
    <2>2. \A i \in 1..Len(t) : AfterLine(s \o t)[i] = t[i]
      BY <1>1, <1>2, <1>4, <2>1
    <2> QED
      BY <1>4, <2>1, <2>2, SeqEqual, Zenon DEF Text
  <1> QED
    BY <1>3, <1>5, <1>6

LEMMA MarkLine ==
    ASSUME NEW t \in Text, NEW e \in Mark
    PROVE  Line(<<e>> \o t) = <<e>> /\ AfterLine(<<e>> \o t) = t /\ LineLength(<<e>> \o t) = 1
  <1>1. /\ <<e>> \in Text /\ Len(<<e>>) = 1 /\ <<e>> # <<>>
        /\ <<e>>[Len(<<e>>)] \in EndsLine /\ \A i \in 1..Len(<<e>>) - 1 : FALSE
    BY DEF Text, EndsLine
  <1> QED
    BY <1>1, LineOfConcat, Zenon

LEMMA EndLineLine ==
    ASSUME NEW t \in Text
    PROVE  Line(EndLine \o t) = EndLine /\ AfterLine(EndLine \o t) = t
  <1>1. EndLine \in Text /\ Len(EndLine) = 2 /\ EndLine[1] \notin EndsLine /\ EndLine[2] \in EndsLine
    BY DEF Text, EndLine, EndsLine, Byte, Mark
  <1> QED
    BY <1>1, LineOfConcat

LEMMA CancelRight ==
    ASSUME NEW s \in Text, NEW t \in Text, NEW u \in Text, s \o u = t \o u
    PROVE  s = t
  BY ConcatSimplifications DEF Text

-------------------------------------------------------------------------------
(* Forms *)

LEMMA ConcatType ==
    ASSUME NEW s \in Text, NEW t \in Text PROVE s \o t \in Text
  BY ConcatProperties DEF Text

LEMMA ConcatIs ==
    ASSUME NEW s \in Text, NEW t \in Text
    PROVE  /\ Len(s \o t) = Len(s) + Len(t)
           /\ \A i \in 1..Len(s) + Len(t) :
                (s \o t)[i] = IF i <= Len(s) THEN s[i] ELSE t[i - Len(s)]
  BY ConcatProperties DEF Text

LEMMA FirstPart ==
    ASSUME NEW S, NEW s \in Seq(S), NEW n \in 0..Len(s)
    PROVE  /\ SubSeq(s, 1, n) \in Seq(S) /\ Len(SubSeq(s, 1, n)) = n
           /\ \A i \in 1..n : SubSeq(s, 1, n)[i] = s[i]
  <1>1. \A i \in 1..n : s[i] \in S
    BY ElementOfSeq
  <1>2. n \in Nat
    BY LenProperties
  <1> QED
    BY <1>1, <1>2, SubSeqProperties

LEMMA ConcatAssoc ==
    ASSUME NEW s \in Text, NEW t \in Text, NEW u \in Text
    PROVE  (s \o t) \o u = s \o (t \o u)
  BY ConcatAssociative DEF Text

LEMMA BodyParts ==
    ASSUME NEW r \in Request
    PROVE  /\ Body(r) \in Text
           /\ r.content \in Seq(Byte)
           /\ r.form = "raw" => Body(r) = <<>>
           /\ r.form # "raw" =>
                /\ Blank(r) \in Text /\ AfterName(r) \in Text
                /\ Body(r) = <<"boundary">> \o (<<"disposition">> \o AfterName(r))
  <1>1. r.content \in Seq(Byte) /\ r.content \in Text
    <2>1. r.content \in Contents \cup {<<>>}
      BY DEF Request
    <2>2. r.content \in Seq(Byte)
      <3>1. Contents \subseteq Seq(Byte)
        BY ServerAssumption
      <3>2. <<>> \in Seq(Byte)
        BY EmptySeq, Zenon
      <3> QED
        BY <2>1, <3>1, <3>2, Zenon
    <2> QED
      BY <2>2 DEF Text
  <1>2. /\ EndLine \in Text /\ <<"boundary">> \in Text /\ <<"disposition">> \in Text
        /\ <<"type">> \in Text /\ <<>> \in Text /\ <<"boundary", "disposition">> \in Text
        /\ <<"boundary", "disposition">> = <<"boundary">> \o <<"disposition">>
    BY DEF EndLine, Text, Byte, Mark
  <1>3. \A s, t \in Text : s \o t \in Text
    BY DEF Text
  <1>4. \A s, t, u \in Text : (s \o t) \o u = s \o (t \o u)
    BY ConcatAssociative DEF Text
  <1>5. Ending \in Text /\ Blank(r) \in Text /\ AfterName(r) \in Text
    BY <1>1, <1>2, <1>3 DEF Ending, Blank, AfterName
  <1>6. CASE r.form = "raw"
    BY <1>1, <1>2, <1>6 DEF Body
  <1>7. CASE r.form # "raw"
    <2> DEFINE tail == IF r.form = "typed" THEN <<"type">> ELSE <<>>
    <2>1. tail \in Text /\ \A t \in Text : <<>> \o t = t
      BY <1>2, ConcatEmptySeq DEF Text
    <2>2. tail \o Blank(r) = AfterName(r)
      BY <1>5, <2>1 DEF AfterName
    <2> HIDE DEF tail
    <2>3. Body(r) = <<"boundary", "disposition">> \o tail \o EndLine
                        \o r.content \o EndLine \o <<"boundary">>
      BY <1>7 DEF Body, Heading, tail
    <2>4. <<"boundary", "disposition">> \o tail \o EndLine
                \o r.content \o EndLine \o <<"boundary">>
            = <<"boundary", "disposition">> \o (tail \o Blank(r))
      <3> DEFINE top == <<"boundary", "disposition">>
                 end == <<"boundary">>
      <3>1. top \in Text /\ tail \in Text /\ EndLine \in Text /\ r.content \in Text /\ end \in Text
        BY <1>1, <1>2, <2>1
      <3> HIDE DEF top, end
      <3>2. (top \o tail) \o EndLine \in Text
        BY <3>1, ConcatType, Zenon
      <3> DEFINE before == (top \o tail) \o EndLine
      <3>3. before \o r.content \in Text
        BY <3>1, <3>2, ConcatType, Zenon
      <3>4. EndLine \o end \in Text /\ r.content \o (EndLine \o end) \in Text
        BY <3>1, ConcatType, Zenon
      <3>5. ((before \o r.content) \o EndLine) \o end = (before \o r.content) \o (EndLine \o end)
        <4>1. EndLine \in Text /\ end \in Text
          BY <3>1
        <4> QED
          BY <3>3, <4>1, ConcatAssoc, Zenon
      <3>6. (before \o r.content) \o (EndLine \o end) = before \o (r.content \o (EndLine \o end))
        <4>1. r.content \in Text /\ EndLine \o end \in Text
          BY <3>1, <3>4
        <4> QED
          BY <3>2, <4>1, ConcatAssoc, Zenon
      <3>7. before \o (r.content \o (EndLine \o end))
              = (top \o tail) \o (EndLine \o (r.content \o (EndLine \o end)))
        <4>1. EndLine \in Text /\ top \o tail \in Text /\ r.content \o (EndLine \o end) \in Text
          BY <3>1, <3>4, ConcatType, Zenon
        <4> QED
          BY <4>1, ConcatAssoc, Zenon
      <3>8. (top \o tail) \o (EndLine \o (r.content \o (EndLine \o end)))
              = top \o (tail \o (EndLine \o (r.content \o (EndLine \o end))))
        <4>1. top \in Text /\ tail \in Text /\ EndLine \o (r.content \o (EndLine \o end)) \in Text
          BY <3>1, <3>4, ConcatType, Zenon
        <4> QED
          BY <4>1, ConcatAssoc, Zenon
      <3>9. Blank(r) = EndLine \o (r.content \o (EndLine \o end))
        BY DEF Blank, Ending, end
      <3> QED
        BY <3>5, <3>6, <3>7, <3>8, <3>9, Zenon DEF top, end
    <2>5. Body(r) = <<"boundary", "disposition">> \o AfterName(r)
      BY <2>2, <2>3, <2>4, Zenon
    <2>6. <<"boundary", "disposition">> \o AfterName(r)
            = <<"boundary">> \o (<<"disposition">> \o AfterName(r))
      BY <1>2, <1>4, <1>5
    <2>7. Body(r) \in Text
      BY <1>2, <1>3, <1>5, <2>5
    <2> QED
      BY <1>1, <1>5, <1>7, <2>5, <2>6, <2>7
  <1> QED
    BY <1>6, <1>7

LEMMA LineOfRest ==
    ASSUME NEW read \in Seq(Byte), NEW content \in Seq(Byte), NEW bytes \in Text,
           read \o bytes = content \o Ending
    PROVE  /\ bytes # <<>>
           /\ bytes # <<"boundary">> => Line(bytes) \in Lines \ {<<>>}
  <1> DEFINE n == Len(read)
             k == Len(bytes)
             m == Len(content)
  <1>1. n \in Nat /\ k \in Nat /\ m \in Nat
    BY DEF Text
  <1>2. /\ Ending \in Text /\ Len(Ending) = 3
        /\ Ending[1] = "CR" /\ Ending[2] = "LF" /\ Ending[3] = "boundary"
    BY DEF Ending, EndLine, Text, Byte, Mark
  <1>3. read \in Text /\ content \in Text
    BY DEF Text
  <1>4. /\ Len(read \o bytes) = n + k
        /\ \A i \in 1..n + k : (read \o bytes)[i] = IF i <= n THEN read[i] ELSE bytes[i - n]
    BY <1>3, ConcatIs, Zenon
  <1>5. /\ Len(content \o Ending) = m + 3
        /\ \A i \in 1..m + 3 : (content \o Ending)[i] = IF i <= m THEN content[i] ELSE Ending[i - m]
    <2>1. /\ Len(content \o Ending) = m + Len(Ending)
          /\ \A i \in 1..m + Len(Ending) :
                (content \o Ending)[i] = IF i <= m THEN content[i] ELSE Ending[i - m]
      BY <1>2, <1>3, ConcatIs, Zenon
    <2> QED
      BY <1>2, <2>1
  <1>6. n + k = m + 3
    BY <1>4, <1>5
  <1>7. \A i \in 1..n : read[i] \in Byte
    BY <1>1, ElementOfSeq
  <1>8. \A i \in 1..m : content[i] \in Byte
    BY <1>1, ElementOfSeq
  <1>9. \A i \in 1..k : bytes[i] = (content \o Ending)[n + i]
    BY <1>1, <1>4
  <1>10. k > 0
    <2>1. (content \o Ending)[m + 3] = "boundary"
      BY <1>1, <1>2, <1>5
    <2>2. k = 0 => (read \o bytes)[m + 3] = read[m + 3] /\ m + 3 \in 1..n
      BY <1>1, <1>4, <1>6
    <2> QED
      BY <1>1, <1>7, <2>1, <2>2 DEF Byte
  <1>11. bytes[k] = "boundary"
    BY <1>1, <1>2, <1>5, <1>6, <1>9, <1>10
  <1>12. k > 1 => bytes[k - 1] = "LF"
    BY <1>1, <1>2, <1>5, <1>6, <1>9
  <1>13. \A i \in 1..k - 1 : bytes[i] \in Byte
    <2> SUFFICES ASSUME NEW i \in 1..k - 1 PROVE bytes[i] \in Byte
      OBVIOUS
    <2>1. bytes[i] = IF n + i <= m THEN content[n + i] ELSE Ending[n + i - m]
      BY <1>1, <1>5, <1>6, <1>9
    <2>2. CASE n + i <= m
      BY <1>1, <1>8, <2>1, <2>2
    <2>3. CASE n + i > m
      <3>1. n + i - m >= 1 /\ n + i - m <= 2 /\ n + i - m \in Int
        BY <1>1, <1>6, <2>3
      <3> QED
        BY <1>1, <1>2, <2>1, <2>3, <3>1 DEF Byte
    <2> QED
      BY <1>1, <2>2, <2>3
  <1>14. k = 1 => bytes = <<"boundary">>
    BY <1>11, SeqEqual DEF Text
  <1>15. ASSUME k > 1 PROVE Line(bytes) \in Lines \ {<<>>}
    <2> DEFINE l == LineLength(bytes)
    <2>1. /\ l \in Nat /\ \A i \in 1..l - 1 : bytes[i] \notin EndsLine
          /\ (\E i \in 1..k : bytes[i] \in EndsLine) => l >= 1 /\ bytes[l] \in EndsLine
      BY LineLengths
    <2>2. k - 1 \in 1..k /\ bytes[k - 1] \in EndsLine
      BY <1>1, <1>12, <1>15 DEF EndsLine
    <2>3. l >= 1 /\ bytes[l] \in EndsLine
      BY <2>1, <2>2
    <2>4. l <= k - 1
      BY <1>1, <2>1, <2>2
    <2>5. bytes[l] = "LF"
      <3>1. bytes[l] \in Byte
        BY <1>1, <1>13, <2>1, <2>3, <2>4
      <3> QED
        BY <2>3, <3>1 DEF Byte, EndsLine, Mark
    <2>6. /\ Line(bytes) \in Text /\ Len(Line(bytes)) = l
          /\ \A i \in 1..l : Line(bytes)[i] = bytes[i]
      BY LineSplits
    <2>7. \A i \in 1..l : Line(bytes)[i] \in Byte
      BY <1>1, <1>13, <2>1, <2>4, <2>6
    <2>8. Line(bytes) \in Seq(Byte)
      BY <2>6, <2>7 DEF Text
    <2>9. Line(bytes)[Len(Line(bytes))] = "LF" /\ Line(bytes) # <<>>
      BY <2>1, <2>3, <2>5, <2>6
    <2> QED
      BY <2>8, <2>9 DEF Lines
  <1>16. bytes # <<>>
    BY <1>10
  <1>17. k = 1 \/ k > 1
    <2>1. \A i \in Nat : i > 0 => i = 1 \/ i > 1
      OBVIOUS
    <2> QED
      BY <1>1, <1>10, <2>1, Zenon
  <1> QED
    BY <1>14, <1>15, <1>16, <1>17, Zenon

LEMMA LinesJoin ==
    ASSUME NEW s \in Lines, NEW t \in Lines
    PROVE  s \o t \in Lines
  <1>1. /\ s \in Seq(Byte) /\ (s = <<>> \/ s[Len(s)] = "LF")
        /\ t \in Seq(Byte) /\ (t = <<>> \/ t[Len(t)] = "LF")
    BY DEF Lines
  <1>2. /\ s \o t \in Seq(Byte) /\ Len(s \o t) = Len(s) + Len(t)
        /\ \A i \in 1..Len(s) + Len(t) :
                (s \o t)[i] = IF i <= Len(s) THEN s[i] ELSE t[i - Len(s)]
    BY <1>1, ConcatProperties
  <1>3. Len(s) \in Nat /\ Len(t) \in Nat /\ (t # <<>> => Len(t) > 0)
    BY <1>1
  <1>4. CASE t = <<>>
    BY <1>1, <1>4, ConcatEmptySeq DEF Lines
  <1>5. CASE t # <<>>
    <2>1. (s \o t)[Len(s) + Len(t)] = t[Len(t)]
      BY <1>2, <1>3, <1>5
    <2> QED
      BY <1>1, <1>2, <1>5, <2>1 DEF Lines
  <1> QED
    BY <1>4, <1>5

\* What a file holds and the line kept back are the content and the line end the
\* form puts behind it.
Completes(p, s, content) == s \o p = content \o EndLine

\* The line end in front of the boundary is not part of the file, all else is.
LEMMA Chomped ==
    ASSUME NEW s \in Lines, NEW p \in Lines \ {<<>>}, NEW content \in Seq(Byte),
           Completes(p, s, content)
    PROVE  Chomp(p) \in Seq(Byte) /\ s \o Chomp(p) = content
  <1> DEFINE n == Len(s)
             k == Len(p)
             m == Len(content)
  <1>1. /\ s \in Seq(Byte) /\ p \in Seq(Byte)
        /\ s = <<>> \/ s[n] = "LF"
    BY DEF Lines
  <1>2. n \in Nat /\ k \in Nat /\ k > 0 /\ m \in Nat
    BY <1>1
  <1>3. EndLine \in Seq(Byte) /\ Len(EndLine) = 2 /\ EndLine[1] = "CR" /\ EndLine[2] = "LF"
    BY DEF EndLine, Byte
  <1>4. /\ Len(s \o p) = n + k
        /\ \A i \in 1..n + k : (s \o p)[i] = IF i <= n THEN s[i] ELSE p[i - n]
    BY <1>1, ConcatProperties
  <1>5. /\ Len(content \o EndLine) = m + 2
        /\ \A i \in 1..m + 2 : (content \o EndLine)[i] = IF i <= m THEN content[i] ELSE EndLine[i - m]
    <2>1. /\ Len(content \o EndLine) = m + Len(EndLine)
          /\ \A i \in 1..m + Len(EndLine) :
                (content \o EndLine)[i] = IF i <= m THEN content[i] ELSE EndLine[i - m]
      BY <1>3, ConcatProperties, Zenon
    <2> QED
      BY <1>3, <2>1
  <1>6. n + k = m + 2
    BY <1>4, <1>5 DEF Completes
  <1>7. (s \o p)[m + 1] = "CR"
    BY <1>2, <1>3, <1>5 DEF Completes
  <1>8. k > 1
    <2>1. k = 1 => (s \o p)[m + 1] = s[n] /\ n > 0
      BY <1>2, <1>4, <1>6
    <2>2. k = 1 => n > 0 /\ s[n] = "CR"
      BY <1>7, <2>1
    <2>3. n > 0 => s[n] = "LF"
      BY <1>1
    <2>4. k # 1
      BY <2>2, <2>3
    <2>5. \A i \in Nat : i > 0 => i = 1 \/ i > 1
      OBVIOUS
    <2> QED
      BY <1>2, <2>4, <2>5, Zenon
  <1>9. p[k - 1] = "CR"
    BY <1>2, <1>4, <1>6, <1>7, <1>8
  <1>10. Chomp(p) = SubSeq(p, 1, k - 2)
    <2>1. Chomp(p) = Front(Front(p))
      BY <1>8, <1>9 DEF Chomp
    <2>2. Front(p) \in Seq(Byte) /\ Len(Front(p)) = k - 1 /\ \A i \in 1..k - 1 : Front(p)[i] = p[i]
      <3>1. k - 1 \in 0..Len(p)
        BY <1>2
      <3> QED
        BY <1>1, <3>1, FirstPart, Zenon DEF Front
    <2>3. /\ Front(Front(p)) \in Seq(Byte) /\ Len(Front(Front(p))) = k - 2
          /\ \A i \in 1..k - 2 : Front(Front(p))[i] = p[i]
      <3>1. k - 2 \in 0..Len(Front(p)) /\ Len(Front(p)) - 1 = k - 2
        BY <1>2, <1>8, <2>2
      <3>2. /\ SubSeq(Front(p), 1, k - 2) \in Seq(Byte) /\ Len(SubSeq(Front(p), 1, k - 2)) = k - 2
            /\ \A i \in 1..k - 2 : SubSeq(Front(p), 1, k - 2)[i] = Front(p)[i]
        BY <2>2, <3>1, FirstPart, Zenon
      <3>3. Front(Front(p)) = SubSeq(Front(p), 1, k - 2)
        BY <3>1, Zenon DEF Front
      <3>4. \A i \in 1..k - 2 : i \in 1..k - 1
        BY <1>2
      <3> QED
        BY <2>2, <3>2, <3>3, <3>4, Zenon
    <2>4. /\ SubSeq(p, 1, k - 2) \in Seq(Byte) /\ Len(SubSeq(p, 1, k - 2)) = k - 2
          /\ \A i \in 1..k - 2 : SubSeq(p, 1, k - 2)[i] = p[i]
      <3>1. k - 2 \in 0..Len(p)
        BY <1>2, <1>8
      <3> QED
        BY <1>1, <3>1, FirstPart, Zenon
    <2>5. \A i \in 1..k - 2 : Front(Front(p))[i] = SubSeq(p, 1, k - 2)[i]
      BY <2>3, <2>4
    <2>6. Front(Front(p)) = SubSeq(p, 1, k - 2)
      BY <2>3, <2>4, <2>5, SeqEqual
    <2> QED
      BY <2>1, <2>6
  <1>11. /\ Chomp(p) \in Seq(Byte) /\ Len(Chomp(p)) = k - 2
         /\ \A i \in 1..k - 2 : Chomp(p)[i] = p[i]
    <2>1. k - 2 \in 0..Len(p)
      BY <1>2, <1>8
    <2>2. /\ SubSeq(p, 1, k - 2) \in Seq(Byte) /\ Len(SubSeq(p, 1, k - 2)) = k - 2
          /\ \A i \in 1..k - 2 : SubSeq(p, 1, k - 2)[i] = p[i]
      BY <1>1, <2>1, FirstPart, Zenon
    <2> QED
      BY <1>10, <2>2, Zenon
  <1>12. /\ s \o Chomp(p) \in Seq(Byte) /\ Len(s \o Chomp(p)) = n + (k - 2)
         /\ \A i \in 1..n + (k - 2) :
                (s \o Chomp(p))[i] = IF i <= n THEN s[i] ELSE Chomp(p)[i - n]
    <2>1. /\ s \o Chomp(p) \in Seq(Byte) /\ Len(s \o Chomp(p)) = n + Len(Chomp(p))
          /\ \A i \in 1..n + Len(Chomp(p)) :
                (s \o Chomp(p))[i] = IF i <= n THEN s[i] ELSE Chomp(p)[i - n]
      BY <1>1, <1>11, ConcatProperties, Zenon
    <2> QED
      BY <1>11, <2>1, Zenon
  <1>13. \A i \in 1..m : (s \o Chomp(p))[i] = content[i]
    <2> SUFFICES ASSUME NEW i \in 1..m PROVE (s \o Chomp(p))[i] = content[i]
      OBVIOUS
    <2>1. content[i] = IF i <= n THEN s[i] ELSE p[i - n]
      BY <1>2, <1>4, <1>5, <1>6 DEF Completes
    <2>2. i \in 1..n + (k - 2) /\ (~(i <= n) => i - n \in 1..k - 2)
      BY <1>2, <1>6, <1>8
    <2>3. (s \o Chomp(p))[i] = IF i <= n THEN s[i] ELSE Chomp(p)[i - n]
      BY <1>12, <2>2, Zenon
    <2> QED
      BY <1>11, <2>1, <2>2, <2>3, Zenon
  <1>14. Len(s \o Chomp(p)) = m
    BY <1>2, <1>6, <1>12
  <1> QED
    BY <1>11, <1>12, <1>13, <1>14, SeqEqual

\* An untyped part loses the first line of its content, or, if that has no line
\* end of its own, the one the form puts behind it.
LEMMA FirstLineLost ==
    ASSUME NEW content \in Seq(Byte)
    PROVE  /\ AfterLine(content) \in Seq(Byte)
           /\ \/ AfterLine(content \o Ending) = AfterLine(content) \o Ending
              \/ AfterLine(content \o Ending) = <<"boundary">> /\ AfterLine(content) = <<>>
  <1> DEFINE m == Len(content)
  <1>1. content \in Text /\ m \in Nat /\ \A i \in 1..m : content[i] \in Byte
    BY DEF Text
  <1>2. Ending \in Text /\ EndLine \in Text /\ <<"boundary">> \in Text
    BY DEF Ending, EndLine, Text, Byte, Mark
  <1> DEFINE l == LineLength(content)
  <1>3. /\ l \in 0..m
        /\ \A i \in 1..l - 1 : content[i] \notin EndsLine
        /\ (\E i \in 1..m : content[i] \in EndsLine) => l >= 1 /\ content[l] \in EndsLine
        /\ (\A i \in 1..m : content[i] \notin EndsLine) => l = m
    BY <1>1, LineLengths
  <1>4. /\ Line(content) \in Text /\ AfterLine(content) \in Text
        /\ content = Line(content) \o AfterLine(content)
        /\ Len(Line(content)) = l /\ Len(AfterLine(content)) = m - l
        /\ \A i \in 1..l : Line(content)[i] = content[i]
        /\ \A i \in 1..Len(AfterLine(content)) : AfterLine(content)[i] = content[i + l]
    BY <1>1, LineSplits
  <1>5. AfterLine(content) \in Seq(Byte)
    <2>1. \A i \in 1..Len(AfterLine(content)) : AfterLine(content)[i] \in Byte
      BY <1>1, <1>3, <1>4
    <2> QED
      BY <1>4, <2>1 DEF Text
  <1>6. CASE \E i \in 1..m : content[i] \in EndsLine
    <2>1. l >= 1 /\ content[l] \in EndsLine
      BY <1>3, <1>6
    <2>2. /\ Line(content) # <<>> /\ Line(content)[Len(Line(content))] \in EndsLine
          /\ \A i \in 1..Len(Line(content)) - 1 : Line(content)[i] \notin EndsLine
      BY <1>3, <1>4, <2>1
    <2>3. AfterLine(content) \o Ending \in Text
      BY <1>2, <1>4, ConcatType, Zenon
    <2>4. AfterLine(Line(content) \o (AfterLine(content) \o Ending)) = AfterLine(content) \o Ending
      BY <1>4, <2>2, <2>3, LineOfConcat, Zenon
    <2>5. (Line(content) \o AfterLine(content)) \o Ending
            = Line(content) \o (AfterLine(content) \o Ending)
      BY <1>2, <1>4, ConcatAssoc, Zenon
    <2> QED
      BY <1>4, <1>5, <2>4, <2>5
  <1>7. CASE \A i \in 1..m : content[i] \notin EndsLine
    <2>1. AfterLine(content) = <<>>
      BY <1>3, <1>4, <1>7
    <2>2. /\ content \o EndLine \in Text /\ Len(content \o EndLine) = m + 2
          /\ \A i \in 1..m + 2 : (content \o EndLine)[i] = IF i <= m THEN content[i] ELSE EndLine[i - m]
      <3>1. Len(EndLine) = 2
        BY DEF EndLine
      <3>2. /\ content \o EndLine \in Text /\ Len(content \o EndLine) = m + Len(EndLine)
            /\ \A i \in 1..m + Len(EndLine) :
                (content \o EndLine)[i] = IF i <= m THEN content[i] ELSE EndLine[i - m]
        BY <1>1, <1>2, ConcatType, ConcatIs, Zenon
      <3> QED
        BY <3>1, <3>2
    <2>3. EndLine[1] \notin EndsLine /\ EndLine[2] \in EndsLine
      BY DEF EndLine, EndsLine, Mark
    <2>4. /\ content \o EndLine # <<>>
          /\ (content \o EndLine)[Len(content \o EndLine)] \in EndsLine
          /\ \A i \in 1..Len(content \o EndLine) - 1 : (content \o EndLine)[i] \notin EndsLine
      BY <1>1, <1>7, <2>2, <2>3
    <2>5. AfterLine((content \o EndLine) \o <<"boundary">>) = <<"boundary">>
      BY <1>2, <2>2, <2>4, LineOfConcat, Zenon
    <2>6. (content \o EndLine) \o <<"boundary">> = content \o Ending
      BY <1>1, <1>2, ConcatAssoc, Zenon DEF Ending
    <2> QED
      BY <1>5, <2>1, <2>5, <2>6
  <1> QED
    BY <1>6, <1>7

-------------------------------------------------------------------------------
(* Facts about one state and about the parts of a step *)

LEMMA Requests ==
    /\ \A r \in Request : r.name \in Names /\ Stored(r) \in Seq(Byte)
    /\ NoRequest \in Request
  <1>1. ASSUME NEW r \in Request PROVE r.name \in Names /\ Stored(r) \in Seq(Byte)
    <2>1. r.name \in Names
      BY DEF Request
    <2>2. r.content \in Seq(Byte)
      BY BodyParts
    <2> QED
      BY <2>1, <2>2, FirstLineLost DEF Stored
  <1>2. \E r \in Request : r.method = "GET"
    <2>1. PICK n \in Names : TRUE
      BY ServerAssumption
    <2>2. [method |-> "GET", name |-> n, form |-> "raw", content |-> <<>>] \in Request
      BY DEF Request
    <2> QED
      BY <2>2
  <1> QED
    BY <1>1, <1>2 DEF NoRequest

\* What clients have sent, and what of it the files hold.
SentForms == [form : AllForms \ {"raw"}, content : Seq(Byte)]

LEMMA SentIsStored == \A r : Stored(Sent(r)) = Stored(r)
  BY DEF Stored, Sent

LEMMA HeldIs ==
    \A n, r : intended[n] = <<Sent(r)>> => Held(n) = <<Stored(r)>>
  BY SentIsStored DEF Held

LEMMA HeldStays ==
    ASSUME UNCHANGED intended PROVE \A n : Held(n)' = Held(n)
  BY DEF Held

LEMMA TypeParts ==
    TypeOK <=>
        /\ store \in [Names -> Seq(Seq(Byte))] /\ intended \in [Names -> Seq(SentForms)]
        /\ request \in [Clients -> Request] /\ pc \in [Clients -> Places]
        /\ rest \in [Clients -> Text] /\ preline \in [Clients -> Text]
        /\ remain \in [Clients -> Nat] /\ lost \in [Clients -> Nat]
        /\ reply \in [Clients -> [status : {"none", "200", "404", "empty"}, body : Seq(Byte)]]
  BY DEF TypeOK, SentForms

LEMMA NameTypes ==
    ASSUME TypeOK, NEW c \in Clients
    PROVE  request[c] \in Request /\ Name(c) \in Names /\ Stored(request[c]) \in Seq(Byte)
  BY Requests, TypeParts DEF Name

\* In a form that is not raw, only the first three symbols and the last can be
\* marks.
LEMMA BodyMarks ==
    ASSUME NEW r \in Request, NEW i \in 4..Len(Body(r)) - 1
    PROVE  Body(r)[i] \in Byte
  <1>1. /\ r.content \in Seq(Byte) /\ r.content \in Text /\ Body(r) \in Text
        /\ r.form = "raw" => Body(r) = <<>>
        /\ r.form # "raw" =>
            /\ Blank(r) \in Text /\ AfterName(r) \in Text
            /\ Body(r) = <<"boundary">> \o (<<"disposition">> \o AfterName(r))
    BY BodyParts DEF Text
  <1>2. r.form # "raw"
    BY <1>1
  <1>3. /\ Ending \in Text /\ Len(Ending) = 3 /\ Ending[1] = "CR" /\ Ending[2] = "LF"
        /\ EndLine \in Text /\ Len(EndLine) = 2 /\ EndLine[1] = "CR" /\ EndLine[2] = "LF"
    BY DEF Ending, EndLine, Text, Byte, Mark
  <1>4. Len(r.content) \in Nat /\ \A j \in 1..Len(r.content) : r.content[j] \in Byte
    BY <1>1
  <1> DEFINE m == Len(r.content)
             tail == r.content \o Ending
  <1>5. tail \in Text /\ Len(tail) = m + 3 /\ \A j \in 1..m + 2 : tail[j] \in Byte
    <2>1. /\ tail \in Text /\ Len(tail) = m + Len(Ending)
          /\ \A j \in 1..m + Len(Ending) :
                tail[j] = IF j <= m THEN r.content[j] ELSE Ending[j - m]
      BY <1>1, <1>3, ConcatType, ConcatIs, Zenon
    <2>2. ASSUME NEW j \in 1..m + 2 PROVE tail[j] \in Byte
      <3>1. tail[j] = IF j <= m THEN r.content[j] ELSE Ending[j - m]
        BY <1>3, <1>4, <2>1
      <3>2. CASE j <= m
        BY <1>4, <3>1, <3>2
      <3>3. CASE j > m
        <4>1. j - m = 1 \/ j - m = 2
          BY <1>4, <3>3
        <4>2. ~(j <= m)
          BY <1>4, <3>3
        <4>3. Ending[j - m] = Ending[1] \/ Ending[j - m] = Ending[2]
          BY <4>1, Zenon
        <4>4. Ending[1] \in Byte /\ Ending[2] \in Byte
          BY <1>3 DEF Byte
        <4>5. tail[j] = Ending[j - m]
          BY <3>1, <4>2
        <4> QED
          BY <4>3, <4>4, <4>5, Zenon
      <3>4. j <= m \/ j > m
        BY <1>4
      <3> QED
        BY <3>2, <3>3, <3>4, Zenon
    <2> QED
      BY <1>3, <2>1, <2>2
  <1> HIDE DEF tail
  <1>6. Len(Blank(r)) = m + 5 /\ \A j \in 1..m + 4 : Blank(r)[j] \in Byte
    <2>1. /\ Len(EndLine \o tail) = Len(EndLine) + Len(tail)
          /\ \A j \in 1..Len(EndLine) + Len(tail) :
                (EndLine \o tail)[j] = IF j <= Len(EndLine) THEN EndLine[j] ELSE tail[j - Len(EndLine)]
      BY <1>3, <1>5, ConcatIs, Zenon
    <2>2. Blank(r) = EndLine \o tail
      BY DEF Blank, tail
    <2>3. ASSUME NEW j \in 1..m + 4 PROVE Blank(r)[j] \in Byte
      <3>1. Blank(r)[j] = IF j <= 2 THEN EndLine[j] ELSE tail[j - 2]
        BY <1>3, <1>4, <1>5, <2>1, <2>2
      <3>2. CASE j <= 2
        BY <1>3, <3>1, <3>2 DEF Byte
      <3>3. CASE j > 2
        <4>1. j - 2 \in 1..m + 2
          BY <1>4, <3>3
        <4> QED
          BY <1>5, <3>1, <3>3, <4>1
      <3> QED
        BY <3>2, <3>3
    <2> QED
      BY <1>3, <1>4, <1>5, <2>1, <2>2, <2>3
  <1>7. PICK k \in {0, 1} :
            /\ Len(AfterName(r)) = m + 5 + k
            /\ \A j \in 1..m + 4 + k : j > k => AfterName(r)[j] \in Byte
    <2>1. CASE r.form = "typed"
      <3>1. <<"type">> \in Text /\ Len(<<"type">>) = 1
        BY DEF Text, Mark
      <3>2. /\ Len(<<"type">> \o Blank(r)) = 1 + Len(Blank(r))
            /\ \A j \in 1..1 + Len(Blank(r)) :
                (<<"type">> \o Blank(r))[j] = IF j <= 1 THEN <<"type">>[j] ELSE Blank(r)[j - 1]
        BY <1>1, <1>2, <3>1, ConcatIs
      <3>3. AfterName(r) = <<"type">> \o Blank(r)
        BY <2>1 DEF AfterName
      <3>4. Len(AfterName(r)) = m + 5 + 1
        BY <1>4, <1>6, <3>2, <3>3
      <3>5. \A j \in 1..m + 4 + 1 : j > 1 => AfterName(r)[j] \in Byte
        BY <1>4, <1>6, <3>2, <3>3
      <3> QED
        BY <3>4, <3>5
    <2>2. CASE r.form # "typed"
      <3>1. AfterName(r) = Blank(r)
        BY <2>2 DEF AfterName
      <3> QED
        BY <1>4, <1>6, <3>1
    <2> QED
      BY <2>1, <2>2
  <1> DEFINE named == <<"disposition">> \o AfterName(r)
  <1>8. /\ named \in Text /\ Len(named) = 1 + Len(AfterName(r))
        /\ \A j \in 1..1 + Len(AfterName(r)) :
                named[j] = IF j <= 1 THEN <<"disposition">>[j] ELSE AfterName(r)[j - 1]
    <2>1. <<"disposition">> \in Text /\ Len(<<"disposition">>) = 1
      BY DEF Text, Mark
    <2> QED
      BY <1>1, <1>2, <2>1, ConcatIs, ConcatType
  <1> HIDE DEF named
  <1>9. /\ Len(Body(r)) = 1 + Len(named)
        /\ \A j \in 1..1 + Len(named) :
                Body(r)[j] = IF j <= 1 THEN <<"boundary">>[j] ELSE named[j - 1]
    <2>1. <<"boundary">> \in Text /\ Len(<<"boundary">>) = 1
      BY DEF Text, Mark
    <2>2. Body(r) = <<"boundary">> \o named
      BY <1>1, <1>2 DEF named
    <2>3. /\ Len(<<"boundary">> \o named) = Len(<<"boundary">>) + Len(named)
          /\ \A j \in 1..Len(<<"boundary">>) + Len(named) :
                (<<"boundary">> \o named)[j]
                    = IF j <= Len(<<"boundary">>) THEN <<"boundary">>[j]
                      ELSE named[j - Len(<<"boundary">>)]
      BY <1>8, <2>1, ConcatIs
    <2> QED
      BY <2>1, <2>2, <2>3
  <1>10. Len(Body(r)) = m + 7 + k /\ m \in Nat
    BY <1>4, <1>7, <1>8, <1>9
  <1>11. Body(r)[i] = named[i - 1]
    BY <1>8, <1>9, <1>10
  <1>12. named[i - 1] = AfterName(r)[i - 2]
    BY <1>7, <1>8, <1>10
  <1>13. i - 2 \in 1..m + 4 + k /\ i - 2 > k
    BY <1>10
  <1> QED
    BY <1>7, <1>11, <1>12, <1>13

\* While one client's request is handled no other is.
LEMMA OthersWait ==
    ASSUME Alone, NEW c \in Clients, pc[c] \in Handling
    PROVE  \A d \in Clients \ {c} : pc[d] \notin Handling
  BY DEF Alone

\* A step of the handler changes pc for one client only, so the facts about an
\* upload need to be shown for that client alone.
LEMMA Assemble ==
    ASSUME IInv, NEW c \in Clients, \A d \in Clients \ {c} : pc[d] \notin Handling,
           NEW place \in Places, Goto(c, place), TypeOK',
           \A n \in Names :
                store'[n] = Held(n)' \/ (place \in Storing /\ Name(c)' = n),
           Asked(c)', Opened(c)', Upload(c)'
    PROVE  IInv'
  <1>1. /\ pc \in [Clients -> Places] /\ pc'[c] = place
        /\ \A d \in Clients \ {c} : pc'[d] = pc[d]
    BY TypeParts DEF IInv, Goto
  <1>2. Alone'
    BY <1>1 DEF Alone
  <1>3. Kept'
    BY <1>1 DEF Kept
  <1>4. \A d \in Clients \ {c} : pc'[d] \notin Handling
    BY <1>1
  <1>5. ASSUME NEW d \in Clients \ {c} PROVE Asked(d)' /\ Opened(d)' /\ Upload(d)'
    <2>1. /\ pc'[d] \notin Posting /\ pc'[d] \notin Storing \cup {"copy"}
          /\ pc'[d] # "head" /\ pc'[d] # "copy"
      BY <1>4 DEF Handling, Posting
    <2> QED
      BY <2>1 DEF Asked, Opened, Upload
  <1> QED
    BY <1>2, <1>3, <1>5 DEF IInv

LEMMA AskedStays ==
    ASSUME IInv, NEW c \in Clients, pc[c] \in Posting, pc'[c] \in Posting, UNCHANGED request
    PROVE  Asked(c)'
  BY DEF IInv, Asked, Posting, Storing

\* As long as no file is open, all are what they should be.
LEMMA AllKept ==
    ASSUME IInv, NEW c \in Clients, \A d \in Clients \ {c} : pc[d] \notin Handling,
           NEW n \in Names, pc[c] \notin Storing \/ Name(c) # n
    PROVE  store[n] = Held(n)
  BY DEF IInv, Kept, Handling, Posting

\* The handler gives up or is done; every file is what it should be.
LEMMA ReturnKeeps ==
    ASSUME IInv, NEW c \in Clients, pc[c] \in Posting, Return(c),
           store' \in [Names -> Seq(Seq(Byte))], UNCHANGED intended,
           \A n \in Names : store'[n] = Held(n)
    PROVE  IInv'
  <1>1. /\ TypeOK
        /\ \A d \in Clients \ {c} : pc[d] \notin Handling
    BY OthersWait DEF IInv, Handling
  <1>2. Goto(c, "idle") /\ "idle" \in Places
    BY DEF Return, Answer, Places
  <1>3. TypeOK'
    <2>1. request' \in [Clients -> Request]
      BY <1>1, Requests, TypeParts DEF Return, Answer
    <2>2. pc' \in [Clients -> Places]
      BY <1>1, <1>2, TypeParts DEF Goto
    <2>3. /\ rest' \in [Clients -> Text] /\ preline' \in [Clients -> Text]
          /\ remain' \in [Clients -> Nat] /\ lost' \in [Clients -> Nat]
      <3>1. <<>> \in Text
        BY EmptySeq DEF Text
      <3> QED
        BY <1>1, <3>1, TypeParts DEF Return
    <2>4. reply' \in [Clients -> [status : {"none", "200", "404", "empty"}, body : Seq(Byte)]]
      <3>1. [status |-> "empty", body |-> <<>>]
                \in [status : {"none", "200", "404", "empty"}, body : Seq(Byte)]
        BY EmptySeq
      <3> QED
        BY <1>1, <3>1, TypeParts DEF Return, Answer
    <2>5. intended' \in [Names -> Seq(SentForms)]
      BY <1>1, TypeParts
    <2> QED
      BY <2>1, <2>2, <2>3, <2>4, <2>5 DEF TypeOK, SentForms
  <1>4. pc'[c] = "idle"
    BY <1>1, <1>2, TypeParts DEF Goto
  <1>5. Asked(c)' /\ Opened(c)' /\ Upload(c)'
    BY <1>4 DEF Asked, Opened, Upload, Posting, Storing
  <1>6. \A n \in Names : store'[n] = Held(n)'
    BY HeldStays
  <1> QED
    BY <1>1, <1>2, <1>3, <1>5, <1>6, Assemble

\* Where the handler has not opened a file yet it may just give up.
LEMMA GivingUpKeeps ==
    ASSUME IInv, NEW c \in Clients, pc[c] \in Posting \ Storing, Return(c),
           UNCHANGED <<store, intended>>
    PROVE  IInv'
  <1>1. TypeOK /\ \A d \in Clients \ {c} : pc[d] \notin Handling
    BY OthersWait DEF IInv, Handling
  <1>2. \A n \in Names : store'[n] = Held(n)
    BY <1>1, AllKept
  <1> QED
    BY <1>1, <1>2, ReturnKeeps, TypeParts

\* A line is read and counted, and leaves fewer marks behind.
LEMMA LineRead ==
    ASSUME TypeOK, NEW c \in Clients, remain[c] = Len(rest[c]) + lost[c], ReadLine(c),
           UNCHANGED lost
    PROVE  /\ rest' \in [Clients -> Text] /\ remain' \in [Clients -> Nat]
           /\ rest'[c] = AfterLine(rest[c])
           /\ remain'[c] = Len(rest'[c]) + lost'[c]
           /\ \A k \in Nat :
                (\A i \in 1..Len(rest[c]) : i > k => rest[c][i] \in Byte)
                => \A i \in 1..Len(rest'[c]) : i > k - 1 => rest'[c][i] \in Byte
  <1>1. /\ rest \in [Clients -> Text] /\ rest[c] \in Text
        /\ remain \in [Clients -> Nat] /\ lost[c] \in Nat
    BY TypeParts
  <1>2. /\ LineLength(rest[c]) \in 0..Len(rest[c])
        /\ rest[c] # <<>> => LineLength(rest[c]) >= 1
    BY <1>1, LineLengths
  <1>3. /\ AfterLine(rest[c]) \in Text
        /\ Len(AfterLine(rest[c])) = Len(rest[c]) - LineLength(rest[c])
        /\ \A i \in 1..Len(AfterLine(rest[c])) :
                AfterLine(rest[c])[i] = rest[c][i + LineLength(rest[c])]
    BY <1>1, LineSplits
  <1>4. rest'[c] = AfterLine(rest[c]) /\ rest' \in [Clients -> Text]
    BY <1>1, <1>3 DEF ReadLine
  <1>5. Len(rest[c]) \in Nat
    BY <1>1 DEF Text
  <1>6. remain'[c] = remain[c] - LineLength(rest[c])
    BY <1>1 DEF ReadLine
  <1>7. remain'[c] = Len(rest'[c]) + lost'[c] /\ remain'[c] \in Nat
    BY <1>1, <1>2, <1>3, <1>4, <1>5, <1>6
  <1>8. remain' \in [Clients -> Nat]
    BY <1>1, <1>6, <1>7 DEF ReadLine
  <1>9. ASSUME NEW k \in Nat, \A i \in 1..Len(rest[c]) : i > k => rest[c][i] \in Byte,
               NEW i \in 1..Len(rest'[c]), i > k - 1
        PROVE  rest'[c][i] \in Byte
    <2> DEFINE l == LineLength(rest[c])
               n == Len(rest[c])
    <2>1. n \in Nat /\ l \in 0..n /\ (n > 0 => l >= 1) /\ i \in 1..n - l
      <3>1. n > 0 => rest[c] # <<>>
        BY <1>5
      <3> QED
        BY <1>2, <1>3, <1>4, <1>5, <1>9, <3>1
    <2> HIDE DEF l, n
    <2>2. i + l \in 1..n /\ i + l > k
      BY <1>9, <2>1
    <2>3. rest'[c][i] = rest[c][i + l]
      BY <1>3, <1>4, <1>9 DEF l
    <2> QED
      BY <1>9, <2>2, <2>3 DEF n
  <1> QED
    BY <1>4, <1>7, <1>8, <1>9

-------------------------------------------------------------------------------
(* The steps *)

LEMMA InitInv == Init => IInv
  <1> SUFFICES ASSUME Init PROVE IInv
    OBVIOUS
  <1>1. TypeOK
    <2>1. <<>> \in Text /\ <<>> \in Seq(Byte)
      BY EmptySeq DEF Text
    <2>2. <<>> \in Seq(Seq(Byte)) /\ <<<<"x">>>> \in Seq(Seq(Byte))
      <3>1. <<"x">> \in Seq(Byte)
        BY DEF Byte
      <3> QED
        BY <3>1, EmptySeq
    <2>3. store \in [Names -> Seq(Seq(Byte))]
      BY <2>2 DEF Init
    <2>7. intended \in [Names -> Seq(SentForms)]
      <3>1. <<>> \in Seq(SentForms)
        BY EmptySeq
      <3>2. [form |-> "typed", content |-> <<"x">>] \in SentForms
        BY DEF SentForms, AllForms, Byte
      <3>3. <<[form |-> "typed", content |-> <<"x">>]>> \in Seq(SentForms)
        BY <3>2
      <3> QED
        BY <3>1, <3>3 DEF Init
    <2>4. request \in [Clients -> Request]
      BY Requests DEF Init
    <2>5. /\ pc \in [Clients -> Places] /\ rest \in [Clients -> Text] /\ preline \in [Clients -> Text]
          /\ remain \in [Clients -> Nat] /\ lost \in [Clients -> Nat]
      BY <2>1 DEF Init, Places
    <2>6. reply \in [Clients -> [status : {"none", "200", "404", "empty"}, body : Seq(Byte)]]
      BY <2>1 DEF Init
    <2> QED
      BY <2>3, <2>4, <2>5, <2>6, <2>7, TypeParts
  <1>2. \A c \in Clients :
            pc[c] \notin Handling /\ pc[c] \notin Posting /\ pc[c] \notin Storing \cup {"copy"}
    BY DEF Init, Handling, Posting, Storing
  <1>3. \A n \in Names : store[n] = Held(n)
    BY DEF Init, Held, Stored
  <1> QED
    BY <1>1, <1>2, <1>3 DEF IInv, Alone, Kept, Asked, Opened, Upload, Handling

LEMMA SendKeeps ==
    ASSUME IInv, NEW c \in Clients, Send(c) PROVE IInv'
  <1>1. TypeOK /\ Alone /\ Kept
    BY DEF IInv
  <1>2. PICK r \in Request : request' = [request EXCEPT ![c] = r]
    BY DEF Send
  <1>3. /\ pc[c] = "idle" /\ pc'[c] = "waiting" /\ \A d \in Clients \ {c} : pc'[d] = pc[d]
        /\ pc' \in [Clients -> Places]
    BY <1>1, TypeParts DEF Send, Goto, Places
  <1>4. TypeOK'
    <2>1. request' \in [Clients -> Request]
      BY <1>1, <1>2, TypeParts
    <2>2. reply' \in [Clients -> [status : {"none", "200", "404", "empty"}, body : Seq(Byte)]]
      <3>1. [status |-> "none", body |-> <<>>]
                \in [status : {"none", "200", "404", "empty"}, body : Seq(Byte)]
        BY EmptySeq
      <3> QED
        BY <1>1, <3>1, TypeParts DEF Send
    <2> QED
      BY <1>1, <1>3, <2>1, <2>2, TypeParts DEF Send, postVars, TypeOK
  <1>5. "idle" \notin Handling /\ "waiting" \notin Handling
    BY DEF Handling, Posting, Storing
  <1>6. Alone'
    BY <1>1, <1>3, <1>5 DEF Alone
  <1>7. \A d \in Clients \ {c} : Name(d)' = Name(d) /\ request'[d] = request[d]
    BY <1>1, <1>2, TypeParts DEF Name
  <1>8. Kept'
    <2> SUFFICES ASSUME NEW n \in Names, store'[n] # Held(n)'
                 PROVE  \E d \in Clients : pc'[d] \in Storing /\ Name(d)' = n
      BY DEF Kept
    <2>1. PICK d \in Clients : pc[d] \in Storing /\ Name(d) = n
      BY <1>1, HeldStays DEF Kept, Send
    <2>2. d # c
      BY <1>3, <2>1 DEF Storing
    <2> QED
      BY <1>3, <1>7, <2>1, <2>2
  <1>9. ASSUME NEW d \in Clients PROVE Asked(d)' /\ Opened(d)' /\ Upload(d)'
    <2>1. CASE d = c
      BY <1>3, <2>1 DEF Asked, Opened, Upload, Posting, Storing
    <2>2. CASE d # c
      <3>1. /\ pc'[d] = pc[d] /\ request'[d] = request[d] /\ Name(d)' = Name(d)
            /\ store' = store /\ intended' = intended /\ rest' = rest /\ remain' = remain
            /\ preline' = preline /\ lost' = lost
        BY <1>3, <1>7, <2>2 DEF Send, postVars
      <3>2. Asked(d) /\ Opened(d) /\ Upload(d)
        BY DEF IInv
      <3>3. Asked(d)' /\ Opened(d)'
        BY <3>1, <3>2 DEF Asked, Opened
      <3>4. CutShort(d)' <=> CutShort(d)
        BY <3>1 DEF CutShort
      <3>5. Whole(d)' <=> Whole(d)
        BY <3>1 DEF Whole, Opening, Filling
      <3>6. Upload(d)'
        BY <3>1, <3>2, <3>4, <3>5 DEF Upload
      <3> QED
        BY <3>3, <3>6
    <2> QED
      BY <2>1, <2>2
  <1> QED
    BY <1>4, <1>6, <1>8, <1>9 DEF IInv

LEMMA AcceptGetKeeps ==
    ASSUME IInv, NEW c \in Clients, AcceptGet(c) PROVE IInv'
  <1>1. /\ TypeOK /\ pc[c] = "waiting" /\ \A d \in Clients \ {c} : pc[d] \notin Handling
        /\ Goto(c, "head") /\ "head" \in Places
        /\ request[c].method # "POST"
        /\ UNCHANGED <<store, request, postVars, reply, intended>>
    BY DEF IInv, AcceptGet, Places, Handling
  <1>2. pc' \in [Clients -> Places] /\ pc'[c] = "head"
    BY <1>1, TypeParts DEF Goto
  <1>3. TypeOK'
    BY <1>1, <1>2, TypeParts DEF TypeOK, postVars
  <1>4. Asked(c)' /\ Opened(c)' /\ Upload(c)'
    <2>1. request[c].method \in {"GET", "HEAD"}
      BY <1>1, NameTypes DEF Request
    <2> QED
      BY <1>1, <1>2, <2>1 DEF Asked, Opened, Upload, Posting, Storing
  <1>5. \A n \in Names : store'[n] = Held(n)'
    BY <1>1, AllKept, HeldStays DEF Storing
  <1> QED
    BY <1>1, <1>3, <1>4, <1>5, Assemble

LEMMA AcceptPostKeeps ==
    ASSUME IInv, NEW c \in Clients, AcceptPost(c) PROVE IInv'
  <1>1. /\ TypeOK /\ pc[c] = "waiting" /\ \A d \in Clients \ {c} : pc[d] \notin Handling
        /\ Goto(c, "form") /\ "form" \in Places
        /\ request[c].method = "POST"
        /\ UNCHANGED <<store, request, preline, reply, intended>>
    BY DEF IInv, AcceptPost, Places, Handling, Posting
  <1> DEFINE body == Body(request[c])
  <1>2. request[c] \in Request /\ body \in Text /\ Len(body) \in Nat
    BY <1>1, NameTypes, BodyParts DEF Text
  <1>3. PICK arrived \in Prefixes(body) \cup {body} :
            /\ rest' = [rest EXCEPT ![c] = arrived]
            /\ lost' = [lost EXCEPT ![c] = Len(body) - Len(arrived)]
            /\ remain' = [remain EXCEPT ![c] = Len(body)]
    BY DEF AcceptPost
  <1>4. PICK l \in 0..Len(body) : arrived = SubSeq(body, 1, l)
    <2>1. CASE arrived = body
      <3>1. SubSeq(body, 1, Len(body)) = body
        BY <1>2, SubSeqFull DEF Text
      <3> QED
        BY <1>2, <2>1, <3>1
    <2>2. CASE arrived # body
      BY <2>2 DEF Prefixes
    <2> QED
      BY <2>1, <2>2
  <1>5. arrived \in Text /\ Len(arrived) = l /\ \A i \in 1..l : arrived[i] = body[i]
    BY <1>2, <1>4, FirstPart, Zenon DEF Text
  <1>6. /\ rest' \in [Clients -> Text] /\ rest'[c] = arrived
        /\ lost' \in [Clients -> Nat] /\ lost'[c] = Len(body) - l
        /\ remain' \in [Clients -> Nat] /\ remain'[c] = Len(body)
    <2>1. Len(body) - l \in Nat
      BY <1>2, <1>4
    <2> QED
      BY <1>1, <1>2, <1>3, <1>5, <2>1, TypeParts
  <1>7. pc' \in [Clients -> Places] /\ pc'[c] = "form"
    BY <1>1, TypeParts DEF Goto
  <1>8. TypeOK'
    BY <1>1, <1>6, <1>7, TypeParts DEF TypeOK
  <1>9. \A n \in Names : store'[n] = Held(n)'
    BY <1>1, AllKept, HeldStays DEF Storing
  <1>10. Asked(c)' /\ Opened(c)'
    BY <1>1, <1>7 DEF Asked, Opened, Storing
  <1>11. remain'[c] = Len(rest'[c]) + lost'[c]
    <2>1. \A n \in Nat : \A k \in 0..n : n = k + (n - k)
      OBVIOUS
    <2>2. Len(body) = l + (Len(body) - l)
      BY <1>2, <1>4, <2>1, Zenon
    <2>3. Len(rest'[c]) = l
      BY <1>5, <1>6, Zenon
    <2> QED
      BY <1>6, <2>2, <2>3, Zenon
  <1>12. lost'[c] > 0 => CutShort(c)'
    <2> SUFFICES ASSUME lost'[c] > 0 PROVE CutShort(c)'
      OBVIOUS
    <2>1. ASSUME NEW i \in 1..l, i > 3 PROVE arrived[i] \in Byte
      <3>1. i \in 4..Len(body) - 1
        BY <1>2, <1>4, <1>6, <2>1
      <3> QED
        BY <1>2, <1>5, <3>1, BodyMarks
    <2>2. MarksLeft[pc'[c]] = 3 /\ pc'[c] # "loop"
      BY <1>7 DEF MarksLeft
    <2>3. \A i \in 1..Len(rest'[c]) : i > 3 => rest'[c][i] \in Byte
      BY <1>5, <1>6, <2>1
    <2> QED
      BY <2>2, <2>3 DEF CutShort
  <1>13. ~(lost'[c] > 0) => Whole(c)'
    <2> SUFFICES ASSUME ~(lost'[c] > 0) PROVE Whole(c)'
      OBVIOUS
    <2>1. l = Len(body)
      BY <1>2, <1>4, <1>6
    <2>2. arrived = body
      BY <1>2, <1>4, <2>1, SubSeqFull DEF Text
    <2> QED
      BY <1>1, <1>6, <1>7, <2>2 DEF Whole, Storing
  <1>14. Upload(c)'
    BY <1>11, <1>12, <1>13 DEF Upload
  <1> QED
    BY <1>1, <1>8, <1>9, <1>10, <1>14, Assemble

LEMMA SendHeadKeeps ==
    ASSUME IInv, NEW c \in Clients, SendHead(c) PROVE IInv'
  <1>1. /\ TypeOK /\ pc[c] = "head" /\ \A d \in Clients \ {c} : pc[d] \notin Handling
        /\ UNCHANGED <<store, postVars, intended>>
    BY OthersWait DEF IInv, SendHead, Handling
  <1>2. \A n \in Names : store'[n] = Held(n)'
    BY <1>1, AllKept, HeldStays DEF Storing
  <1>3. CASE \E status \in {"200", "404"} : Answer(c, status, <<>>)
    <2>1. PICK status \in {"200", "404"} : Answer(c, status, <<>>)
      BY <1>3
    <2>2. Goto(c, "idle") /\ "idle" \in Places
      BY <2>1 DEF Answer, Places
    <2>3. pc' \in [Clients -> Places] /\ pc'[c] = "idle"
      BY <1>1, <2>2, TypeParts DEF Goto
    <2>4. request' \in [Clients -> Request]
      BY <1>1, <2>1, Requests, TypeParts DEF Answer
    <2>5. reply' \in [Clients -> [status : {"none", "200", "404", "empty"}, body : Seq(Byte)]]
      <3>1. [status |-> status, body |-> <<>>]
                \in [status : {"none", "200", "404", "empty"}, body : Seq(Byte)]
        BY EmptySeq
      <3> QED
        BY <1>1, <2>1, <3>1, TypeParts DEF Answer
    <2>6. TypeOK'
      BY <1>1, <2>3, <2>4, <2>5, TypeParts DEF TypeOK, postVars
    <2>7. Asked(c)' /\ Opened(c)' /\ Upload(c)'
      BY <2>3 DEF Asked, Opened, Upload, Posting, Storing
    <2> QED
      BY <1>1, <1>2, <2>2, <2>6, <2>7, Assemble
  <1>4. CASE /\ store[Name(c)] # <<>> /\ request[c].method = "GET"
             /\ Goto(c, "copy") /\ UNCHANGED <<request, reply>>
    <2>1. pc' \in [Clients -> Places] /\ pc'[c] = "copy" /\ "copy" \in Places
      BY <1>1, <1>4, TypeParts DEF Goto, Places, Handling
    <2>2. TypeOK'
      BY <1>1, <1>4, <2>1, TypeParts DEF TypeOK, postVars
    <2>3. Asked(c)' /\ Opened(c)' /\ Upload(c)'
      BY <1>1, <1>4, <2>1 DEF Asked, Opened, Upload, Posting, Storing, Name
    <2> QED
      BY <1>1, <1>2, <1>4, <2>1, <2>2, <2>3, Assemble
  <1> QED
    BY <1>3, <1>4 DEF SendHead

LEMMA CopyFileKeeps ==
    ASSUME IInv, NEW c \in Clients, CopyFile(c) PROVE IInv'
  <1>1. /\ TypeOK /\ pc[c] = "copy" /\ \A d \in Clients \ {c} : pc[d] \notin Handling
        /\ Opened(c) /\ Answer(c, "200", store[Name(c)][1])
        /\ UNCHANGED <<store, postVars, intended>>
    BY OthersWait DEF IInv, CopyFile, Handling
  <1>2. \A n \in Names : store'[n] = Held(n)'
    BY <1>1, AllKept, HeldStays DEF Storing
  <1>3. Goto(c, "idle") /\ "idle" \in Places
    BY <1>1 DEF Answer, Places
  <1>4. pc' \in [Clients -> Places] /\ pc'[c] = "idle"
    BY <1>1, <1>3, TypeParts DEF Goto
  <1>5. request' \in [Clients -> Request]
    BY <1>1, Requests, TypeParts DEF Answer
  <1>6. store[Name(c)][1] \in Seq(Byte)
    <2>1. store[Name(c)] \in Seq(Seq(Byte)) /\ store[Name(c)] # <<>>
      BY <1>1, NameTypes, TypeParts DEF Opened
    <2> QED
      BY <2>1
  <1>7. reply' \in [Clients -> [status : {"none", "200", "404", "empty"}, body : Seq(Byte)]]
    BY <1>1, <1>6, TypeParts DEF Answer
  <1>8. TypeOK'
    BY <1>1, <1>4, <1>5, <1>7, TypeParts DEF TypeOK, postVars
  <1>9. Asked(c)' /\ Opened(c)' /\ Upload(c)'
    BY <1>4 DEF Asked, Opened, Upload, Posting, Storing
  <1> QED
    BY <1>1, <1>2, <1>3, <1>8, <1>9, Assemble

\* A line of the heading is read.
LEMMA HeadingRead ==
    ASSUME IInv, NEW c \in Clients, pc[c] \in {"form", "name", "skip"},
           NEW place \in {"name", "skip", "part"},
           MarksLeft[place] = MarksLeft[pc[c]] - 1,
           ReadLine(c), Goto(c, place),
           UNCHANGED <<store, request, preline, lost, reply, intended>>,
           lost[c] = 0 /\ Whole(c) => Whole(c)'
    PROVE  IInv'
  <1>1. /\ TypeOK /\ Upload(c) /\ pc[c] \in Posting /\ place \in Posting /\ place \in Places
        /\ \A d \in Clients \ {c} : pc[d] \notin Handling
        /\ pc[c] \notin Storing /\ place \notin Storing
    BY OthersWait DEF IInv, Posting, Handling, Places, Storing
  <1>2. pc' \in [Clients -> Places] /\ pc'[c] = place
    BY <1>1, TypeParts DEF Goto
  <1>3. remain[c] = Len(rest[c]) + lost[c] /\ IF lost[c] > 0 THEN CutShort(c) ELSE Whole(c)
    BY <1>1 DEF Upload
  <1>4. /\ rest' \in [Clients -> Text] /\ remain' \in [Clients -> Nat]
        /\ remain'[c] = Len(rest'[c]) + lost'[c]
        /\ \A k \in Nat :
            (\A i \in 1..Len(rest[c]) : i > k => rest[c][i] \in Byte)
            => \A i \in 1..Len(rest'[c]) : i > k - 1 => rest'[c][i] \in Byte
    BY <1>1, <1>3, LineRead
  <1>5. TypeOK'
    BY <1>1, <1>2, <1>4, TypeParts DEF TypeOK
  <1>6. \A n \in Names : store'[n] = Held(n)'
    BY <1>1, AllKept, HeldStays
  <1>7. Asked(c)' /\ Opened(c)'
    BY <1>1, <1>2, AskedStays DEF Opened, Storing
  <1>8. lost[c] > 0 => CutShort(c)'
    <2> SUFFICES ASSUME lost[c] > 0 PROVE CutShort(c)'
      OBVIOUS
    <2>1. \A i \in 1..Len(rest[c]) : i > MarksLeft[pc[c]] => rest[c][i] \in Byte
      BY <1>3 DEF CutShort
    <2>2. MarksLeft[pc[c]] \in Nat
      BY DEF MarksLeft
    <2>3. \A i \in 1..Len(rest'[c]) : i > MarksLeft[place] => rest'[c][i] \in Byte
      BY <1>4, <2>1, <2>2
    <2> QED
      BY <1>2, <2>3 DEF CutShort
  <1>9. ~(lost[c] > 0) => Whole(c)'
    <2>1. lost[c] \in Nat
      BY <1>1, TypeParts
    <2> QED
      BY <1>3, <2>1
  <1>10. Upload(c)'
    BY <1>4, <1>8, <1>9 DEF Upload
  <1> QED
    BY <1>1, <1>5, <1>6, <1>7, <1>10, Assemble

LEMMA FormKeeps ==
    ASSUME IInv, NEW c \in Clients, Form(c) PROVE IInv'
  <1>1. TypeOK /\ pc[c] = "form" /\ pc[c] \in Posting \ Storing
    BY DEF IInv, Form, Expect, Posting, Storing
  <1>2. CASE Return(c) /\ UNCHANGED <<store, intended>>
    BY <1>1, <1>2, GivingUpKeeps
  <1>3. CASE /\ Line(rest[c]) = <<"boundary">> /\ ReadLine(c) /\ Goto(c, "name")
             /\ UNCHANGED <<store, request, preline, lost, reply, intended>>
    <2>1. ASSUME lost[c] = 0, Whole(c) PROVE Whole(c)'
      <3> DEFINE r == request[c]
      <3>1. r \in Request /\ rest[c] = Body(r)
        BY <1>1, <2>1, NameTypes DEF Whole
      <3>2. r.form # "raw"
        <4>1. Len(Line(rest[c])) = 1
          BY <1>3
        <4>2. rest[c] \in Text /\ Len(Line(rest[c])) = LineLength(rest[c])
          BY <1>1, TypeParts, LineSplits
        <4>3. rest[c] # <<>>
          BY <4>1, <4>2, LineLengths
        <4> QED
          BY <3>1, <4>3, BodyParts
      <3>3. AfterName(r) \in Text /\ Body(r) = <<"boundary">> \o (<<"disposition">> \o AfterName(r))
        BY <3>1, <3>2, BodyParts
      <3>4. <<"disposition">> \o AfterName(r) \in Text
        <4>1. <<"disposition">> \in Text
          BY DEF Text, Mark
        <4> QED
          BY <3>3, <4>1, ConcatType
      <3>5. AfterLine(Body(r)) = <<"disposition">> \o AfterName(r)
        BY <3>3, <3>4, MarkLine DEF Mark
      <3>6. rest'[c] = <<"disposition">> \o AfterName(r) /\ pc'[c] = "name" /\ request'[c] = r
        BY <1>1, <1>3, <3>1, <3>5, TypeParts DEF ReadLine, Goto
      <3> QED
        BY <3>2, <3>6 DEF Whole, Storing
    <2> QED
      BY <1>1, <1>3, <2>1, HeadingRead DEF MarksLeft
  <1> QED
    BY <1>2, <1>3 DEF Form, Expect

LEMMA FileNameKeeps ==
    ASSUME IInv, NEW c \in Clients, FileName(c) PROVE IInv'
  <1>1. TypeOK /\ pc[c] = "name" /\ pc[c] \in Posting \ Storing
    BY DEF IInv, FileName, Expect, Posting, Storing
  <1>2. CASE Return(c) /\ UNCHANGED <<store, intended>>
    BY <1>1, <1>2, GivingUpKeeps
  <1>3. CASE /\ ReadLine(c) /\ Goto(c, "skip")
             /\ UNCHANGED <<store, request, preline, lost, reply, intended>>
    <2>1. ASSUME lost[c] = 0, Whole(c) PROVE Whole(c)'
      <3> DEFINE r == request[c]
      <3>1. /\ r \in Request /\ r.form # "raw" /\ AfterName(r) \in Text
            /\ rest[c] = <<"disposition">> \o AfterName(r)
        BY <1>1, <2>1, NameTypes, BodyParts DEF Whole
      <3>2. AfterLine(rest[c]) = AfterName(r)
        BY <3>1, MarkLine DEF Mark
      <3>3. rest'[c] = AfterName(r) /\ pc'[c] = "skip" /\ request'[c] = r
        BY <1>1, <1>3, <3>2, TypeParts DEF ReadLine, Goto
      <3> QED
        BY <3>1, <3>3 DEF Whole, Storing
    <2> QED
      BY <1>1, <1>3, <2>1, HeadingRead DEF MarksLeft
  <1> QED
    BY <1>2, <1>3 DEF FileName, Expect

LEMMA SkipKeeps ==
    ASSUME IInv, NEW c \in Clients, Skip(c) PROVE IInv'
  <1>1. /\ TypeOK /\ pc[c] = "skip"
        /\ ReadLine(c) /\ Goto(c, "part")
        /\ UNCHANGED <<store, request, preline, lost, reply, intended>>
    BY DEF IInv, Skip
  <1>2. ASSUME lost[c] = 0, Whole(c) PROVE Whole(c)'
    <2> DEFINE r == request[c]
               left == IF r.form = "typed" THEN Blank(r) ELSE r.content \o Ending
    <2>1. r \in Request /\ r.form # "raw" /\ rest[c] = AfterName(r)
      BY <1>1, <1>2, NameTypes DEF Whole
    <2>2. Blank(r) \in Text /\ r.content \o Ending \in Text
      <3>1. Blank(r) \in Text /\ r.content \in Text
        BY <2>1, BodyParts DEF Text
      <3>2. Ending \in Text
        BY DEF Ending, EndLine, Text, Byte, Mark
      <3> QED
        BY <3>1, <3>2, ConcatType, Zenon
    <2>3. AfterLine(AfterName(r)) = left
      <3>1. CASE r.form = "typed"
        BY <2>2, <3>1, MarkLine DEF Mark, AfterName
      <3>2. CASE r.form # "typed"
        BY <2>2, <3>2, EndLineLine DEF AfterName, Blank
      <3> QED
        BY <3>1, <3>2
    <2>4. rest'[c] = left /\ pc'[c] = "part" /\ request'[c] = r
      BY <1>1, <2>1, <2>3, TypeParts DEF ReadLine, Goto
    <2> QED
      BY <2>1, <2>4 DEF Whole, Storing
  <1> QED
    BY <1>1, <1>2, HeadingRead DEF MarksLeft

LEMMA PartKeeps ==
    ASSUME IInv, NEW c \in Clients, Part(c) PROVE IInv'
  <1>1. /\ TypeOK /\ Upload(c) /\ pc[c] = "part" /\ pc[c] \in Posting \ Storing
        /\ \A d \in Clients \ {c} : pc[d] \notin Handling
    BY OthersWait DEF IInv, Part, Posting, Storing, Handling
  <1>2. CASE Return(c) /\ UNCHANGED <<store, intended>>
    BY <1>1, <1>2, GivingUpKeeps
  <1> DEFINE r == request[c]
  <1>3. CASE /\ ReadLine(c)
             /\ store' = [store EXCEPT ![Name(c)] = <<<<>>>>]
             /\ intended' = IF lost[c] > 0 THEN intended
                            ELSE [intended EXCEPT ![Name(c)] = <<Sent(r)>>]
             /\ Goto(c, "first")
             /\ UNCHANGED <<preline, lost, request, reply>>
    <2>1. /\ r \in Request /\ Name(c) \in Names /\ Stored(r) \in Seq(Byte)
          /\ lost[c] \in Nat /\ Name(c)' = Name(c)
      BY <1>1, <1>3, NameTypes, TypeParts DEF Name
    <2>2. remain[c] = Len(rest[c]) + lost[c] /\ IF lost[c] > 0 THEN CutShort(c) ELSE Whole(c)
      BY <1>1 DEF Upload
    <2>3. /\ rest' \in [Clients -> Text] /\ remain' \in [Clients -> Nat]
          /\ rest'[c] = AfterLine(rest[c])
          /\ remain'[c] = Len(rest'[c]) + lost'[c]
          /\ \A k \in Nat :
              (\A i \in 1..Len(rest[c]) : i > k => rest[c][i] \in Byte)
              => \A i \in 1..Len(rest'[c]) : i > k - 1 => rest'[c][i] \in Byte
      BY <1>1, <1>3, <2>2, LineRead
    <2>4. pc' \in [Clients -> Places] /\ pc'[c] = "first" /\ "first" \in Places /\ "first" \in Storing
      BY <1>1, <1>3, TypeParts DEF Goto, Places, Handling, Posting, Storing
    <2>5. /\ store' \in [Names -> Seq(Seq(Byte))] /\ store'[Name(c)] = <<<<>>>>
          /\ \A n \in Names \ {Name(c)} : store'[n] = store[n]
      <3>1. <<<<>>>> \in Seq(Seq(Byte))
        BY EmptySeq
      <3> QED
        BY <1>1, <1>3, <2>1, <3>1, TypeParts
    <2>6. /\ intended' \in [Names -> Seq(SentForms)]
          /\ ~(lost[c] > 0) => intended'[Name(c)] = <<Sent(r)>>
          /\ \A n \in Names \ {Name(c)} : intended'[n] = intended[n]
      <3>1. ~(lost[c] > 0) => Sent(r) \in SentForms
        <4>1. r.form \in AllForms /\ r.content \in Seq(Byte)
          BY <2>1, BodyParts DEF Request, AllForms
        <4> QED
          BY <1>1, <2>2, <4>1 DEF Whole, Sent, SentForms
      <3> HIDE DEF r
      <3> QED
        BY <1>1, <1>3, <2>1, <3>1, TypeParts
    <2>13. \A n \in Names \ {Name(c)} : Held(n)' = Held(n)
      BY <2>6 DEF Held
    <2>7. TypeOK'
      BY <1>1, <1>3, <2>3, <2>4, <2>5, <2>6, TypeParts DEF TypeOK, SentForms
    <2>8. \A n \in Names : store'[n] = Held(n)' \/ ("first" \in Storing /\ Name(c)' = n)
      BY <1>1, <2>1, <2>4, <2>5, <2>13, AllKept
    <2>9. Asked(c)' /\ Opened(c)'
      BY <1>1, <1>3, <2>1, <2>4, <2>5, AskedStays DEF Opened, Posting
    <2>10. ASSUME lost[c] > 0 PROVE CutShort(c)'
      <3>1. \A i \in 1..Len(rest[c]) : i > 0 => rest[c][i] \in Byte
        BY <1>1, <2>2, <2>10 DEF CutShort, MarksLeft
      <3>2. \A i \in 1..Len(rest'[c]) : i > 0 => rest'[c][i] \in Byte
        <4>1. \A i \in 1..Len(rest'[c]) : i > 0 - 1 => rest'[c][i] \in Byte
          BY <2>3, <3>1, Zenon
        <4> QED
          BY <4>1
      <3> QED
        BY <2>4, <3>2 DEF CutShort, MarksLeft
    <2>11. ASSUME ~(lost[c] > 0) PROVE Whole(c)'
      <3>1. /\ r.form # "raw" /\ r.content \in Seq(Byte) /\ r.content \in Text
            /\ rest[c] = IF r.form = "typed" THEN Blank(r) ELSE r.content \o Ending
        BY <1>1, <2>1, <2>2, <2>11, BodyParts DEF Whole, Text
      <3>2. \/ rest'[c] = Stored(r) \o Ending
            \/ rest'[c] = <<"boundary">> /\ Stored(r) = <<>>
        <4>1. CASE r.form = "typed"
          <5>1. Ending \in Text
            BY DEF Ending, EndLine, Text, Byte, Mark
          <5>2. r.content \o Ending \in Text
            BY <3>1, <5>1, ConcatType, Zenon
          <5>3. AfterLine(Blank(r)) = r.content \o Ending
            BY <5>2, EndLineLine DEF Blank
          <5> QED
            BY <2>3, <3>1, <4>1, <5>3 DEF Stored
        <4>2. CASE r.form # "typed"
          BY <2>3, <3>1, <4>2, FirstLineLost DEF Stored
        <4> QED
          BY <4>1, <4>2
      <3>3. Opening(c, Stored(r))'
        BY <1>3, <2>1, <2>5, <3>2 DEF Opening
      <3>4. intended'[Name(c)] = <<Sent(r)>> /\ request'[c] = r
        BY <1>3, <2>6, <2>11
      <3> QED
        BY <2>1, <2>4, <3>3, <3>4 DEF Whole
    <2>12. Upload(c)'
      BY <1>3, <2>3, <2>10, <2>11 DEF Upload
    <2> QED
      BY <1>1, <1>3, <2>4, <2>7, <2>8, <2>9, <2>12, Assemble
  <1> QED
    BY <1>2, <1>3 DEF Part

\* What is written goes behind what the file holds.
LEMMA Written ==
    ASSUME TypeOK, NEW c \in Clients, NEW old \in Seq(Byte), store[Name(c)] = <<old>>,
           NEW bytes \in Seq(Byte), Write(c, bytes)
    PROVE  /\ store' \in [Names -> Seq(Seq(Byte))]
           /\ store'[Name(c)] = <<old \o bytes>>
           /\ \A n \in Names \ {Name(c)} : store'[n] = store[n]
  <1>1. store \in [Names -> Seq(Seq(Byte))] /\ Name(c) \in Names
    BY NameTypes, TypeParts
  <1>2. old \o bytes \in Seq(Byte)
    BY ConcatProperties
  <1>3. store[Name(c)][1] = old
    OBVIOUS
  <1>4. store' = [store EXCEPT ![Name(c)] = <<old \o bytes>>]
    BY <1>3 DEF Write
  <1>5. <<old \o bytes>> \in Seq(Seq(Byte))
    BY <1>2
  <1> QED
    BY <1>1, <1>4, <1>5

LEMMA LastMark ==
    /\ <<"boundary">> \in Text /\ <<"boundary">> \notin Seq(Byte)
    /\ Line(<<"boundary">>) = <<"boundary">> /\ AfterLine(<<"boundary">>) = <<>>
  <1>1. <<"boundary">> \in Text /\ <<>> \in Text
    BY EmptySeq DEF Text, Mark
  <1>2. <<"boundary">> \o <<>> = <<"boundary">>
    BY <1>1, ConcatEmptySeq DEF Text
  <1>3. <<"boundary">> \notin Seq(Byte)
    <2>1. <<"boundary">>[1] \notin Byte /\ 1 \in 1..Len(<<"boundary">>)
      BY DEF Byte
    <2> QED
      BY <2>1, ElementOfSeq
  <1>4. Line(<<"boundary">> \o <<>>) = <<"boundary">> /\ AfterLine(<<"boundary">> \o <<>>) = <<>>
    BY <1>1, MarkLine DEF Mark
  <1> QED
    BY <1>1, <1>2, <1>3, <1>4

\* A line of what has no marks has none.
LEMMA LineOfBytes ==
    ASSUME NEW bytes \in Text, \A i \in 1..Len(bytes) : bytes[i] \in Byte
    PROVE  Line(bytes) \in Seq(Byte)
  <1>1. LineLength(bytes) \in 0..Len(bytes) /\ Len(bytes) \in Nat
    BY LineLengths DEF Text
  <1>2. /\ Line(bytes) \in Text /\ Len(Line(bytes)) = LineLength(bytes)
        /\ \A i \in 1..LineLength(bytes) : Line(bytes)[i] = bytes[i]
    BY LineSplits
  <1>3. \A i \in 1..Len(Line(bytes)) : Line(bytes)[i] \in Byte
    BY <1>1, <1>2
  <1> QED
    BY <1>2, <1>3 DEF Text

\* So the line kept back, written without its line end, makes the file whole.
LEMMA LastWrite ==
    ASSUME NEW written \in Lines, NEW p \in Lines \ {<<>>}, NEW content \in Seq(Byte),
           AddsUp(written, p, <<"boundary">>, content)
    PROVE  Chomp(p) \in Seq(Byte) /\ written \o Chomp(p) = content
  <1>1. written \in Text /\ p \in Text /\ content \in Text /\ EndLine \in Text
    BY DEF Lines, EndLine, Text, Byte, Mark
  <1>2. written \o p \in Text /\ content \o EndLine \in Text
    BY <1>1, ConcatType
  <1>3. (content \o EndLine) \o <<"boundary">> = content \o Ending
    BY <1>1, LastMark, ConcatAssoc, Zenon DEF Ending
  <1>4. written \o p = content \o EndLine
    BY <1>2, <1>3, LastMark, CancelRight DEF AddsUp
  <1>5. Completes(p, written, content)
    BY <1>4 DEF Completes
  <1> QED
    BY <1>5, Chomped, Zenon

LEMMA FirstKeeps ==
    ASSUME IInv, NEW c \in Clients, First(c) PROVE IInv'
  <1>1. /\ TypeOK /\ Upload(c) /\ Opened(c) /\ pc[c] = "first"
        /\ pc[c] \in Posting /\ pc[c] \in Storing
        /\ \A d \in Clients \ {c} : pc[d] \notin Handling
        /\ preline' = [preline EXCEPT ![c] = Line(rest[c])]
        /\ ReadLine(c) /\ Goto(c, "loop")
        /\ UNCHANGED <<store, request, lost, reply, intended>>
    BY OthersWait DEF IInv, First, Posting, Storing, Handling
  <1> DEFINE content == Stored(request[c])
  <1>2. /\ Name(c) \in Names /\ content \in Seq(Byte) /\ lost[c] \in Nat
        /\ Name(c)' = Name(c) /\ rest[c] \in Text
    BY <1>1, NameTypes, TypeParts DEF Name
  <1>3. remain[c] = Len(rest[c]) + lost[c] /\ IF lost[c] > 0 THEN CutShort(c) ELSE Whole(c)
    BY <1>1 DEF Upload
  <1>4. /\ rest' \in [Clients -> Text] /\ remain' \in [Clients -> Nat]
        /\ rest'[c] = AfterLine(rest[c])
        /\ remain'[c] = Len(rest'[c]) + lost'[c]
        /\ \A k \in Nat :
            (\A i \in 1..Len(rest[c]) : i > k => rest[c][i] \in Byte)
            => \A i \in 1..Len(rest'[c]) : i > k - 1 => rest'[c][i] \in Byte
    BY <1>1, <1>3, LineRead
  <1>5. pc' \in [Clients -> Places] /\ pc'[c] = "loop" /\ "loop" \in Places /\ "loop" \in Storing
    BY <1>1, TypeParts DEF Goto, Places, Handling, Posting, Storing
  <1>6. preline' \in [Clients -> Text] /\ preline'[c] = Line(rest[c])
    BY <1>1, <1>2, LineSplits, TypeParts
  <1>7. TypeOK'
    BY <1>1, <1>4, <1>5, <1>6, TypeParts DEF TypeOK
  <1>8. \A n \in Names : store'[n] = Held(n)' \/ ("loop" \in Storing /\ Name(c)' = n)
    BY <1>1, <1>2, <1>5, AllKept, HeldStays
  <1>9. Asked(c)' /\ Opened(c)'
    BY <1>1, <1>2, <1>5, AskedStays DEF Opened, Posting
  <1>10. ASSUME lost[c] > 0 PROVE CutShort(c)'
    <2>1. \A i \in 1..Len(rest[c]) : i > 0 => rest[c][i] \in Byte
      BY <1>1, <1>3, <1>10 DEF CutShort, MarksLeft
    <2>2. \A i \in 1..Len(rest'[c]) : i > 0 => rest'[c][i] \in Byte
      <3>1. \A i \in 1..Len(rest'[c]) : i > 0 - 1 => rest'[c][i] \in Byte
        BY <1>4, <2>1, Zenon
      <3> QED
        BY <3>1
    <2>3. Line(rest[c]) \in Seq(Byte)
      BY <1>2, <2>1, LineOfBytes
    <2> QED
      BY <1>5, <1>6, <2>2, <2>3 DEF CutShort, MarksLeft
  <1>11. ASSUME ~(lost[c] > 0) PROVE Whole(c)'
    <2>1. intended[Name(c)] = <<Sent(request[c])>> /\ Opening(c, content)
      BY <1>1, <1>3, <1>11 DEF Whole
    <2>2. CASE rest[c] = content \o Ending
      <3>1. <<>> \in Lines /\ <<>> \in Seq(Byte)
        BY EmptySeq DEF Lines
      <3>2. <<>> \o rest[c] = content \o Ending
        BY <1>2, <2>2, ConcatEmptySeq DEF Text
      <3>3. rest[c] # <<"boundary">>
        <4>1. Ending \in Text /\ Len(Ending) = 3 /\ content \in Text /\ Len(content) \in Nat
          BY <1>2 DEF Ending, EndLine, Text, Byte, Mark
        <4>2. Len(content \o Ending) = Len(content) + Len(Ending)
          BY <4>1, ConcatIs, Zenon
        <4>3. Len(rest[c]) # 1
          BY <2>2, <4>1, <4>2
        <4> QED
          BY <4>3
      <3>4. Line(rest[c]) \in Lines \ {<<>>}
        BY <1>2, <3>1, <3>2, <3>3, LineOfRest
      <3>5. /\ rest[c] = Line(rest[c]) \o AfterLine(rest[c])
            /\ <<>> \o Line(rest[c]) = Line(rest[c])
        <4>1. Line(rest[c]) \in Text /\ rest[c] = Line(rest[c]) \o AfterLine(rest[c])
          BY <1>2, LineSplits
        <4> QED
          BY <4>1, ConcatEmptySeq DEF Text
      <3>6. AddsUp(<<>>, preline'[c], rest'[c], content)
        BY <1>4, <1>6, <2>2, <3>5 DEF AddsUp
      <3>7. store'[Name(c)] = <<<<>>>> /\ store'[Name(c)][1] = <<>>
        BY <1>1, <2>1 DEF Opening
      <3>8. Filling(c, content)'
        BY <1>1, <1>2, <1>6, <3>1, <3>4, <3>6, <3>7 DEF Filling
      <3> QED
        BY <1>1, <1>2, <1>5, <2>1, <3>8 DEF Whole
    <2>3. CASE rest[c] = <<"boundary">> /\ content = <<>>
      <3>1. preline'[c] = <<"boundary">> /\ rest'[c] = <<>>
        BY <1>4, <1>6, <2>3, LastMark
      <3>2. Filling(c, content)'
        BY <1>1, <1>2, <2>1, <2>3, <3>1 DEF Filling, Opening
      <3> QED
        BY <1>1, <1>2, <1>5, <2>1, <3>2 DEF Whole
    <2> QED
      BY <2>1, <2>2, <2>3 DEF Opening
  <1>12. Upload(c)'
    BY <1>1, <1>4, <1>10, <1>11 DEF Upload
  <1> QED
    BY <1>1, <1>5, <1>7, <1>8, <1>9, <1>12, Assemble

LEMMA LoopKeeps ==
    ASSUME IInv, NEW c \in Clients, Loop(c) PROVE IInv'
  <1>1. /\ TypeOK /\ Upload(c) /\ Opened(c) /\ pc[c] = "loop" /\ remain[c] > 0
        /\ pc[c] \in Posting /\ pc[c] \in Storing
        /\ \A d \in Clients \ {c} : pc[d] \notin Handling
        /\ UNCHANGED intended
    BY OthersWait DEF IInv, Loop, Posting, Storing, Handling
  <1> DEFINE content == Stored(request[c])
  <1>2. /\ Name(c) \in Names /\ content \in Seq(Byte) /\ lost[c] \in Nat
        /\ rest[c] \in Text /\ intended \in [Names -> Seq(SentForms)]
    BY <1>1, NameTypes, TypeParts
  <1>3. remain[c] = Len(rest[c]) + lost[c] /\ IF lost[c] > 0 THEN CutShort(c) ELSE Whole(c)
    BY <1>1 DEF Upload
  <1>4. /\ Line(rest[c]) \in Text /\ AfterLine(rest[c]) \in Text
        /\ rest[c] = Line(rest[c]) \o AfterLine(rest[c])
    BY <1>2, LineSplits
  <1>5. CASE lost[c] > 0
    <2>1. /\ \A i \in 1..Len(rest[c]) : i > 0 => rest[c][i] \in Byte
          /\ preline[c] \in Seq(Byte)
      BY <1>1, <1>3, <1>5 DEF CutShort, MarksLeft
    <2>2. Line(rest[c]) \in Seq(Byte)
      BY <1>2, <2>1, LineOfBytes
    <2>3. WritePreline(c)
      BY <2>2, LastMark DEF Loop
    <2>4. PICK old \in Seq(Byte) : store[Name(c)][1] = old
      <3>1. store[Name(c)] \in Seq(Seq(Byte)) /\ store[Name(c)] # <<>>
        BY <1>1, <1>2, TypeParts DEF Opened
      <3> QED
        BY <3>1
    <2>5. /\ store' = [store EXCEPT ![Name(c)] = <<old \o preline[c]>>]
          /\ <<old \o preline[c]>> \in Seq(Seq(Byte))
      <3>1. old \o preline[c] \in Seq(Byte)
        BY <2>1, ConcatProperties
      <3> QED
        BY <2>3, <2>4, <3>1 DEF WritePreline, Write
    <2>6. /\ store' \in [Names -> Seq(Seq(Byte))] /\ store'[Name(c)] # <<>>
          /\ \A n \in Names \ {Name(c)} : store'[n] = store[n]
      BY <1>1, <1>2, <2>5, TypeParts
    <2>7. /\ UNCHANGED <<pc, lost, request, reply>> /\ ReadLine(c)
          /\ preline' = [preline EXCEPT ![c] = Line(rest[c])]
      BY <2>3 DEF WritePreline
    <2>8. /\ rest' \in [Clients -> Text] /\ remain' \in [Clients -> Nat]
          /\ remain'[c] = Len(rest'[c]) + lost'[c]
          /\ \A k \in Nat :
              (\A i \in 1..Len(rest[c]) : i > k => rest[c][i] \in Byte)
              => \A i \in 1..Len(rest'[c]) : i > k - 1 => rest'[c][i] \in Byte
      BY <1>1, <1>3, <2>7, LineRead
    <2>9. preline' \in [Clients -> Text] /\ preline'[c] = Line(rest[c])
      BY <1>1, <1>4, <2>7, TypeParts
    <2>10. TypeOK'
      BY <1>1, <2>6, <2>7, <2>8, <2>9, TypeParts DEF TypeOK
    <2>11. Name(c)' = Name(c)
      BY <2>7 DEF Name
    <2>12. \A n \in Names : store'[n] = Held(n)' \/ (pc[c] \in Storing /\ Name(c)' = n)
      BY <1>1, <2>6, <2>11, AllKept, HeldStays
    <2>13. CutShort(c)'
      <3>1. \A i \in 1..Len(rest'[c]) : i > 0 => rest'[c][i] \in Byte
        <4>1. \A i \in 1..Len(rest'[c]) : i > 0 - 1 => rest'[c][i] \in Byte
          BY <2>1, <2>8, Zenon
        <4> QED
          BY <4>1
      <3> QED
        BY <1>1, <2>2, <2>7, <2>9, <3>1 DEF CutShort, MarksLeft
    <2>14. Asked(c)' /\ Opened(c)' /\ Upload(c)'
      <3>1. Asked(c)'
        BY <1>1, <2>7, AskedStays
      <3> QED
        BY <1>5, <2>6, <2>7, <2>8, <2>11, <2>13, <3>1 DEF Opened, Upload
    <2>15. Goto(c, pc[c]) /\ pc[c] \in Places
      BY <1>1, <2>7, TypeParts DEF Goto
    <2> QED
      BY <1>1, <2>10, <2>12, <2>14, <2>15, Assemble
  <1>6. CASE ~(lost[c] > 0)
    <2>1. intended[Name(c)] = <<Sent(request[c])>> /\ Filling(c, content)
      BY <1>1, <1>3, <1>6 DEF Whole
    <2>2. rest[c] # <<>>
      BY <1>1, <1>2, <1>3, <1>6
    <2> DEFINE written == store[Name(c)][1]
               old == written \o preline[c]
    <2>3. /\ store[Name(c)] = <<written>> /\ written \in Lines
          /\ preline[c] \in Lines \ {<<>>}
          /\ AddsUp(written, preline[c], rest[c], content)
          /\ old \o rest[c] = content \o Ending
      BY <2>1, <2>2 DEF Filling, AddsUp
    <2>4. old \in Lines /\ old \in Seq(Byte) /\ written \in Seq(Byte) /\ preline[c] \in Seq(Byte)
      BY <2>3, LinesJoin DEF Lines
    <2>5. rest[c] # <<"boundary">> => Line(rest[c]) \in Lines \ {<<>>}
      BY <1>2, <2>3, <2>4, LineOfRest
    <2>6. CASE /\ Line(rest[c]) = <<"boundary">>
               /\ Write(c, Chomp(preline[c])) /\ Return(c)
      <3>1. rest[c] = <<"boundary">>
        BY <2>5, <2>6, LastMark DEF Lines
      <3>2. AddsUp(written, preline[c], <<"boundary">>, content)
        BY <2>3, <3>1, Zenon
      <3>3. Chomp(preline[c]) \in Seq(Byte) /\ written \o Chomp(preline[c]) = content
        BY <1>2, <2>3, <3>2, LastWrite, Zenon
      <3>4. /\ store' \in [Names -> Seq(Seq(Byte))]
            /\ store'[Name(c)] = <<written \o Chomp(preline[c])>>
            /\ \A n \in Names \ {Name(c)} : store'[n] = store[n]
        BY <1>1, <2>3, <2>4, <2>6, <3>3, Written
      <3>5. Held(Name(c)) = <<content>>
        BY <1>1, <1>2, <2>1, HeldIs
      <3>6. store'[Name(c)] = Held(Name(c))
        BY <3>3, <3>4, <3>5
      <3>7. \A n \in Names \ {Name(c)} : store'[n] = Held(n)
        BY <1>1, <3>4, AllKept
      <3>8. \A n \in Names : store'[n] = Held(n)
        BY <3>6, <3>7
      <3> QED
        BY <1>1, <2>6, <3>4, <3>8, ReturnKeeps
    <2>7. CASE WritePreline(c)
      <3>1. /\ Line(rest[c]) # <<"boundary">> /\ Write(c, preline[c])
            /\ preline' = [preline EXCEPT ![c] = Line(rest[c])]
            /\ ReadLine(c) /\ UNCHANGED <<pc, lost, request, reply>>
        BY <2>7 DEF WritePreline
      <3>2. Line(rest[c]) \in Lines \ {<<>>}
        BY <2>5, <3>1, LastMark
      <3>3. /\ store' \in [Names -> Seq(Seq(Byte))] /\ store'[Name(c)] = <<old>>
            /\ \A n \in Names \ {Name(c)} : store'[n] = store[n]
        BY <1>1, <2>3, <2>4, <3>1, Written
      <3>4. /\ rest' \in [Clients -> Text] /\ remain' \in [Clients -> Nat]
            /\ rest'[c] = AfterLine(rest[c])
            /\ remain'[c] = Len(rest'[c]) + lost'[c]
        BY <1>1, <1>3, <3>1, LineRead
      <3>5. preline' \in [Clients -> Text] /\ preline'[c] = Line(rest[c])
        BY <1>1, <1>4, <3>1, TypeParts
      <3>6. TypeOK'
        BY <1>1, <3>1, <3>3, <3>4, <3>5, TypeParts DEF TypeOK
      <3>7. Name(c)' = Name(c)
        BY <3>1 DEF Name
      <3>8. \A n \in Names : store'[n] = Held(n)' \/ (pc[c] \in Storing /\ Name(c)' = n)
        BY <1>1, <3>3, <3>7, AllKept, HeldStays
      <3>9. AddsUp(old, preline'[c], rest'[c], content)
        <4>1. old \in Text
          BY <2>4 DEF Text
        <4>2. (old \o Line(rest[c])) \o AfterLine(rest[c]) = old \o (Line(rest[c]) \o AfterLine(rest[c]))
          BY <1>4, <4>1, ConcatAssoc, Zenon
        <4> QED
          BY <1>4, <2>3, <3>4, <3>5, <4>2, Zenon DEF AddsUp
      <3>10. store'[Name(c)][1] = old /\ store'[Name(c)] # <<>>
        <4>1. \A x : <<x>>[1] = x /\ <<x>> # <<>>
          OBVIOUS
        <4> QED
          BY <3>3, <4>1, Zenon
      <3>11. Filling(c, content)'
        BY <2>4, <3>1, <3>2, <3>3, <3>5, <3>7, <3>9, <3>10 DEF Filling
      <3>12. Whole(c)'
        BY <1>1, <2>1, <3>1, <3>7, <3>11 DEF Whole, Storing
      <3>13. Asked(c)' /\ Opened(c)' /\ Upload(c)'
        <4>1. lost'[c] = lost[c]
          BY <3>1
        <4>2. Asked(c)'
          BY <1>1, <3>1, AskedStays
        <4> QED
          BY <1>6, <3>4, <3>7, <3>10, <3>12, <4>1, <4>2, Zenon DEF Opened, Upload
      <3>14. Goto(c, pc[c]) /\ pc[c] \in Places
        BY <1>1, <3>1, TypeParts DEF Goto
      <3> QED
        BY <1>1, <3>6, <3>8, <3>13, <3>14, Assemble
    <2> QED
      BY <2>6, <2>7 DEF Loop
  <1> QED
    BY <1>5, <1>6

\* When nothing remains the loop ends with the file as it should be: empty.
LEMMA EndsKeeps ==
    ASSUME IInv, NEW c \in Clients, Ends(c) PROVE IInv'
  <1>1. /\ TypeOK /\ Upload(c) /\ pc[c] = "loop" /\ remain[c] <= 0 /\ Return(c)
        /\ pc[c] \in Posting /\ pc[c] \in Storing
        /\ \A d \in Clients \ {c} : pc[d] \notin Handling
        /\ UNCHANGED <<store, intended>>
    BY OthersWait DEF IInv, Ends, Posting, Storing, Handling
  <1> DEFINE content == Stored(request[c])
  <1>2. lost[c] \in Nat /\ rest[c] \in Text /\ Len(rest[c]) \in Nat /\ content \in Seq(Byte)
    BY <1>1, NameTypes, TypeParts DEF Text
  <1>3. remain[c] = Len(rest[c]) + lost[c] /\ IF lost[c] > 0 THEN CutShort(c) ELSE Whole(c)
    BY <1>1 DEF Upload
  <1>4. ~(lost[c] > 0) /\ Len(rest[c]) = 0
    BY <1>1, <1>2, <1>3
  <1>5. intended[Name(c)] = <<Sent(request[c])>> /\ Filling(c, content)
    BY <1>1, <1>3, <1>4 DEF Whole
  <1>6. store[Name(c)] = <<content>>
    <2>1. ASSUME /\ store[Name(c)][1] \in Lines /\ preline[c] \in Lines \ {<<>>}
                 /\ (store[Name(c)][1] \o preline[c]) \o rest[c] = content \o Ending
          PROVE  FALSE
      <3>1. store[Name(c)][1] \o preline[c] \in Seq(Byte)
        BY <2>1, LinesJoin DEF Lines
      <3>2. rest[c] # <<>>
        BY <1>2, <2>1, <3>1, LineOfRest
      <3> QED
        BY <1>2, <1>4, <3>2 DEF Text
    <2> QED
      BY <1>5, <2>1 DEF Filling, AddsUp
  <1>7. \A n \in Names : store'[n] = Held(n)
    BY <1>1, <1>5, <1>6, AllKept, HeldIs
  <1> QED
    BY <1>1, <1>7, ReturnKeeps, TypeParts

LEMMA StutterKeeps ==
    ASSUME IInv, UNCHANGED vars PROVE IInv'
  <1>1. /\ store' = store /\ request' = request /\ pc' = pc /\ rest' = rest /\ remain' = remain
        /\ preline' = preline /\ lost' = lost /\ reply' = reply /\ intended' = intended
    BY DEF vars, postVars
  <1>2. TypeOK' /\ Alone' /\ Kept'
    <2>1. TypeOK'
      BY <1>1 DEF IInv, TypeOK
    <2>2. Alone'
      BY <1>1 DEF IInv, Alone
    <2>3. Kept'
      BY <1>1, HeldStays DEF IInv, Kept, Name
    <2> QED
      BY <2>1, <2>2, <2>3
  <1>3. ASSUME NEW c \in Clients PROVE Asked(c)' /\ Opened(c)' /\ Upload(c)'
    <2>1. Asked(c) /\ Opened(c) /\ Upload(c)
      BY DEF IInv
    <2>2. Asked(c)' /\ Opened(c)'
      BY <1>1, <2>1 DEF Asked, Opened, Name
    <2>3. CutShort(c)' <=> CutShort(c)
      BY <1>1 DEF CutShort
    <2>4. Whole(c)' <=> Whole(c)
      BY <1>1 DEF Whole, Opening, Filling, Name
    <2>5. Upload(c)'
      BY <1>1, <2>1, <2>3, <2>4 DEF Upload
    <2> QED
      BY <2>2, <2>5
  <1> QED
    BY <1>2, <1>3 DEF IInv

-------------------------------------------------------------------------------
(* The theorems *)

\* Wherever deal_post_data is, what it has written, the line it keeps back and
\* what is left to read are together the content and the end of the form; and
\* nobody reads the file meanwhile, as there is one connection at a time.
THEOREM InductiveInvariant == Spec => []IInv
  <1>1. IInv /\ [Next]_vars => IInv'
    <2> SUFFICES ASSUME IInv, [Next]_vars PROVE IInv'
      OBVIOUS
    <2>1. ASSUME NEW c \in Clients, Send(c) \/ Accept(c) \/ Handler(c) PROVE IInv'
      <3>1. CASE Send(c)
        BY <3>1, SendKeeps
      <3>2. CASE Accept(c)
        BY <3>2, AcceptGetKeeps, AcceptPostKeeps DEF Accept
      <3>3. CASE Handler(c)
        BY <3>3, SendHeadKeeps, CopyFileKeeps, FormKeeps, FileNameKeeps, SkipKeeps,
           PartKeeps, FirstKeeps, LoopKeeps, EndsKeeps DEF Handler
      <3> QED
        BY <2>1, <3>1, <3>2, <3>3
    <2>2. CASE UNCHANGED vars
      BY <2>2, StutterKeeps
    <2> QED
      BY <2>1, <2>2 DEF Next
  <1> QED
    BY InitInv, <1>1, PTL DEF Spec

\* Every variable of the server keeps its type; what is written to a file is
\* never a boundary or another line of the form.
THEOREM ServerTypeCorrect == Spec => []TypeOK
  <1>1. IInv => TypeOK
    BY DEF IInv
  <1> QED
    BY InductiveInvariant, <1>1, PTL

\* However long the contents and whatever lines they are made of, deal_post_data
\* stores the content of a complete form, or all but its first line if the form has
\* no Content-Type, and nothing else changes a file for good.
THEOREM UploadsAreWhole == Spec => []FilesAreWhole
  <1>1. IInv => FilesAreWhole
    BY DEF IInv, Kept, FilesAreWhole
  <1> QED
    BY InductiveInvariant, <1>1, PTL

\* do_GET sends files that are as they should be, because HTTPServer handles
\* one connection at a time.
THEOREM GetsAreWhole == Spec => []GetsSendWholeFiles
  <1>1. IInv => GetsSendWholeFiles
    <2> SUFFICES ASSUME IInv, NEW c \in Clients, pc[c] = "copy"
                 PROVE  store[Name(c)] = Held(Name(c))
      BY DEF GetsSendWholeFiles
    <2>1. TypeOK /\ Name(c) \in Names
      BY NameTypes DEF IInv
    <2>2. pc[c] \in Handling /\ pc[c] \notin Storing
      BY DEF Handling, Storing
    <2>3. \A d \in Clients \ {c} : pc[d] \notin Handling
      BY <2>2, OthersWait DEF IInv
    <2> QED
      BY <2>1, <2>2, <2>3, AllKept
  <1> QED
    BY InductiveInvariant, <1>1, PTL

\* remainbytes never gets out of step with the connection.
THEOREM RemainCorrect == Spec => []RemainIsLeft
  <1>1. IInv => RemainIsLeft
    BY DEF IInv, Upload, RemainIsLeft
  <1> QED
    BY InductiveInvariant, <1>1, PTL

-------------------------------------------------------------------------------
(* The file server the server implements *)

LEMMA MethodOf ==
    ASSUME TypeOK, NEW c \in Clients, pc[c] # "idle"
    PROVE  /\ AskedNow[c] = <<AskedFor(c)>> /\ AskedNow[c] # <<>>
           /\ AskedNow[c][1].method = request[c].method
           /\ AskedNow[c][1].name = Name(c)
           /\ AskedNow[c][1].typed = (request[c].form # "untyped")
           /\ AskedNow[c][1].content = request[c].content
  BY DEF AskedNow, AskedFor

\* A step of a handler that answers nothing and stores nothing.
LEMMA NotSeen ==
    ASSUME IInv, NEW c \in Clients, pc[c] # "idle",
           NEW place \in Places \ {"idle"}, Goto(c, place),
           UNCHANGED <<request, reply, intended>>,
           place \in Storing /\ lost'[c] = 0 <=> pc[c] \in Storing /\ lost[c] = 0,
           \A d \in Clients \ {c} : lost'[d] = lost[d]
    PROVE  UNCHANGED Files!vars
  <1>1. pc'[c] = place /\ \A d \in Clients \ {c} : pc'[d] = pc[d]
    BY TypeParts DEF IInv, Goto
  <1>2. StoredNow' = StoredNow
    BY <1>1 DEF StoredNow
  <1>3. \A d \in Clients : AskedFor(d)' = AskedFor(d) /\ (pc'[d] = "idle" <=> pc[d] = "idle")
    BY <1>1 DEF AskedFor, Name
  <1>4. AskedNow' = AskedNow
    BY <1>3 DEF AskedNow
  <1>5. HeldNow' = HeldNow
    BY HeldStays DEF HeldNow
  <1> QED
    BY <1>2, <1>4, <1>5 DEF Files!vars

LEMMA Tells ==
    ASSUME IInv, NEW c \in Clients, pc[c] # "idle", NEW status, NEW body,
           Answer(c, status, body), UNCHANGED intended,
           \A d \in Clients \ {c} : lost'[d] = lost[d]
    PROVE  Files!Tell(c, status, body)
  <1>1. /\ pc'[c] = "idle" /\ \A d \in Clients \ {c} : pc'[d] = pc[d] /\ request'[d] = request[d]
    BY TypeParts DEF IInv, Answer, Goto
  <1>2. StoredNow' = StoredNow \ {c}
    <2>1. c \notin StoredNow'
      BY <1>1 DEF StoredNow, Storing
    <2>2. \A d \in Clients \ {c} : d \in StoredNow' <=> d \in StoredNow
      BY <1>1 DEF StoredNow
    <2>3. StoredNow \subseteq Clients /\ StoredNow' \subseteq Clients
      BY DEF StoredNow
    <2> QED
      BY <2>1, <2>2, <2>3
  <1>3. \A d \in Clients \ {c} : AskedFor(d)' = AskedFor(d)
    BY <1>1 DEF AskedFor, Name
  <1>4. AskedNow' = [AskedNow EXCEPT ![c] = <<>>]
    BY <1>1, <1>3 DEF AskedNow
  <1>5. reply' = [reply EXCEPT ![c] = [status |-> status, body |-> body]]
    BY DEF Answer
  <1>6. HeldNow' = HeldNow
    BY HeldStays DEF HeldNow
  <1> QED
    BY <1>2, <1>4, <1>5, <1>6 DEF Files!Tell

\* The handler of a POST ends with an empty reply.
LEMMA PostTold ==
    ASSUME IInv, NEW c \in Clients, pc[c] \in Posting, Return(c), UNCHANGED intended
    PROVE  Files!EndPost(c)
  <1>1. TypeOK /\ request[c].method = "POST" /\ pc[c] # "idle"
    BY DEF IInv, Asked, Posting, Storing
  <1>2. Answer(c, "empty", <<>>) /\ \A d \in Clients \ {c} : lost'[d] = lost[d]
    BY <1>1, TypeParts DEF Return
  <1>3. Files!Tell(c, "empty", <<>>)
    BY <1>1, <1>2, Tells
  <1> QED
    BY <1>1, <1>3, MethodOf DEF Files!EndPost, Files!Waits

LEMMA SendSeen ==
    ASSUME IInv, IInv', NEW c \in Clients, Send(c) PROVE Files!Ask(c)
  <1>1. TypeOK /\ TypeOK'
    BY DEF IInv
  <1>2. PICK r \in Request : request' = [request EXCEPT ![c] = r]
    BY DEF Send
  <1>3. /\ pc[c] = "idle" /\ pc'[c] = "waiting"
        /\ \A d \in Clients \ {c} : pc'[d] = pc[d] /\ request'[d] = request[d]
    BY <1>1, <1>2, TypeParts DEF Send, Goto
  <1>4. AskedNow[c] = <<>> /\ AskedNow'[c] # <<>>
    BY <1>3 DEF AskedNow
  <1>5. \A d \in Clients \ {c} : AskedNow'[d] = AskedNow[d]
    <2>1. \A d \in Clients \ {c} : AskedFor(d)' = AskedFor(d)
      BY <1>3 DEF AskedFor, Name
    <2> QED
      BY <1>3, <2>1 DEF AskedNow
  <1>6. AskedNow' \in [Clients -> Seq(Files!Request)]
    <2>1. ASSUME NEW d \in Clients PROVE AskedFor(d)' \in Files!Request
      <3>1. request'[d] \in Request
        BY <1>1 DEF TypeOK
      <3>2. request'[d].method \in {"GET", "HEAD", "POST"}
        BY <3>1 DEF Request
      <3>3. request'[d].name \in Names /\ request'[d].content \in Seq(Byte)
        BY <3>1, Requests, BodyParts
      <3> QED
        BY <3>2, <3>3 DEF AskedFor, Name, Files!Request
    <2>2. ASSUME NEW d \in Clients PROVE AskedNow'[d] \in Seq(Files!Request)
      BY <2>1, EmptySeq DEF AskedNow
    <2> QED
      BY <2>2 DEF AskedNow
  <1>7. StoredNow' = StoredNow
    BY <1>3 DEF StoredNow, Storing, Send, postVars
  <1>8. HeldNow' = HeldNow
    BY HeldStays DEF Send, HeldNow
  <1> QED
    BY <1>4, <1>5, <1>6, <1>7, <1>8 DEF Send, Files!Ask, Files!Nothing

LEMMA AcceptSeen ==
    ASSUME IInv, NEW c \in Clients, Accept(c) PROVE UNCHANGED Files!vars
  <1>1. TypeOK /\ pc[c] = "waiting" /\ pc[c] \notin Storing
    BY DEF IInv, Accept, AcceptGet, AcceptPost, Storing
  <1>2. CASE AcceptGet(c)
    <2>1. /\ Goto(c, "head") /\ "head" \in Places \ {"idle"} /\ "head" \notin Storing
          /\ UNCHANGED <<request, reply, intended, lost>>
      BY <1>2 DEF AcceptGet, postVars, Places, Handling, Storing
    <2> QED
      BY <1>1, <2>1, NotSeen
  <1>3. CASE AcceptPost(c)
    <2>1. /\ Goto(c, "form") /\ "form" \in Places \ {"idle"} /\ "form" \notin Storing
          /\ UNCHANGED <<request, reply, intended>>
          /\ \E n : lost' = [lost EXCEPT ![c] = n]
      BY <1>3 DEF AcceptPost, Places, Handling, Posting, Storing
    <2>2. \A d \in Clients \ {c} : lost'[d] = lost[d]
      BY <1>1, <2>1, TypeParts
    <2> QED
      BY <1>1, <2>1, <2>2, NotSeen
  <1> QED
    BY <1>2, <1>3 DEF Accept

LEMMA SendHeadSeen ==
    ASSUME IInv, NEW c \in Clients, SendHead(c)
    PROVE  Files!Missing(c) \/ Files!Describe(c) \/ UNCHANGED Files!vars
  <1>1. /\ TypeOK /\ pc[c] = "head" /\ request[c].method \in {"GET", "HEAD"}
        /\ \A d \in Clients \ {c} : pc[d] \notin Handling
        /\ Name(c) \in Names /\ pc[c] # "idle" /\ pc[c] \notin Storing
        /\ UNCHANGED <<store, postVars, intended>> /\ UNCHANGED lost
    BY OthersWait, NameTypes DEF IInv, SendHead, Handling, Asked, Storing, postVars
  <1>2. store[Name(c)] = HeldNow[Name(c)]
    BY <1>1, AllKept DEF HeldNow
  <1>3. /\ AskedNow[c] # <<>> /\ AskedNow[c][1].method = request[c].method
        /\ AskedNow[c][1].name = Name(c)
    BY <1>1, MethodOf
  <1>4. Files!File(c) = store[Name(c)]
    BY <1>2, <1>3 DEF Files!File
  <1>5. CASE store[Name(c)] = <<>> /\ Answer(c, "404", <<>>)
    <2>1. Files!Tell(c, "404", <<>>)
      BY <1>1, <1>5, Tells
    <2> QED
      BY <1>1, <1>3, <1>4, <1>5, <2>1 DEF Files!Missing, Files!Waits
  <1>6. CASE /\ store[Name(c)] # <<>> /\ request[c].method = "HEAD"
             /\ Answer(c, "200", <<>>)
    <2>1. Files!Tell(c, "200", <<>>)
      BY <1>1, <1>6, Tells
    <2> QED
      BY <1>3, <1>4, <1>6, <2>1 DEF Files!Describe, Files!Waits
  <1>7. CASE Goto(c, "copy") /\ UNCHANGED <<request, reply>>
    <2>1. "copy" \in Places \ {"idle"} /\ "copy" \notin Storing
      BY DEF Places, Handling, Storing
    <2> QED
      BY <1>1, <1>7, <2>1, NotSeen
  <1> QED
    BY <1>5, <1>6, <1>7 DEF SendHead

LEMMA CopyFileSeen ==
    ASSUME IInv, NEW c \in Clients, CopyFile(c) PROVE Files!Get(c)
  <1>1. /\ TypeOK /\ pc[c] = "copy" /\ request[c].method = "GET"
        /\ \A d \in Clients \ {c} : pc[d] \notin Handling
        /\ Name(c) \in Names /\ pc[c] # "idle" /\ pc[c] \notin Storing
        /\ store[Name(c)] # <<>> /\ Answer(c, "200", store[Name(c)][1])
        /\ UNCHANGED intended /\ UNCHANGED lost
    BY OthersWait, NameTypes DEF IInv, CopyFile, Handling, Asked, Opened, Storing, postVars
  <1>2. store[Name(c)] = HeldNow[Name(c)]
    BY <1>1, AllKept DEF HeldNow
  <1>3. /\ AskedNow[c] # <<>> /\ AskedNow[c][1].method = request[c].method
        /\ AskedNow[c][1].name = Name(c)
    BY <1>1, MethodOf
  <1>4. Files!File(c) = store[Name(c)]
    BY <1>2, <1>3 DEF Files!File
  <1>5. Files!Tell(c, "200", store[Name(c)][1])
    BY <1>1, Tells
  <1> QED
    BY <1>1, <1>3, <1>4, <1>5 DEF Files!Get, Files!Waits

\* What is read of a form is not seen, what ends its handler is.
LEMMA HeadingSeen ==
    ASSUME IInv, NEW c \in Clients, Form(c) \/ FileName(c) \/ Skip(c)
    PROVE  Files!EndPost(c) \/ UNCHANGED Files!vars
  <1>1. pc[c] \in Posting \ Storing /\ pc[c] # "idle"
    BY DEF Form, FileName, Expect, Skip, Posting, Storing
  <1>2. CASE Return(c) /\ UNCHANGED intended
    BY <1>1, <1>2, PostTold
  <1>3. ASSUME NEW place \in {"name", "skip", "part"}, Goto(c, place),
               UNCHANGED <<lost, request, reply, intended>>
        PROVE  UNCHANGED Files!vars
    <2>1. place \in Places \ {"idle"} /\ place \notin Storing
      BY DEF Places, Handling, Posting, Storing
    <2> QED
      BY <1>1, <1>3, <2>1, NotSeen
  <1> QED
    BY <1>2, <1>3 DEF Form, FileName, Expect, Skip

\* What is stored of a form is the end of its content, or all of it.
LEMMA StoredIsKept ==
    ASSUME NEW r \in Request, r.form # "raw", NEW q, q.content = r.content,
           q.typed = (r.form # "untyped")
    PROVE  Stored(r) \in Files!Kept(q)
  <1>1. r.content \in Seq(Byte) /\ r.form \in {"typed", "untyped"}
    <2>1. r.form \in {"raw"} \cup AllForms
      BY DEF Request, AllForms
    <2> QED
      BY <2>1, BodyParts DEF AllForms
  <1>2. CASE r.form = "typed"
    <2>1. SubSeq(r.content, 0 + 1, Len(r.content)) = r.content
      BY <1>1
    <2> QED
      BY <1>2, <2>1 DEF Stored, Files!Kept
  <1>3. CASE r.form = "untyped"
    <2>1. LineLength(r.content) \in 0..Len(r.content)
      <3>1. r.content \in Text
        BY <1>1 DEF Text
      <3> QED
        BY <3>1, LineLengths
    <2> QED
      BY <1>3, <2>1 DEF Stored, AfterLine, Files!Kept
  <1> QED
    BY <1>1, <1>2, <1>3

LEMMA PartSeen ==
    ASSUME IInv, NEW c \in Clients, Part(c)
    PROVE  Files!Replace(c) \/ Files!EndPost(c) \/ UNCHANGED Files!vars
  <1>1. /\ TypeOK /\ pc[c] = "part" /\ request[c].method = "POST" /\ Name(c) \in Names
        /\ pc[c] \in Posting \ Storing /\ pc[c] # "idle" /\ lost[c] \in Nat
    BY NameTypes, TypeParts DEF IInv, Part, Asked, Posting, Storing
  <1>2. CASE Return(c) /\ UNCHANGED intended
    BY <1>1, <1>2, PostTold
  <1>3. CASE /\ Name(c) \in Writable /\ Goto(c, "first")
             /\ intended' = IF lost[c] > 0 THEN intended
                            ELSE [intended EXCEPT ![Name(c)] = <<Sent(request[c])>>]
             /\ UNCHANGED <<lost, request, reply>>
    <2>1. "first" \in Places \ {"idle"} /\ "first" \in Storing
      BY DEF Places, Handling, Posting, Storing
    <2>2. CASE lost[c] > 0
      <3>1. UNCHANGED intended /\ lost'[c] # 0 /\ lost[c] # 0
        BY <1>1, <1>3, <2>2
      <3> QED
        BY <1>1, <1>3, <2>1, <3>1, NotSeen
    <2>3. CASE ~(lost[c] > 0)
      <3>1. lost[c] = 0
        BY <1>1, <2>3
      <3>2. pc'[c] = "first" /\ \A d \in Clients \ {c} : pc'[d] = pc[d]
        BY <1>1, <1>3, TypeParts DEF Goto
      <3>3. StoredNow' = StoredNow \cup {c} /\ c \notin StoredNow
        BY <1>1, <1>3, <2>1, <3>1, <3>2 DEF StoredNow
      <3>4. AskedNow' = AskedNow
        <4>1. \A d \in Clients : AskedFor(d)' = AskedFor(d) /\ (pc'[d] = "idle" <=> pc[d] = "idle")
          BY <1>1, <1>3, <3>2 DEF AskedFor, Name
        <4> QED
          BY <4>1 DEF AskedNow
      <3>5. /\ AskedNow[c] # <<>> /\ AskedNow[c][1].method = "POST"
            /\ AskedNow[c][1].name = Name(c) /\ AskedNow[c][1].content = request[c].content
            /\ AskedNow[c][1].typed = (request[c].form # "untyped")
        BY <1>1, MethodOf
      <3>6. Stored(request[c]) \in Files!Kept(AskedNow[c][1])
        <4>1. request[c].form # "raw" /\ request[c] \in Request
          BY <1>1, <3>1, TypeParts DEF IInv, Upload, Whole, Posting
        <4> HIDE DEF AskedNow
        <4> QED
          BY <3>5, <4>1, StoredIsKept
      <3>7. HeldNow' = [HeldNow EXCEPT ![AskedNow[c][1].name] = <<Stored(request[c])>>]
        <4>1. /\ intended'[Name(c)] = <<Sent(request[c])>>
              /\ \A n \in Names \ {Name(c)} : intended'[n] = intended[n]
          BY <1>1, <1>3, <2>3, TypeParts
        <4>2. Held(Name(c))' = <<Stored(request[c])>>
          <5>1. Name(c)' = Name(c)
            BY <1>3 DEF Name
          <5>2. intended'[Name(c)'] = <<Sent(request[c])>>
            BY <4>1, <5>1
          <5> QED
            BY <5>2, SentIsStored DEF Held
        <4>3. \A n \in Names \ {Name(c)} : Held(n)' = Held(n)
          BY <4>1 DEF Held
        <4>4. Name(c)' = Name(c)
          BY <1>3 DEF Name
        <4>5. HeldNow' = [HeldNow EXCEPT ![Name(c)] = <<Stored(request[c])>>]
          BY <1>1, <4>2, <4>3, <4>4 DEF HeldNow
        <4> QED
          BY <3>5, <4>5
      <3> QED
        BY <1>3, <3>3, <3>4, <3>5, <3>6, <3>7 DEF Files!Replace, Files!Waits
    <2> QED
      BY <2>2, <2>3
  <1> QED
    BY <1>2, <1>3 DEF Part

LEMMA ContentSeen ==
    ASSUME IInv, NEW c \in Clients, First(c) \/ Loop(c) \/ Ends(c)
    PROVE  Files!EndPost(c) \/ UNCHANGED Files!vars
  <1>1. /\ TypeOK /\ pc[c] \in Posting /\ pc[c] \in Storing /\ pc[c] # "idle" /\ pc[c] \in Places
    BY DEF IInv, First, Loop, Ends, Posting, Storing, Places, Handling
  <1>2. CASE Return(c) /\ UNCHANGED intended
    BY <1>1, <1>2, PostTold
  <1>3. ASSUME NEW place \in Storing, Goto(c, place),
               UNCHANGED <<lost, request, reply, intended>>
        PROVE  UNCHANGED Files!vars
    <2>1. place \in Places \ {"idle"}
      BY DEF Places, Handling, Posting, Storing
    <2> QED
      BY <1>1, <1>3, <2>1, NotSeen
  <1>4. CASE First(c)
    <2>1. "loop" \in Storing /\ Goto(c, "loop") /\ UNCHANGED <<lost, request, reply, intended>>
      BY <1>4 DEF First, Storing
    <2> QED
      BY <1>3, <2>1
  <1>5. CASE WritePreline(c) /\ UNCHANGED intended
    <2>1. Goto(c, pc[c]) /\ UNCHANGED <<lost, request, reply, intended>>
      BY <1>1, <1>5, TypeParts DEF WritePreline, Goto
    <2> QED
      BY <1>1, <1>3, <2>1
  <1> QED
    BY <1>2, <1>4, <1>5 DEF Loop, Ends

LEMMA FilesInit == Init => Files!Init
  <1> SUFFICES ASSUME Init PROVE Files!Init
    OBVIOUS
  <1>1. HeldNow = [n \in Names |-> IF n \in Present THEN <<<<"x">>>> ELSE <<>>]
    BY DEF Init, HeldNow, Held, Stored
  <1>2. HeldNow \in [Names -> Seq(Seq(Byte))] /\ \A n \in Names : Len(HeldNow[n]) <= 1
    <2>1. <<>> \in Seq(Seq(Byte)) /\ <<<<"x">>>> \in Seq(Seq(Byte))
      <3>1. <<"x">> \in Seq(Byte)
        BY DEF Byte
      <3> QED
        BY <3>1, EmptySeq
    <2> QED
      BY <1>1, <2>1
  <1>3. AskedNow = [c \in Clients |-> <<>>] /\ StoredNow = {}
    BY DEF Init, AskedNow, StoredNow, Storing
  <1> QED
    BY <1>2, <1>3 DEF Init, Files!Init, Files!Nothing

LEMMA FilesStep ==
    ASSUME IInv, IInv', [Next]_vars PROVE [Files!Next]_(Files!vars)
  <1>1. ASSUME NEW c \in Clients, Send(c) \/ Accept(c) \/ Handler(c)
        PROVE  [Files!Next]_(Files!vars)
    <2>1. CASE Send(c)
      BY <2>1, SendSeen DEF Files!Next
    <2>2. CASE Accept(c)
      BY <2>2, AcceptSeen
    <2>3. CASE SendHead(c)
      BY <2>3, SendHeadSeen DEF Files!Next
    <2>4. CASE CopyFile(c)
      BY <2>4, CopyFileSeen DEF Files!Next
    <2>5. CASE Form(c) \/ FileName(c) \/ Skip(c)
      BY <2>5, HeadingSeen DEF Files!Next
    <2>6. CASE Part(c)
      BY <2>6, PartSeen DEF Files!Next
    <2>7. CASE First(c) \/ Loop(c) \/ Ends(c)
      BY <2>7, ContentSeen DEF Files!Next
    <2> QED
      BY <1>1, <2>1, <2>2, <2>3, <2>4, <2>5, <2>6, <2>7 DEF Handler
  <1>2. CASE UNCHANGED vars
    <2>1. UNCHANGED <<request, pc, lost, reply, intended>>
      BY <1>2 DEF vars, postVars
    <2>2. \A c \in Clients : AskedFor(c)' = AskedFor(c)
      BY <2>1 DEF AskedFor, Name
    <2>3. AskedNow' = AskedNow /\ StoredNow' = StoredNow /\ HeldNow' = HeldNow
      BY <2>1, <2>2, HeldStays DEF AskedNow, StoredNow, HeldNow
    <2> QED
      BY <2>1, <2>3 DEF Files!vars
  <1> QED
    BY <1>1, <1>2 DEF Next

\* Every behaviour of the server is one of the file server it stands for: GETs
\* answer with whole files, and an upload replaces its file by what was sent (or the
\* end of that, if it has no Content-Type), once, between the request and its answer,
\* or not at all.
THEOREM FilesServed == Spec => ImplementsFileServer
  <1>1. IInv /\ IInv' /\ [Next]_vars => [Files!Next]_(Files!vars)
    BY FilesStep
  <1>2. Spec => Files!Spec
    BY <1>1, FilesInit, InductiveInvariant, PTL DEF Spec, Files!Spec
  <1> QED
    BY <1>2 DEF ImplementsFileServer
===============================================================================
