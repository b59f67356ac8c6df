------------------------ MODULE DocumentAccessProofs ------------------------
(***************************************************************************)
(* Theorems about DocumentAccess, for any documents, points, tables,       *)
(* labellings, sizes and bounds.                                           *)
(***************************************************************************)
EXTENDS DocumentAccess, TLAPS

-----------------------------------------------------------------------------
(***************************************************************************)
(* The inductive invariant, in parts.                                      *)
(***************************************************************************)
RequestType ==
    [kind : {"none", "file", "question"}, admin : BOOLEAN,
     opened : SUBSET Docs, changes : 0 .. MaxChanges]

\* What is open now was open at some moment of the request that is served.
OpenedSeen == request.kind # "none" => Open(documents) \subseteq request.opened

RequestInv ==
    /\ documents \in [Docs -> States]
    /\ request \in RequestType
    /\ OpenedSeen

\* Where the bytes are: what was read and not handed on is the chunk, unless the
\* response was interrupted.
BytesCounted ==
    /\ file.sent <= file.size
    /\ file.passed + file.chunk <= file.sent
    /\ file.passed + file.chunk <= Cap
    /\ file.pc \in {"checking", "sending", "responding"} => file.sent = 0
    /\ file.pc = "reading" => file.passed = file.sent /\ file.chunk = 0
    /\ file.pc = "passing" => file.passed + file.chunk = file.sent
    /\ file.pc = "last" => file.passed = file.size
    /\ file.pc = "ended" /\ file.end = "none" => file.passed = file.size

\* An outcome is known only when nothing but closing is left.
EndKnown ==
    file.pc \in Body \cup {"checking", "sending"} => file.end = "none"

FileClosed ==
    /\ file.pc = "checking" => file.client = "none"
    /\ file.pc \in Body \cup Closing \cup {"sending", "unsent"} => file.client # "none"
    /\ file.pc = "done" => file.client # "open"

FileInv ==
    /\ file \in FileType
    /\ file.pc = "idle" => file = NoFile
    /\ file.pc # "idle" => file.doc \in Docs
    /\ BytesCounted
    /\ EndKnown
    /\ FileClosed
    /\ OrderlyEndIsWhole

\* What the check has done with each hit so far.
HitsDecided ==
    /\ ask.left \subseteq ask.results
    /\ ask.kept \subseteq ask.results \ ask.left
    /\ request.admin => ask.results \ ask.left \subseteq ask.kept
    /\ ~request.admin =>
         \A p \in (ask.results \ ask.left) \cap FamilyPoints :
            /\ DocOf[p] \in ask.visible \cup ask.hidden \cup {NoDoc}
            /\ p \in ask.kept <=> DocOf[p] \in ask.visible

\* What a Viewer's question has found so far was open.
HitsOpen ==
    ~request.admin =>
        /\ ask.hits \subseteq ask.labelled
        /\ ask.results \cap FamilyPoints \subseteq ask.labelled
        /\ ask.visible \subseteq request.opened

SearcherClosed ==
    /\ ask.pc = "building" => ask.searcher = "none"
    /\ ask.pc \in {"checking", "done"} => ask.searcher # "open"

AskInv ==
    /\ labels \in [FamilyPoints -> Labels]
    /\ ask \in AskType
    /\ ask.pc = "idle" => ask = NoAsk
    /\ ask.pc # "idle" => LabelledOpen(labels) \subseteq ask.labelled
    /\ ask.visible \cap ask.hidden = {}
    /\ ask.pc \in {"building", "embedding", "family", "law"} => ask.results = {}
    /\ ask.end = "used" => ask.pc = "done" /\ ask.left = {}
    /\ HitsDecided
    /\ HitsOpen
    /\ SearcherClosed

\* Only one of the two is served.
OneKind ==
    /\ file.pc # "idle" <=> request.kind = "file"
    /\ ask.pc # "idle" <=> request.kind = "question"

IInv == RequestInv /\ FileInv /\ AskInv /\ OneKind /\ FileWasOpen

-----------------------------------------------------------------------------
(***************************************************************************)
(* The request for a file.                                                 *)
(***************************************************************************)
\* No request has the type of one.
LEMMA NoFileType == NoFile \in FileType
  BY ProxyAssumption DEF NoFile, FileType, Ends, Body, Closing

\* A request on its way out, with its outcome, has the type of one.
LEMMA EndedType ==
  ASSUME NEW f \in FileType, NEW pc \in Closing, NEW end \in Ends
  PROVE  [f EXCEPT !.pc = pc, !.end = end] \in FileType
  BY DEF FileType

\* Each step of the proxy keeps what is said of its own state.
LEMMA FileStep == FileInv /\ FileNext => FileInv'
<1> SUFFICES ASSUME FileInv, FileNext PROVE FileInv'
  OBVIOUS
<1> USE ProxyAssumption
    DEF FileInv, FileType, BytesCounted, EndKnown, FileClosed, OrderlyEndIsWhole,
        Body, Closing, Ends
<1>1. ASSUME NEW d \in Docs, NEW admin \in BOOLEAN, BeginFile(d, admin)
      PROVE  FileInv'
  <2>1. file' = [NoFile EXCEPT !.pc = "checking", !.doc = d]
    BY <1>1 DEF BeginFile
  <2>2. file' \in FileType
    BY <2>1, NoFileType
  <2>3. QED
    BY <2>1, <2>2 DEF NoFile
<1>2. CASE CheckFile
  <2>1. CASE \E end \in {"404", "503"} : Finish(end)
    BY <1>2, <2>1 DEF CheckFile, Finish
  <2>2. CASE file' = [file EXCEPT !.pc = "sending", !.client = "open"]
    BY <1>2, <2>2 DEF CheckFile
  <2>3. QED
    BY <1>2, <2>1, <2>2 DEF CheckFile
<1>3. CASE SendFails
  BY <1>3 DEF SendFails
<1>4. CASE CloseUnsent
  <2>1. file' \in FileType
    BY <1>4 DEF CloseUnsent
  <2>2. QED
    BY <1>4, <2>1 DEF CloseUnsent
<1>5. CASE SendAnswers
  <2>0. PICK status \in {200, 401, 404, 500}, size \in 0 .. MaxSize :
          \E length \in {size, NoLength}, built \in BOOLEAN :
             LET refusal == Refusal(status, length)
                 opened == [file EXCEPT !.response = "open", !.size = size]
             IN file' = IF refusal # "none"
                        THEN [opened EXCEPT !.pc = "refused", !.end = refusal]
                        ELSE IF ~built
                        THEN [opened EXCEPT !.pc = "refused", !.end = "500"]
                        ELSE [opened EXCEPT !.pc = "responding"]
    BY <1>5 DEF SendAnswers
  <2>1. PICK length \in {size, NoLength}, built \in BOOLEAN :
          LET refusal == Refusal(status, length)
              opened == [file EXCEPT !.response = "open", !.size = size]
          IN file' = IF refusal # "none"
                     THEN [opened EXCEPT !.pc = "refused", !.end = refusal]
                     ELSE IF ~built
                     THEN [opened EXCEPT !.pc = "refused", !.end = "500"]
                     ELSE [opened EXCEPT !.pc = "responding"]
    BY <2>0
  <2> DEFINE refusal == Refusal(status, length)
             opened  == [file EXCEPT !.response = "open", !.size = size]
  <2>2. refusal \in {"none", "404", "502"}
    BY DEF Refusal
  <2>3. opened \in FileType /\ opened.size = size
    BY ONLY file \in FileType, size \in 0 .. MaxSize, MaxSize \in Nat
       DEF opened, FileType
  <2>8. /\ opened.end = "none" /\ opened.sent = 0 /\ opened.chunk = 0
        /\ opened.passed = 0 /\ opened.client # "none" /\ opened.doc \in Docs
    <3>1. /\ file.end = "none" /\ file.sent = 0 /\ file.chunk = 0 /\ file.passed = 0
          /\ file.client # "none" /\ file.doc \in Docs
      BY <1>5 DEF SendAnswers
    <3>2. QED
      BY ONLY <3>1, file \in FileType DEF opened, FileType
  <2> HIDE DEF refusal, opened
  <2>4. CASE refusal # "none"
    <3>1. file' = [opened EXCEPT !.pc = "refused", !.end = refusal]
      BY <2>1, <2>4 DEF refusal, opened
    <3>2. QED
      <4>1. file' \in FileType
        <5>1. "refused" \in Closing /\ refusal \in Ends
          BY <2>2 DEF Closing, Ends
        <5> HIDE DEF FileType, Closing, Ends
        <5>2. QED
          BY ONLY <2>3, <3>1, <5>1, EndedType
      <4>2. QED
        BY <2>2, <2>3, <2>8, <3>1, <4>1
  <2>5. CASE refusal = "none" /\ ~built
    <3>1. file' = [opened EXCEPT !.pc = "refused", !.end = "500"]
      BY <2>1, <2>5 DEF refusal, opened
    <3>2. QED
      <4>1. file' \in FileType
        <5>1. "refused" \in Closing /\ "500" \in Ends
          BY DEF Closing, Ends
        <5> HIDE DEF FileType, Closing, Ends
        <5>2. QED
          BY ONLY <2>3, <3>1, <5>1, EndedType
      <4>2. QED
        BY <2>3, <2>8, <3>1, <4>1
  <2>6. CASE refusal = "none" /\ built
    <3>1. file' = [opened EXCEPT !.pc = "responding"]
      BY <2>1, <2>6 DEF refusal, opened
    <3>2. QED
      <4>1. file' \in FileType
        BY ONLY <2>3, <3>1, MaxSize \in Nat DEF FileType, Ends, Body, Closing
      <4>2. QED
        BY <2>3, <2>8, <3>1, <4>1
  <2>7. QED
    BY <2>4, <2>5, <2>6
<1>6. CASE SendStart
  BY <1>6 DEF SendStart, Goto
<1>7. CASE ReadEnd
  BY <1>7 DEF ReadEnd, Goto
<1>8. CASE ReadFails
  BY <1>8 DEF ReadFails
<1>9. CASE PassChunk
  <2>1. file' = [file EXCEPT !.pc = "reading", !.passed = @ + file.chunk, !.chunk = 0]
    BY <1>9 DEF PassChunk
  <2> DEFINE passed == file.passed + file.chunk
  <2>2. passed \in 0 .. MaxSize
    OBVIOUS
  <2>3. file' \in FileType
    <3>1. file' = [file EXCEPT !.pc = "reading", !.passed = passed, !.chunk = 0]
      BY <2>1
    <3>2. "reading" \in Body /\ 0 \in 0 .. MaxSize
      BY DEF Body
    <3> HIDE DEF passed
    <3>3. QED
      BY ONLY <2>2, <3>1, <3>2, file \in FileType DEF FileType
  <2>4. file'.passed = file.passed + file.chunk /\ file'.chunk = 0
        /\ file'.pc = "reading" /\ file'.sent = file.sent /\ file'.size = file.size
        /\ file'.end = "none"
    BY <1>9, <2>1 DEF PassChunk
  <2>5. QED
    BY <1>9, <2>3, <2>4 DEF PassChunk
<1>10. CASE SendLast
  BY <1>10 DEF SendLast
<1>11. ASSUME NEW n \in 1 .. MaxSize, ReadChunk(n)
       PROVE  FileInv'
  <2>1. file.sent + n \in 0 .. MaxSize
    BY <1>11 DEF ReadChunk
  <2>2. CASE file.sent + n > Cap
    <3>1. file' = [file EXCEPT !.pc = "ended", !.end = "aborted", !.sent = @ + n]
      BY <1>11, <2>2 DEF ReadChunk
    <3>2. file' \in FileType
      BY <2>1, <3>1
    <3>3. QED
      BY <1>11, <3>1, <3>2 DEF ReadChunk
  <2>3. CASE ~(file.sent + n > Cap)
    <3>1. file' = [file EXCEPT !.pc = "passing", !.sent = @ + n, !.chunk = n]
      BY <1>11, <2>3 DEF ReadChunk
    <3>2. file' \in FileType
      <4>1. n \in 0 .. MaxSize
        OBVIOUS
      <4>2. QED
        BY ONLY <2>1, <3>1, <4>1, file \in FileType DEF FileType
    <3>3. QED
      BY <1>11, <2>1, <2>3, <3>1, <3>2 DEF ReadChunk
  <2>4. QED
    BY <2>2, <2>3
<1>12. CASE TimeLimit
  <2>1. file' \in FileType
    BY <1>12 DEF TimeLimit, Interrupt, Unwound
  <2>2. QED
    BY <1>12, <2>1 DEF TimeLimit, Interrupt, Unwound
<1>13. CASE Disconnect
  <2>1. file' \in FileType
    BY <1>13 DEF Disconnect, Interrupt, Unwound
  <2>2. QED
    BY <1>13, <2>1 DEF Disconnect, Interrupt, Unwound
<1>14. CASE Kill
  <2>1. CASE file.pc = "checking"
    <3>1. file' = [file EXCEPT !.kills = @ + 1, !.pc = "done", !.end = "cancelled"]
      BY <1>14, <2>1 DEF Kill
    <3>2. file.kills + 1 \in 0 .. MaxKills
      BY <1>14 DEF Kill
    <3>3. file' \in FileType
      BY <3>1, <3>2
    <3>4. QED
      BY <2>1, <3>1, <3>3
  <2>2. CASE file.pc \in Body
    <3>1. file' = [file EXCEPT !.kills = @ + 1, !.pc = Unwound(@), !.end = "cancelled"]
      BY <1>14, <2>2 DEF Kill
    <3>2. file.kills + 1 \in 0 .. MaxKills /\ Unwound(file.pc) \in Closing
      BY <1>14 DEF Kill, Unwound
    <3>3. file' \in FileType
      BY <3>1, <3>2
    <3>4. QED
      BY <2>2, <3>1, <3>2, <3>3
  <2>3. CASE file.pc \in Closing
    <3> DEFINE pc  == IF file.pc = "unwinding" THEN "closing" ELSE file.pc
               end == IF file.pc \in {"refused", "ended"} THEN "cancelled" ELSE file.end
    <3>1. file' = [file EXCEPT !.kills = @ + 1, !.closing = "client", !.pc = pc,
                               !.end = end]
      BY <1>14, <2>3 DEF Kill
    <3>2. file.kills + 1 \in 0 .. MaxKills
      BY <1>14 DEF Kill
    <3>3. /\ pc \in Closing /\ end \in Ends
          /\ pc = "ended" => end = "cancelled"
          /\ end = "whole" => file.end = "whole"
      BY <2>3
    <3> HIDE DEF pc, end
    <3>4. file' \in FileType
      BY ONLY <3>1, <3>2, <3>3, file \in FileType DEF FileType
    <3>5. QED
      BY <2>3, <3>1, <3>3, <3>4
  <2>4. QED
    BY <1>14, <2>1, <2>2, <2>3 DEF Kill
<1>15. CASE CloseResponse
  BY <1>15 DEF CloseResponse
<1>16. CASE CloseClient
  <2>1. file' = [file EXCEPT !.closing = "response", !.client = "closed",
                             !.pc = AfterClose(file.pc)]
    BY <1>16 DEF CloseClient
  <2>2. /\ AfterClose(file.pc) \in {"last", "closing", "done"}
        /\ AfterClose(file.pc) = "last" => file.pc = "ended" /\ file.end = "none"
    BY DEF AfterClose
  <2>3. file' \in FileType
    BY <2>1, <2>2
  <2>4. QED
    BY <1>16, <2>1, <2>2, <2>3 DEF CloseClient
<1>17. CASE EndFile
  BY <1>17, NoFileType DEF EndFile, NoFile
<1>18. QED
  BY <1>1, <1>2, <1>3, <1>4, <1>5, <1>6, <1>7, <1>8, <1>9, <1>10, <1>11, <1>12,
     <1>13, <1>14, <1>15, <1>16, <1>17 DEF FileNext

-----------------------------------------------------------------------------
(***************************************************************************)
(* The question.                                                           *)
(***************************************************************************)
\* No question has the type of one.
LEMMA NoAskType == NoAsk \in AskType
  BY DEF NoAsk, AskType

\* A question that is not there has found nothing.
LEMMA NoAskInv ==
  ASSUME labels' \in [FamilyPoints -> Labels], ask' = NoAsk
  PROVE  AskInv'
  <1>1. ask' \in AskType
    BY NoAskType
  <1>2. QED
    BY <1>1 DEF AskInv, HitsDecided, HitsOpen, SearcherClosed, NoAsk

\* A step of the question that leaves the request and the labels alone and what
\* was found and decided as it was.
LEMMA AskGoesOn ==
  ASSUME AskInv, UNCHANGED askVars, ask' \in AskType,
         ask.pc # "idle", ask'.pc # "idle",
         ask'.hits = ask.hits, ask'.results = ask.results, ask'.left = ask.left,
         ask'.kept = ask.kept, ask'.visible = ask.visible, ask'.hidden = ask.hidden,
         ask'.labelled = ask.labelled,
         ask'.pc \in {"building", "embedding", "family", "law"} => ask.results = {},
         ask'.end = "used" => ask'.pc = "done" /\ ask.left = {},
         SearcherClosed'
  PROVE  AskInv'
  <1>1. labels' = labels /\ request' = request
    BY DEF askVars
  <1>2. HitsDecided' /\ HitsOpen'
    BY <1>1 DEF AskInv, HitsDecided, HitsOpen
  <1>3. LabelledOpen(labels)' \subseteq ask'.labelled
    BY <1>1 DEF AskInv, LabelledOpen
  <1>4. QED
    BY <1>1, <1>2, <1>3 DEF AskInv

\* One hit checked: what was decided of the others stands, and it is decided as
\* the others of its document were.
LEMMA CheckStep ==
  ASSUME RequestInv, AskInv, OneKind, NEW p \in FamilyPoints \cup LawPoints, Check(p)
  PROVE  AskInv'
<1>1. /\ ask.pc = "checking" /\ p \in ask.left /\ p \in ask.results /\ p \notin ask.kept
      /\ documents' = documents /\ request' = request /\ labels' = labels
      /\ ask \in AskType
  BY DEF Check, askVars, AskInv, HitsDecided
<1>2. CASE CheckFree(p)
  <2>1. ask' = [ask EXCEPT !.left = @ \ {p}, !.kept = @ \cup {p}]
    BY <1>2 DEF CheckFree, Keep
  <2>2. ask' \in AskType
    BY <1>1, <2>1 DEF AskType, Points
  <2>3. HitsDecided'
    BY <1>1, <1>2, <2>1, PassagesAssumption DEF AskInv, HitsDecided, CheckFree, AskType
  <2>4. HitsOpen'
    BY <1>1, <2>1 DEF AskInv, HitsOpen, AskType
  <2>5. QED
    BY <1>1, <2>1, <2>2, <2>3, <2>4 DEF AskInv, SearcherClosed, LabelledOpen, AskType
<1>3. CASE p \in FamilyPoints /\ ~request.admin /\ CheckDocument(p, DocOf[p])
  <2> DEFINE d == DocOf[p]
  <2>1. d \in Docs \cup {NoDoc}
    BY <1>3, PassagesAssumption
  <2>2. p \notin LawPoints
    BY <1>3, PassagesAssumption
  <2> HIDE DEF d
  <2>3. CASE d \in ask.visible /\ Keep(p)
    <3>1. ask' = [ask EXCEPT !.left = @ \ {p}, !.kept = @ \cup {p}]
      BY <2>3 DEF Keep
    <3>2. ask' \in AskType
      BY <1>1, <3>1 DEF AskType, Points
    <3>3. HitsDecided'
      BY <1>1, <1>3, <2>3, <3>1 DEF AskInv, HitsDecided, AskType, d
    <3>4. HitsOpen'
      BY <1>1, <3>1 DEF AskInv, HitsOpen, AskType
    <3>5. QED
      BY <1>1, <3>1, <3>2, <3>3, <3>4 DEF AskInv, SearcherClosed, LabelledOpen, AskType
  <2>4. CASE d \in ask.hidden \cup {NoDoc} /\ Drop(p)
    <3>1. ask' = [ask EXCEPT !.left = @ \ {p}]
      BY <2>4 DEF Drop
    <3>2. ask' \in AskType
      BY <1>1, <3>1 DEF AskType, Points
    <3>0. d \notin ask.visible
      BY <1>1, <2>4, PassagesAssumption DEF AskInv, AskType
    <3>3. HitsDecided'
      BY <1>1, <1>3, <2>4, <3>0, <3>1 DEF AskInv, HitsDecided, AskType, d
    <3>4. HitsOpen'
      BY <1>1, <3>1 DEF AskInv, HitsOpen, AskType
    <3>5. QED
      BY <1>1, <3>1, <3>2, <3>3, <3>4 DEF AskInv, SearcherClosed, LabelledOpen, AskType
  <2>5. CASE /\ d \in Docs \ (ask.visible \cup ask.hidden)
             /\ GetDocument(d, FALSE)
             /\ ask' = [ask EXCEPT !.left = @ \ {p}, !.kept = @ \cup {p},
                                   !.visible = @ \cup {d}]
    <3>2. ask' \in AskType
      BY <1>1, <2>5 DEF AskType, Points
    <3>1. d # NoDoc
      BY <2>5, PassagesAssumption
    <3>3. HitsDecided'
      BY <1>1, <1>3, <2>5, <3>1 DEF AskInv, HitsDecided, AskType, d
    <3>4. HitsOpen'
      <4>1. request.kind = "question"
        BY <1>1 DEF OneKind
      <4>2. d \in request.opened
        BY <2>5, <4>1 DEF RequestInv, OpenedSeen, Open, GetDocument
      <4>3. QED
        BY <1>1, <2>5, <4>2 DEF AskInv, HitsOpen, AskType
    <3>5. QED
      BY <1>1, <2>5, <3>2, <3>3, <3>4 DEF AskInv, SearcherClosed, LabelledOpen, AskType
  <2>6. CASE /\ d \in Docs \ (ask.visible \cup ask.hidden)
             /\ ask' = [ask EXCEPT !.left = @ \ {p}, !.hidden = @ \cup {d}]
    <3>2. ask' \in AskType
      BY <1>1, <2>6 DEF AskType, Points
    <3>3. HitsDecided'
      BY <1>1, <1>3, <2>6 DEF AskInv, HitsDecided, AskType, d
    <3>4. HitsOpen'
      BY <1>1, <2>6 DEF AskInv, HitsOpen, AskType
    <3>5. QED
      BY <1>1, <2>6, <3>2, <3>3, <3>4 DEF AskInv, SearcherClosed, LabelledOpen, AskType
  <2>7. QED
    BY <1>3, <2>1, <2>3, <2>4, <2>5, <2>6 DEF CheckDocument, d
<1>4. QED
  BY <1>2, <1>3 DEF Check

\* Each step of a question keeps what is said of its own state.
LEMMA AskStep ==
  ASSUME RequestInv, AskInv, OneKind, QuestionNext
  PROVE  AskInv'
<1>1. ASSUME NEW admin \in BOOLEAN, BeginQuestion(admin)
      PROVE  AskInv'
  <2>1. ask' = [NoAsk EXCEPT !.pc = "building", !.labelled = LabelledOpen(labels)]
        /\ labels' = labels
    BY <1>1 DEF BeginQuestion
  <2>2. ask' \in AskType
    <3>1. LabelledOpen(labels) \in SUBSET FamilyPoints
      BY DEF LabelledOpen
    <3>2. QED
      BY <2>1, <3>1, NoAskType DEF AskType
  <2>3. HitsDecided' /\ HitsOpen' /\ SearcherClosed'
    BY <2>1 DEF NoAsk, HitsDecided, HitsOpen, SearcherClosed
  <2>4. QED
    BY <2>1, <2>2, <2>3 DEF NoAsk, AskInv, LabelledOpen
<1>2. CASE Reindex
  <2>1. /\ ask' = [ask EXCEPT !.labelled = @ \cup LabelledOpen(labels')]
        /\ ask \in AskType
        /\ labels' \in [FamilyPoints -> Labels]
    BY <1>2, PassagesAssumption DEF Reindex, AskInv
  <2>2. request'.admin = request.admin /\ request'.opened = request.opened
    BY <1>2 DEF Reindex, RequestInv, RequestType
  <2>3. ask' \in AskType
    <3>1. LabelledOpen(labels') \in SUBSET FamilyPoints
      BY DEF LabelledOpen
    <3>2. QED
      BY <2>1, <3>1 DEF AskType
  <2>4. ask.pc # "idle"
    BY <1>2 DEF Reindex, OneKind
  <2>5. HitsDecided' /\ HitsOpen' /\ SearcherClosed'
    BY <2>1, <2>2 DEF AskInv, AskType, HitsDecided, HitsOpen, SearcherClosed
  <2>6. LabelledOpen(labels)' \subseteq ask'.labelled
    BY <2>1 DEF AskType, LabelledOpen
  <2>7. QED
    BY <2>1, <2>3, <2>4, <2>5, <2>6 DEF AskInv, AskType
<1>3. CASE Build
  BY <1>3, AskGoesOn DEF Build, AskInv, AskType, SearcherClosed
<1>4. CASE Embed
  BY <1>4, AskGoesOn DEF Embed, AskInv, AskType, SearcherClosed
<1>5. CASE QueryFamily
  <2>1. CASE ask' = [ask EXCEPT !.pc = "law", !.missing = @ \cup {"family"}]
    BY <1>5, <2>1, AskGoesOn DEF QueryFamily, AskInv, AskType, SearcherClosed
  <2>2. ASSUME NEW found \in Answers(Present),
               ask' = [ask EXCEPT !.pc = "law",
                          !.hits = IF request.admin THEN found
                                   ELSE DropConfidential(found)]
        PROVE  AskInv'
    <3> DEFINE hits == IF request.admin THEN found ELSE DropConfidential(found)
    <3>1. /\ ask.pc = "family" /\ ask \in AskType
          /\ documents' = documents /\ request' = request /\ labels' = labels
      BY <1>5 DEF QueryFamily, askVars, AskInv
    <3>2. hits \subseteq FamilyPoints
          /\ (~request.admin => hits \subseteq LabelledOpen(labels))
      BY DEF Answers, Present, DropConfidential, LabelledOpen
    <3>3. ask' = [ask EXCEPT !.pc = "law", !.hits = hits]
      BY <2>2
    <3> HIDE DEF hits
    <3>4. ask' \in AskType
      BY <3>1, <3>2, <3>3 DEF AskType, Points
    <3>5. HitsDecided' /\ SearcherClosed'
      BY <3>1, <3>3 DEF AskInv, AskType, HitsDecided, SearcherClosed
    <3>6. HitsOpen'
      BY <3>1, <3>2, <3>3 DEF AskInv, AskType, HitsOpen
    <3>7. QED
      BY <3>1, <3>3, <3>4, <3>5, <3>6 DEF AskInv, AskType, LabelledOpen
  <2>3. QED
    BY <1>5, <2>1, <2>2 DEF QueryFamily
<1>6. CASE QueryLaw
  <2>1. CASE ask' = [ask EXCEPT !.pc = "closing", !.end = "down"]
    BY <1>6, <2>1, AskGoesOn DEF QueryLaw, AskInv, AskType, SearcherClosed
  <2>2. ASSUME NEW best \in SUBSET (ask.hits \cup LawPoints),
               ask' = [ask EXCEPT !.pc = "closing", !.results = best, !.left = best]
        PROVE  AskInv'
    <3>1. /\ ask.pc = "law" /\ ask \in AskType /\ ask.kept = {}
          /\ documents' = documents /\ request' = request /\ labels' = labels
      BY <1>6 DEF QueryLaw, askVars, AskInv, HitsDecided
    <3>2. ask' \in AskType
      BY <2>2, <3>1 DEF AskType, Points
    <3>3. HitsDecided' /\ SearcherClosed'
      BY <2>2, <3>1 DEF AskInv, AskType, HitsDecided, SearcherClosed
    <3>4. HitsOpen'
      BY <2>2, <3>1, PassagesAssumption DEF AskInv, AskType, HitsOpen
    <3>5. ask.end # "used"
      BY <3>1 DEF AskInv
    <3>6. QED
      BY <2>2, <3>1, <3>2, <3>3, <3>4, <3>5 DEF AskInv, AskType, LabelledOpen
  <2>3. QED
    <3>1. CASE ask.missing = {"family"} /\ ask' = [ask EXCEPT !.pc = "closing", !.end = "down"]
      BY <2>1, <3>1
    <3>2. ASSUME NEW best \in Answers(ask.hits),
                 ask' = [ask EXCEPT !.pc = "closing", !.results = best, !.left = best]
          PROVE  AskInv'
      BY <2>2, <3>2 DEF Answers
    <3>3. ASSUME NEW law \in Answers(LawPoints), NEW best \in Answers(ask.hits \cup law),
                 ask' = [ask EXCEPT !.pc = "closing", !.results = best, !.left = best]
          PROVE  AskInv'
      BY <2>2, <3>3 DEF Answers
    <3>4. QED
      BY <1>6, <3>1, <3>2, <3>3 DEF QueryLaw
<1>7. CASE SearchFails
  BY <1>7, AskGoesOn DEF SearchFails, AskInv, AskType, SearcherClosed
<1>8. CASE CloseSearcher
  BY <1>8, AskGoesOn DEF CloseSearcher, AskInv, AskType, SearcherClosed
<1>9. ASSUME NEW p \in FamilyPoints \cup LawPoints, Check(p)
      PROVE  AskInv'
  BY <1>9, CheckStep
<1>10. CASE Use
  BY <1>10, AskGoesOn DEF Use, AskInv, AskType, SearcherClosed
<1>11. CASE CancelQuestion
  <2>1. CASE /\ ask.pc = "embedding"
             /\ ask' = [ask EXCEPT !.pc = "closing", !.end = "cancelled"]
    BY <1>11, <2>1, AskGoesOn DEF CancelQuestion, AskInv, AskType, SearcherClosed
  <2>2. CASE /\ ask.pc \in {"building", "checking"}
             /\ ask' = [ask EXCEPT !.pc = "done", !.end = "cancelled"]
    <3>1. /\ ask \in AskType /\ ask'.pc = "done" /\ ask'.end = "cancelled"
          /\ ask.searcher # "open" /\ UNCHANGED askVars
      BY <1>11, <2>2 DEF CancelQuestion, AskInv, AskType, SearcherClosed
    <3>2. ask' \in AskType
      BY <2>2, <3>1 DEF AskType
    <3>3. QED
      BY <2>2, <3>1, <3>2, AskGoesOn DEF AskInv, AskType, SearcherClosed
  <2>3. QED
    BY <1>11, <2>1, <2>2 DEF CancelQuestion
<1>12. CASE EndQuestion
  BY <1>12, NoAskInv DEF EndQuestion, AskInv
<1>13. QED
  BY <1>1, <1>2, <1>3, <1>4, <1>5, <1>6, <1>7, <1>8, <1>9, <1>10, <1>11, <1>12
     DEF QuestionNext

-----------------------------------------------------------------------------
(***************************************************************************)
(* The request that both read, and what one leaves of the other's.         *)
(***************************************************************************)
\* No request at all has the type of one.
LEMMA NoRequestType == NoRequest \in RequestType
  BY TablesAssumption DEF NoRequest, RequestType

\* A request begins with what is open now.
LEMMA BeginStep ==
  ASSUME RequestInv, NEW kind \in {"file", "question"}, NEW admin \in BOOLEAN,
         Begin(kind, admin)
  PROVE  RequestInv'
  BY TablesAssumption DEF Begin, RequestInv, RequestType, OpenedSeen, Open

\* Of the steps of both, only the first and the last touch what they share.
\* What a step of the proxy does to the rest: only the check makes a client.
FileGoesOn ==
    /\ UNCHANGED proxyVars
    /\ file.pc # "idle" /\ file'.pc # "idle"
    /\ file'.doc = file.doc
    /\ ~CheckFile => (file'.client # "none" => file.client # "none")

\* Every step of the proxy is such a step, the first or the last.
LEMMA FileFrame ==
  ASSUME FileNext, FileInv
  PROVE  \/ FileGoesOn
         \/ \E d \in Docs, admin \in BOOLEAN : BeginFile(d, admin)
         \/ EndFile
<1>0. file \in FileType /\ FileClosed
  BY DEF FileInv
<1> USE <1>0 DEF Body, Closing, FileType, FileClosed, FileGoesOn
<1>1. CASE CheckFile
  <2>1. UNCHANGED proxyVars /\ file.pc = "checking"
    BY <1>1 DEF CheckFile
  <2>2. file'.pc \in {"done", "sending"} /\ file'.doc = file.doc
    BY <1>1 DEF CheckFile, Finish
  <2>3. QED
    BY <1>1, <2>1, <2>2
<1>2. CASE SendFails \/ CloseUnsent
  BY <1>2 DEF SendFails, CloseUnsent
<1>3. CASE SendAnswers
  <2>1. PICK status \in {200, 401, 404, 500}, size \in 0 .. MaxSize :
          \E length \in {size, NoLength}, built \in BOOLEAN :
             LET refusal == Refusal(status, length)
                 opened == [file EXCEPT !.response = "open", !.size = size]
             IN file' = IF refusal # "none"
                        THEN [opened EXCEPT !.pc = "refused", !.end = refusal]
                        ELSE IF ~built
                        THEN [opened EXCEPT !.pc = "refused", !.end = "500"]
                        ELSE [opened EXCEPT !.pc = "responding"]
    BY <1>3 DEF SendAnswers
  <2>2. file'.pc \in {"refused", "responding"} /\ file'.doc = file.doc
    BY <2>1
  <2>3. QED
    BY <1>3, <2>2 DEF SendAnswers
<1>4. CASE SendStart \/ ReadEnd \/ ReadFails \/ PassChunk \/ SendLast
  BY <1>4 DEF SendStart, ReadEnd, ReadFails, PassChunk, SendLast, Goto
<1>5. ASSUME NEW n \in 1 .. MaxSize, ReadChunk(n)
      PROVE  FileGoesOn
  BY <1>5 DEF ReadChunk
<1>6. CASE TimeLimit \/ Disconnect
  BY <1>6 DEF TimeLimit, Disconnect, Interrupt, Unwound
<1>7. CASE Kill
  <2>1. UNCHANGED proxyVars /\ file.pc # "idle"
    BY <1>7 DEF Kill
  <2>2. file'.pc # "idle" /\ file'.doc = file.doc /\ file'.client = file.client
    BY <1>7 DEF Kill, Unwound
  <2>3. QED
    BY <2>1, <2>2
<1>8. CASE CloseResponse \/ CloseClient
  BY <1>8 DEF CloseResponse, CloseClient, AfterClose
<1>9. QED
  BY <1>1, <1>2, <1>3, <1>4, <1>5, <1>6, <1>7, <1>8 DEF FileNext

\* The same of a question, which may also see an index run.
LEMMA QuestionFrame ==
  ASSUME QuestionNext, ask \in AskType
  PROVE  \/ UNCHANGED askVars /\ ask.pc # "idle" /\ ask'.pc # "idle"
         \/ \E admin \in BOOLEAN : BeginQuestion(admin)
         \/ Reindex
         \/ EndQuestion
<1> USE DEF AskType
<1>1. CASE Build \/ Embed \/ SearchFails \/ CloseSearcher \/ Use \/ CancelQuestion
  BY <1>1 DEF Build, Embed, SearchFails, CloseSearcher, Use, CancelQuestion
<1>2. CASE QueryFamily \/ QueryLaw
  BY <1>2 DEF QueryFamily, QueryLaw
<1>3. ASSUME NEW p \in FamilyPoints \cup LawPoints, Check(p)
      PROVE  UNCHANGED askVars /\ ask.pc # "idle" /\ ask'.pc # "idle"
  BY <1>3 DEF Check, CheckFree, CheckDocument, Keep, Drop
<1>4. QED
  BY <1>1, <1>2, <1>3 DEF QuestionNext

-----------------------------------------------------------------------------
(***************************************************************************)
(* Every step keeps the invariant.                                         *)
(***************************************************************************)
\* The invariant holds at the start.
LEMMA InitInv == Init => IInv
<1> SUFFICES ASSUME Init PROVE IInv
  OBVIOUS
<1>1. RequestInv
  BY NoRequestType, TablesAssumption
     DEF Init, DocumentsInit, RequestInv, OpenedSeen, NoRequest
<1>2. FileInv
  BY NoFileType, ProxyAssumption
     DEF Init, FileInv, NoFile, BytesCounted, EndKnown, FileClosed, OrderlyEndIsWhole,
         Body, Closing
<1>3. AskInv
  BY NoAskType, PassagesAssumption
     DEF Init, PassagesInit, AskInv, NoAsk, HitsDecided, HitsOpen, SearcherClosed
<1>4. OneKind /\ FileWasOpen
  BY DEF Init, DocumentsInit, PassagesInit, OneKind, FileWasOpen, NoFile, NoAsk,
         NoRequest
<1>5. QED
  BY <1>1, <1>2, <1>3, <1>4 DEF IInv

\* What the other stores and the same request are kept by whoever reads them.
LEMMA AskUntouched ==
  ASSUME AskInv, UNCHANGED <<labels, ask>>, request'.admin = request.admin,
         request.opened \subseteq request'.opened
  PROVE  AskInv'
<1>1. HitsDecided' /\ HitsOpen' /\ SearcherClosed'
  BY DEF AskInv, HitsDecided, HitsOpen, SearcherClosed
<1>2. QED
  BY <1>1 DEF AskInv, LabelledOpen

\* Only the check makes a client, and what it then found open is in "opened".
LEMMA FileWasOpenStep ==
  ASSUME IInv, FileNext
  PROVE  FileWasOpen'
<1> USE DEF IInv
<1>1. ASSUME NEW d \in Docs, NEW admin \in BOOLEAN, BeginFile(d, admin)
      PROVE  FileWasOpen'
  BY <1>1 DEF BeginFile, NoFile, FileWasOpen
<1>2. CASE CheckFile
  <2>1. /\ documents' = documents /\ request' = request /\ file.pc = "checking"
        /\ file \in FileType /\ request.kind = "file"
    BY <1>2 DEF CheckFile, proxyVars, FileInv, OneKind
  <2>2. CASE \E end \in {"404", "503"} : Finish(end)
    BY <2>1, <2>2 DEF Finish, FileType, FileWasOpen
  <2>3. CASE /\ GetDocument(file.doc, request.admin)
             /\ file' = [file EXCEPT !.pc = "sending", !.client = "open"]
    <3>1. file'.doc = file.doc
      BY <2>1, <2>3 DEF FileType
    <3>2. ASSUME ~request.admin PROVE file.doc \in request.opened
      <4>1. documents[file.doc] = "open"
        BY <2>3, <3>2 DEF GetDocument
      <4>2. file.doc \in Docs
        BY <2>1 DEF FileInv
      <4>3. QED
        BY <2>1, <4>1, <4>2 DEF RequestInv, OpenedSeen, Open
    <3>3. QED
      BY <2>1, <3>1, <3>2 DEF FileWasOpen
  <2>4. QED
    BY <1>2, <2>2, <2>3 DEF CheckFile
<1>3. CASE FileGoesOn /\ ~CheckFile
  BY <1>3 DEF FileGoesOn, proxyVars, FileWasOpen
<1>4. CASE EndFile
  BY <1>4 DEF EndFile, NoFile, FileWasOpen
<1>5. QED
  BY <1>1, <1>2, <1>3, <1>4, FileFrame DEF FileInv

\* Every step keeps the invariant: each part by the lemma of its own half, the
\* other half by what that step leaves alone.
LEMMA NextInv == IInv /\ [Next]_vars => IInv'
<1> SUFFICES ASSUME IInv, [Next]_vars PROVE IInv'
  OBVIOUS
<1> USE DEF IInv
<1>1. CASE FileNext /\ UNCHANGED <<labels, ask>>
  <2>1. FileInv' /\ FileWasOpen'
    BY <1>1, FileStep, FileWasOpenStep
  <2>2. ASSUME NEW d \in Docs, NEW admin \in BOOLEAN, BeginFile(d, admin)
        PROVE  RequestInv' /\ AskInv' /\ OneKind'
    <3>1. Begin("file", admin) /\ file'.pc = "checking" /\ request'.kind = "file"
      BY <2>2 DEF BeginFile, Begin, NoFile
    <3>2. RequestInv'
      BY <3>1, BeginStep
    <3>3. ask.pc = "idle"
      BY <3>1 DEF Begin, OneKind
    <3>4. AskInv'
      BY <1>1, <3>3, NoAskInv DEF AskInv
    <3>5. OneKind'
      BY <1>1, <3>1, <3>3 DEF OneKind
    <3>6. QED
      BY <3>2, <3>4, <3>5
  <2>3. CASE FileGoesOn
    <3>1. RequestInv' /\ AskInv'
      BY <1>1, <2>3, AskUntouched DEF FileGoesOn, proxyVars, RequestInv, OpenedSeen, Open
    <3>2. OneKind'
      BY <1>1, <2>3 DEF FileGoesOn, proxyVars, OneKind
    <3>3. QED
      BY <2>1, <3>1, <3>2
  <2>4. CASE EndFile
    <3>1. ask.pc = "idle"
      BY <2>4 DEF EndFile, OneKind
    <3>2. AskInv'
      BY <1>1, <3>1, NoAskInv DEF AskInv
    <3>3. RequestInv' /\ OneKind'
      BY <1>1, <2>4, <3>1, NoRequestType
         DEF EndFile, RequestInv, OpenedSeen, OneKind, NoRequest, NoFile
    <3>4. QED
      BY <2>1, <3>2, <3>3
  <2>5. QED
    BY <1>1, <2>1, <2>2, <2>3, <2>4, FileFrame
<1>2. CASE QuestionNext /\ UNCHANGED file
  <2>1. FileInv' /\ AskInv'
    BY <1>2, AskStep DEF FileInv, BytesCounted, EndKnown, FileClosed, OrderlyEndIsWhole
  <2>2. ASSUME NEW admin \in BOOLEAN, BeginQuestion(admin)
        PROVE  RequestInv' /\ OneKind' /\ FileWasOpen'
    <3>1. Begin("question", admin) /\ ask'.pc = "building" /\ request'.kind = "question"
      BY <2>2 DEF BeginQuestion, Begin, NoAsk
    <3>2. RequestInv'
      BY <3>1, BeginStep
    <3>3. file.pc = "idle" /\ file = NoFile
      BY <3>1 DEF Begin, OneKind, FileInv
    <3>4. QED
      BY <1>2, <3>1, <3>2, <3>3 DEF OneKind, FileWasOpen, NoFile
  <2>3. CASE UNCHANGED askVars /\ ask.pc # "idle" /\ ask'.pc # "idle"
    BY <1>2, <2>1, <2>3 DEF askVars, RequestInv, OpenedSeen, Open, OneKind, FileWasOpen
  <2>4. CASE Reindex
    <3>1. /\ request' = [request EXCEPT !.changes = @ + 1] /\ documents' = documents
          /\ request \in RequestType /\ ask'.pc = ask.pc
          /\ request.changes + 1 \in 0 .. MaxChanges
      BY <2>4, TablesAssumption DEF Reindex, Change, RequestInv, RequestType, AskInv, AskType
    <3>2. request' \in RequestType
      BY <3>1 DEF RequestType
    <3>3. /\ request'.kind = request.kind /\ request'.admin = request.admin
          /\ request'.opened = request.opened
      BY <3>1 DEF RequestType
    <3>4. RequestInv'
      BY <3>1, <3>2, <3>3 DEF RequestInv, OpenedSeen, Open
    <3>5. QED
      BY <1>2, <2>1, <3>1, <3>3, <3>4 DEF OneKind, FileWasOpen
  <2>5. CASE EndQuestion
    <3>1. file.pc = "idle" /\ file = NoFile
      BY <2>5 DEF EndQuestion, OneKind, FileInv
    <3>2. QED
      BY <1>2, <2>1, <2>5, <3>1, NoRequestType
         DEF EndQuestion, RequestInv, OpenedSeen, OneKind, FileWasOpen, NoRequest,
             NoFile, NoAsk
  <2>6. QED
    BY <1>2, <2>1, <2>2, <2>3, <2>4, <2>5, QuestionFrame DEF AskInv
<1>3. CASE Refresh /\ UNCHANGED <<file, labels, ask>>
  <2>1. /\ request' = [request EXCEPT !.opened = @ \cup Open(documents'),
                                      !.changes = @ + 1]
        /\ request \in RequestType /\ documents' \in [Docs -> States]
        /\ request.changes + 1 \in 0 .. MaxChanges
        /\ Open(documents') \subseteq Docs
    BY <1>3, TablesAssumption DEF Refresh, Change, RequestInv, RequestType, Open
  <2>2. /\ request' \in RequestType
        /\ request'.kind = request.kind /\ request'.admin = request.admin
        /\ request'.opened = request.opened \cup Open(documents')
    BY <2>1 DEF RequestType
  <2>3. RequestInv'
    BY <2>1, <2>2 DEF RequestInv, OpenedSeen, Open
  <2>4. AskInv'
    BY <1>3, <2>2, AskUntouched
  <2>5. FileInv' /\ OneKind' /\ FileWasOpen'
    BY <1>3, <2>2 DEF FileInv, BytesCounted, EndKnown, FileClosed, OrderlyEndIsWhole,
       OneKind, FileWasOpen
  <2>6. QED
    BY <2>3, <2>4, <2>5
<1>4. CASE UNCHANGED vars
  <2>1. UNCHANGED documents /\ UNCHANGED request /\ UNCHANGED file
        /\ UNCHANGED labels /\ UNCHANGED ask
    BY <1>4 DEF vars
  <2>2. FileInv' /\ OneKind' /\ FileWasOpen'
    BY <2>1 DEF FileInv, BytesCounted, EndKnown, FileClosed, OrderlyEndIsWhole,
       OneKind, FileWasOpen
  <2>3. RequestInv' /\ AskInv'
    BY <2>1, AskUntouched DEF RequestInv, OpenedSeen, Open
  <2>4. QED
    BY <2>2, <2>3
<1>5. QED
  BY <1>1, <1>2, <1>3, <1>4 DEF Next

\* So it always holds.
LEMMA SpecInv == Spec => []IInv
<1>1. QED
  BY InitInv, NextInv, PTL DEF Spec

-----------------------------------------------------------------------------
(***************************************************************************)
(* The theorems.                                                           *)
(***************************************************************************)

\* The tables, the two requests and the labels keep their types.
THEOREM DocumentAccessTypes == Spec => []TypeOK
<1>1. IInv => TypeOK
  BY DEF IInv, TypeOK, RequestInv, RequestType, FileInv, AskInv
<1>2. QED
  BY <1>1, SpecInv, PTL

\* A Viewer's request reaches the document service only for a document that was
\* open at some moment of it, however the table is replaced meanwhile.
THEOREM FilesAreGuarded == Spec => []FileWasOpen
<1>1. IInv => FileWasOpen
  BY DEF IInv
<1>2. QED
  BY <1>1, SpecInv, PTL

\* A Viewer is given no passage that was not open in both stores during the
\* question, for any documents, points and labellings and any number of
\* refreshes and index runs.
THEOREM PassagesAreGuarded == Spec => []PassagesWereOpen
<1>1. IInv => PassagesWereOpen
  <2>1. SUFFICES ASSUME IInv, ~request.admin,
                        NEW p \in FamilyPoints, p \in ask.kept
                 PROVE  p \in ask.labelled /\ DocOf[p] \in request.opened
    BY DEF PassagesWereOpen
  <2>2. p \in ask.results \ ask.left
    BY <2>1 DEF IInv, AskInv, HitsDecided
  <2>3. DocOf[p] \in ask.visible
    BY <2>1, <2>2 DEF IInv, AskInv, HitsDecided
  <2>4. QED
    BY <2>1, <2>2, <2>3 DEF IInv, AskInv, HitsOpen
<1>2. QED
  BY <1>1, SpecInv, PTL

\* The passages of one document are decided alike, though its row changes
\* between two of them.
THEOREM DocumentsAreDecidedOnce == Spec => []AllOrNoneOfDocument
<1>1. IInv => AllOrNoneOfDocument
  <2>1. SUFFICES ASSUME IInv, ask.end = "used", NEW d \in Docs
                 PROVE  LET found == {p \in ask.results \cap FamilyPoints : DocOf[p] = d}
                        IN found \subseteq ask.kept \/ found \cap ask.kept = {}
    BY DEF AllOrNoneOfDocument
  <2>2. ask.left = {}
    BY <2>1 DEF IInv, AskInv
  <2>3. CASE request.admin
    BY <2>1, <2>2, <2>3 DEF IInv, AskInv, HitsDecided
  <2>4. CASE ~request.admin
    <3>1. \A p \in ask.results \cap FamilyPoints :
             p \in ask.kept <=> DocOf[p] \in ask.visible
      BY <2>1, <2>2, <2>4 DEF IInv, AskInv, HitsDecided
    <3>2. CASE d \in ask.visible
      BY <3>1, <3>2
    <3>3. CASE d \notin ask.visible
      BY <3>1, <3>3
    <3>4. QED
      BY <3>2, <3>3
  <2>5. QED
    BY <2>3, <2>4
<1>2. QED
  BY <1>1, SpecInv, PTL

\* Every way a request can end, failures and cancellations included, closes what
\* it opened.
THEOREM NothingIsLeftOpen == Spec => []ConnectionsClosed
<1>1. IInv => ConnectionsClosed
  BY DEF IInv, FileInv, FileClosed, AskInv, SearcherClosed, ConnectionsClosed
<1>2. QED
  BY <1>1, SpecInv, PTL

\* A body that ends in order was handed on to its last byte, for files of any
\* size and chunks of any length.
THEOREM OrderlyBodiesAreWhole == Spec => []OrderlyEndIsWhole
<1>1. IInv => OrderlyEndIsWhole
  BY DEF IInv, FileInv
<1>2. QED
  BY <1>1, SpecInv, PTL

\* The bytes handed on never exceed the cap.
THEOREM CapIsKept == Spec => []CapHolds
<1>1. IInv => CapHolds
  BY ProxyAssumption DEF IInv, FileInv, FileType, BytesCounted, CapHolds
<1>2. QED
  BY <1>1, SpecInv, PTL
=============================================================================
