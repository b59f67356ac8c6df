--------------------------- MODULE DocumentAccess ---------------------------
(***************************************************************************)
(* The two ways the contents of a document reach a user, beside the        *)
(* refreshes of the document table and the runs of the index: a preview or *)
(* download (FileProxy) and the passages of a question (Passages).  The    *)
(* two read the same table through the same rule.                          *)
(***************************************************************************)
EXTENDS FileProxy, Passages

vars == <<documents, request, file, labels, ask>>

Init ==
    /\ DocumentsInit
    /\ file = NoFile
    /\ PassagesInit

Next ==
    \/ FileNext /\ UNCHANGED <<labels, ask>>
    \/ QuestionNext /\ UNCHANGED file
    \/ Refresh /\ UNCHANGED <<file, labels, ask>>

Spec == Init /\ [][Next]_vars
FairSpec == Spec /\ FileFairness

-----------------------------------------------------------------------------
Ends == {"none", "404", "500", "502", "503", "504",
         "whole", "aborted", "gone", "cancelled"}

FileType ==
    [pc : Body \cup Closing \cup {"idle", "checking", "sending", "unsent", "done"},
     doc : Docs \cup {"none"}, client : {"none", "open", "closed"},
     response : {"none", "open", "closed"}, closing : {"response", "client"},
     size : 0 .. MaxSize, sent : 0 .. MaxSize, chunk : 0 .. MaxSize,
     passed : 0 .. MaxSize, end : Ends, kills : 0 .. MaxKills]

Points == FamilyPoints \cup LawPoints

AskType ==
    [pc : {"idle", "building", "embedding", "family", "law", "closing", "checking",
           "done"},
     searcher : {"none", "open", "closed"}, missing : SUBSET {"family"},
     hits : SUBSET Points, results : SUBSET Points, left : SUBSET Points,
     kept : SUBSET Points, visible : SUBSET Docs, hidden : SUBSET Docs,
     end : {"none", "used", "off", "down", "cancelled"},
     labelled : SUBSET FamilyPoints]

\* Every variable has its type.
TypeOK ==
    /\ documents \in [Docs -> States]
    /\ request \in [kind : {"none", "file", "question"}, admin : BOOLEAN,
                    opened : SUBSET Docs, changes : 0 .. MaxChanges]
    /\ file \in FileType
    /\ labels \in [FamilyPoints -> Labels]
    /\ ask \in AskType

\* No file is asked of the document service for a Viewer unless its document was
\* open in the cache at some moment of the request (the check that
\* _stream_document makes before open_upstream).
FileWasOpen ==
    (file.client # "none" /\ ~request.admin) => file.doc \in request.opened

\* No passage reaches a Viewer unless, during the question, its point was
\* labelled open in the index and its document was open in the cache, whatever
\* the two stores held of it before or after (_drop_confidential and
\* visible_results, the two barriers of app/chat/service.py).
PassagesWereOpen ==
    ~request.admin =>
        \A p \in ask.kept \cap FamilyPoints :
            p \in ask.labelled /\ DocOf[p] \in request.opened

\* A question uses all the passages found of a document or none: a refresh
\* between two hits cannot let one through and hold the other back (the
\* `allowed' of visible_results).
AllOrNoneOfDocument ==
    ask.end = "used" =>
        \A d \in Docs :
            LET found == {p \in ask.results \cap FamilyPoints : DocOf[p] = d}
            IN found \subseteq ask.kept \/ found \cap ask.kept = {}

\* Whatever ends a request, and wherever it was, the connections it opened are
\* closed: the client of the document service (open_upstream, UpstreamFile,
\* UpstreamFileResponse) and those of the search (_search).
ConnectionsClosed ==
    /\ file.pc = "done" => file.client # "open"
    /\ ask.pc = "done" => ask.searcher # "open"

\* A body that ends in order is the whole file: one that broke off, grew past the
\* cap or ran out of time never looks like a finished download
\* (DocumentStreamAbortedError).
OrderlyEndIsWhole == file.end = "whole" => file.passed = file.size

\* No more than the cap is passed on, whether or not the service declared a
\* length (_check_response, iter_bytes).
CapHolds == file.passed <= Cap

\* A request for a file ends, though the service sends its bytes one by one and
\* the browser stops reading (MAX_TRANSFER_SECONDS over the whole response).
FileEnds == file.pc # "idle" ~> file.pc = "idle"
=============================================================================
