------------------------------ MODULE FileProxy ------------------------------
(***************************************************************************)
(* Preview and download of one file: the check in the cache                *)
(* (app/routes/documents.py), the request to the document service and the  *)
(* body passed on to the browser (app/document_files.py).  A step ends     *)
(* where the code awaits.  At every await the service can fail or be       *)
(* silent, the browser can leave and the task can be cancelled.            *)
(***************************************************************************)
EXTENDS VisibleDocuments

CONSTANTS
    DotSegments,   \* the ids "." and ".."
    Cap,           \* MAX_DOCUMENT_BYTES, in units
    MaxSize,       \* bound: the largest file served
    MaxKills       \* bound: cancellations of the task past a shield

ASSUME ProxyAssumption ==
    /\ DotSegments \subseteq Docs
    /\ Cap \in Nat /\ MaxSize \in Nat /\ MaxKills \in Nat

VARIABLE
    file  \* the request for a file

NoFile == [pc |-> "idle", doc |-> "none", client |-> "none", response |-> "none",
           closing |-> "response", size |-> 0, sent |-> 0, chunk |-> 0,
           passed |-> 0, end |-> "none", kills |-> 0]

proxyVars == <<documents, request>>

Goto(pc) == file' = [file EXCEPT !.pc = pc]
Finish(end) == file' = [file EXCEPT !.pc = "done", !.end = end]

BeginFile(d, admin) ==
    /\ Begin("file", admin)
    /\ file' = [NoFile EXCEPT !.pc = "checking", !.doc = d]

\* The cache is asked, then the settings; only then is a client made.
CheckFile ==
    /\ file.pc = "checking"
    /\ \/ /\ ~GetDocument(file.doc, request.admin)
          /\ Finish("404")
       \/ /\ GetDocument(file.doc, request.admin)
          /\ \/ Finish("503")
             \/ file.doc \in DotSegments /\ Finish("404")
             \/ /\ file.doc \notin DotSegments
                /\ file' = [file EXCEPT !.pc = "sending", !.client = "open"]
    /\ UNCHANGED proxyVars

\* open_upstream: a URL or key of no use, silence, no connection, or a
\* cancellation.  The client is closed on the way out.
SendFails ==
    /\ file.pc = "sending"
    /\ \E end \in {"502", "503", "504", "cancelled"} :
          file' = [file EXCEPT !.pc = "unsent", !.end = end]
    /\ UNCHANGED proxyVars

\* That close is not a quiet one: its failure takes the place of the outcome.
CloseUnsent ==
    /\ file.pc = "unsent"
    /\ \E end \in {file.end, "500"} :
          file' = [file EXCEPT !.pc = "done", !.client = "closed", !.end = end]
    /\ UNCHANGED proxyVars

NoLength == MaxSize + 1

\* _check_response: the portal's status, or "none" for a response to pass on.
Refusal(status, length) ==
    IF status = 404 THEN "404"
    ELSE IF status = 200 /\ (length = NoLength \/ length <= Cap) THEN "none"
    ELSE "502"

\* The headers of the answer arrive, with a length that is the file's or none
\* (missing, malformed, or of a compressed body: _declared_length).  A failure
\* to build the portal's own headers ends it as a refusal does.
SendAnswers ==
    /\ file.pc = "sending"
    /\ \E status \in {200, 401, 404, 500}, size \in 0 .. MaxSize :
       \E length \in {size, NoLength}, built \in BOOLEAN :
          LET refusal == Refusal(status, length)
              opened == [file EXCEPT !.response = "open", !.size = size]
          IN file' = IF refusal # "none"
                     THEN [opened EXCEPT !.pc = "refused", !.end = refusal]
                     ELSE IF ~built
                     THEN [opened EXCEPT !.pc = "refused", !.end = "500"]
                     ELSE [opened EXCEPT !.pc = "responding"]
    /\ UNCHANGED proxyVars

-----------------------------------------------------------------------------
(***************************************************************************)
(* The body.  "responding", "reading", "passing" and "last" are the awaits *)
(* of the response within its time limit: its start, a read from the       *)
(* service, a chunk and the end given to the browser.  The generator that  *)
(* reads is not started in the first, runs in the second, is suspended in  *)
(* the third and over in the last.                                         *)
(***************************************************************************)

Body == {"responding", "reading", "passing", "last"}

SendStart ==
    /\ file.pc = "responding"
    /\ Goto("reading")
    /\ UNCHANGED proxyVars

\* iter_bytes: a chunk of n arrives.
ReadChunk(n) ==
    /\ file.pc = "reading"
    /\ file.sent + n <= file.size
    /\ file' = IF file.sent + n > Cap
               THEN [file EXCEPT !.pc = "ended", !.end = "aborted", !.sent = @ + n]
               ELSE [file EXCEPT !.pc = "passing", !.sent = @ + n, !.chunk = n]
    /\ UNCHANGED proxyVars

\* aiter_bytes is through.  The transport is trusted to tell the end of a body
\* from a body that broke off, by its length or by chunks.
ReadEnd ==
    /\ file.pc = "reading"
    /\ file.sent = file.size
    /\ Goto("ended")
    /\ UNCHANGED proxyVars

\* Mutated form: a body that breaks off ends as one that is over.
ReadBreaksOff ==
    /\ file.pc = "reading"
    /\ Goto("ended")
    /\ UNCHANGED proxyVars

ReadFails ==
    /\ file.pc = "reading"
    /\ file' = [file EXCEPT !.pc = "ended", !.end = "aborted"]
    /\ UNCHANGED proxyVars

PassChunk ==
    /\ file.pc = "passing"
    /\ file' = [file EXCEPT !.pc = "reading", !.passed = @ + file.chunk, !.chunk = 0]
    /\ UNCHANGED proxyVars

SendLast ==
    /\ file.pc = "last"
    /\ file' = [file EXCEPT !.pc = "closing", !.end = "whole"]
    /\ UNCHANGED proxyVars

\* Where an exception raised at an await of the response leads: through the
\* generator's finally when it runs there, otherwise to __call__'s.
Unwound(pc) ==
    IF pc = "reading" THEN "ended"
    ELSE IF pc = "passing" THEN "unwinding"
    ELSE "closing"

Interrupt(end) ==
    /\ file.pc \in Body
    /\ file' = [file EXCEPT !.pc = Unwound(@), !.end = end]
    /\ UNCHANGED proxyVars

\* Mutated form: the limit is on the reads from the service.
LimitOnReads == file.pc = "reading" /\ Interrupt("aborted")

\* fail_after(MAX_TRANSFER_SECONDS).
TimeLimit == Interrupt("aborted")

\* The browser leaves.
Disconnect == Interrupt("gone")

\* UpstreamFile.aclose, from the refusal of a response, the generator's finally,
\* the close of a suspended generator, or __call__'s finally: the response, then
\* the client.  A failure of either is swallowed.
Closing == {"refused", "ended", "unwinding", "closing"}

CloseResponse ==
    /\ file.pc \in Closing
    /\ file.closing = "response"
    /\ file' = [file EXCEPT !.closing = "client", !.response = "closed"]
    /\ UNCHANGED proxyVars

AfterClose(pc) ==
    IF pc = "ended" /\ file.end = "none" THEN "last"
    ELSE IF pc \in {"ended", "unwinding"} THEN "closing"
    ELSE "done"

\* Mutated form: the close of __call__ trusts the generator's.
CloseOnlyGenerator ==
    /\ file.pc \in Closing
    /\ file.closing = "client"
    /\ file' = [file EXCEPT !.closing = "response",
                            !.client = IF file.pc = "closing" THEN @ ELSE "closed",
                            !.pc = AfterClose(@)]
    /\ UNCHANGED proxyVars

CloseClient ==
    /\ file.pc \in Closing
    /\ file.closing = "client"
    /\ file' = [file EXCEPT !.closing = "response", !.client = "closed",
                            !.pc = AfterClose(@)]
    /\ UNCHANGED proxyVars

\* task.cancel(): no shield stops it.  In the close of a response it goes on to
\* the client's, and past the rest of what was to be done.
Kill ==
    /\ file.kills < MaxKills
    /\ \/ /\ file.pc = "checking"
          /\ file' = [file EXCEPT !.kills = @ + 1, !.pc = "done", !.end = "cancelled"]
       \/ /\ file.pc \in Body
          /\ file' = [file EXCEPT !.kills = @ + 1, !.pc = Unwound(@), !.end = "cancelled"]
       \/ /\ file.pc \in Closing
          /\ file.closing = "response"
          /\ file' = [file EXCEPT !.kills = @ + 1, !.closing = "client",
                         !.pc  = IF @ = "unwinding" THEN "closing" ELSE @,
                         !.end = IF file.pc \in {"refused", "ended"} THEN "cancelled"
                                 ELSE @]
    /\ UNCHANGED proxyVars

EndFile ==
    /\ file.pc = "done"
    /\ file' = NoFile
    /\ request' = NoRequest
    /\ UNCHANGED documents

FileNext ==
    \/ \E d \in Docs, admin \in BOOLEAN : BeginFile(d, admin)
    \/ CheckFile \/ SendFails \/ CloseUnsent \/ SendAnswers
    \/ SendStart \/ ReadEnd \/ ReadFails \/ PassChunk \/ SendLast
    \/ \E n \in 1 .. MaxSize : ReadChunk(n)
    \/ TimeLimit \/ Disconnect \/ Kill
    \/ CloseResponse \/ CloseClient
    \/ EndFile

\* The cache and the service answer or time out, the limit passes, a close ends
\* and the event loop goes on.  Nothing is assumed of the browser.  That the headers
\* of an answer come at last is an assumption: the time-out before them is one on
\* each connect, read and write.
FileFairness ==
    /\ WF_<<file>>(CheckFile)
    /\ WF_<<file>>(SendFails \/ SendAnswers)
    /\ WF_<<file>>(CloseUnsent)
    /\ WF_<<file>>(TimeLimit)
    /\ WF_<<file>>(CloseResponse)
    /\ WF_<<file>>(CloseClient)
    /\ WF_<<file>>(EndFile)
=============================================================================
