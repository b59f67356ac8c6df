------------------------------ MODULE Passages ------------------------------
(***************************************************************************)
(* The passages of one question: the search over the two collections       *)
(* (app/retrieval/search.py), and the check of every hit against the       *)
(* cached documents (visible_results in app/chat/service.py), while the    *)
(* index and the cache change.  The label of a point is its own copy of    *)
(* is_confidential, as old as the last index run that wrote it.            *)
(***************************************************************************)
EXTENDS VisibleDocuments, FiniteSets

CONSTANTS
    FamilyPoints, LawPoints,
    DocOf,       \* the document of a family point, NoDoc for none
    NoDoc,
    Labellings,  \* the states of the family collection
    TopK         \* 8 in the code

Labels == {"absent", "false", "true", "unlabelled"}

ASSUME PassagesAssumption ==
    /\ FamilyPoints \cap LawPoints = {}
    /\ NoDoc \notin Docs
    /\ DocOf \in [FamilyPoints -> Docs \cup {NoDoc}]
    /\ Labellings \subseteq [FamilyPoints -> Labels]
    /\ TopK \in Nat \ {0}

VARIABLES
    labels,  \* is_confidential of each family point, or absent
    ask      \* the question.  Auxiliary: "labelled", the points whose label was
             \* false at some moment of it

NoAsk == [pc |-> "idle", searcher |-> "none", missing |-> {}, hits |-> {},
          results |-> {}, left |-> {}, kept |-> {}, visible |-> {}, hidden |-> {},
          end |-> "none", labelled |-> {}]

askVars == <<documents, request, labels>>

LabelledOpen(labelling) == {p \in FamilyPoints : labelling[p] = "false"}
Present == {p \in FamilyPoints : labels[p] # "absent"}

PassagesInit ==
    /\ labels \in Labellings
    /\ ask = NoAsk

BeginQuestion(admin) ==
    /\ Begin("question", admin)
    /\ ask' = [NoAsk EXCEPT !.pc = "building", !.labelled = LabelledOpen(labels)]
    /\ UNCHANGED labels

\* An index run writes the collection while a question goes on.
Reindex ==
    /\ request.kind = "question"
    /\ Change
    /\ labels' \in Labellings
    /\ ask' = [ask EXCEPT !.labelled = @ \cup LabelledOpen(labels')]
    /\ request' = [request EXCEPT !.changes = @ + 1]
    /\ UNCHANGED documents

-----------------------------------------------------------------------------
(***************************************************************************)
(* The search, in a worker thread.                                         *)
(***************************************************************************)

\* _search: the service is built, or is off, or cannot be.
Build ==
    /\ ask.pc = "building"
    /\ \/ ask' = [ask EXCEPT !.pc = "embedding", !.searcher = "open"]
       \/ \E end \in {"off", "down"} : ask' = [ask EXCEPT !.pc = "done", !.end = end]
    /\ UNCHANGED askVars

Embed ==
    /\ ask.pc = "embedding"
    /\ ask' = [ask EXCEPT !.pc = "family"]
    /\ UNCHANGED askVars

\* Mutated form: only a label of true is dropped.
DropLabelledTrue(points) == {p \in points : labels[p] # "true"}

\* _drop_confidential: what is not labelled false is dropped, again.
DropConfidential(points) == {p \in points : labels[p] = "false"}

Answers(points) == {found \in SUBSET points : Cardinality(found) <= TopK}

\* The collection answers: the filter ran inside the query (family_docs_filter),
\* or, which the second line is for, it did not.  It may not exist yet.
QueryFamily ==
    /\ ask.pc = "family"
    /\ \/ ask' = [ask EXCEPT !.pc = "law", !.missing = @ \cup {"family"}]
       \/ \E found \in Answers(Present) :
             ask' = [ask EXCEPT !.pc = "law",
                        !.hits = IF request.admin THEN found ELSE DropConfidential(found)]
    /\ UNCHANGED askVars

\* Then the other collection, which needs no filter.  All hits are merged by
\* score and cut; with no collection at all the search fails.
QueryLaw ==
    /\ ask.pc = "law"
    /\ \/ /\ ask.missing = {"family"}
          /\ ask' = [ask EXCEPT !.pc = "closing", !.end = "down"]
       \/ /\ ask.missing = {}
          /\ \E best \in Answers(ask.hits) :
                ask' = [ask EXCEPT !.pc = "closing", !.results = best, !.left = best]
       \/ \E law \in Answers(LawPoints) : \E best \in Answers(ask.hits \cup law) :
             ask' = [ask EXCEPT !.pc = "closing", !.results = best, !.left = best]
    /\ UNCHANGED askVars

\* The embedding service or the collection fails.
SearchFails ==
    /\ ask.pc \in {"embedding", "family", "law"}
    /\ ask' = [ask EXCEPT !.pc = "closing", !.end = "down"]
    /\ UNCHANGED askVars

\* The finally of _search, shielded: its failure changes nothing.
CloseSearcher ==
    /\ ask.pc = "closing"
    /\ ask' = [ask EXCEPT !.searcher = "closed",
                          !.pc = IF ask.end = "none" THEN "checking" ELSE "done"]
    /\ UNCHANGED askVars

-----------------------------------------------------------------------------
(***************************************************************************)
(* visible_results: one hit, with at most one read of the cache.           *)
(***************************************************************************)

Keep(p) == ask' = [ask EXCEPT !.left = @ \ {p}, !.kept = @ \cup {p}]
Drop(p) == ask' = [ask EXCEPT !.left = @ \ {p}]

\* Mutated form: the cache is asked for every passage.
CheckAnew(p) ==
    /\ ask.pc = "checking"
    /\ p \in ask.left
    /\ \/ /\ p \in LawPoints \/ request.admin
          /\ Keep(p)
       \/ /\ p \in FamilyPoints /\ ~request.admin
          /\ IF DocOf[p] # NoDoc /\ GetDocument(DocOf[p], FALSE) THEN Keep(p) ELSE Drop(p)
    /\ UNCHANGED askVars

\* A passage that any caller may use: of the law, or of any document for an
\* Admin.
CheckFree(p) ==
    /\ p \in LawPoints \/ request.admin
    /\ Keep(p)

\* For a Viewer the cache is asked once for each document.
CheckDocument(p, d) ==
    \/ d = NoDoc /\ Drop(p)
    \/ d \in ask.visible /\ Keep(p)
    \/ d \in ask.hidden /\ Drop(p)
    \/ /\ d \in Docs \ (ask.visible \cup ask.hidden)
       /\ ask' = IF GetDocument(d, FALSE)
                 THEN [ask EXCEPT !.left = @ \ {p}, !.kept = @ \cup {p},
                                  !.visible = @ \cup {d}]
                 ELSE [ask EXCEPT !.left = @ \ {p}, !.hidden = @ \cup {d}]

Check(p) ==
    /\ ask.pc = "checking"
    /\ p \in ask.left
    /\ \/ CheckFree(p)
       \/ p \in FamilyPoints /\ ~request.admin /\ CheckDocument(p, DocOf[p])
    /\ UNCHANGED askVars

\* The balance table is read and the prompt made of what was kept; or it is not.
Use ==
    /\ ask.pc = "checking"
    /\ ask.left = {}
    /\ \E end \in {"used", "down"} : ask' = [ask EXCEPT !.pc = "done", !.end = end]
    /\ UNCHANGED askVars

\* A cancellation is delivered where no worker thread is waited for: before the
\* search, whose service is then closed, and among the reads that follow it.
CancelQuestion ==
    /\ \/ /\ ask.pc = "embedding"
          /\ ask' = [ask EXCEPT !.pc = "closing", !.end = "cancelled"]
       \/ /\ ask.pc \in {"building", "checking"}
          /\ ask' = [ask EXCEPT !.pc = "done", !.end = "cancelled"]
    /\ UNCHANGED askVars

EndQuestion ==
    /\ ask.pc = "done"
    /\ ask' = NoAsk
    /\ request' = NoRequest
    /\ UNCHANGED <<documents, labels>>

QuestionNext ==
    \/ \E admin \in BOOLEAN : BeginQuestion(admin)
    \/ Reindex
    \/ Build \/ Embed \/ QueryFamily \/ QueryLaw \/ SearchFails \/ CloseSearcher
    \/ \E p \in FamilyPoints \cup LawPoints : Check(p)
    \/ Use \/ CancelQuestion \/ EndQuestion
=============================================================================
