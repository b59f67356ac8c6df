-------------------------- MODULE VisibleDocuments --------------------------
(***************************************************************************)
(* The cached table of documents, the rule that hides some of them from a  *)
(* Viewer (app/cache.py), and one request that reads them while refreshes  *)
(* replace the table.  Requests only read, so one at a time is enough.     *)
(***************************************************************************)
EXTENDS Naturals

CONSTANTS
    Docs,
    Tables,     \* the tables a refresh may store, each [Docs -> States]
    MaxChanges  \* bound: what changes under one request

States == {"absent", "open", "confidential"}

ASSUME TablesAssumption ==
    /\ Tables \subseteq [Docs -> States]
    /\ MaxChanges \in Nat

VARIABLES
    documents,  \* the documents table: unknown, open or is_confidential
    request     \* the request served.  Auxiliary: "opened", the documents that
                \* were open at some moment of it, and "changes"

NoRequest == [kind |-> "none", admin |-> FALSE, opened |-> {}, changes |-> 0]

Open(table) == {d \in Docs : table[d] = "open"}

\* Mutated form: the role does not matter.
GetForAnyone(d, includeConfidential) == documents[d] # "absent"

\* get_document: a row, and not a confidential one for a Viewer.
GetDocument(d, includeConfidential) ==
    \/ documents[d] = "open"
    \/ documents[d] = "confidential" /\ includeConfidential

DocumentsInit ==
    /\ documents \in Tables
    /\ request = NoRequest

Begin(kind, admin) ==
    /\ request.kind = "none"
    /\ request' = [kind |-> kind, admin |-> admin, opened |-> Open(documents),
                   changes |-> 0]
    /\ UNCHANGED documents

Change == request.changes < MaxChanges

\* A refresh commits: the whole table is replaced while a request goes on.
Refresh ==
    /\ request.kind # "none"
    /\ Change
    /\ documents' \in Tables
    /\ request' = [request EXCEPT !.opened = @ \cup Open(documents'),
                                  !.changes = @ + 1]
=============================================================================
