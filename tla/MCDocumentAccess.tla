-------------------------- MODULE MCDocumentAccess --------------------------
(***************************************************************************)
(* Small instance: a document with two points, a second one whose id is a  *)
(* dot segment, a point with no document and a point of the law.           *)
(***************************************************************************)
EXTENDS DocumentAccess

CONSTANTS d1, d2, p1, p2, q, stray, law

MCDocs == {d1, d2}
MCTables == {t \in [MCDocs -> States] : t[d2] # "absent"}
MCFamily == {p1, p2, q, stray}
MCDocOf == [p \in MCFamily |-> CASE p \in {p1, p2} -> d1 [] p = q -> d2
                                 [] p = stray -> NoDoc]

Labelled(a, b, c, s) == [p \in MCFamily |-> CASE p = p1 -> a [] p = p2 -> b
                                              [] p = q -> c [] p = stray -> s]

\* All open; the first document half written again as confidential; unlabelled
\* points; the first document not there.
MCLabellings == {Labelled("false", "false", "false", "false"),
                 Labelled("true", "false", "unlabelled", "false"),
                 Labelled("absent", "absent", "false", "unlabelled")}
=============================================================================
