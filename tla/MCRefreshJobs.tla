---------------------------- MODULE MCRefreshJobs ----------------------------
(* Instances of RefreshJobs for TLC. *)
EXTENDS RefreshJobs

CONSTANTS a, b, c, junk, huge, bad, entities, documents, holdings

\* Entities come in pages: a list that fits, one with an integer that is too
\* large, and one beyond the last page.  Documents come as a bare list or in a
\* page without a total, with an item that is skipped.
MCLists ==
    (entities :> {<<a, b>>, <<huge>>, <<b, a, huge>>}) @@ (documents :> {<<bad, huge>>})

\* An item of the entities that is not an object, and a service without a backend.
MCRaised == (entities :> {<<a, b>>, <<junk>>}) @@ (holdings :> {<<a>>})

\* An item is removed from the front of the list while one is added at its end.
MCShifted == documents :> {<<a, b>>, <<b, c>>, <<a, b, c>>, <<b, c, a>>}
==============================================================================
