--------------------------- MODULE MCTaxLawIndex ---------------------------
(* Small instance: five subtopics, two of them in two versions, and files  *)
(* that add, change, blank and drop subtopics or cannot be used.           *)
EXTENDS TaxLawIndex

Sub(id, text) == [id |-> id, text |-> text]

Four    == <<Sub(1, "a"), Sub(2, "b"), Sub(3, "c"), Sub(4, "d")>>
Reworked == <<Sub(2, "c"), Sub(1, "b")>>           \* two gone, texts moved
Blanked == <<Sub(1, "a"), Sub(2, Blank)>>          \* three of four gone
Others  == <<Sub(3, "c"), Sub(4, "d"), Sub(5, "a")>>
Twice   == <<Sub(1, "a"), Sub(1, Blank)>>
Nothing == <<Sub(1, Blank)>>

MCKnowledgeBases == {Four, Reworked, Blanked, Others, Twice, Nothing}
=============================================================================
