------------------------------ MODULE ChunkSets ------------------------------
(***************************************************************************)
(* What a chunk-set file means (app/retrieval/chunk_sets.py).  The set and *)
(* each of its chunks may or may not give a consent, a confidentiality,    *)
(* names that classify the document and a hash; the document's own values  *)
(* are resolved from all of them.                                          *)
(***************************************************************************)
EXTENDS Naturals, Sequences, FiniteSetsExt

CONSTANTS
    Missing,    \* a field that is not there; null or blank, for a hash
    Odd,        \* a value of the wrong type
    Blank,      \* a text or a name of spaces
    TaxNames,   \* TAX_DOCUMENT_NAMES
    Garbage     \* a file that is not a readable chunk set

\* A file is `Garbage' or [own |-> source, chunks |-> <<source, ...>>], with a
\* source [consent, confidential, names, sha256], and a text for each chunk.
Chunks(raw)  == {raw.chunks[i] : i \in DOMAIN raw.chunks}
Sources(raw) == {raw.own} \cup Chunks(raw)

\* _resolve_sha256: every hash that is given, and the one of the document.
Hashes(raw) == {s.sha256 : s \in Sources(raw)} \ {Missing}
Sha256(raw) == IF Hashes(raw) = {} THEN Missing
               ELSE CHOOSE hash \in Hashes(raw) : TRUE

\* Mutated form: a chunk that says nothing takes the answer of the set.
ConsentInherited(raw) ==
    {s.consent : s \in Sources(raw)} \ {Missing} = {TRUE}

\* _resolve_consent: a chunk that says nothing says no; a set may be silent.
Consent(raw) ==
    LET ofChunks == {IF c.consent = Missing THEN FALSE ELSE c.consent : c \in Chunks(raw)}
        ofSet    == {raw.own.consent} \ {Missing}
    IN ofChunks \cup ofSet = {TRUE}

\* _is_tax_return: a tax name anywhere, or no usable name at all.
IsTaxReturn(raw) ==
    LET names == UNION {s.names : s \in Sources(raw)}
    IN names \cap (TaxNames \cup {Odd}) # {} \/ names \subseteq {Blank}

\* _resolve_confidential: no, only when the set or each chunk says so.
Confidential(raw) ==
    LET ofSet    == {raw.own.confidential} \ {Missing}
        ofChunks == {IF c.confidential = Missing THEN raw.own.confidential
                                                 ELSE c.confidential : c \in Chunks(raw)}
    IN ofSet \cup ofChunks # {FALSE}

\* parse_chunk_set refuses a file of the right shape: its hashes clash.
Unusable(raw) == Odd \in Hashes(raw) \/ Cardinality(Hashes(raw)) > 1

\* The chunks that have text keep their position in the file.
Texts(raw) ==
    [i \in {j \in DOMAIN raw.chunks : raw.chunks[j].text # Blank} |-> raw.chunks[i].text]

\* parse_chunk_set
Parsed(raw) ==
    [sha256       |-> Sha256(raw),
     consent      |-> Consent(raw),
     taxReturn    |-> IsTaxReturn(raw),
     confidential |-> Confidential(raw),
     chunks       |-> Texts(raw)]

MayBeIndexed(set) == set.consent \/ ~set.taxReturn
==============================================================================
