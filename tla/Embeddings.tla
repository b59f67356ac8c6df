----------------------------- MODULE Embeddings -----------------------------
(***************************************************************************)
(* The client of the embedding service (app/retrieval/embeddings.py):      *)
(* texts go out in batches, a request that fails for a passing reason is   *)
(* sent again after a wait, and an answer is checked before it is used.    *)
(* A vector is the text it was made from, or Short when its length is      *)
(* not that of the model.                                                  *)
(***************************************************************************)
EXTENDS Integers, Sequences, FiniteSetsExt

CONSTANTS
    EmbedBatch,    \* batch_size
    MaxAttempts,   \* max_attempts
    MaxDelay,      \* _MAX_RETRY_DELAY_SECONDS
    RetryAfters,   \* seconds a Retry-After header can give
    Texts, Short

ASSUME EmbeddingAssumption ==
    /\ EmbedBatch \in Nat \ {0} /\ MaxAttempts \in Nat \ {0} /\ MaxDelay \in Nat
    /\ RetryAfters \subseteq Nat /\ Short \notin Texts

VARIABLE embedding  \* the texts being embedded, and how far that has come

NoEmbedding == [pc |-> "off", left |-> <<>>, vectors |-> <<>>, attempt |-> 1, wait |-> 0,
                refused |-> FALSE]

\* embed_documents starts on its texts.
EmbedDocuments(texts) == [NoEmbedding EXCEPT !.pc = "post", !.left = texts]

EmbeddingInit == embedding = NoEmbedding

Smaller(m, n) == IF m < n THEN m ELSE n

\* The slice of texts of the request under way.
Batch == SubSeq(embedding.left, 1, Smaller(EmbedBatch, Len(embedding.left)))
Later == SubSeq(embedding.left, Len(Batch) + 1, Len(embedding.left))

-----------------------------------------------------------------------------
(***************************************************************************)
(* A body of status 200 is a sequence of entries.  The service labels each *)
(* vector with the place of its text in the request; it may send them in   *)
(* any order, too few, the same one twice, one it was not asked for, or    *)
(* leave the label out (NoIndex).                                          *)
(***************************************************************************)
NoIndex == -1

Entries(texts) ==
    {[index |-> i - 1, vector |-> texts[i]] : i \in DOMAIN texts}
        \cup {[index |-> NoIndex, vector |-> texts[1]],
              [index |-> 0, vector |-> Short],
              [index |-> Len(texts), vector |-> texts[1]]}

Bodies(texts) == UNION {[1 .. n -> Entries(texts)] : n \in 0 .. Len(texts)}

\* _vector_from_item: an entry without a label counts as the first.
Index(entry) == IF entry.index = NoIndex THEN 0 ELSE entry.index

Usable(body, expected) ==
    /\ Len(body) = expected
    /\ {Index(body[k]) : k \in DOMAIN body} = 0 .. expected - 1
    /\ \A k \in DOMAIN body : body[k].vector # Short

\* parse_response sorts the vectors of a usable body by their labels.
VectorsOf(body) ==
    [i \in DOMAIN body |->
        body[CHOOSE k \in DOMAIN body : Index(body[k]) = i - 1].vector]

\* _retry_delay
RetryDelay(header, attempt) ==
    Smaller(IF header >= 0 THEN header ELSE 2 ^ (attempt - 1), MaxDelay)

\* No header, or a date, a negative or an infinite number.
NoSeconds == -1

-----------------------------------------------------------------------------
(***************************************************************************)
(* _embed_batch.                                                           *)
(***************************************************************************)
Failed(refused) == [NoEmbedding EXCEPT !.pc = "failed", !.refused = refused]

\* A 200: the next batch, or all vectors; an unusable body is not tried again.
Answered ==
    /\ embedding.pc = "post"
    /\ \E body \in Bodies(Batch) :
         embedding' =
            IF Usable(body, Len(Batch))
            THEN [EmbedDocuments(Later) EXCEPT
                    !.vectors = embedding.vectors \o VectorsOf(body),
                    !.pc = IF Later = <<>> THEN "done" ELSE "post"]
            ELSE Failed(FALSE)

\* Mutated form: the attempts are counted from the last answer.
HoldOffUncounted ==
    /\ embedding.pc = "post"
    /\ \E header \in RetryAfters \cup {NoSeconds} :
         embedding' = [embedding EXCEPT !.pc = "sleep",
                                        !.wait = RetryDelay(header, embedding.attempt),
                                        !.attempt = 0]

\* A time-out, a lost connection, or 429, 502, 503 or 504: wait, unless this
\* was the last attempt.
HoldOff ==
    /\ embedding.pc = "post"
    /\ \E header \in RetryAfters \cup {NoSeconds} :
         embedding' =
            IF embedding.attempt >= MaxAttempts THEN Failed(FALSE)
            ELSE [embedding EXCEPT !.pc = "sleep",
                                   !.wait = RetryDelay(header, embedding.attempt)]

\* 401 or 403, any other status, or another transport error: at once.
GiveUp ==
    /\ embedding.pc = "post"
    /\ \E refused \in BOOLEAN : embedding' = Failed(refused)

Again ==
    /\ embedding.pc = "sleep"
    /\ embedding' = [embedding EXCEPT !.pc = "post", !.wait = 0, !.attempt = @ + 1]

EmbeddingType ==
    embedding \in [pc : {"off", "post", "sleep", "done", "failed"},
                   left : Seq(Texts), vectors : Seq(Texts), attempt : 1 .. MaxAttempts,
                   wait : {w \in Int : w <= MaxDelay}, refused : BOOLEAN]
=============================================================================
