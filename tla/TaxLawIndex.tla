---------------------------- MODULE TaxLawIndex ----------------------------
(***************************************************************************)
(* The tax-law collection (app/retrieval/tax_law.py): a scheduled command  *)
(* brings its points in step with one knowledge-base file.  Every text is  *)
(* embedded before the first write, new points go up in batches, and those *)
(* of subtopics the file no longer has are deleted last.                   *)
(*                                                                         *)
(* `calm' says whether the services answer and nobody touches the file;    *)
(* while it is false any call can fail, be refused or lose its answer, and *)
(* the command can be killed.  Runs never overlap: an assumption of the    *)
(* command, which holds here by construction.                              *)
(***************************************************************************)
EXTENDS Embeddings

CONSTANTS
    Subtopics,    \* ids
    Garbage,      \* a file that cannot be read, or has another shape
    KnowledgeBases, \* what the file can hold, but for Garbage: sequences of
                  \* [id, text]
    Blank,        \* a content of spaces
    NoPoint,
    UpsertBatch,  \* UPSERT_BATCH_SIZE
    GuardMin      \* REMOVAL_GUARD_MIN

Points == [text : Texts, vector : Texts]

ASSUME TaxLawAssumption ==
    /\ KnowledgeBases \subseteq Seq([id : Subtopics, text : Texts \cup {Blank}])
    /\ IsFiniteSet(Subtopics) /\ Blank \notin Texts
    /\ Garbage \notin KnowledgeBases /\ NoPoint \notin Points
    /\ UpsertBatch \in Nat \ {0} /\ GuardMin \in Nat

VARIABLES
    file,        \* the knowledge-base file
    collection,  \* is it there, and with the right vector slots?
    points,      \* what the point of each subtopic holds
    run,         \* the run of the command, or how the last one ended
    calm,
    before,      \* auxiliary: the points when the last run began
    begun        \* auxiliary: the file of the last run that passed the guard

vars == <<embedding, file, collection, points, run, calm, before, begun>>
around == <<file, calm, before>>

Files    == KnowledgeBases \cup {Garbage}
NoPoints == [s \in Subtopics |-> NoPoint]
Held     == {s \in Subtopics : points[s] # NoPoint}

Idle == [pc |-> "idle", exit |-> "none", reading |-> Garbage, rest |-> {}, stale |-> {}]

Init ==
    /\ EmbeddingInit
    /\ file \in Files
    /\ collection = "absent"
    /\ points = NoPoints
    /\ run = Idle
    /\ calm = FALSE
    /\ before = NoPoints
    /\ begun = Garbage

-----------------------------------------------------------------------------
(***************************************************************************)
(* The file.                                                               *)
(***************************************************************************)
Ids(kb) == {kb[i].id : i \in DOMAIN kb}

\* parse_knowledge_base: an id used twice rejects the file, blank ones count.
Rejected(kb) == Cardinality(Ids(kb)) # Len(kb)

Filled(kb)  == {i \in DOMAIN kb : kb[i].text # Blank}
Nth(kb, n)  == CHOOSE i \in Filled(kb) : Cardinality({j \in Filled(kb) : j <= i}) = n

\* The subtopics with content, in file order.
Kept(kb) == [n \in 1 .. Cardinality(Filled(kb)) |-> kb[Nth(kb, n)]]

Indexable(raw) == raw \in KnowledgeBases /\ ~Rejected(raw) /\ Kept(raw) # <<>>

ContentOf(kb) == [i \in DOMAIN Kept(kb) |-> Kept(kb)[i].text]
KeptIds(kb)   == Ids(Kept(kb))
PositionOf(kb, s) == CHOOSE i \in DOMAIN Kept(kb) : Kept(kb)[i].id = s

\* The point of a subtopic whose vectors are `vectors'.
PointOf(kb, s, vectors) ==
    [text |-> ContentOf(kb)[PositionOf(kb, s)], vector |-> vectors[PositionOf(kb, s)]]

\* The collection that matches a file.
Expected(kb) ==
    [s \in Subtopics |-> IF s \in KeptIds(kb) THEN PointOf(kb, s, ContentOf(kb))
                                              ELSE NoPoint]

-----------------------------------------------------------------------------
(***************************************************************************)
(* Around the command.                                                     *)
(***************************************************************************)
ChangeFile ==
    /\ ~calm
    /\ file' \in Files \ {file}
    /\ UNCHANGED <<embedding, collection, points, run, calm, before, begun>>

Weather ==
    /\ calm' = ~calm
    /\ UNCHANGED <<embedding, file, collection, points, run, before, begun>>

\* The way out after a refusal, and of a collection with the wrong slots:
\* between two runs somebody deletes the collection.
DeleteCollection ==
    /\ run.pc = "idle" /\ ~calm
    /\ collection # "absent"
    /\ collection' = "absent"
    /\ points' = NoPoints
    /\ begun' = Garbage
    /\ UNCHANGED <<embedding, file, run, calm, before>>

\* Somebody else creates it, with the right slots or the wrong ones.
CreateElsewhere ==
    /\ collection = "absent" /\ ~calm
    /\ collection' \in {"ready", "wrong"}
    /\ UNCHANGED <<embedding, file, points, run, calm, before, begun>>

\* The run is over; its connections are closed.
End(exit) ==
    /\ run' = [Idle EXCEPT !.exit = exit]
    /\ embedding' = NoEmbedding

-----------------------------------------------------------------------------
(***************************************************************************)
(* One run.  Exit status: "matches" 0, "unusable" 1, "not_ready" 2.        *)
(***************************************************************************)

\* The file is read and checked, whole.
ReadFile ==
    /\ run.pc = "idle"
    /\ IF Indexable(file)
       THEN /\ run' = [Idle EXCEPT !.pc = "embed", !.reading = file]
            /\ embedding' = EmbedDocuments(ContentOf(file))
       ELSE End("unusable")
    /\ before' = points
    /\ UNCHANGED <<file, collection, points, calm, begun>>

\* A setting is missing or wrong: nothing is read.
NotConnected ==
    /\ run.pc = "idle" /\ ~calm
    /\ End("not_ready")
    /\ before' = points
    /\ UNCHANGED <<file, collection, points, calm, begun>>

Embedding ==
    /\ run.pc = "embed"
    /\ \/ Again
       \/ Answered /\ (calm => embedding'.pc # "failed")
       \/ ~calm /\ (HoldOff \/ GiveUp)
    /\ UNCHANGED <<around, collection, points, run, begun>>

Embedded ==
    /\ run.pc = "embed"
    /\ \/ /\ embedding.pc = "done"
          /\ run' = [run EXCEPT !.pc = "exists"]
          /\ UNCHANGED embedding
       \/ /\ embedding.pc = "failed"
          /\ End(IF embedding.refused THEN "not_ready" ELSE "unusable")
    /\ UNCHANGED <<around, collection, points, begun>>

\* ensure_collection: is it there?
Exists ==
    /\ run.pc = "exists"
    /\ run' = [run EXCEPT !.pc = IF collection = "absent" THEN "create" ELSE "schema"]
    /\ UNCHANGED <<around, embedding, collection, points, begun>>

\* Another process creates it at the same moment: 409, and it counts as there.
Create ==
    /\ run.pc = "create"
    /\ collection' = IF collection = "absent" THEN "ready" ELSE collection
    /\ run' = [run EXCEPT !.pc = "schema"]
    /\ UNCHANGED <<around, embedding, points, begun>>

\* _check_schema
CheckSchema ==
    /\ run.pc = "schema"
    /\ IF collection = "ready"
       THEN run' = [run EXCEPT !.pc = "scroll"] /\ UNCHANGED embedding
       ELSE End("not_ready")
    /\ UNCHANGED <<around, collection, points, begun>>

Stale(kb) == Held \ KeptIds(kb)

\* Mutated form: the two sides of the comparison are swapped.
KeptTooMany(kb) ==
    /\ Cardinality(Stale(kb)) >= GuardMin
    /\ Cardinality(Held \ Stale(kb)) * 2 > Cardinality(Held)

\* Mutated form: the stale points are compared with what the file holds.
MoreThanFile(kb) ==
    /\ Cardinality(Stale(kb)) >= GuardMin
    /\ Cardinality(Stale(kb)) > Len(Kept(kb))

\* The file would remove most of what is stored.
TooMany(kb) ==
    /\ Cardinality(Stale(kb)) >= GuardMin
    /\ Cardinality(Stale(kb)) * 2 > Cardinality(Held)

\* _stale_point_ids
FindStale ==
    /\ run.pc = "scroll"
    /\ IF TooMany(run.reading)
       THEN End("unusable") /\ UNCHANGED begun
       ELSE /\ run' = [run EXCEPT !.pc = "upsert", !.stale = Stale(run.reading),
                                  !.rest = DOMAIN Kept(run.reading)]
            /\ begun' = run.reading
            /\ UNCHANGED embedding
    /\ UNCHANGED <<around, collection, points>>

\* The next UpsertBatch points in file order.
Slice == {i \in run.rest : Cardinality({j \in run.rest : j < i}) < UpsertBatch}
SliceIds == {Kept(run.reading)[i].id : i \in Slice}

\* Mutated form: a subtopic that has a point keeps it.
UpsertedNew ==
    [s \in Subtopics |-> IF s \in SliceIds /\ points[s] = NoPoint
                         THEN PointOf(run.reading, s, embedding.vectors) ELSE points[s]]

Upserted ==
    [s \in Subtopics |-> IF s \in SliceIds THEN PointOf(run.reading, s, embedding.vectors)
                                           ELSE points[s]]
Removed == [s \in Subtopics |-> IF s \in run.stale THEN NoPoint ELSE points[s]]

Upsert ==
    /\ run.pc = "upsert"
    /\ points' = Upserted
    /\ IF run.rest # Slice
       THEN run' = [run EXCEPT !.rest = @ \ Slice] /\ UNCHANGED embedding
       ELSE IF run.stale # {}
       THEN run' = [run EXCEPT !.rest = {}, !.pc = "delete"] /\ UNCHANGED embedding
       ELSE End("matches")
    /\ UNCHANGED <<around, collection, begun>>

\* Mutated form: everything goes but what this run wrote last.
DeleteOthers ==
    /\ run.pc = "delete"
    /\ points' = [s \in Subtopics |->
                    IF s = Kept(run.reading)[Len(Kept(run.reading))].id THEN points[s]
                                                                        ELSE NoPoint]
    /\ End("matches")
    /\ UNCHANGED <<around, collection, begun>>

Delete ==
    /\ run.pc = "delete"
    /\ points' = Removed
    /\ End("matches")
    /\ UNCHANGED <<around, collection, begun>>

\* Mutated form: a failed call is the file's fault.
CallFailsAsFile ==
    /\ run.pc \in {"exists", "create", "schema", "scroll", "upsert", "delete"}
    /\ ~calm
    /\ \/ UNCHANGED <<points, collection>>
       \/ /\ run.pc = "create" /\ collection = "absent"
          /\ collection' = "ready" /\ UNCHANGED points
       \/ run.pc = "upsert" /\ points' = Upserted /\ UNCHANGED collection
       \/ run.pc = "delete" /\ points' = Removed /\ UNCHANGED collection
    /\ End("unusable")
    /\ UNCHANGED <<around, begun>>

\* A call to Qdrant fails; whether it took effect is not known.
CallFails ==
    /\ run.pc \in {"exists", "create", "schema", "scroll", "upsert", "delete"}
    /\ ~calm
    /\ \/ UNCHANGED <<points, collection>>
       \/ /\ run.pc = "create" /\ collection = "absent"
          /\ collection' = "ready" /\ UNCHANGED points
       \/ run.pc = "upsert" /\ points' = Upserted /\ UNCHANGED collection
       \/ run.pc = "delete" /\ points' = Removed /\ UNCHANGED collection
    /\ End("not_ready")
    /\ UNCHANGED <<around, begun>>

\* The process is killed between two calls.
Kill ==
    /\ run.pc # "idle"
    /\ ~calm
    /\ End("killed")
    /\ UNCHANGED <<around, collection, points, begun>>

Progress ==
    \/ Embedding \/ Embedded \/ Exists \/ Create \/ CheckSchema \/ FindStale
    \/ Upsert \/ Delete

Next ==
    \/ ChangeFile \/ Weather \/ DeleteCollection \/ CreateElsewhere
    \/ ReadFile \/ NotConnected \/ Progress \/ CallFails \/ Kill

Spec == Init /\ [][Next]_vars

\* The schedule starts the command, and a run goes on until it ends.  Nothing
\* makes the services answer.
FairSpec == Spec /\ WF_vars(ReadFile) /\ WF_vars(Progress)

-----------------------------------------------------------------------------
(***************************************************************************)
(* Properties.                                                             *)
(***************************************************************************)
Runs == [pc : {"idle", "embed", "exists", "create", "schema", "scroll", "upsert", "delete"},
         exit : {"none", "matches", "unusable", "not_ready", "killed"},
         reading : Files, rest : SUBSET Nat, stale : SUBSET Subtopics]

\* Every variable holds what the code can store in it; no wait between two
\* requests is longer than the cap, whatever the service asks for.
TypeOK ==
    /\ EmbeddingType
    /\ file \in Files
    /\ collection \in {"absent", "wrong", "ready"}
    /\ points \in [Subtopics -> Points \cup {NoPoint}]
    /\ run \in Runs
    /\ calm \in BOOLEAN
    /\ before \in [Subtopics -> Points \cup {NoPoint}]
    /\ begun \in Files

\* The exit status can be trusted: 0 leaves exactly the points of the file that
\* was read, texts and vectors, though the run before was cut short anywhere; 1
\* leaves every point as it was (the module's "Exit status").
ExitTells ==
    [][/\ (run.pc # "idle" /\ run'.exit = "matches") => points' = Expected(run.reading)
       /\ run'.exit = "unusable" => points' = before']_run

\* A subtopic that is stored and that the file still has is found throughout the
\* run, through every failure: "new and old points mixed, never none".
KeptStayFindable ==
    [][\A s \in Held :
          run.pc # "idle" /\ s \in KeptIds(run.reading) => points'[s] # NoPoint]_vars

\* One run takes away fewer points than the guard's number, or at most half of
\* those it found, and it never leaves the collection empty.
RunKeepsMost ==
    [][LET had  == {s \in Subtopics : before[s] # NoPoint}
           gone == {s \in had : points'[s] = NoPoint}
       IN run.pc # "idle" =>
            /\ Cardinality(gone) < GuardMin \/ Cardinality(gone) * 2 <= Cardinality(had)
            /\ had # {} => gone # had \/ \E s \in Subtopics : points'[s] # NoPoint]_vars

\* What an interrupted run leaves never makes the guard refuse the same file:
\* "the next run rewrites every point and deletes the leftovers".
RepairNotRefused ==
    run.pc = "scroll" /\ run.reading = begun => ~TooMany(run.reading)

\* A run ends, also when the service asks for one more attempt every time.
RunEnds == run.pc # "idle" ~> run.pc = "idle"

\* Once the services answer and the file stays, the collection matches it, unless
\* the file cannot be indexed, the guard refuses it, or the slots are wrong.
CatchesUp ==
    <>[]calm =>
        <>[](\/ ~Indexable(file)
             \/ points = Expected(file)
             \/ TooMany(file)
             \/ collection = "wrong")
=============================================================================
