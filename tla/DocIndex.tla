------------------------------- MODULE DocIndex -------------------------------
(***************************************************************************)
(* The document index: a scheduled run (app/retrieval/indexer.py) brings   *)
(* the points of the collection (app/retrieval/qdrant_store.py) in step    *)
(* with the chunk-set files of a directory.  The run is a process of its   *)
(* own: every call to the collection is a step, and the files, the         *)
(* collection and the run itself can fail between two of them.             *)
(*                                                                         *)
(* Runs never overlap and files are replaced atomically: both are stated   *)
(* as assumptions of the indexer and hold here by construction.            *)
(***************************************************************************)
EXTENDS ChunkSets, Integers

CONSTANTS
    Documents,      \* numbered in the order of their names
    Files,          \* contents a file can have, but for Garbage
    Models,         \* embedding models
    BatchSize,      \* UPSERT_BATCH_SIZE
    GuardMin,       \* ORPHAN_GUARD_MIN
    Absent, NoPoint, NotRead,
    MaxChanges,     \* bound: changes of a file or of the model
    MaxFaults       \* bound: calls that fail

Contents  == Files \cup {Garbage}
Parsable  == {f \in Files : ~Unusable(f)}
Sets      == {Parsed(raw) : raw \in Parsable}
Positions == UNION {DOMAIN set.chunks : set \in Sets}

\* index_digest: it covers the model and, with the chunks, all a point is
\* built from, so the two are the same here.
Digests      == [model : Models, set : Sets]

ASSUME IndexAssumption ==
    /\ Documents \subseteq Nat /\ IsFiniteSet(Documents)
    /\ \A f \in Files : /\ Len(f.chunks) \in Nat
                        /\ DOMAIN f.chunks = 1 .. Len(f.chunks)
    /\ Garbage \notin Files /\ NotRead \notin Files /\ NoPoint \notin Digests
    /\ BatchSize \in Nat \ {0} /\ GuardMin \in Nat
    /\ MaxChanges \in Nat /\ MaxFaults \in Nat

VARIABLES
    files,      \* the directory
    model,      \* EMBED_MODEL of the next run
    points,     \* the collection: what each point of a document was built from
    run,        \* the run of the indexer, or how the last one ended
    done,       \* auxiliary: what the last run read of a document it is through with
    changes, faults

vars == <<files, model, points, run, done, changes, faults>>

Digest(set)  == [model |-> model, set |-> set]

Stored(d)    == {i \in Positions : points[d][i] # NoPoint}
Indexed      == {d \in Documents : Stored(d) # {}}
NoPoints     == [i \in Positions |-> NoPoint]
PointsOf(digest) ==
    [i \in Positions |-> IF i \in DOMAIN digest.set.chunks THEN digest ELSE NoPoint]

Idle == [pc |-> "idle", exit |-> "none", left |-> {}, listed |-> {}, failed |-> FALSE,
         reading |-> NotRead, rest |-> {}, had |-> {}]

Init ==
    /\ files \in [Documents -> Contents \cup {Absent}]
    /\ model \in Models
    /\ points = [d \in Documents |-> NoPoints]
    /\ run = Idle
    /\ done = [d \in Documents |-> NotRead]
    /\ changes = 0 /\ faults = 0

-----------------------------------------------------------------------------
(***************************************************************************)
(* Around the run.                                                         *)
(***************************************************************************)

\* The pipeline writes, spoils or removes a file, or a mount comes and goes.
ChangeFile(d) ==
    /\ changes < MaxChanges
    /\ changes' = changes + 1
    /\ files' \in {[files EXCEPT ![d] = f] : f \in Contents \cup {Absent}}
    /\ files' # files
    /\ UNCHANGED <<model, points, run, done, faults>>

\* Another embedding model is configured; a run reads its settings once.
ChangeModel ==
    /\ run.pc = "idle" /\ changes < MaxChanges
    /\ changes' = changes + 1
    /\ model' \in Models \ {model}
    /\ UNCHANGED <<files, points, run, done, faults>>

Present == {d \in Documents : files[d] # Absent}

\* run lists the files once.  (With no directory at all it ends at once and
\* changes nothing.)
StartRun ==
    /\ run.pc = "idle"
    /\ run' = [Idle EXCEPT !.pc = "files", !.left = Present, !.listed = Present]
    /\ done' = [d \in Documents |-> NotRead]
    /\ UNCHANGED <<files, model, points, changes, faults>>

-----------------------------------------------------------------------------
(***************************************************************************)
(* One document of the list.                                               *)
(***************************************************************************)

Current == Min(run.left)

\* The document is behind us: what was read of it, unless it failed.
Through(outcome) ==
    /\ done' = [done EXCEPT ![Current] = outcome]
    /\ run' = [run EXCEPT !.pc = "files", !.left = @ \ {Current}, !.reading = NotRead,
                          !.failed = @ \/ outcome \in {NotRead, Garbage}]

\* stored_document: the payload of one point, whichever the scroll returns,
\* and `complete': as many points, all with its digest, as it was written with.
Complete(d, sample) ==
    /\ Cardinality(DOMAIN sample.set.chunks) = Cardinality(Stored(d))
    /\ \A i \in Stored(d) : points[d][i] = sample

\* Mutated form: the digest of the point that is returned is enough.
SampleDecides(d, set, sample) ==
    /\ set.sha256 # Missing
    /\ sample = Digest(set)

\* Mutated form: the hash of the document and the model are enough.
HashDecides(d, set, sample) ==
    /\ Complete(d, sample)
    /\ set.sha256 # Missing
    /\ sample.set.sha256 = set.sha256 /\ sample.model = model

\* _is_unchanged
IsUnchanged(d, set, sample) ==
    /\ Complete(d, sample)
    /\ set.sha256 # Missing
    /\ sample = Digest(set)

Reading(d) == run.pc = "files" /\ run.left # {} /\ d = Current

\* _index_file cannot read the file: the points stay, but for a tax return's.
Unreadable(d) ==
    /\ Reading(d)
    /\ files[d] \notin Parsable
    /\ \/ /\ \E i \in Stored(d) : points[d][i].set.taxReturn
          /\ run' = [run EXCEPT !.pc = "delete", !.reading = Garbage]
          /\ UNCHANGED done
       \/ /\ Stored(d) = {} \/ \E i \in Stored(d) : ~points[d][i].set.taxReturn
          /\ Through(Garbage)
    /\ UNCHANGED <<files, model, points, changes, faults>>

Readable(d) == Reading(d) /\ files[d] \in Parsable

\* A tax return without consent, or a set without text: no points are left.
NotToIndex(set) == ~MayBeIndexed(set) \/ DOMAIN set.chunks = {}

\* index_chunk_set finds the points as it would write them.
Skip(d) ==
    /\ Readable(d)
    /\ MayBeIndexed(Parsed(files[d]))
    /\ \E i \in Stored(d) : IsUnchanged(d, Parsed(files[d]), points[d][i])
    /\ Through(files[d])
    /\ UNCHANGED <<files, model, points, changes, faults>>

Withdraw(d) ==
    /\ Readable(d)
    /\ NotToIndex(Parsed(files[d]))
    /\ run' = [run EXCEPT !.pc = "delete", !.reading = files[d]]
    /\ UNCHANGED <<files, model, points, done, changes, faults>>

ToEmbed(d) ==
    /\ Readable(d)
    /\ ~NotToIndex(Parsed(files[d]))
    /\ \/ Stored(d) = {}
       \/ \E i \in Stored(d) : ~IsUnchanged(d, Parsed(files[d]), points[d][i])

\* Mutated form: the old points make room before the new ones are written.
RoomFirst(d) ==
    /\ ToEmbed(d)
    /\ run' = [run EXCEPT !.pc = "upsert", !.reading = files[d],
                          !.rest = DOMAIN Parsed(files[d]).chunks]
    /\ points' = [points EXCEPT ![d] = NoPoints]
    /\ UNCHANGED <<files, model, done, changes, faults>>

Embed(d) ==
    /\ ToEmbed(d)
    /\ run' = [run EXCEPT !.pc = "upsert", !.reading = files[d],
                          !.rest = DOMAIN Parsed(files[d]).chunks]
    /\ UNCHANGED <<files, model, points, done, changes, faults>>

\* The embedding service fails: this document, or with a refused key the run.
EmbedFails(d) ==
    /\ ToEmbed(d)
    /\ faults < MaxFaults
    /\ faults' = faults + 1
    /\ \/ Through(NotRead)
       \/ run' = [Idle EXCEPT !.exit = "stopped"] /\ UNCHANGED done
    /\ UNCHANGED <<files, model, points, changes>>

-----------------------------------------------------------------------------
(***************************************************************************)
(* Calls that change the collection.                                       *)
(***************************************************************************)

\* _write: the payload of every new point.
Writing == Digest(Parsed(run.reading))

\* The next BatchSize positions.
Batch == {i \in run.rest : Cardinality({j \in run.rest : j < i}) < BatchSize}

Deleted  == [points EXCEPT ![Current] = NoPoints]
Upserted == [points EXCEPT ![Current] = [i \in Positions |->
                IF i \in Batch THEN Writing ELSE @[i]]]
\* Points of the document that the new set does not reuse.
Pruned   == [points EXCEPT ![Current] = [i \in Positions |->
                IF i \in DOMAIN Writing.set.chunks THEN @[i] ELSE NoPoint]]

Delete ==
    /\ run.pc = "delete"
    /\ points' = Deleted
    /\ Through(run.reading)
    /\ UNCHANGED <<files, model, changes, faults>>

Upsert ==
    /\ run.pc = "upsert"
    /\ points' = Upserted
    /\ run' = [run EXCEPT !.rest = @ \ Batch,
                          !.pc = IF run.rest = Batch THEN "prune" ELSE "upsert"]
    /\ UNCHANGED <<files, model, done, changes, faults>>

Prune ==
    /\ run.pc = "prune"
    /\ points' = Pruned
    /\ Through(run.reading)
    /\ UNCHANGED <<files, model, changes, faults>>

\* A call that failed may have taken effect all the same.
MayTakeEffect ==
    \/ points' = points
    \/ run.pc \in {"delete", "orphans"} /\ points' = Deleted
    \/ run.pc = "upsert" /\ points' = Upserted
    \/ run.pc = "prune" /\ points' = Pruned

\* index_file: the collection answers a call with an error, stored_document's
\* too; only this document fails.
Refused ==
    /\ run.pc \in {"delete", "upsert", "prune"} \/ (run.pc = "files" /\ run.left # {})
    /\ faults < MaxFaults
    /\ faults' = faults + 1
    /\ MayTakeEffect
    /\ run' = [run EXCEPT !.pc = "files", !.left = @ \ {Current}, !.reading = NotRead,
                          !.rest = {}, !.failed = TRUE]
    /\ UNCHANGED <<files, model, done, changes>>

\* The collection stops answering, or the process ends.  A refusal in the sweep
\* stops the run as well.
Stopped ==
    /\ run.pc # "idle"
    /\ faults < MaxFaults
    /\ faults' = faults + 1
    /\ MayTakeEffect
    /\ run' = [Idle EXCEPT !.exit = "stopped"]
    /\ UNCHANGED <<files, model, done, changes>>

-----------------------------------------------------------------------------
(***************************************************************************)
(* _sweep_orphans, once every file of the list was handled.                *)
(***************************************************************************)

End(state) == [state EXCEPT !.pc = "idle",
                            !.exit = IF run.failed THEN "failures" ELSE "ok"]

Orphans == Indexed \ run.listed

\* Mutated form: the orphans are compared with the files and not with what is
\* indexed.
MoreThanListed(orphans) ==
    \/ run.listed = {}
    \/ Cardinality(orphans) >= GuardMin /\ Cardinality(orphans) > Cardinality(run.listed)

\* The directory, or most of it, may not be mounted.
NotReady(orphans) ==
    \/ run.listed = {}
    \/ Cardinality(orphans) >= GuardMin /\ Cardinality(orphans) * 2 > Cardinality(Indexed)

Sweep ==
    /\ run.pc = "files" /\ run.left = {}
    /\ IF NotReady(Orphans) \/ Orphans = {}
       THEN run' = End(run)
       ELSE run' = [run EXCEPT !.pc = "orphans", !.left = Orphans, !.had = Indexed]
    /\ UNCHANGED <<files, model, points, done, changes, faults>>

Remove ==
    /\ run.pc = "orphans"
    /\ points' = Deleted
    /\ run' = IF run.left = {Current}
              THEN End([run EXCEPT !.left = {}, !.had = {}])
              ELSE [run EXCEPT !.left = @ \ {Current}]
    /\ UNCHANGED <<files, model, done, changes, faults>>

-----------------------------------------------------------------------------
Handle(d) ==
    \/ Unreadable(d) \/ Skip(d) \/ Withdraw(d) \/ Embed(d)

Progress ==
    \/ \E d \in Documents : Handle(d)
    \/ Delete \/ Upsert \/ Prune \/ Sweep \/ Remove

Fault == Refused \/ Stopped \/ \E d \in Documents : EmbedFails(d)

Next ==
    \/ StartRun \/ Progress \/ Fault \/ ChangeModel
    \/ \E d \in Documents : ChangeFile(d)

Spec == Init /\ [][Next]_vars

\* The indexer is a scheduled command, and a run that is not stopped goes on.
FairSpec == Spec /\ WF_vars(StartRun) /\ WF_vars(Progress)

-----------------------------------------------------------------------------
(***************************************************************************)
(* Properties.                                                             *)
(***************************************************************************)

Runs == [pc : {"idle", "files", "delete", "upsert", "prune", "orphans"},
         exit : {"none", "ok", "failures", "stopped"},
         left : SUBSET Documents, listed : SUBSET Documents, failed : BOOLEAN,
         reading : Contents \cup {NotRead}, rest : SUBSET Positions,
         had : SUBSET Documents]

\* Every variable holds what the code can store in it.
TypeOK ==
    /\ files \in [Documents -> Contents \cup {Absent}]
    /\ model \in Models
    /\ points \in [Documents -> [Positions -> Digests \cup {NoPoint}]]
    /\ run \in Runs
    /\ done \in [Documents -> Contents \cup {NotRead}]
    /\ changes \in 0 .. MaxChanges /\ faults \in 0 .. MaxFaults

Expected(raw) ==
    IF NotToIndex(Parsed(raw)) THEN NoPoints ELSE PointsOf(Digest(Parsed(raw)))

\* A document the run is through with has the points of the file the run read
\* and no other, whatever earlier runs left half written: what _is_unchanged,
\* the batches and the last delete of replace_document add up to.
HandledIsExact ==
    run.pc # "idle" =>
        \A d \in Documents : done[d] \in Parsable => points[d] = Expected(done[d])

\* A document that may be a tax return, and whose set has a chunk that does not
\* say it has consent, has no points once its file was handled: the fail-closed
\* rules of chunk_sets carried through to the collection.
ConsentFailsClosed ==
    \A d \in Documents :
        /\ done[d] \in Files
        /\ \A s \in Sources(done[d]) : s.names \subseteq TaxNames \cup {Odd, Blank}
        /\ \E c \in Chunks(done[d]) : c.consent # TRUE
        => Stored(d) = {}

\* While a document is written again there is always something of it to find:
\* its last point goes only when it is not to be indexed, its file cannot be
\* read, or it has no file ("new and old points mixed, never none").
NeverNone ==
    [][\A d \in Documents :
          Stored(d) # {} /\ Stored(d)' = {} =>
              \/ d \notin run.listed
              \/ run.reading = Garbage
              \/ run.reading \in Files /\ NotToIndex(Parsed(run.reading))]_vars

\* All deletes of one sweep together leave at least half of the documents,
\* unless fewer than the guard's number go, and a sweep that saw no file at all
\* removes nothing.
SweepKeepsMost ==
    [][LET gone == run.had \ Indexed' IN
       run.pc = "orphans" =>
           /\ run.listed # {}
           /\ Cardinality(gone) < GuardMin \/ Cardinality(gone) * 2 <= Cardinality(run.had)]_vars

\* Once the files and the model stay and calls stop failing, the points of
\* every readable file are those of the file, for good.
CatchesUp ==
    <>[](\A d \in Documents :
            files[d] \in Parsable => points[d] = Expected(files[d]))

\* "A file that cannot be read keeps its existing points, unless those points
\* are a tax return, which are deleted" (the module's description): no point of
\* a tax return is left of a document whose file could not be read.
UnreadableTaxGone ==
    \A d \in Documents : \A i \in Stored(d) :
        done[d] = Garbage => ~points[d][i].set.taxReturn
==============================================================================
