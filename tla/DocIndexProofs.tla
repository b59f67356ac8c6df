---------------------------- MODULE DocIndexProofs ----------------------------
(***************************************************************************)
(* Theorems about DocIndex, for any documents, files, models, batch size   *)
(* and guard, and any number of changes and faults.                        *)
(***************************************************************************)
EXTENDS DocIndex, FiniteSetTheorems, WellFoundedInduction, TLAPS

\* A set that was read and is to be indexed.
ToWrite(raw) == raw \in Parsable /\ ~NotToIndex(Parsed(raw))

-----------------------------------------------------------------------------
(***************************************************************************)
(* The inductive invariant, in parts.                                      *)
(***************************************************************************)
\* Every point is one that its set has: no point sits where its set has no text.
PointsInPlace ==
    \A d \in Documents : \A i \in Stored(d) : i \in DOMAIN points[d][i].set.chunks

\* A run works on documents it is not through with yet: listed ones, then the
\* orphans, which were not listed.
LeftToDo ==
    /\ run.pc \in {"delete", "upsert", "prune", "orphans"} => run.left # {}
    /\ run.pc \in {"files", "delete", "upsert", "prune"} => run.left \subseteq run.listed
    /\ run.pc = "orphans" => run.left \cap run.listed = {}
    /\ \A d \in Documents :
         run.pc # "idle" /\ (d \in run.left \/ d \notin run.listed) => done[d] = NotRead

\* What was read says which calls are made.
ReadingFits ==
    /\ run.pc = "delete" =>
          run.reading = Garbage \/ (run.reading \in Parsable /\ ~ToWrite(run.reading))
    /\ run.pc \in {"upsert", "prune"} => ToWrite(run.reading)

\* The batches that went up are in place.
BatchesUp ==
    run.pc \in {"upsert", "prune"} =>
        /\ run.rest \subseteq DOMAIN Writing.set.chunks
        /\ run.pc = "prune" => run.rest = {}
        /\ \A i \in DOMAIN Writing.set.chunks \ run.rest : points[Current][i] = Writing

\* What was handled: its points are those of the set that was read, with the
\* model of the run; without points it stays, whatever the model.
Handled ==
    \A d \in Documents :
        /\ done[d] \in Parsable \cup {Garbage, NotRead}
        /\ done[d] \in Parsable /\ ~ToWrite(done[d]) => points[d] = NoPoints
        /\ done[d] \in Parsable /\ run.pc # "idle" => points[d] = Expected(done[d])

\* A sweep takes what was indexed when it began and was not listed, and the
\* guard let that pass.
SweepInBounds ==
    run.pc = "orphans" =>
        /\ run.listed # {}
        /\ run.left \subseteq run.had
        /\ run.had \cap run.listed \subseteq Indexed
        /\ ~(/\ Cardinality(run.had \ run.listed) >= GuardMin
             /\ Cardinality(run.had \ run.listed) * 2 > Cardinality(run.had))

IInv ==
    /\ TypeOK
    /\ PointsInPlace
    /\ LeftToDo
    /\ ReadingFits
    /\ BatchesUp
    /\ Handled
    /\ SweepInBounds

-----------------------------------------------------------------------------
(***************************************************************************)
(* Facts about the files, the points and the record of a run.              *)
(***************************************************************************)
\* A set of naturals has a least member.
LEMMA Least ==
  ASSUME NEW T \in SUBSET Nat, T # {}
  PROVE  \E x \in T : \A y \in T : x <= y
<1> DEFINE R == {ss \in Nat \X Nat : ss[1] < ss[2]}
<1>1. IsWellFoundedOn(R, Nat)
  BY NatLessThanWellFounded DEF OpToRel
<1>2. PICK x \in T : \A y \in T : <<y, x>> \notin R
  BY <1>1, WFMin
<1>3. \A y \in T : ~(y < x)
  BY <1>2
<1>. QED
  BY <1>3

\* The document whose turn it is is one that is left.
LEMMA CurrentIsLeft ==
  ASSUME TypeOK, run.left # {}
  PROVE  Current \in run.left /\ Current \in Documents
<1>1. run.left \subseteq Documents /\ run.left \in SUBSET Nat
  BY IndexAssumption DEF TypeOK, Runs
<1>2. \E x \in run.left : \A y \in run.left : x <= y
  BY <1>1, Least
<1>. QED
  BY <1>1, <1>2 DEF Current, Min

\* A readable file makes a set, and its texts have positions.
LEMMA ParsedFacts ==
  ASSUME NEW raw \in Parsable
  PROVE  /\ Parsed(raw) \in Sets
         /\ DOMAIN Parsed(raw).chunks \subseteq Positions
         /\ IsFiniteSet(DOMAIN Parsed(raw).chunks)
<1>1. Parsed(raw) \in Sets
  BY DEF Sets
<1>2. DOMAIN Parsed(raw).chunks \subseteq DOMAIN raw.chunks
  BY DEF Parsed, Texts
<1>3. IsFiniteSet(DOMAIN raw.chunks)
  BY IndexAssumption, FS_Interval DEF Parsable
<1>4. IsFiniteSet(DOMAIN Parsed(raw).chunks)
  BY <1>2, <1>3, FS_Subset
<1>. QED
  BY <1>1, <1>4 DEF Positions

\* The markers are no contents of a file, and no digest.
LEMMA Markers ==
  /\ Garbage \notin Parsable /\ NotRead \notin Parsable
  /\ NoPoint \notin Digests
  BY IndexAssumption DEF Parsable

Rows == [Positions -> Digests \cup {NoPoint}]

\* What is written is a digest, for a set that was read.
LEMMA WritingType ==
  ASSUME TypeOK, run.reading \in Parsable
  PROVE  /\ Writing \in Digests /\ Writing # NoPoint
         /\ Writing.set = Parsed(run.reading) /\ Writing.model = model
<1>1. Parsed(run.reading) \in Sets
  BY ParsedFacts
<1>2. Writing \in Digests
  BY <1>1 DEF TypeOK, Writing, Digest, Digests
<1>. QED
  BY <1>2, Markers DEF Writing, Digest

\* The calls replace the points of one document.
LEMMA CallsType ==
  ASSUME TypeOK
  PROVE  /\ Deleted \in [Documents -> Rows]
         /\ run.reading \in Parsable =>
               Upserted \in [Documents -> Rows] /\ Pruned \in [Documents -> Rows]
<1>1. points \in [Documents -> Rows]
  BY DEF TypeOK, Rows
<1>2. NoPoints \in Rows
  BY DEF NoPoints, Rows
<1>3. Deleted \in [Documents -> Rows]
  BY <1>1, <1>2 DEF Deleted
<1>4. ASSUME run.reading \in Parsable
      PROVE  Upserted \in [Documents -> Rows] /\ Pruned \in [Documents -> Rows]
  <2>1. Writing \in Digests
    BY <1>4, WritingType
  <2>2. \A row \in Rows :
          /\ [i \in Positions |-> IF i \in Batch THEN Writing ELSE row[i]] \in Rows
          /\ [i \in Positions |-> IF i \in DOMAIN Writing.set.chunks
                                  THEN row[i] ELSE NoPoint] \in Rows
    BY <2>1 DEF Rows
  <2> HIDE DEF Rows
  <2>3. Upserted \in [Documents -> Rows]
    BY <1>1, <2>2 DEF Upserted
  <2>4. Pruned \in [Documents -> Rows]
    BY <1>1, <2>2 DEF Pruned
  <2>. QED
    BY <2>3, <2>4
<1>. QED
  BY <1>3, <1>4

-----------------------------------------------------------------------------
(***************************************************************************)
(* Type correctness.                                                       *)
(***************************************************************************)
\* Before the first run everything has its type.
LEMMA InitType == Init => TypeOK
<1>1. Idle \in Runs
  BY DEF Idle, Runs
<1>2. NoPoints \in [Positions -> Digests \cup {NoPoint}]
  BY DEF NoPoints
<1>. QED
  BY <1>1, <1>2, IndexAssumption DEF Init, TypeOK

\* A run that stops, for whatever reason, has forgotten everything.
LEMMA IdleType ==
  ASSUME NEW exit \in {"none", "ok", "failures", "stopped"}
  PROVE  [Idle EXCEPT !.exit = exit] \in Runs
  BY DEF Idle, Runs

\* Going on to the next document, with what was read of this one.
LEMMA ThroughType ==
  ASSUME TypeOK, NEW outcome \in Contents \cup {NotRead}, Through(outcome)
  PROVE  run' \in Runs /\ done' \in [Documents -> Contents \cup {NotRead}]
<1>1. done' \in [Documents -> Contents \cup {NotRead}]
  BY DEF TypeOK, Through
<1>2. PICK left \in SUBSET Documents : left = run.left \ {Current}
  BY DEF TypeOK, Runs
<1>3. PICK failed \in BOOLEAN : failed = (run.failed \/ outcome \in {NotRead, Garbage})
  BY DEF TypeOK, Runs
<1>4. run' = [run EXCEPT !.pc = "files", !.left = left, !.reading = NotRead,
                         !.failed = failed]
  BY <1>2, <1>3 DEF Through
<1>5. run \in Runs
  BY DEF TypeOK
<1>6. run' \in Runs
  BY <1>4, <1>5 DEF Runs
<1>. QED
  BY <1>1, <1>6

\* Every step of a run, and every change around it, keeps the types.
LEMMA TypeStep == TypeOK /\ ReadingFits /\ [Next]_vars => TypeOK'
<1> SUFFICES ASSUME TypeOK, ReadingFits, [Next]_vars PROVE TypeOK'
  OBVIOUS
<1> DEFINE Pcs == {"idle", "files", "delete", "upsert", "prune", "orphans"}
           Exits == {"none", "ok", "failures", "stopped"}
<1>1. /\ files \in [Documents -> Contents \cup {Absent}] /\ model \in Models
      /\ points \in [Documents -> Rows] /\ run \in Runs
      /\ done \in [Documents -> Contents \cup {NotRead}]
      /\ changes \in 0 .. MaxChanges /\ faults \in 0 .. MaxFaults
      /\ MaxChanges \in Nat /\ MaxFaults \in Nat
  BY IndexAssumption DEF TypeOK, Rows
<1>2. /\ run.left \in SUBSET Documents /\ run.listed \in SUBSET Documents
      /\ run.rest \in SUBSET Positions /\ run.had \in SUBSET Documents
      /\ run.reading \in Contents \cup {NotRead} /\ run.failed \in BOOLEAN
      /\ run.pc \in Pcs /\ run.exit \in Exits
  BY <1>1 DEF Runs
<1>3. CASE UNCHANGED vars
  BY <1>3 DEF TypeOK, vars
<1>4. CASE StartRun
  <2>1. Present \in SUBSET Documents
    BY DEF Present
  <2>2. run' \in Runs
    BY <1>4, <2>1 DEF StartRun, Idle, Runs
  <2>. QED
    BY <1>1, <1>4, <2>2 DEF StartRun, TypeOK, Rows
<1>5. CASE ChangeModel
  BY <1>1, <1>5 DEF ChangeModel, TypeOK, Rows
<1>6. ASSUME NEW d \in Documents, ChangeFile(d) PROVE TypeOK'
  BY <1>1, <1>6 DEF ChangeFile, TypeOK, Rows
<1>7. ASSUME NEW d \in Documents, Handle(d) PROVE TypeOK'
  <2>1. CASE Unreadable(d)
    <3>1. CASE Through(Garbage)
      <4>1. run' \in Runs /\ done' \in [Documents -> Contents \cup {NotRead}]
        BY <3>1, ThroughType DEF Contents
      <4>. QED
        BY <1>1, <2>1, <4>1 DEF Unreadable, TypeOK, Rows
    <3>2. CASE run' = [run EXCEPT !.pc = "delete", !.reading = Garbage] /\ UNCHANGED done
      <4>1. run' \in Runs
        BY <1>1, <3>2 DEF Runs, Contents
      <4>. QED
        BY <1>1, <2>1, <3>2, <4>1 DEF Unreadable, TypeOK, Rows
    <3>. QED
      BY <2>1, <3>1, <3>2 DEF Unreadable
  <2>2. ASSUME Readable(d)
        PROVE  files[d] \in Parsable /\ files[d] \in Contents \cup {NotRead}
    BY <2>2 DEF Readable, Parsable, Contents
  <2>3. CASE Skip(d)
    <3>1. run' \in Runs /\ done' \in [Documents -> Contents \cup {NotRead}]
      BY <2>2, <2>3, ThroughType DEF Skip
    <3>. QED
      BY <1>1, <2>3, <3>1 DEF Skip, TypeOK, Rows
  <2>4. CASE Withdraw(d)
    <3>1. run' \in Runs
      BY <1>1, <2>2, <2>4 DEF Withdraw, Runs
    <3>. QED
      BY <1>1, <2>4, <3>1 DEF Withdraw, TypeOK, Rows
  <2>5. CASE Embed(d)
    <3>1. DOMAIN Parsed(files[d]).chunks \in SUBSET Positions
      BY <2>2, <2>5, ParsedFacts DEF Embed, ToEmbed
    <3>2. run' \in Runs
      BY <1>1, <2>2, <2>5, <3>1 DEF Embed, ToEmbed, Runs
    <3>. QED
      BY <1>1, <2>5, <3>2 DEF Embed, TypeOK, Rows
  <2>. QED
    BY <1>7, <2>1, <2>3, <2>4, <2>5 DEF Handle
<1>8. ASSUME run.pc \in {"upsert", "prune"}
      PROVE  Upserted \in [Documents -> Rows] /\ Pruned \in [Documents -> Rows]
  BY <1>8, CallsType DEF ReadingFits, ToWrite
<1>9. Deleted \in [Documents -> Rows]
  BY CallsType
<1>10. CASE Delete
  <2>1. run' \in Runs /\ done' \in [Documents -> Contents \cup {NotRead}]
    BY <1>2, <1>10, ThroughType DEF Delete
  <2>. QED
    BY <1>1, <1>9, <1>10, <2>1 DEF Delete, TypeOK, Rows
<1>11. CASE Upsert
  <2>1. run' \in Runs
    BY <1>1, <1>2, <1>11 DEF Upsert, Runs
  <2>. QED
    BY <1>1, <1>8, <1>11, <2>1 DEF Upsert, TypeOK, Rows
<1>12. CASE Prune
  <2>1. run' \in Runs /\ done' \in [Documents -> Contents \cup {NotRead}]
    BY <1>2, <1>12, ThroughType DEF Prune
  <2>. QED
    BY <1>1, <1>8, <1>12, <2>1 DEF Prune, TypeOK, Rows
<1>13. CASE Sweep
  <2>1. End(run) \in Runs
    BY <1>1 DEF End, Runs
  <2>2. Orphans \in SUBSET Documents /\ Indexed \in SUBSET Documents
    BY DEF Orphans, Indexed
  <2>3. [run EXCEPT !.pc = "orphans", !.left = Orphans, !.had = Indexed] \in Runs
    BY <1>1, <2>2 DEF Runs
  <2>4. run' \in Runs
    BY <1>13, <2>1, <2>3 DEF Sweep
  <2>. QED
    BY <1>1, <1>13, <2>4 DEF Sweep, TypeOK, Rows
<1>14. CASE Remove
  <2>1. PICK state : state = [run EXCEPT !.left = {}, !.had = {}]
    OBVIOUS
  <2>2. state \in Runs
    BY <1>1, <2>1 DEF Runs
  <2>3. End(state) \in Runs
    BY <1>2, <2>2 DEF End, Runs
  <2>4. [run EXCEPT !.left = run.left \ {Current}] \in Runs
    BY <1>1, <1>2 DEF Runs
  <2>5. run' \in Runs
    BY <1>14, <2>1, <2>3, <2>4 DEF Remove
  <2>. QED
    BY <1>1, <1>9, <1>14, <2>5 DEF Remove, TypeOK, Rows
<1>15. MayTakeEffect => points' \in [Documents -> Rows]
  BY <1>1, <1>8, <1>9 DEF MayTakeEffect
<1>16. CASE Refused \/ Stopped
  <2>1. run' \in Runs
    <3>1. CASE Refused
      BY <1>1, <1>2, <3>1 DEF Refused, Runs
    <3>2. CASE Stopped
      BY <3>2, IdleType DEF Stopped
    <3>. QED
      BY <1>16, <3>1, <3>2
  <2>. QED
    BY <1>1, <1>15, <1>16, <2>1 DEF Refused, Stopped, TypeOK, Rows
<1>17. ASSUME NEW d \in Documents, EmbedFails(d) PROVE TypeOK'
  <2>1. run' \in Runs /\ done' \in [Documents -> Contents \cup {NotRead}]
    <3>1. CASE Through(NotRead)
      BY <3>1, ThroughType
    <3>2. CASE run' = [Idle EXCEPT !.exit = "stopped"] /\ UNCHANGED done
      BY <1>1, <3>2, IdleType
    <3>. QED
      BY <1>17, <3>1, <3>2 DEF EmbedFails
  <2>. QED
    BY <1>1, <1>17, <2>1 DEF EmbedFails, TypeOK, Rows
<1>. QED
  BY <1>3, <1>4, <1>5, <1>6, <1>7, <1>10, <1>11, <1>12, <1>13, <1>14, <1>15, <1>16,
     <1>17 DEF Next, Progress, Fault


-----------------------------------------------------------------------------
(***************************************************************************)
(* The calls.                                                              *)
(***************************************************************************)
\* A call changes the points of the one document whose turn it is, and leaves
\* every point in its place.
LEMMA CallEffect ==
  ASSUME IInv,
         \/ run.pc \in {"delete", "orphans"} /\ points' = Deleted
         \/ run.pc = "upsert" /\ points' = Upserted
         \/ run.pc = "prune" /\ points' = Pruned
  PROVE  /\ Current \in run.left /\ Current \in Documents /\ done[Current] = NotRead
         /\ \A d \in Documents : d # Current => points'[d] = points[d]
         /\ run.pc \in {"delete", "orphans"} => points'[Current] = NoPoints
         /\ run.pc = "upsert" => \A i \in Positions :
              points'[Current][i] = IF i \in Batch THEN Writing ELSE points[Current][i]
         /\ run.pc = "prune" => \A i \in Positions :
              points'[Current][i] = IF i \in DOMAIN Writing.set.chunks
                                    THEN points[Current][i] ELSE NoPoint
         /\ PointsInPlace'
<1>1. /\ TypeOK /\ PointsInPlace /\ LeftToDo /\ ReadingFits /\ BatchesUp
      /\ points \in [Documents -> Rows]
  BY DEF IInv, TypeOK, Rows
<1>2. run.left # {}
  BY <1>1 DEF LeftToDo
<1>3. Current \in run.left /\ Current \in Documents
  BY <1>1, <1>2, CurrentIsLeft
<1>4. done[Current] = NotRead
  BY <1>1, <1>3 DEF LeftToDo
<1>5. \A d \in Documents : d # Current => points'[d] = points[d]
  BY <1>1 DEF Deleted, Upserted, Pruned
<1>6. run.pc \in {"delete", "orphans"} => points'[Current] = NoPoints
  BY <1>1, <1>3 DEF Deleted
<1>7. run.pc = "upsert" => \A i \in Positions :
        points'[Current][i] = IF i \in Batch THEN Writing ELSE points[Current][i]
  BY <1>1, <1>3 DEF Upserted
<1>8. run.pc = "prune" => \A i \in Positions :
        points'[Current][i] = IF i \in DOMAIN Writing.set.chunks
                              THEN points[Current][i] ELSE NoPoint
  BY <1>1, <1>3 DEF Pruned
<1>9. ASSUME NEW d \in Documents, NEW i \in Positions, points'[d][i] # NoPoint
      PROVE  i \in DOMAIN points'[d][i].set.chunks
  <2>1. ASSUME points[d][i] # NoPoint PROVE i \in DOMAIN points[d][i].set.chunks
    BY <1>1, <2>1 DEF PointsInPlace, Stored
  <2>2. CASE d # Current
    BY <1>5, <1>9, <2>1, <2>2
  <2>3. CASE d = Current /\ run.pc \in {"delete", "orphans"}
    BY <1>6, <1>9, <2>3 DEF NoPoints
  <2>4. CASE d = Current /\ run.pc = "upsert"
    <3>1. ASSUME i \in Batch PROVE i \in DOMAIN Writing.set.chunks
      BY <1>1, <2>4, <3>1 DEF Batch, BatchesUp
    <3>. QED
      BY <1>7, <1>9, <2>1, <2>4, <3>1
  <2>5. CASE d = Current /\ run.pc = "prune"
    BY <1>8, <1>9, <2>1, <2>5
  <2>. QED
    BY <2>2, <2>3, <2>4, <2>5
<1>10. PointsInPlace'
  BY <1>9 DEF PointsInPlace, Stored
<1>. QED
  BY <1>3, <1>4, <1>5, <1>6, <1>7, <1>8, <1>10

\* Points that are found as they would be written are exactly the document's:
\* as many as the set has texts, and each in its place.
LEMMA UnchangedIsExact ==
  ASSUME IInv, NEW d \in Documents, NEW raw \in Parsable, MayBeIndexed(Parsed(raw)),
         NEW i \in Stored(d), IsUnchanged(d, Parsed(raw), points[d][i])
  PROVE  points[d] = Expected(raw)
<1> DEFINE digest == Digest(Parsed(raw))
           texts == DOMAIN Parsed(raw).chunks
<1>1. /\ points[d] \in Rows /\ i \in Positions /\ points[d][i] # NoPoint
      /\ Stored(d) \subseteq Positions
  BY DEF IInv, TypeOK, Rows, Stored
<1>2. /\ points[d][i] = digest
      /\ Cardinality(texts) = Cardinality(Stored(d))
      /\ \A j \in Stored(d) : points[d][j] = digest
  BY DEF IsUnchanged, Complete, Digest
<1>3. IsFiniteSet(texts) /\ texts \subseteq Positions
  BY ParsedFacts
<1>4. Stored(d) \subseteq texts
  BY <1>2 DEF IInv, PointsInPlace, Digest
<1>5. Stored(d) = texts
  BY <1>2, <1>3, <1>4, FS_Subset, Zenon
<1>6. ~NotToIndex(Parsed(raw))
  BY <1>5 DEF NotToIndex
<1>7. \A j \in Positions : points[d][j] = IF j \in texts THEN digest ELSE NoPoint
  BY <1>1, <1>2, <1>5 DEF Stored
<1>8. points[d] = [j \in Positions |-> IF j \in texts THEN digest ELSE NoPoint]
  BY <1>1, <1>7 DEF Rows
<1>. QED
  BY <1>6, <1>8 DEF Expected, PointsOf, Digest

\* The last delete leaves exactly the document's points.
LEMMA PruneIsExact ==
  ASSUME IInv, run.pc = "prune", points' = Pruned
  PROVE  points'[Current] = Expected(run.reading)
<1>1. /\ TypeOK /\ BatchesUp /\ ToWrite(run.reading)
      /\ points \in [Documents -> Rows]
  BY DEF IInv, ReadingFits, TypeOK, Rows
<1>2. /\ Current \in Documents
      /\ \A i \in Positions : points'[Current][i] = IF i \in DOMAIN Writing.set.chunks
                                                    THEN points[Current][i] ELSE NoPoint
  BY CallEffect
<1>3. \A i \in DOMAIN Writing.set.chunks : points[Current][i] = Writing
  BY <1>1 DEF BatchesUp
<1>4. \A i \in Positions : points'[Current][i] = PointsOf(Writing)[i]
  BY <1>2, <1>3 DEF PointsOf
<1>5. points'[Current] \in Rows
  BY <1>1, <1>2, CallsType DEF ToWrite
<1>6. points'[Current] = PointsOf(Writing)
  BY <1>4, <1>5 DEF Rows, PointsOf
<1>. QED
  BY <1>1, <1>6 DEF Expected, ToWrite, Writing


-----------------------------------------------------------------------------
(***************************************************************************)
(* The steps of a run.                                                     *)
(***************************************************************************)
\* All of the invariant but the types and the places.
Course == LeftToDo /\ ReadingFits /\ BatchesUp /\ Handled /\ SweepInBounds

\* Going on to the next document keeps it, when a document that was handled has
\* exactly its points.
LEMMA GoOn ==
  ASSUME IInv, run.pc \in {"files", "delete", "upsert", "prune"}, run.left # {},
         run'.pc = "files", run'.left = run.left \ {Current}, run'.listed = run.listed,
         model' = model,
         NEW outcome \in Parsable \cup {Garbage, NotRead},
         \A d \in Documents : done'[d] = IF d = Current THEN outcome ELSE done[d],
         \A d \in Documents : d # Current => points'[d] = points[d],
         outcome \in Parsable => points'[Current] = Expected(outcome)
  PROVE  Course'
<1>1. /\ TypeOK /\ LeftToDo /\ Handled
      /\ Current \in run.left /\ Current \in Documents /\ run.left \subseteq run.listed
  BY CurrentIsLeft DEF IInv, LeftToDo
<1>2. LeftToDo'
  BY <1>1 DEF LeftToDo
<1>3. ReadingFits' /\ BatchesUp' /\ SweepInBounds'
  BY DEF ReadingFits, BatchesUp, SweepInBounds
<1>4. \A raw \in Parsable : ~ToWrite(raw) => Expected(raw) = NoPoints
  BY DEF Expected, ToWrite
<1>5. \A raw : Expected(raw)' = Expected(raw)
  BY DEF Expected, Digest
<1>6. ASSUME NEW d \in Documents
      PROVE  /\ done'[d] \in Parsable \cup {Garbage, NotRead}
             /\ done'[d] \in Parsable /\ ~ToWrite(done'[d]) => points'[d] = NoPoints
             /\ done'[d] \in Parsable => points'[d] = Expected(done'[d])
  <2>1. CASE d = Current
    BY <1>1, <1>4, <2>1
  <2>2. CASE d # Current
    BY <1>1, <2>2 DEF Handled
  <2>. QED
    BY <2>1, <2>2
<1>7. Handled'
  BY <1>5, <1>6 DEF Handled, Expected, Digest
<1>. QED
  BY <1>2, <1>3, <1>7 DEF Course

\* A run that ends or is stopped, at whatever call, leaves what was handled
\* without points as it is.
LEMMA Halt ==
  ASSUME IInv, run'.pc = "idle", done' = done,
         \A d \in Documents : done[d] # NotRead => points'[d] = points[d]
  PROVE  Course'
<1>1. LeftToDo' /\ ReadingFits' /\ BatchesUp' /\ SweepInBounds'
  BY DEF LeftToDo, ReadingFits, BatchesUp, SweepInBounds
<1>2. Handled'
  BY Markers DEF IInv, Handled
<1>. QED
  BY <1>1, <1>2 DEF Course

\* The points stay in place while nobody writes.
LEMMA PlacesStay ==
  ASSUME PointsInPlace, points' = points
  PROVE  PointsInPlace'
  BY DEF PointsInPlace, Stored

\* A new run has handled nothing.
LEMMA StartRunStep ==
  ASSUME IInv, StartRun
  PROVE  PointsInPlace' /\ Course'
<1>1. /\ run'.pc = "files" /\ run'.left = Present /\ run'.listed = Present
      /\ points' = points
      /\ \A d \in Documents : done'[d] = NotRead
  BY DEF StartRun, Idle
<1>2. LeftToDo' /\ ReadingFits' /\ BatchesUp' /\ SweepInBounds'
  BY <1>1 DEF LeftToDo, ReadingFits, BatchesUp, SweepInBounds
<1>3. Handled'
  BY <1>1, Markers DEF Handled
<1>. QED
  BY <1>1, <1>2, <1>3, PlacesStay DEF IInv, Course

\* What is read of a file decides the next call.
LEMMA HandleStep ==
  ASSUME IInv, NEW d \in Documents, Handle(d)
  PROVE  PointsInPlace' /\ Course'
<1>1. /\ TypeOK /\ PointsInPlace /\ LeftToDo /\ Handled /\ run \in Runs
      /\ done \in [Documents -> Contents \cup {NotRead}]
      /\ run.left # {} /\ run.pc = "files" /\ d = Current /\ d \in Documents
      /\ model' = model /\ points' = points
  BY DEF IInv, TypeOK, Handle, Unreadable, Skip, Withdraw, Embed, Readable, Reading,
         ToEmbed
<1>2. PointsInPlace'
  BY <1>1, PlacesStay
<1>3. ASSUME NEW outcome \in Parsable \cup {Garbage, NotRead}, Through(outcome),
             outcome \in Parsable => points[Current] = Expected(outcome)
      PROVE  Course'
  <2>1. /\ run'.pc = "files" /\ run'.left = run.left \ {Current}
        /\ run'.listed = run.listed
        /\ \A b \in Documents : done'[b] = IF b = Current THEN outcome ELSE done[b]
    BY <1>1, <1>3 DEF Through, Runs
  <2>. QED
    BY <1>1, <1>3, <2>1, GoOn
<1>4. ASSUME run'.pc \in {"delete", "upsert"}, run'.left = run.left,
             run'.listed = run.listed, done' = done,
             run'.pc = "delete" => \/ run'.reading = Garbage
                                   \/ /\ run'.reading \in Parsable
                                      /\ ~ToWrite(run'.reading),
             run'.pc = "upsert" => /\ ToWrite(run'.reading)
                                   /\ run'.rest = DOMAIN Writing'.set.chunks
      PROVE  Course'
  <2>1. LeftToDo'
    BY <1>1, <1>4 DEF LeftToDo
  <2>2. ReadingFits'
    BY <1>4 DEF ReadingFits
  <2>3. BatchesUp'
    BY <1>4 DEF BatchesUp
  <2>4. Handled'
    BY <1>1, <1>4 DEF Handled, Expected, Digest
  <2>5. SweepInBounds'
    BY <1>4 DEF SweepInBounds
  <2>. QED
    BY <2>1, <2>2, <2>3, <2>4, <2>5 DEF Course
<1>5. CASE Unreadable(d)
  <2>1. CASE Through(Garbage)
    BY <1>2, <1>3, <2>1, Markers
  <2>2. CASE run' = [run EXCEPT !.pc = "delete", !.reading = Garbage] /\ UNCHANGED done
    BY <1>1, <1>2, <1>4, <2>2 DEF Runs
  <2>. QED
    BY <1>5, <2>1, <2>2 DEF Unreadable
<1>6. CASE Skip(d)
  <2>1. files[d] \in Parsable /\ points[d] = Expected(files[d])
    BY <1>6, UnchangedIsExact DEF Skip, Readable
  <2>. QED
    BY <1>1, <1>2, <1>3, <1>6, <2>1 DEF Skip
<1>7. CASE Withdraw(d)
  <2>1. files[d] \in Parsable /\ ~ToWrite(files[d])
    BY <1>7 DEF Withdraw, Readable, ToWrite
  <2>2. /\ run'.pc = "delete" /\ run'.left = run.left /\ run'.listed = run.listed
        /\ done' = done /\ run'.reading = files[d]
    BY <1>1, <1>7 DEF Withdraw, Runs
  <2>. QED
    BY <1>2, <1>4, <2>1, <2>2
<1>8. CASE Embed(d)
  <2>1. ToWrite(files[d])
    BY <1>8 DEF Embed, ToEmbed, Readable, ToWrite
  <2>2. /\ run'.pc = "upsert" /\ run'.left = run.left /\ run'.listed = run.listed
        /\ done' = done /\ run'.reading = files[d]
        /\ run'.rest = DOMAIN Parsed(files[d]).chunks
    BY <1>1, <1>8 DEF Embed, Runs
  <2>3. Writing'.set = Parsed(files[d])
    BY <2>2 DEF Writing, Digest
  <2>. QED
    BY <1>2, <1>4, <2>1, <2>2, <2>3
<1>. QED
  BY <1>5, <1>6, <1>7, <1>8 DEF Handle


\* A batch goes up.
LEMMA UpsertStep ==
  ASSUME IInv, Upsert
  PROVE  PointsInPlace' /\ Course'
<1>1. /\ TypeOK /\ LeftToDo /\ ReadingFits /\ BatchesUp /\ Handled /\ run \in Runs
      /\ run.pc = "upsert" /\ points' = Upserted /\ model' = model /\ done' = done
  BY DEF IInv, TypeOK, Upsert
<1>2. /\ run'.pc = (IF run.rest = Batch THEN "prune" ELSE "upsert")
      /\ run'.left = run.left /\ run'.listed = run.listed
      /\ run'.reading = run.reading /\ run'.rest = run.rest \ Batch
  BY <1>1 DEF Upsert, Runs
<1>3. /\ Current \in Documents /\ done[Current] = NotRead
      /\ \A d \in Documents : d # Current => points'[d] = points[d]
      /\ \A i \in Positions :
           points'[Current][i] = IF i \in Batch THEN Writing ELSE points[Current][i]
      /\ PointsInPlace'
  BY <1>1, CallEffect
<1>4. LeftToDo' /\ ReadingFits' /\ SweepInBounds'
  BY <1>1, <1>2 DEF LeftToDo, ReadingFits, SweepInBounds
<1>5. Current' = Current /\ Writing' = Writing
  BY <1>1, <1>2 DEF Current, Writing, Digest
<1>6. BatchesUp'
  <2>1. DOMAIN Writing.set.chunks \subseteq Positions
    BY <1>1, ParsedFacts DEF ReadingFits, ToWrite, Writing, Digest
  <2>2. /\ run.rest \subseteq DOMAIN Writing.set.chunks
        /\ \A i \in DOMAIN Writing.set.chunks \ run.rest : points[Current][i] = Writing
    BY <1>1 DEF BatchesUp
  <2>3. run'.pc = "prune" => run'.rest = {}
    BY <1>2
  <2>4. \A i \in DOMAIN Writing.set.chunks \ run'.rest : points'[Current][i] = Writing
    BY <1>2, <1>3, <2>1, <2>2
  <2>. QED
    BY <1>2, <1>5, <2>2, <2>3, <2>4 DEF BatchesUp
<1>7. Handled'
  BY <1>1, <1>2, <1>3, Markers DEF Handled, Expected, Digest
<1>. QED
  BY <1>3, <1>4, <1>6, <1>7 DEF Course

\* A document's points are deleted, or what the new set does not reuse.
LEMMA LastCallStep ==
  ASSUME IInv, Delete \/ Prune
  PROVE  PointsInPlace' /\ Course'
<1>1. /\ TypeOK /\ run \in Runs /\ done \in [Documents -> Contents \cup {NotRead}]
      /\ run.pc \in {"delete", "prune"} /\ Through(run.reading) /\ model' = model
      /\ run.left # {}
  BY DEF IInv, TypeOK, LeftToDo, Delete, Prune
<1>2. /\ Current \in Documents
      /\ \A d \in Documents : d # Current => points'[d] = points[d]
      /\ PointsInPlace'
  BY CallEffect DEF Delete, Prune
<1>3. run.reading \in Parsable \cup {Garbage, NotRead}
  BY <1>1 DEF IInv, ReadingFits, ToWrite
<1>4. run.reading \in Parsable => points'[Current] = Expected(run.reading)
  <2>1. CASE Delete
    <3>1. points'[Current] = NoPoints
      BY <2>1, CallEffect DEF Delete
    <3>. QED
      BY <2>1, <3>1, Markers DEF Delete, IInv, ReadingFits, ToWrite, Expected
  <2>2. CASE Prune
    BY <2>2, PruneIsExact DEF Prune
  <2>. QED
    BY <2>1, <2>2
<1>5. /\ run'.pc = "files" /\ run'.left = run.left \ {Current}
      /\ run'.listed = run.listed
      /\ \A d \in Documents : done'[d] = IF d = Current THEN run.reading ELSE done[d]
  BY <1>1 DEF Through, Runs
<1>6. Course'
  BY <1>1, <1>2, <1>3, <1>4, <1>5, GoOn
<1>. QED
  BY <1>2, <1>6

\* The sweep begins, or the run ends without one.
LEMMA SweepStep ==
  ASSUME IInv, Sweep
  PROVE  PointsInPlace' /\ Course'
<1>1. /\ TypeOK /\ PointsInPlace /\ LeftToDo /\ Handled /\ run \in Runs
      /\ run.pc = "files" /\ points' = points /\ done' = done /\ model' = model
  BY DEF IInv, TypeOK, Sweep
<1>2. PointsInPlace'
  BY <1>1, PlacesStay
<1>3. CASE run' = End(run)
  <2>1. run'.pc = "idle"
    BY <1>1, <1>3 DEF End, Runs
  <2>. QED
    BY <1>1, <1>2, <2>1, Halt
<1>4. CASE /\ ~NotReady(Orphans) /\ Orphans # {}
           /\ run' = [run EXCEPT !.pc = "orphans", !.left = Orphans, !.had = Indexed]
  <2>1. /\ run'.pc = "orphans" /\ run'.left = Orphans /\ run'.had = Indexed
        /\ run'.listed = run.listed
    BY <1>1, <1>4 DEF Runs
  <2>2. Orphans = Indexed \ run.listed
    BY DEF Orphans
  <2>3. LeftToDo'
    BY <1>1, <1>4, <2>1, <2>2 DEF LeftToDo
  <2>4. ReadingFits' /\ BatchesUp'
    BY <2>1 DEF ReadingFits, BatchesUp
  <2>5. Handled'
    BY <1>1, <2>1 DEF Handled, Expected, Digest
  <2>6. Indexed' = Indexed
    BY <1>1 DEF Indexed, Stored
  <2>7. SweepInBounds'
    BY <1>4, <2>1, <2>2, <2>6 DEF SweepInBounds, NotReady
  <2>. QED
    BY <1>2, <2>3, <2>4, <2>5, <2>7 DEF Course
<1>. QED
  BY <1>3, <1>4 DEF Sweep

\* An orphan goes.
LEMMA RemoveStep ==
  ASSUME IInv, Remove
  PROVE  PointsInPlace' /\ Course'
<1>1. /\ TypeOK /\ LeftToDo /\ Handled /\ SweepInBounds /\ run \in Runs
      /\ run.pc = "orphans" /\ points' = Deleted /\ done' = done /\ model' = model
  BY DEF IInv, TypeOK, Remove
<1>2. /\ Current \in run.left /\ Current \in Documents /\ done[Current] = NotRead
      /\ \A d \in Documents : d # Current => points'[d] = points[d]
      /\ PointsInPlace'
  BY <1>1, CallEffect
<1>3. CASE run.left = {Current}
  <2>1. PICK state : state = [run EXCEPT !.left = {}, !.had = {}]
    OBVIOUS
  <2>2. state \in Runs
    BY <1>1, <2>1 DEF Runs
  <2>3. run' = End(state)
    BY <1>3, <2>1 DEF Remove
  <2>4. run'.pc = "idle"
    BY <2>2, <2>3 DEF End, Runs
  <2>. QED
    BY <1>1, <1>2, <2>4, Halt
<1>4. CASE run.left # {Current}
  <2>1. /\ run'.pc = "orphans" /\ run'.left = run.left \ {Current}
        /\ run'.had = run.had /\ run'.listed = run.listed
    BY <1>1, <1>4 DEF Remove, Runs
  <2>2. LeftToDo'
    BY <1>1, <1>2, <1>4, <2>1 DEF LeftToDo
  <2>3. ReadingFits' /\ BatchesUp'
    BY <2>1 DEF ReadingFits, BatchesUp
  <2>4. Handled'
    BY <1>1, <1>2, <2>1, Markers DEF Handled, Expected, Digest
  <2>5. \A d \in Documents : d # Current => (d \in Indexed' <=> d \in Indexed)
    BY <1>2 DEF Indexed, Stored
  <2>6. Current \notin run.listed /\ Indexed \subseteq Documents
    BY <1>1, <1>2 DEF LeftToDo, Indexed
  <2>7. SweepInBounds'
    BY <1>1, <2>1, <2>5, <2>6 DEF SweepInBounds
  <2>. QED
    BY <1>2, <2>2, <2>3, <2>4, <2>7 DEF Course
<1>. QED
  BY <1>3, <1>4

\* A call is refused, or the run is stopped.
LEMMA FaultStep ==
  ASSUME IInv, Fault
  PROVE  PointsInPlace' /\ Course'
<1>1. /\ TypeOK /\ PointsInPlace /\ LeftToDo /\ run \in Runs
      /\ done \in [Documents -> Contents \cup {NotRead}]
  BY DEF IInv, TypeOK
<1>2. ASSUME MayTakeEffect
      PROVE  /\ PointsInPlace'
             /\ \A d \in Documents : done[d] # NotRead => points'[d] = points[d]
             /\ \A d \in Documents : d # Current => points'[d] = points[d]
  <2>1. CASE points' = points
    BY <1>1, <2>1, PlacesStay
  <2>2. CASE \/ run.pc \in {"delete", "orphans"} /\ points' = Deleted
             \/ run.pc = "upsert" /\ points' = Upserted
             \/ run.pc = "prune" /\ points' = Pruned
    <3>1. /\ done[Current] = NotRead /\ PointsInPlace'
          /\ \A d \in Documents : d # Current => points'[d] = points[d]
      BY <2>2, CallEffect
    <3>. QED
      BY <3>1
  <2>. QED
    BY <1>2, <2>1, <2>2 DEF MayTakeEffect
<1>3. CASE Refused
  <2>1. /\ run.pc \in {"files", "delete", "upsert", "prune"} /\ run.left # {}
        /\ run'.pc = "files" /\ run'.left = run.left \ {Current}
        /\ run'.listed = run.listed /\ model' = model /\ MayTakeEffect
        /\ done' = done
    BY <1>1, <1>3 DEF Refused, Runs, LeftToDo
  <2>2. Current \in Documents /\ done[Current] = NotRead
    BY <1>1, <2>1, CurrentIsLeft DEF LeftToDo
  <2>3. \A d \in Documents : d # Current => points'[d] = points[d]
    BY <1>2, <2>1
  <2>4. Course'
    BY <2>1, <2>2, <2>3, Markers, GoOn
  <2>. QED
    BY <1>2, <2>1, <2>4
<1>4. CASE Stopped
  <2>1. run'.pc = "idle" /\ done' = done /\ MayTakeEffect
    BY <1>4 DEF Stopped, Idle
  <2>. QED
    BY <1>2, <2>1, Halt
<1>5. ASSUME NEW d \in Documents, EmbedFails(d) PROVE PointsInPlace' /\ Course'
  <2>1. /\ run.pc = "files" /\ run.left # {} /\ model' = model /\ points' = points
        /\ d = Current
    BY <1>5 DEF EmbedFails, ToEmbed, Readable, Reading
  <2>2. CASE Through(NotRead)
    <3>1. /\ run'.pc = "files" /\ run'.left = run.left \ {Current}
          /\ run'.listed = run.listed
          /\ \A b \in Documents : done'[b] = IF b = Current THEN NotRead ELSE done[b]
      BY <1>1, <2>2 DEF Through, Runs
    <3>2. Course'
      BY <2>1, <3>1, Markers, GoOn
    <3>. QED
      BY <1>1, <2>1, <3>2, PlacesStay
  <2>3. CASE run' = [Idle EXCEPT !.exit = "stopped"] /\ UNCHANGED done
    <3>1. run'.pc = "idle" /\ done' = done
      BY <2>3 DEF Idle
    <3>. QED
      BY <1>1, <2>1, <3>1, Halt, PlacesStay
  <2>. QED
    BY <1>5, <2>2, <2>3 DEF EmbedFails
<1>. QED
  BY <1>3, <1>4, <1>5 DEF Fault

\* Files and models change around the run.
LEMMA AroundStep ==
  ASSUME IInv,
         UNCHANGED vars \/ ChangeModel \/ \E d \in Documents : ChangeFile(d)
  PROVE  PointsInPlace' /\ Course'
<1>1. /\ run' = run /\ points' = points /\ done' = done
      /\ run.pc # "idle" => model' = model
  BY DEF vars, ChangeModel, ChangeFile
<1>2. CASE run.pc = "idle"
  BY <1>1, <1>2, Halt, PlacesStay DEF IInv
<1>3. CASE run.pc # "idle"
  BY <1>1, <1>3, PlacesStay
     DEF IInv, Course, LeftToDo, ReadingFits, BatchesUp, Handled, SweepInBounds,
         Expected, Digest, Indexed, Stored, Writing, Current
<1>. QED
  BY <1>2, <1>3


-----------------------------------------------------------------------------
(***************************************************************************)
(* The theorems.                                                           *)
(***************************************************************************)
\* The invariant holds before the first run ...
LEMMA InitInv == Init => IInv
<1> SUFFICES ASSUME Init PROVE IInv
  OBVIOUS
<1>1. /\ run.pc = "idle" /\ run = Idle
      /\ \A d \in Documents : points[d] = NoPoints /\ done[d] = NotRead
  BY DEF Init, Idle
<1>2. PointsInPlace
  BY <1>1 DEF PointsInPlace, Stored, NoPoints
<1>3. LeftToDo /\ ReadingFits /\ BatchesUp /\ SweepInBounds
  BY <1>1 DEF LeftToDo, ReadingFits, BatchesUp, SweepInBounds
<1>4. Handled
  BY <1>1, Markers DEF Handled
<1>. QED
  BY <1>2, <1>3, <1>4, InitType DEF IInv

\* ... and every step keeps it.
LEMMA StepInv == IInv /\ [Next]_vars => IInv'
<1> SUFFICES ASSUME IInv, [Next]_vars PROVE IInv'
  OBVIOUS
<1>1. TypeOK'
  BY TypeStep DEF IInv
<1>2. PointsInPlace' /\ Course'
  BY StartRunStep, HandleStep, LastCallStep, UpsertStep, SweepStep, RemoveStep,
     FaultStep, AroundStep DEF Next, Progress
<1>. QED
  BY <1>1, <1>2 DEF IInv, Course

\* It holds in every behaviour of the index.
THEOREM Invariance == Spec => []IInv
<1>. QED
  BY InitInv, StepInv, PTL DEF Spec

\* Every variable keeps its type.
THEOREM TypeCorrect == Spec => []TypeOK
<1>1. IInv => TypeOK
  BY DEF IInv
<1>. QED
  BY <1>1, Invariance, PTL

\* A document the run is through with has exactly the points of what was read.
THEOREM HandledExactly == Spec => []HandledIsExact
<1>1. IInv => HandledIsExact
  BY DEF IInv, Handled, HandledIsExact
<1>. QED
  BY <1>1, Invariance, PTL

\* A set that may be a tax return without consent for each chunk is not to be
\* indexed.
LEMMA WithoutConsent ==
  ASSUME NEW raw, \A s \in Sources(raw) : s.names \subseteq TaxNames \cup {Odd, Blank},
         NEW c \in Chunks(raw), c.consent # TRUE
  PROVE  NotToIndex(Parsed(raw))
<1>1. IsTaxReturn(raw)
  BY DEF IsTaxReturn
<1>2. ~Consent(raw)
  BY DEF Consent
<1>. QED
  BY <1>1, <1>2 DEF NotToIndex, MayBeIndexed, Parsed

\* What may be a tax return, without consent, has no points once it was handled.
THEOREM ConsentClosed == Spec => []ConsentFailsClosed
<1>1. IInv => ConsentFailsClosed
  <2> SUFFICES ASSUME IInv, NEW d \in Documents, done[d] \in Files,
                      \A s \in Sources(done[d]) :
                          s.names \subseteq TaxNames \cup {Odd, Blank},
                      NEW c \in Chunks(done[d]), c.consent # TRUE
               PROVE  Stored(d) = {}
    BY DEF ConsentFailsClosed
  <2>1. NotToIndex(Parsed(done[d]))
    BY WithoutConsent
  <2>2. done[d] \in Parsable
    BY IndexAssumption DEF IInv, Handled
  <2>3. points[d] = NoPoints
    BY <2>1, <2>2 DEF IInv, Handled, ToWrite
  <2>. QED
    BY <2>3 DEF Stored, NoPoints
<1>. QED
  BY <1>1, Invariance, PTL

\* The points of a document are changed by the calls of the run alone.
LEMMA CallOrNot ==
  ASSUME [Next]_vars
  PROVE  \/ points' = points
         \/ run.pc \in {"delete", "orphans"} /\ points' = Deleted
         \/ run.pc = "upsert" /\ points' = Upserted
         \/ run.pc = "prune" /\ points' = Pruned
  BY DEF Next, vars, StartRun, Progress, Handle, Unreadable, Skip, Withdraw, Embed,
         Delete, Upsert, Prune, Sweep, Remove, Fault, Refused, Stopped, MayTakeEffect,
         EmbedFails, ChangeModel, ChangeFile

\* No step takes the last point of a document that is only written again.
THEOREM AlwaysSomething == Spec => NeverNone
<1>1. IInv /\ [Next]_vars =>
        [\A d \in Documents :
            Stored(d) # {} /\ Stored(d)' = {} =>
               \/ d \notin run.listed
               \/ run.reading = Garbage
               \/ run.reading \in Files /\ NotToIndex(Parsed(run.reading))]_vars
  <2> SUFFICES ASSUME IInv, [Next]_vars, NEW d \in Documents,
                      Stored(d) # {}, Stored(d)' = {}
               PROVE  \/ d \notin run.listed
                      \/ run.reading = Garbage
                      \/ run.reading \in Files /\ NotToIndex(Parsed(run.reading))
    OBVIOUS
  <2>1. points'[d] # points[d]
    BY DEF Stored
  <2>2. \/ run.pc \in {"delete", "orphans"} /\ points' = Deleted
        \/ run.pc = "upsert" /\ points' = Upserted
        \/ run.pc = "prune" /\ points' = Pruned
    BY <2>1, CallOrNot
  <2>3. d = Current /\ Current \in run.left
    BY <2>1, <2>2, CallEffect
  <2>4. CASE run.pc = "delete"
    BY <2>4 DEF IInv, ReadingFits, ToWrite, Parsable
  <2>5. CASE run.pc = "orphans"
    BY <2>3, <2>5 DEF IInv, LeftToDo
  <2>6. CASE run.pc = "upsert" /\ points' = Upserted
    <3>1. ASSUME NEW i \in Positions, points[d][i] # NoPoint
          PROVE  points'[d][i] # NoPoint
      <4>1. Writing # NoPoint
        BY <2>6, WritingType DEF IInv, ReadingFits, ToWrite
      <4>. QED
        BY <2>3, <2>6, <3>1, <4>1, CallEffect
    <3>. QED
      BY <3>1 DEF Stored
  <2>7. CASE run.pc = "prune" /\ points' = Pruned
    <3>1. ToWrite(run.reading) /\ TypeOK
      BY <2>7 DEF IInv, ReadingFits
    <3>2. PICK i \in DOMAIN Parsed(run.reading).chunks : TRUE
      BY <3>1 DEF ToWrite, NotToIndex
    <3>3. i \in Positions /\ i \in DOMAIN Writing.set.chunks /\ Writing # NoPoint
      BY <3>1, <3>2, ParsedFacts, WritingType DEF ToWrite
    <3>4. points[d][i] = Writing
      BY <2>3, <2>7, <3>3 DEF IInv, BatchesUp
    <3>5. points'[d][i] = Writing
      BY <2>3, <2>7, <3>3, <3>4, CallEffect
    <3>. QED
      BY <3>3, <3>5 DEF Stored
  <2>. QED
    BY <2>2, <2>4, <2>5, <2>6, <2>7
<1>. QED
  BY <1>1, Invariance, PTL DEF Spec, NeverNone


\* The deletes of one sweep leave most of what was indexed.
THEOREM SweepsKeepMost == Spec => SweepKeepsMost
<1>1. IInv /\ [Next]_vars =>
        [LET gone == run.had \ Indexed' IN
         run.pc = "orphans" =>
            /\ run.listed # {}
            /\ \/ Cardinality(gone) < GuardMin
               \/ Cardinality(gone) * 2 <= Cardinality(run.had)]_vars
  <2> DEFINE gone == run.had \ Indexed'
             unlisted == run.had \ run.listed
  <2> SUFFICES ASSUME IInv, [Next]_vars, run.pc = "orphans"
               PROVE  /\ run.listed # {}
                      /\ \/ Cardinality(gone) < GuardMin
                         \/ Cardinality(gone) * 2 <= Cardinality(run.had)
    OBVIOUS
  <2>1. /\ TypeOK /\ LeftToDo /\ run.listed # {}
        /\ run.had \cap run.listed \subseteq Indexed
        /\ ~(/\ Cardinality(unlisted) >= GuardMin
             /\ Cardinality(unlisted) * 2 > Cardinality(run.had))
    BY DEF IInv, SweepInBounds
  <2>2. run.had \subseteq Documents /\ IsFiniteSet(run.had)
    BY <2>1, IndexAssumption, FS_Subset DEF TypeOK, Runs
  <2>3. ASSUME NEW d \in run.had, d \in run.listed PROVE d \in Indexed'
    <3>1. d \in Documents /\ d \in Indexed
      BY <2>1, <2>2, <2>3
    <3>2. points'[d] = points[d]
      <4>1. CASE points' = points
        BY <4>1
      <4>2. CASE points' = Deleted
        <5>1. /\ Current \in run.left
              /\ \A b \in Documents : b # Current => points'[b] = points[b]
          BY <4>2, CallEffect
        <5>2. d # Current
          BY <2>1, <2>3, <5>1 DEF LeftToDo
        <5>. QED
          BY <3>1, <5>1, <5>2
      <4>. QED
        BY <4>1, <4>2, CallOrNot
    <3>. QED
      BY <3>1, <3>2 DEF Indexed, Stored
  <2>4. gone \subseteq unlisted
    BY <2>3
  <2>5. /\ IsFiniteSet(unlisted)
        /\ Cardinality(gone) \in Nat /\ Cardinality(unlisted) \in Nat
        /\ Cardinality(gone) <= Cardinality(unlisted)
        /\ Cardinality(run.had) \in Nat
    <3>1. IsFiniteSet(unlisted) /\ IsFiniteSet(gone)
      BY <2>2, FS_Subset
    <3>. QED
      BY <2>2, <2>4, <3>1, FS_Subset, FS_CardinalityType
  <2> HIDE DEF gone, unlisted
  <2>. QED
    BY <2>1, <2>5, IndexAssumption
<1>. QED
  BY <1>1, Invariance, PTL DEF Spec, SweepKeepsMost

=============================================================================
