-------------------------- MODULE TaxLawIndexProofs --------------------------
(***************************************************************************)
(* Theorems about TaxLawIndex, for any subtopics, knowledge bases, sizes   *)
(* of the batches, attempts, delays and guard.                             *)
(***************************************************************************)
EXTENDS TaxLawIndex, FiniteSetTheorems, SequenceTheorems, TLAPS

Had == {s \in Subtopics : before[s] # NoPoint}

-----------------------------------------------------------------------------
(***************************************************************************)
(* The inductive invariant, in parts.                                      *)
(***************************************************************************)
\* A run has read a file that can be indexed, and has no exit status yet.
RunReads ==
    run.pc # "idle" => run.exit = "none" /\ Indexable(run.reading)

\* The vectors that came and the texts still to send are those of the file, in
\* its order; a run writes only when every vector is there.
VectorsInOrder ==
    /\ run.pc = "embed" /\ embedding.pc \in {"post", "sleep", "done"} =>
          embedding.vectors \o embedding.left = ContentOf(run.reading)
    /\ embedding.pc = "done" => embedding.left = <<>>
    /\ run.pc \in {"exists", "create", "schema", "scroll", "upsert", "delete"} =>
          embedding.vectors = ContentOf(run.reading)

\* Who waits for another attempt has one left.
AttemptsLeft == embedding.pc = "sleep" => embedding.attempt < MaxAttempts

\* Nothing is written before the guard has passed.
UntouchedSoFar ==
    run.pc \in {"embed", "exists", "create", "schema", "scroll"} => points = before

\* The file that passed the guard, and what it leaves to delete.
PassedTheGuard ==
    run.pc \in {"upsert", "delete"} =>
        /\ begun = run.reading
        /\ run.stale = Had \ KeptIds(run.reading)
        /\ ~(/\ Cardinality(run.stale) >= GuardMin
             /\ Cardinality(run.stale) * 2 > Cardinality(Had))

\* The points that went up are those of the file; a point that the file still
\* has is not lost, and one that it does not have is not touched.
UpSoFar ==
    run.pc \in {"upsert", "delete"} =>
        /\ run.rest \subseteq DOMAIN Kept(run.reading)
        /\ run.pc = "delete" => run.rest = {}
        /\ \A i \in DOMAIN Kept(run.reading) \ run.rest :
             points[Kept(run.reading)[i].id] =
               Expected(run.reading)[Kept(run.reading)[i].id]
        /\ \A s \in KeptIds(run.reading) : before[s] # NoPoint => points[s] # NoPoint
        /\ \A s \in Subtopics \ KeptIds(run.reading) : points[s] = before[s]

\* What the last run that passed the guard has left passes it again.
GuardStaysPassed == begun \in KnowledgeBases => ~TooMany(begun)

IInv ==
    /\ TypeOK
    /\ RunReads
    /\ VectorsInOrder
    /\ AttemptsLeft
    /\ UntouchedSoFar
    /\ PassedTheGuard
    /\ UpSoFar
    /\ GuardStaysPassed

-----------------------------------------------------------------------------
(***************************************************************************)
(* The file.                                                               *)
(***************************************************************************)
\* The members of a finite set that are at most i are more, the larger i is.
LEMMA Ranks ==
  ASSUME NEW F \in SUBSET Nat, IsFiniteSet(F), NEW i \in F, NEW k \in F, i < k
  PROVE  Cardinality({j \in F : j <= i}) # Cardinality({j \in F : j <= k})
<1> DEFINE A == {j \in F : j <= i}
           B == {j \in F : j <= k}
<1>1. B \subseteq F /\ k \in B /\ k \notin A
  OBVIOUS
<1>2. A \subseteq B
  <2> SUFFICES ASSUME NEW j \in F, j <= i PROVE j <= k
    OBVIOUS
  <2>1. i \in Nat /\ j \in Nat /\ k \in Nat
    OBVIOUS
  <2>. QED
    BY <2>1
<1>3. IsFiniteSet(B)
  BY <1>1, FS_Subset
<1>. QED
  BY <1>1, <1>2, <1>3, FS_Subset

\* Every place among the subtopics with content is that of one of them.
LEMMA NthExists ==
  ASSUME NEW kb \in KnowledgeBases, NEW n \in 1 .. Cardinality(Filled(kb))
  PROVE  Nth(kb, n) \in Filled(kb)
<1> DEFINE F == Filled(kb)
           N == Cardinality(F)
           Rank(i) == Cardinality({j \in F : j <= i})
           g == [i \in F |-> Rank(i)]
<1>1. F \in SUBSET Nat /\ IsFiniteSet(F)
  <2>1. kb \in Seq([id : Subtopics, text : Texts \cup {Blank}])
    BY TaxLawAssumption
  <2>2. DOMAIN kb = 1 .. Len(kb) /\ Len(kb) \in Nat
    BY <2>1
  <2>3. F \subseteq 1 .. Len(kb) /\ IsFiniteSet(1 .. Len(kb))
    BY <2>2, FS_Interval DEF Filled
  <2>. QED
    BY <2>2, <2>3, FS_Subset
<1>2. N \in Nat /\ n \in 1 .. N
  BY <1>1, FS_CardinalityType
<1>3. \A i \in F : Rank(i) \in 1 .. N
  <2> SUFFICES ASSUME NEW i \in F PROVE Rank(i) \in 1 .. N
    OBVIOUS
  <2> DEFINE A == {j \in F : j <= i}
  <2>1. A \subseteq F /\ i \in A
    BY <1>1
  <2>2. IsFiniteSet(A) /\ Cardinality(A) <= N /\ Cardinality(A) \in Nat
    BY <1>1, <2>1, FS_Subset, FS_CardinalityType
  <2>3. Cardinality(A) # 0
    BY <2>1, <2>2, FS_EmptySet
  <2> HIDE DEF A
  <2>4. Cardinality(A) \in 1 .. N
    BY <1>2, <2>2, <2>3
  <2>. QED
    BY <2>4 DEF A
<1>4. \A i, k \in F : Rank(i) = Rank(k) => i = k
  <2> SUFFICES ASSUME NEW i \in F, NEW k \in F, i # k PROVE Rank(i) # Rank(k)
    OBVIOUS
  <2>1. CASE i < k
    BY <1>1, <2>1, Ranks
  <2>2. CASE k < i
    BY <1>1, <2>2, Ranks
  <2>. QED
    BY <1>1, <2>1, <2>2
<1> HIDE DEF Rank
<1>5. \E i \in F : Rank(i) = n
  <2> SUFFICES ASSUME \A i \in F : Rank(i) # n PROVE FALSE
    OBVIOUS
  <2> DEFINE T == (1 .. N) \ {n}
  <2>1. IsFiniteSet(1 .. N) /\ Cardinality(1 .. N) = N
    BY <1>2, FS_Interval
  <2>2. IsFiniteSet(T) /\ Cardinality(T) = N - 1
    BY <1>2, <2>1, FS_RemoveElement
  <2>3. g \in [F -> T]
    BY <1>3
  <2>4. Cardinality(T) < Cardinality(F)
    BY <1>2, <2>2
  <2>5. \A i \in F : g[i] = Rank(i)
    OBVIOUS
  <2> HIDE DEF F, N, g, T
  <2>6. \E x, y \in F : x # y /\ g[x] = g[y]
    BY ONLY <1>1, <2>2, <2>3, <2>4, FS_PigeonHole
  <2>. QED
    BY <1>4, <2>5, <2>6
<1>. QED
  BY <1>5 DEF Nth, Rank

\* The subtopics with content are a sequence of subtopics, and their texts a
\* sequence of texts.
LEMMA KeptType ==
  ASSUME NEW kb \in KnowledgeBases
  PROVE  /\ Kept(kb) \in Seq([id : Subtopics, text : Texts])
         /\ ContentOf(kb) \in Seq(Texts) /\ DOMAIN ContentOf(kb) = DOMAIN Kept(kb)
         /\ KeptIds(kb) \subseteq Subtopics
<1>1. kb \in Seq([id : Subtopics, text : Texts \cup {Blank}])
  BY TaxLawAssumption
<1>2. ASSUME NEW i \in Filled(kb) PROVE kb[i] \in [id : Subtopics, text : Texts]
  <2>1. i \in DOMAIN kb /\ kb[i].text # Blank
    BY DEF Filled
  <2> DEFINE Rec == [id : Subtopics, text : Texts \cup {Blank}]
  <2>2. kb \in Seq(Rec)
    BY <1>1
  <2> HIDE DEF Rec
  <2>3. kb[i] \in Rec
    BY <2>1, <2>2
  <2>. QED
    BY <2>1, <2>3 DEF Rec
<1>3. Cardinality(Filled(kb)) \in Nat
  <2>1. IsFiniteSet(1 .. Len(kb)) /\ Filled(kb) \subseteq 1 .. Len(kb)
    BY <1>1, FS_Interval DEF Filled
  <2>. QED
    BY <2>1, FS_Subset, FS_CardinalityType
<1>4. ASSUME NEW n \in 1 .. Cardinality(Filled(kb))
      PROVE  kb[Nth(kb, n)] \in [id : Subtopics, text : Texts]
  BY <1>2, NthExists
<1>5. /\ Kept(kb) \in Seq([id : Subtopics, text : Texts])
      /\ \A n \in DOMAIN Kept(kb) : Kept(kb)[n] \in [id : Subtopics, text : Texts]
  <2> DEFINE N == Cardinality(Filled(kb))
             Rec == [id : Subtopics, text : Texts]
  <2>1. Kept(kb) = [n \in 1 .. N |-> kb[Nth(kb, n)]]
    BY DEF Kept
  <2>2. N \in Nat /\ \A n \in 1 .. N : kb[Nth(kb, n)] \in Rec
    BY <1>3, <1>4
  <2> HIDE DEF N, Rec
  <2>3. Kept(kb) \in [1 .. N -> Rec]
    BY <2>1, <2>2
  <2>4. Kept(kb) \in Seq(Rec)
    BY <2>2, <2>3
  <2>. QED
    BY <2>3, <2>4 DEF Rec
<1>6. ContentOf(kb) \in Seq(Texts) /\ DOMAIN ContentOf(kb) = DOMAIN Kept(kb)
  <2>1. Len(Kept(kb)) \in Nat /\ DOMAIN Kept(kb) = 1 .. Len(Kept(kb))
    BY <1>5
  <2>2. \A n \in DOMAIN Kept(kb) : Kept(kb)[n].text \in Texts
    BY <1>5
  <2>3. ContentOf(kb) \in [1 .. Len(Kept(kb)) -> Texts]
    BY <2>1, <2>2 DEF ContentOf
  <2>. QED
    BY <2>1, <2>3
<1>7. KeptIds(kb) \subseteq Subtopics
  <2>1. \A n \in DOMAIN Kept(kb) : Kept(kb)[n].id \in Subtopics
    BY <1>5
  <2>. QED
    BY <2>1 DEF KeptIds, Ids
<1>. QED
  BY <1>5, <1>6, <1>7

\* A point of a subtopic that the file has.
LEMMA PointType ==
  ASSUME NEW kb \in KnowledgeBases, NEW s \in KeptIds(kb)
  PROVE  PointOf(kb, s, ContentOf(kb)) \in Points
<1>1. PositionOf(kb, s) \in DOMAIN Kept(kb)
  BY DEF KeptIds, Ids, PositionOf
<1>2. ContentOf(kb)[PositionOf(kb, s)] \in Texts
  BY <1>1, KeptType
<1>. QED
  BY <1>2 DEF PointOf, Points

\* A file that can be indexed has something to index.
LEMMA IndexableKeeps ==
  ASSUME NEW raw, Indexable(raw)
  PROVE  raw \in KnowledgeBases /\ KeptIds(raw) # {}
<1>1. raw \in KnowledgeBases /\ Kept(raw) # <<>>
  BY DEF Indexable
<1>2. Kept(raw) \in Seq([id : Subtopics, text : Texts])
  BY <1>1, KeptType
<1>3. 1 \in DOMAIN Kept(raw)
  BY <1>1, <1>2
<1>. QED
  BY <1>1, <1>3 DEF KeptIds, Ids

-----------------------------------------------------------------------------
(***************************************************************************)
(* The embedding service.                                                  *)
(***************************************************************************)
\* A usable body has the vector of each text at the text's place, in whatever
\* order the entries came.
LEMMA UsableIsComplete ==
  ASSUME NEW texts \in Seq(Texts), NEW body \in Bodies(texts),
         Usable(body, Len(texts))
  PROVE  VectorsOf(body) = texts
<1> DEFINE n == Len(texts)
<1>1. n \in Nat /\ DOMAIN texts = 1 .. n
  OBVIOUS
<1>2. PICK m \in 0 .. n : body \in [1 .. m -> Entries(texts)]
  BY <1>1 DEF Bodies
<1>3. m = n
  <2>1. m \in Nat /\ Len(body) = m
    BY <1>1, <1>2
  <2>. QED
    BY <2>1 DEF Usable
<1>4. body \in [1 .. n -> Entries(texts)] /\ DOMAIN body = 1 .. n
  BY <1>2, <1>3
<1>5. ASSUME NEW i \in 1 .. n, NEW k \in 1 .. n, Index(body[k]) = i - 1
      PROVE  body[k].vector = texts[i]
  <2>1. body[k] \in Entries(texts) /\ body[k].vector # Short
    BY <1>4 DEF Usable
  <2>2. ASSUME NEW j \in 1 .. n, body[k] = [index |-> j - 1, vector |-> texts[j]]
        PROVE  body[k].vector = texts[i]
    <3>1. body[k].index = j - 1 /\ body[k].vector = texts[j]
      BY <2>2
    <3>2. Index(body[k]) = j - 1
      BY <1>1, <3>1 DEF Index, NoIndex
    <3>3. i = j
      BY <1>1, <1>5, <3>2
    <3>. QED
      BY <3>1, <3>3
  <2>3. CASE body[k] = [index |-> NoIndex, vector |-> texts[1]]
    <3>1. body[k].index = NoIndex /\ body[k].vector = texts[1]
      BY <2>3
    <3>2. i = 1
      BY <1>1, <1>5, <3>1 DEF Index
    <3>. QED
      BY <3>1, <3>2
  <2>4. CASE body[k] = [index |-> 0, vector |-> Short]
    BY <2>1, <2>4
  <2>5. CASE body[k] = [index |-> n, vector |-> texts[1]]
    <3>1. body[k].index = n
      BY <2>5
    <3>2. Index(body[k]) = n
      BY <1>1, <3>1 DEF Index, NoIndex
    <3>. QED
      BY <1>1, <1>5, <3>2
  <2>. QED
    BY <1>1, <2>1, <2>2, <2>3, <2>4, <2>5 DEF Entries
<1>6. ASSUME NEW i \in 1 .. n
      PROVE  body[CHOOSE k \in DOMAIN body : Index(body[k]) = i - 1].vector = texts[i]
  <2>1. {Index(body[k]) : k \in 1 .. n} = 0 .. n - 1
    BY <1>4 DEF Usable
  <2>2. i - 1 \in 0 .. n - 1
    BY <1>1
  <2>3. \E k \in 1 .. n : Index(body[k]) = i - 1
    BY <2>1, <2>2
  <2>. QED
    BY <1>4, <1>5, <2>3
<1>7. VectorsOf(body) = [i \in 1 .. n |-> texts[i]]
  BY <1>4, <1>6 DEF VectorsOf
<1>8. texts = [i \in 1 .. n |-> texts[i]]
  BY <1>1
<1>. QED
  BY <1>7, <1>8

\* The parts of a sequence, in order, are the sequence.
LEMMA PartsJoin ==
  ASSUME NEW S, NEW v \in Seq(S), NEW l \in Seq(S), NEW m \in 0 .. Len(l)
  PROVE  (v \o SubSeq(l, 1, m)) \o SubSeq(l, m + 1, Len(l)) = v \o l
<1>1. Len(l) \in Nat
  OBVIOUS
<1>2. SubSeq(l, 1, m) \o SubSeq(l, m + 1, Len(l)) = SubSeq(l, 1, Len(l))
  <2>1. 1 \in 1 .. Len(l) + 1 /\ m \in 1 - 1 .. Len(l) /\ Len(l) \in m .. Len(l)
    BY <1>1
  <2>. QED
    BY ONLY <2>1, ConcatAdjacentSubSeq, l \in Seq(S)
<1>3. SubSeq(l, 1, m) \in Seq(S) /\ SubSeq(l, m + 1, Len(l)) \in Seq(S)
  OBVIOUS
<1>4. SubSeq(l, 1, Len(l)) = l
  BY SubSeqFull
<1>5. \A a, b \in Seq(S) : (v \o a) \o b = v \o (a \o b)
  BY ConcatAssociative
<1>6. (v \o SubSeq(l, 1, m)) \o SubSeq(l, m + 1, Len(l))
        = v \o (SubSeq(l, 1, m) \o SubSeq(l, m + 1, Len(l)))
  BY ONLY <1>3, <1>5, Zenon
<1>. QED
  BY ONLY <1>2, <1>4, <1>6, Zenon

\* The texts of the request under way, and those after them.
LEMMA BatchFacts ==
  ASSUME embedding.left \in Seq(Texts), embedding.vectors \in Seq(Texts)
  PROVE  /\ Batch \in Seq(Texts) /\ Later \in Seq(Texts)
         /\ (embedding.vectors \o Batch) \o Later = embedding.vectors \o embedding.left
         /\ embedding.vectors \o Batch \in Seq(Texts)
<1> DEFINE l == embedding.left
           m == Smaller(EmbedBatch, Len(l))
<1>1. m \in 0 .. Len(l) /\ Len(l) \in Nat
  BY EmbeddingAssumption DEF Smaller
<1>2. Batch = SubSeq(l, 1, m)
  BY DEF Batch
<1>3. Batch \in Seq(Texts) /\ Len(Batch) = m
  <2> HIDE DEF m
  <2>. QED
    BY <1>1, <1>2
<1>4. Later = SubSeq(l, m + 1, Len(l))
  BY <1>3 DEF Later
<1>5. Later \in Seq(Texts)
  <2> HIDE DEF m
  <2>. QED
    BY <1>1, <1>4
<1>6. (embedding.vectors \o Batch) \o Later = embedding.vectors \o l
  <2> DEFINE v == embedding.vectors
  <2>1. v \in Seq(Texts) /\ l \in Seq(Texts)
    OBVIOUS
  <2> HIDE DEF m, l, v
  <2>2. (v \o SubSeq(l, 1, m)) \o SubSeq(l, m + 1, Len(l)) = v \o l
    BY ONLY <1>1, <2>1, PartsJoin
  <2>3. (v \o Batch) \o Later = v \o l
    BY ONLY <1>2, <1>4, <2>2
  <2>. QED
    BY <2>3 DEF v
<1>7. embedding.vectors \o Batch \in Seq(Texts)
  BY <1>3
<1>. QED
  BY <1>3, <1>5, <1>6, <1>7

Clients ==
    [pc : {"off", "post", "sleep", "done", "failed"}, left : Seq(Texts),
     vectors : Seq(Texts), attempt : 1 .. MaxAttempts,
     wait : {w \in Int : w <= MaxDelay}, refused : BOOLEAN]

\* What the client of the service keeps is of its type.
LEMMA ClientTypes ==
  ASSUME NEW l \in Seq(Texts), NEW refused \in BOOLEAN, NEW j
  PROVE  /\ j = NoEmbedding => j \in Clients /\ j.pc = "off" /\ j.left = <<>>
         /\ j = EmbedDocuments(l) =>
              j \in Clients /\ j.pc = "post" /\ j.left = l /\ j.vectors = <<>>
         /\ j = Failed(refused) => j \in Clients /\ j.pc = "failed"
<1>1. /\ 1 \in 1 .. MaxAttempts /\ 0 \in {w \in Int : w <= MaxDelay}
      /\ <<>> \in Seq(Texts)
  BY EmbeddingAssumption
<1>2. ASSUME j = NoEmbedding PROVE j \in Clients /\ j.pc = "off" /\ j.left = <<>>
  BY <1>1, <1>2 DEF NoEmbedding, Clients
<1>3. ASSUME j = EmbedDocuments(l)
      PROVE  j \in Clients /\ j.pc = "post" /\ j.left = l /\ j.vectors = <<>>
  BY <1>1, <1>3 DEF NoEmbedding, EmbedDocuments, Clients
<1>4. ASSUME j = Failed(refused) PROVE j \in Clients /\ j.pc = "failed"
  BY <1>1, <1>4 DEF NoEmbedding, Failed, Clients
<1>. QED
  BY <1>2, <1>3, <1>4

\* A wait is no longer than the cap.
LEMMA WaitCapped ==
  ASSUME NEW header \in RetryAfters \cup {NoSeconds}, NEW attempt \in 1 .. MaxAttempts
  PROVE  RetryDelay(header, attempt) \in {w \in Int : w <= MaxDelay}
<1>1. 2 ^ (attempt - 1) \in Int
  BY EmbeddingAssumption
<1>2. (IF header >= 0 THEN header ELSE 2 ^ (attempt - 1)) \in Int /\ MaxDelay \in Int
  BY <1>1, EmbeddingAssumption DEF NoSeconds
<1>. QED
  BY <1>2 DEF RetryDelay, Smaller

\* A request, its answer or its failure keeps the vectors and the texts in order.
LEMMA EmbeddingStep ==
  ASSUME EmbeddingType, AttemptsLeft, NEW content,
         embedding.pc \in {"post", "sleep", "done"} =>
            embedding.vectors \o embedding.left = content,
         Again \/ Answered \/ HoldOff \/ GiveUp
  PROVE  /\ EmbeddingType' /\ AttemptsLeft'
         /\ embedding'.pc \in {"post", "sleep", "done"} =>
              embedding'.vectors \o embedding'.left = content
         /\ embedding'.pc = "done" => embedding'.left = <<>>
<1>1. /\ embedding.left \in Seq(Texts) /\ embedding.vectors \in Seq(Texts)
      /\ embedding.attempt \in 1 .. MaxAttempts /\ MaxAttempts \in Nat
  BY EmbeddingAssumption DEF EmbeddingType
<1>2. ASSUME NEW refused \in BOOLEAN, embedding' = Failed(refused)
      PROVE  /\ EmbeddingType' /\ AttemptsLeft'
             /\ embedding'.pc = "failed"
  <2>1. <<>> \in Seq(Texts)
    OBVIOUS
  <2>2. PICK j : j = Failed(refused)
    OBVIOUS
  <2>3. j \in Clients /\ j.pc = "failed"
    BY ONLY <1>2, <2>1, <2>2, ClientTypes
  <2>. QED
    BY <1>2, <2>2, <2>3 DEF AttemptsLeft, EmbeddingType, Clients
<1>3. CASE Again
  <2>1. embedding.attempt + 1 \in 1 .. MaxAttempts /\ 0 \in {w \in Int : w <= MaxDelay}
    BY <1>1, <1>3, EmbeddingAssumption DEF Again, AttemptsLeft
  <2>2. EmbeddingType'
    BY <1>3, <2>1 DEF Again, EmbeddingType
  <2>3. /\ embedding'.pc = "post" /\ embedding'.left = embedding.left
        /\ embedding'.vectors = embedding.vectors
    BY <1>3 DEF Again, EmbeddingType
  <2>. QED
    BY <1>3, <2>2, <2>3 DEF Again, AttemptsLeft
<1>4. CASE Answered
  <2>1. PICK body \in Bodies(Batch) :
          embedding' =
            IF Usable(body, Len(Batch))
            THEN [EmbedDocuments(Later) EXCEPT
                    !.vectors = embedding.vectors \o VectorsOf(body),
                    !.pc = IF Later = <<>> THEN "done" ELSE "post"]
            ELSE Failed(FALSE)
    BY <1>4 DEF Answered
  <2>2. CASE ~Usable(body, Len(Batch))
    BY <1>2, <2>1, <2>2
  <2>3. CASE Usable(body, Len(Batch))
    <3>1. /\ Batch \in Seq(Texts) /\ Later \in Seq(Texts)
          /\ (embedding.vectors \o Batch) \o Later = embedding.vectors \o embedding.left
          /\ embedding.vectors \o Batch \in Seq(Texts)
      BY <1>1, BatchFacts
    <3>2. VectorsOf(body) = Batch
      BY <2>3, <3>1, UsableIsComplete
    <3>3. PICK pc \in {"off", "post", "sleep", "done", "failed"} :
            pc = IF Later = <<>> THEN "done" ELSE "post"
      OBVIOUS
    <3>4. PICK l, v : l = Later /\ v = embedding.vectors \o Batch
      OBVIOUS
    <3>5. embedding' = [EmbedDocuments(l) EXCEPT !.vectors = v, !.pc = pc]
      BY ONLY <2>1, <2>3, <3>2, <3>3, <3>4
    <3>6. l \in Seq(Texts) /\ v \in Seq(Texts)
      BY ONLY <3>1, <3>4
    <3>7. PICK j : j = [EmbedDocuments(l) EXCEPT !.vectors = v, !.pc = pc]
      OBVIOUS
    <3>8. j \in Clients /\ j.pc = pc /\ j.left = l /\ j.vectors = v
      <4>1. /\ 1 \in 1 .. MaxAttempts /\ 0 \in {w \in Int : w <= MaxDelay}
            /\ <<>> \in Seq(Texts)
        BY EmbeddingAssumption
      <4>. QED
        BY ONLY <3>3, <3>6, <3>7, <4>1 DEF NoEmbedding, EmbedDocuments, Clients
    <3>9. /\ embedding' \in Clients
          /\ embedding'.pc = pc /\ embedding'.left = l /\ embedding'.vectors = v
      BY ONLY <3>5, <3>7, <3>8
    <3>10. v \o l = content
      BY ONLY <1>4, <3>1, <3>4,
              embedding.pc \in {"post", "sleep", "done"} =>
                 embedding.vectors \o embedding.left = content
         DEF Answered
    <3>. QED
      BY ONLY <3>3, <3>4, <3>9, <3>10 DEF AttemptsLeft, EmbeddingType, Clients
  <2>. QED
    BY <2>2, <2>3
<1>5. CASE HoldOff
  <2>1. PICK header \in RetryAfters \cup {NoSeconds} :
          embedding' =
            IF embedding.attempt >= MaxAttempts THEN Failed(FALSE)
            ELSE [embedding EXCEPT !.pc = "sleep",
                                   !.wait = RetryDelay(header, embedding.attempt)]
    BY <1>5 DEF HoldOff
  <2>2. CASE embedding.attempt >= MaxAttempts
    BY <1>2, <2>1, <2>2
  <2>3. CASE ~(embedding.attempt >= MaxAttempts)
    <3>1. PICK w \in {w \in Int : w <= MaxDelay} : w = RetryDelay(header, embedding.attempt)
      BY <1>1, WaitCapped
    <3>2. embedding' = [embedding EXCEPT !.pc = "sleep", !.wait = w]
      BY ONLY <2>1, <2>3, <3>1
    <3>3. EmbeddingType'
      BY <3>2 DEF EmbeddingType
    <3>4. /\ embedding'.pc = "sleep" /\ embedding'.left = embedding.left
          /\ embedding'.vectors = embedding.vectors
          /\ embedding'.attempt = embedding.attempt
      BY <3>2 DEF EmbeddingType
    <3>5. AttemptsLeft'
      BY <1>1, <2>3, <3>4 DEF AttemptsLeft
    <3>6. embedding.pc = "post"
      BY <1>5 DEF HoldOff
    <3>. QED
      BY <3>3, <3>4, <3>5, <3>6
  <2>. QED
    BY <2>2, <2>3
<1>6. CASE GiveUp
  BY <1>2, <1>6 DEF GiveUp
<1>. QED
  BY <1>3, <1>4, <1>5, <1>6

-----------------------------------------------------------------------------
(***************************************************************************)
(* The writes.                                                             *)
(***************************************************************************)
\* A set that keeps what the file still has and gains nothing else passes the
\* guard again.
LEMMA GuardAgain ==
  ASSUME NEW H, NEW H2, IsFiniteSet(H), IsFiniteSet(H2), NEW K,
         H2 \ K \subseteq H \ K, H \cap K \subseteq H2,
         ~(Cardinality(H \ K) >= GuardMin /\ Cardinality(H \ K) * 2 > Cardinality(H))
  PROVE  ~(Cardinality(H2 \ K) >= GuardMin /\ Cardinality(H2 \ K) * 2 > Cardinality(H2))
<1> DEFINE A == H \ K  B == H \cap K  A2 == H2 \ K  B2 == H2 \cap K
<1>1. /\ IsFiniteSet(A) /\ IsFiniteSet(B) /\ IsFiniteSet(A2) /\ IsFiniteSet(B2)
      /\ A2 \subseteq A /\ B \subseteq B2
  BY FS_Subset
<1>2. /\ Cardinality(A) \in Nat /\ Cardinality(B) \in Nat
      /\ Cardinality(A2) \in Nat /\ Cardinality(B2) \in Nat
      /\ Cardinality(A2) <= Cardinality(A) /\ Cardinality(B) <= Cardinality(B2)
  BY <1>1, FS_Subset, FS_CardinalityType
<1>3. Cardinality(H) = Cardinality(A) + Cardinality(B)
  <2>1. A \cup B = H /\ A \cap B = {}
    OBVIOUS
  <2>2. Cardinality(A \cup B) = Cardinality(A) + Cardinality(B) - Cardinality(A \cap B)
    BY <1>1, FS_Union
  <2>3. Cardinality(A \cap B) = 0
    BY <2>1, FS_EmptySet
  <2>4. Cardinality(A \cup B) = Cardinality(H)
    BY ONLY <2>1
  <2> HIDE DEF A, B
  <2>. QED
    BY ONLY <1>2, <2>2, <2>3, <2>4
<1>4. Cardinality(H2) = Cardinality(A2) + Cardinality(B2)
  <2>1. A2 \cup B2 = H2 /\ A2 \cap B2 = {}
    OBVIOUS
  <2>2. Cardinality(A2 \cup B2)
          = Cardinality(A2) + Cardinality(B2) - Cardinality(A2 \cap B2)
    BY <1>1, FS_Union
  <2>3. Cardinality(A2 \cap B2) = 0
    BY <2>1, FS_EmptySet
  <2>4. Cardinality(A2 \cup B2) = Cardinality(H2)
    BY ONLY <2>1
  <2> HIDE DEF A2, B2
  <2>. QED
    BY ONLY <1>2, <2>2, <2>3, <2>4
<1> DEFINE a == Cardinality(A)  b == Cardinality(B)
           a2 == Cardinality(A2)  b2 == Cardinality(B2)
<1>5. ~(a >= GuardMin /\ a * 2 > a + b)
  BY <1>3
<1> HIDE DEF a, b, a2, b2
<1>6. /\ a \in Nat /\ b \in Nat /\ a2 \in Nat /\ b2 \in Nat /\ a2 <= a /\ b <= b2
      /\ GuardMin \in Nat
  BY <1>2, TaxLawAssumption DEF a, b, a2, b2
<1>7. ~(a2 >= GuardMin /\ a2 * 2 > a2 + b2)
  BY ONLY <1>5, <1>6
<1>. QED
  BY <1>4, <1>7 DEF a2, b2

\* The guard's question about the stored points.
LEMMA GuardKept ==
  ASSUME NEW kb, ~TooMany(kb),
         \A s \in Subtopics \ KeptIds(kb) : points[s] = NoPoint => points'[s] = NoPoint,
         \A s \in KeptIds(kb) \cap Subtopics : points[s] # NoPoint => points'[s] # NoPoint
  PROVE  ~TooMany(kb)'
<1> DEFINE K == KeptIds(kb)
<1>1. Held \subseteq Subtopics /\ Held' \subseteq Subtopics
  BY DEF Held
<1>2. IsFiniteSet(Held) /\ IsFiniteSet(Held')
  BY <1>1, TaxLawAssumption, FS_Subset
<1>3. Held' \ K \subseteq Held \ K
  BY DEF Held
<1>4. Held \cap K \subseteq Held'
  BY DEF Held
<1>5. ~(/\ Cardinality(Held \ K) >= GuardMin
        /\ Cardinality(Held \ K) * 2 > Cardinality(Held))
  BY DEF TooMany, Stale
<1>6. K' = K
  BY DEF KeptIds, Kept, Ids, Filled, Nth
<1>7. ~(/\ Cardinality(Held' \ K) >= GuardMin
        /\ Cardinality(Held' \ K) * 2 > Cardinality(Held'))
  <2> HIDE DEF K
  <2>. QED
    BY <1>2, <1>3, <1>4, <1>5, GuardAgain
<1>. QED
  BY <1>6, <1>7 DEF TooMany, Stale

\* What a write makes of the points.
LEMMA WriteEffect ==
  ASSUME IInv, begun' = begun,
         \/ run.pc = "upsert" /\ points' = Upserted
         \/ run.pc = "delete" /\ points' = Removed
  PROVE  /\ run.reading \in KnowledgeBases /\ begun = run.reading
         /\ points' \in [Subtopics -> Points \cup {NoPoint}]
         /\ run.pc = "upsert" =>
              /\ SliceIds \subseteq KeptIds(run.reading)
              /\ \A s \in SliceIds : points'[s] = Expected(run.reading)[s]
              /\ \A s \in Subtopics \ SliceIds : points'[s] = points[s]
         /\ run.pc = "delete" =>
              /\ \A s \in KeptIds(run.reading) : points'[s] = points[s]
              /\ \A s \in Subtopics \ KeptIds(run.reading) : points'[s] = NoPoint
         /\ \A s \in KeptIds(run.reading) : points[s] # NoPoint => points'[s] # NoPoint
         /\ \A s \in Subtopics \ KeptIds(run.reading) :
              points[s] = NoPoint => points'[s] = NoPoint
         /\ ~TooMany(begun)'
<1> DEFINE kb == run.reading
<1>1. /\ kb \in KnowledgeBases /\ begun = kb /\ run.stale = Had \ KeptIds(kb)
      /\ embedding.vectors = ContentOf(kb)
      /\ run.rest \subseteq DOMAIN Kept(kb)
      /\ \A s \in Subtopics \ KeptIds(kb) : points[s] = before[s]
      /\ points \in [Subtopics -> Points \cup {NoPoint}]
  BY IndexableKeeps DEF IInv, TypeOK, RunReads, VectorsInOrder, PassedTheGuard, UpSoFar
<1>2. KeptIds(kb) \subseteq Subtopics
  BY <1>1, KeptType
<1>3. SliceIds \subseteq KeptIds(kb)
  BY <1>1 DEF SliceIds, Slice, KeptIds, Ids
<1>4. ASSUME NEW s \in KeptIds(kb)
      PROVE  /\ PointOf(kb, s, embedding.vectors) = Expected(kb)[s]
             /\ Expected(kb)[s] \in Points /\ Expected(kb)[s] # NoPoint
  <2>1. Expected(kb)[s] = PointOf(kb, s, ContentOf(kb))
    BY <1>2, <1>4 DEF Expected
  <2>. QED
    BY <1>1, <2>1, PointType, TaxLawAssumption
<1> HIDE DEF kb
<1>5. ASSUME run.pc = "upsert", points' = Upserted
      PROVE  /\ \A s \in SliceIds : points'[s] = Expected(kb)[s]
             /\ \A s \in Subtopics \ SliceIds : points'[s] = points[s]
             /\ points' \in [Subtopics -> Points \cup {NoPoint}]
  <2>1. points' = [s \in Subtopics |-> IF s \in SliceIds
                                       THEN PointOf(kb, s, embedding.vectors)
                                       ELSE points[s]]
    BY <1>5 DEF Upserted, kb
  <2>. QED
    BY <1>1, <1>2, <1>3, <1>4, <2>1
<1>6. ASSUME run.pc = "delete", points' = Removed
      PROVE  /\ \A s \in KeptIds(kb) : points'[s] = points[s]
             /\ \A s \in Subtopics \ KeptIds(kb) : points'[s] = NoPoint
             /\ points' \in [Subtopics -> Points \cup {NoPoint}]
  BY <1>1, <1>2, <1>6 DEF Removed, Had
<1>7. /\ \A s \in KeptIds(kb) : points[s] # NoPoint => points'[s] # NoPoint
      /\ \A s \in Subtopics \ KeptIds(kb) : points[s] = NoPoint => points'[s] = NoPoint
  BY <1>2, <1>3, <1>4, <1>5, <1>6
<1>8. ~TooMany(kb)
  BY <1>1 DEF IInv, GuardStaysPassed
<1>9. ~TooMany(begun)'
  <2>1. PICK file0 : file0 = kb
    OBVIOUS
  <2>2. begun' = file0
    BY <1>1, <2>1
  <2>3. ~TooMany(file0)'
    BY <1>7, <1>8, <2>1, GuardKept
  <2>. QED
    BY <2>2, <2>3 DEF TooMany, Stale
<1>. QED
  BY <1>1, <1>3, <1>5, <1>6, <1>7, <1>9 DEF kb

-----------------------------------------------------------------------------
(***************************************************************************)
(* The steps.                                                              *)
(***************************************************************************)
\* All of the invariant but the types.
Course ==
    /\ RunReads /\ VectorsInOrder /\ AttemptsLeft /\ UntouchedSoFar
    /\ PassedTheGuard /\ UpSoFar /\ GuardStaysPassed

\* The end of a run, whatever the reason.
LEMMA EndStep ==
  ASSUME NEW exit \in {"none", "matches", "unusable", "not_ready", "killed"}, End(exit),
         GuardStaysPassed'
  PROVE  run' \in Runs /\ EmbeddingType' /\ Course' /\ run'.pc = "idle" /\ run'.exit = exit
<1>1. run' \in Runs /\ run'.pc = "idle" /\ run'.exit = exit
  BY DEF End, Idle, Runs, Files
<1>2. EmbeddingType' /\ embedding'.pc = "off"
  <2>1. PICK j : j = NoEmbedding
    OBVIOUS
  <2>2. <<>> \in Seq(Texts) /\ TRUE \in BOOLEAN
    OBVIOUS
  <2>3. j \in Clients /\ j.pc = "off"
    BY <2>1, <2>2, ClientTypes
  <2>. QED
    BY <2>1, <2>3 DEF End, EmbeddingType, Clients
<1>3. Course'
  BY <1>1, <1>2 DEF Course, RunReads, VectorsInOrder, AttemptsLeft, UntouchedSoFar,
                    PassedTheGuard, UpSoFar
<1>. QED
  BY <1>1, <1>2, <1>3

\* The guard's answer stays while nobody writes.
LEMMA GuardWaits ==
  ASSUME GuardStaysPassed, points' = points, begun' = begun
  PROVE  GuardStaysPassed'
  BY DEF GuardStaysPassed, TooMany, Stale, Held

\* What happens around the command.
LEMMA AroundStep ==
  ASSUME IInv,
         UNCHANGED vars \/ ChangeFile \/ Weather \/ DeleteCollection \/ CreateElsewhere
  PROVE  TypeOK' /\ Course'
<1>1. run' = run /\ embedding' = embedding /\ before' = before
  BY DEF vars, ChangeFile, Weather, DeleteCollection, CreateElsewhere
<1>2. CASE DeleteCollection
  <2>1. points' = NoPoints /\ begun' = Garbage /\ run.pc = "idle"
    BY <1>2 DEF DeleteCollection
  <2>2. TypeOK'
    BY <1>1, <1>2, <2>1 DEF IInv, TypeOK, DeleteCollection, NoPoints, Files, EmbeddingType
  <2>3. GuardStaysPassed'
    BY <2>1, TaxLawAssumption DEF GuardStaysPassed
  <2>4. Course'
    BY <1>1, <2>1, <2>3
       DEF IInv, Course, RunReads, VectorsInOrder, AttemptsLeft, UntouchedSoFar,
           PassedTheGuard, UpSoFar
  <2>. QED
    BY <2>2, <2>4
<1>3. CASE UNCHANGED vars \/ ChangeFile \/ Weather \/ CreateElsewhere
  <2>1. points' = points /\ begun' = begun
    BY <1>3 DEF vars, ChangeFile, Weather, CreateElsewhere
  <2>2. TypeOK'
    BY <1>1, <1>3, <2>1
       DEF IInv, TypeOK, EmbeddingType, vars, ChangeFile, Weather, CreateElsewhere, Files
  <2>3. GuardStaysPassed'
    BY <2>1, GuardWaits DEF IInv
  <2>4. Course'
    BY <1>1, <2>1, <2>3
       DEF IInv, Course, RunReads, VectorsInOrder, AttemptsLeft, UntouchedSoFar,
           PassedTheGuard, UpSoFar, Had
  <2>. QED
    BY <2>2, <2>4
<1>. QED
  BY <1>2, <1>3

\* A run begins, or ends before it begins.
LEMMA BeginStep ==
  ASSUME IInv, ReadFile \/ NotConnected
  PROVE  TypeOK' /\ Course'
<1>1. /\ TypeOK /\ points' = points /\ begun' = begun /\ before' = points
      /\ UNCHANGED <<file, collection, calm>>
  BY DEF IInv, ReadFile, NotConnected
<1>2. GuardStaysPassed'
  BY <1>1, GuardWaits DEF IInv
<1>3. ASSUME run' \in Runs, EmbeddingType' PROVE TypeOK'
  BY <1>1, <1>3 DEF TypeOK
<1>4. ASSUME NEW exit \in {"none", "matches", "unusable", "not_ready", "killed"}, End(exit)
      PROVE  TypeOK' /\ Course'
  BY <1>2, <1>3, <1>4, EndStep
<1>5. CASE /\ Indexable(file)
           /\ run' = [Idle EXCEPT !.pc = "embed", !.reading = file]
           /\ embedding' = EmbedDocuments(ContentOf(file))
  <2>1. PICK kb : kb = file
    OBVIOUS
  <2>2. kb \in KnowledgeBases /\ Indexable(kb)
    BY <1>5, <2>1, IndexableKeeps
  <2>3. PICK content : content = ContentOf(kb)
    OBVIOUS
  <2>4. content \in Seq(Texts) /\ TRUE \in BOOLEAN
    BY <2>2, <2>3, KeptType
  <2>5. PICK j : j = EmbedDocuments(content)
    OBVIOUS
  <2>6. j \in Clients /\ j.pc = "post" /\ j.left = content /\ j.vectors = <<>>
    BY ONLY <2>4, <2>5, ClientTypes
  <2>7. embedding' = j
    BY <1>5, <2>1, <2>3, <2>5
  <2>8. EmbeddingType'
    BY <2>6, <2>7 DEF EmbeddingType, Clients
  <2>9. /\ run' \in Runs /\ run'.pc = "embed" /\ run'.exit = "none"
        /\ run'.reading = kb
    BY <1>1, <1>5, <2>1, <2>2 DEF Idle, Runs, Files
  <2>10. <<>> \o content = content
    BY <2>4, ConcatEmptySeq
  <2>11. VectorsInOrder' /\ AttemptsLeft'
    BY <2>3, <2>6, <2>7, <2>9, <2>10
       DEF VectorsInOrder, AttemptsLeft
  <2>12. RunReads'
    BY <2>2, <2>9 DEF RunReads
  <2>13. UntouchedSoFar' /\ PassedTheGuard' /\ UpSoFar'
    BY <1>1, <2>9 DEF UntouchedSoFar, PassedTheGuard, UpSoFar
  <2>. QED
    BY <1>2, <1>3, <2>8, <2>9, <2>11, <2>12, <2>13 DEF Course
<1>6. CASE End("unusable") \/ End("not_ready")
  BY <1>4, <1>6
<1>. QED
  BY <1>5, <1>6 DEF ReadFile, NotConnected

\* The texts are embedded, or the run ends without a write.
LEMMA EmbedStep ==
  ASSUME IInv, Embedding \/ Embedded
  PROVE  TypeOK' /\ Course'
<1>1. /\ TypeOK /\ run \in Runs /\ run.pc = "embed" /\ RunReads /\ VectorsInOrder
      /\ UntouchedSoFar /\ EmbeddingType /\ AttemptsLeft
      /\ points' = points /\ begun' = begun /\ before' = before
      /\ UNCHANGED <<file, collection, calm>>
  BY DEF IInv, TypeOK, Embedding, Embedded, around
<1>2. GuardStaysPassed'
  BY <1>1, GuardWaits DEF IInv
<1>3. ASSUME run' \in Runs, EmbeddingType' PROVE TypeOK'
  BY <1>1, <1>3 DEF TypeOK
<1>4. ASSUME NEW exit \in {"none", "matches", "unusable", "not_ready", "killed"}, End(exit)
      PROVE  TypeOK' /\ Course'
  BY <1>2, <1>3, <1>4, EndStep
<1>5. CASE Embedding
  <2>1. run' = run /\ (Again \/ Answered \/ HoldOff \/ GiveUp)
    BY <1>5 DEF Embedding
  <2>2. PICK content : content = ContentOf(run.reading)
    OBVIOUS
  <2>3. embedding.pc \in {"post", "sleep", "done"} =>
           embedding.vectors \o embedding.left = content
    BY <1>1, <2>2 DEF VectorsInOrder
  <2>4. /\ EmbeddingType' /\ AttemptsLeft'
        /\ embedding'.pc \in {"post", "sleep", "done"} =>
             embedding'.vectors \o embedding'.left = content
        /\ embedding'.pc = "done" => embedding'.left = <<>>
    BY <1>1, <2>1, <2>3, EmbeddingStep
  <2>5. content = ContentOf(run'.reading) /\ run'.pc = "embed"
    BY <1>1, <2>1, <2>2
  <2>6. VectorsInOrder'
    BY <2>4, <2>5 DEF VectorsInOrder
  <2>7. RunReads' /\ UntouchedSoFar' /\ PassedTheGuard' /\ UpSoFar'
    BY <1>1, <2>1 DEF RunReads, UntouchedSoFar, PassedTheGuard, UpSoFar
  <2>8. TypeOK'
    BY <1>1, <1>3, <2>1, <2>4
  <2>. QED
    BY <1>2, <2>4, <2>6, <2>7, <2>8 DEF Course
<1>6. CASE /\ embedding.pc = "done" /\ run' = [run EXCEPT !.pc = "exists"]
           /\ UNCHANGED embedding
  <2>1. /\ run' \in Runs /\ run'.pc = "exists" /\ run'.exit = run.exit
        /\ run'.reading = run.reading
    BY <1>1, <1>6 DEF Runs
  <2>2. TypeOK'
    BY <1>1, <1>3, <1>6, <2>1 DEF EmbeddingType
  <2>3. embedding.vectors = ContentOf(run.reading)
    <3>1. /\ embedding.vectors \o embedding.left = ContentOf(run.reading)
          /\ embedding.left = <<>>
      BY <1>1, <1>6 DEF VectorsInOrder
    <3>2. embedding.vectors \in Seq(Texts)
      BY <1>1 DEF EmbeddingType
    <3>3. embedding.vectors \o <<>> = embedding.vectors
      BY <3>2, ConcatEmptySeq
    <3>. QED
      BY <3>1, <3>3
  <2>4. VectorsInOrder'
    BY <1>1, <1>6, <2>1, <2>3 DEF VectorsInOrder
  <2>5. RunReads' /\ UntouchedSoFar' /\ PassedTheGuard' /\ UpSoFar' /\ AttemptsLeft'
    BY <1>1, <1>6, <2>1
       DEF RunReads, UntouchedSoFar, PassedTheGuard, UpSoFar, AttemptsLeft
  <2>. QED
    BY <1>2, <2>2, <2>4, <2>5 DEF Course
<1>7. CASE embedding.pc = "failed" /\ (End("not_ready") \/ End("unusable"))
  BY <1>4, <1>7
<1>. QED
  BY <1>5, <1>6, <1>7 DEF Embedded

\* The collection is found or created, and its slots are right or not.
LEMMA CollectionStep ==
  ASSUME IInv, Exists \/ Create \/ CheckSchema
  PROVE  TypeOK' /\ Course'
<1>1. /\ TypeOK /\ run \in Runs /\ run.pc \in {"exists", "create", "schema"} /\ RunReads
      /\ VectorsInOrder /\ UntouchedSoFar /\ AttemptsLeft
      /\ points' = points /\ begun' = begun /\ before' = before
      /\ UNCHANGED <<file, calm>>
      /\ collection' \in {"absent", "wrong", "ready"}
  BY DEF IInv, TypeOK, Exists, Create, CheckSchema, around
<1>2. GuardStaysPassed'
  BY <1>1, GuardWaits DEF IInv
<1>3. ASSUME run' \in Runs, EmbeddingType' PROVE TypeOK'
  BY <1>1, <1>3 DEF TypeOK
<1>4. ASSUME NEW pc \in {"create", "schema", "scroll"}, run' = [run EXCEPT !.pc = pc],
             embedding' = embedding
      PROVE  TypeOK' /\ Course'
  <2>1. /\ run' \in Runs /\ run'.pc = pc /\ run'.exit = run.exit
        /\ run'.reading = run.reading
    BY <1>1, <1>4 DEF Runs
  <2>2. TypeOK'
    BY <1>1, <1>3, <1>4, <2>1 DEF TypeOK, EmbeddingType
  <2>3. /\ RunReads' /\ VectorsInOrder' /\ UntouchedSoFar' /\ PassedTheGuard'
        /\ UpSoFar' /\ AttemptsLeft'
    BY <1>1, <1>4, <2>1
       DEF RunReads, VectorsInOrder, UntouchedSoFar, PassedTheGuard, UpSoFar, AttemptsLeft
  <2>. QED
    BY <1>2, <2>2, <2>3 DEF Course
<1>5. CASE Exists \/ Create
  BY <1>4, <1>5 DEF Exists, Create
<1>6. CASE CheckSchema
  <2>1. CASE End("not_ready")
    BY <1>2, <1>3, <2>1, EndStep
  <2>. QED
    BY <1>4, <1>6, <2>1 DEF CheckSchema
<1>. QED
  BY <1>5, <1>6

\* The guard refuses the file, or the writes begin.
LEMMA GuardStep ==
  ASSUME IInv, FindStale
  PROVE  TypeOK' /\ Course'
<1>1. /\ TypeOK /\ run \in Runs /\ run.pc = "scroll" /\ RunReads /\ VectorsInOrder
      /\ AttemptsLeft /\ points = before /\ points' = points /\ before' = before
      /\ UNCHANGED <<file, calm, collection>>
  BY DEF IInv, TypeOK, FindStale, around, UntouchedSoFar
<1>2. run.reading \in KnowledgeBases /\ run.exit = "none"
  BY <1>1, IndexableKeeps DEF RunReads
<1>3. CASE TooMany(run.reading)
  <2>1. End("unusable") /\ begun' = begun
    BY <1>3 DEF FindStale
  <2>2. GuardStaysPassed'
    BY <1>1, <2>1, GuardWaits DEF IInv
  <2>3. run' \in Runs /\ EmbeddingType' /\ Course'
    BY <2>1, <2>2, EndStep
  <2>. QED
    BY <1>1, <2>1, <2>3 DEF TypeOK
<1>4. CASE ~TooMany(run.reading)
  <2>1. PICK kb \in KnowledgeBases : kb = run.reading
    BY <1>2
  <2>2. PICK stale, rest : stale = Stale(kb) /\ rest = DOMAIN Kept(kb)
    OBVIOUS
  <2>3. /\ stale \in SUBSET Subtopics /\ rest \in SUBSET Nat
        /\ stale = Had \ KeptIds(kb) /\ Had = Held
    <3>1. rest \in SUBSET Nat
      BY <2>2, KeptType
    <3>. QED
      BY <1>1, <2>2, <3>1 DEF Stale, Held, Had
  <2>4. /\ run' = [run EXCEPT !.pc = "upsert", !.stale = stale, !.rest = rest]
        /\ begun' = kb /\ embedding' = embedding
    BY <1>4, <2>1, <2>2 DEF FindStale
  <2>5. /\ run' \in Runs /\ run'.pc = "upsert" /\ run'.exit = "none"
        /\ run'.reading = kb /\ run'.stale = stale /\ run'.rest = rest
    BY <1>1, <1>2, <2>1, <2>3, <2>4 DEF Runs
  <2>6. TypeOK'
    BY <1>1, <2>4, <2>5 DEF TypeOK, EmbeddingType, Files
  <2>7. Had' = Had
    BY <1>1 DEF Had
  <2>8. GuardStaysPassed'
    BY <1>1, <1>4, <2>1, <2>4 DEF GuardStaysPassed, TooMany, Stale, Held
  <2>9. PassedTheGuard'
    BY <1>4, <2>1, <2>2, <2>3, <2>4, <2>5, <2>7 DEF PassedTheGuard, TooMany
  <2>10. UpSoFar'
    BY <1>1, <2>2, <2>5 DEF UpSoFar
  <2>11. RunReads' /\ VectorsInOrder' /\ UntouchedSoFar' /\ AttemptsLeft'
    BY <1>1, <2>1, <2>4, <2>5 DEF RunReads, VectorsInOrder, UntouchedSoFar, AttemptsLeft
  <2>. QED
    BY <2>6, <2>8, <2>9, <2>10, <2>11 DEF Course
<1>. QED
  BY <1>3, <1>4

\* What is up after a batch, or after the delete.
LEMMA Written ==
  ASSUME IInv, Upsert \/ Delete
  PROVE  /\ \A i \in DOMAIN Kept(run.reading) \ (run.rest \ Slice) :
              points'[Kept(run.reading)[i].id] =
                Expected(run.reading)[Kept(run.reading)[i].id]
         /\ run.pc = "delete" => run.rest = {}
<1>1. /\ \/ run.pc = "upsert" /\ points' = Upserted
         \/ run.pc = "delete" /\ points' = Removed
      /\ begun' = begun
  BY DEF Upsert, Delete
<1>2. PICK kb \in KnowledgeBases : kb = run.reading
  BY <1>1, WriteEffect
<1>3. /\ \A i \in DOMAIN Kept(kb) \ run.rest :
           points[Kept(kb)[i].id] = Expected(kb)[Kept(kb)[i].id]
      /\ run.pc = "delete" => run.rest = {}
  BY <1>1, <1>2 DEF IInv, UpSoFar
<1>4. /\ run.pc = "upsert" =>
           /\ \A s \in SliceIds : points'[s] = Expected(kb)[s]
           /\ \A s \in Subtopics \ SliceIds : points'[s] = points[s]
      /\ run.pc = "delete" => \A s \in KeptIds(kb) : points'[s] = points[s]
  BY <1>1, <1>2, WriteEffect
<1>5. ASSUME NEW i \in DOMAIN Kept(kb) \ (run.rest \ Slice)
      PROVE  points'[Kept(kb)[i].id] = Expected(kb)[Kept(kb)[i].id]
  <2> DEFINE s == Kept(kb)[i].id
  <2>1. s \in KeptIds(kb) /\ s \in Subtopics
    BY <1>2, KeptType DEF KeptIds, Ids
  <2>2. i \notin run.rest => points[s] = Expected(kb)[s]
    BY <1>3
  <2>3. i \in Slice => s \in SliceIds
    BY <1>2 DEF SliceIds
  <2>4. i \notin run.rest \/ i \in Slice
    OBVIOUS
  <2> HIDE DEF s
  <2>5. CASE run.pc = "upsert"
    BY <1>4, <2>1, <2>2, <2>3, <2>4, <2>5 DEF s
  <2>6. CASE run.pc = "delete"
    <3>1. i \notin run.rest
      BY <1>3, <2>6
    <3>. QED
      BY <1>4, <2>1, <2>2, <2>6, <3>1 DEF s
  <2>. QED
    BY <1>1, <2>5, <2>6
<1>. QED
  BY <1>2, <1>3, <1>5

\* One batch more: the next, the deletes, or the end.
LEMMA UpsertStep ==
  ASSUME IInv, Upsert
  PROVE  TypeOK' /\ Course'
<1>1. /\ TypeOK /\ run \in Runs /\ run.pc = "upsert" /\ RunReads /\ VectorsInOrder
      /\ AttemptsLeft /\ PassedTheGuard /\ UpSoFar
      /\ points' = Upserted /\ begun' = begun /\ before' = before
      /\ UNCHANGED <<file, calm, collection>>
  BY DEF IInv, TypeOK, Upsert, around
<1>2. PICK kb \in KnowledgeBases : kb = run.reading
  BY <1>1, WriteEffect
<1>3. /\ points' \in [Subtopics -> Points \cup {NoPoint}] /\ ~TooMany(begun)'
      /\ SliceIds \subseteq KeptIds(kb)
      /\ \A s \in Subtopics \ SliceIds : points'[s] = points[s]
      /\ \A s \in KeptIds(kb) : points[s] # NoPoint => points'[s] # NoPoint
  BY <1>1, <1>2, WriteEffect
<1>4. GuardStaysPassed'
  BY <1>3 DEF GuardStaysPassed
<1>5. ASSUME run' \in Runs, EmbeddingType' PROVE TypeOK'
  BY <1>1, <1>3, <1>5 DEF TypeOK
<1>6. CASE End("matches")
  BY <1>4, <1>5, <1>6, EndStep
<1>7. CASE /\ \/ run' = [run EXCEPT !.rest = @ \ Slice]
              \/ run' = [run EXCEPT !.rest = {}, !.pc = "delete"] /\ run.rest = Slice
           /\ UNCHANGED embedding
  <2>1. /\ run' \in Runs /\ run'.pc \in {"upsert", "delete"} /\ run'.exit = run.exit
        /\ run'.reading = kb /\ run'.stale = run.stale
        /\ run'.rest = run.rest \ Slice /\ (run'.pc = "delete" => run'.rest = {})
    BY <1>1, <1>2, <1>7 DEF Runs
  <2>2. TypeOK'
    BY <1>1, <1>5, <1>7, <2>1 DEF TypeOK, EmbeddingType
  <2>3. RunReads' /\ VectorsInOrder' /\ UntouchedSoFar' /\ AttemptsLeft'
    BY <1>1, <1>2, <1>7, <2>1 DEF RunReads, VectorsInOrder, UntouchedSoFar, AttemptsLeft
  <2>4. PassedTheGuard'
    BY <1>1, <1>2, <2>1 DEF PassedTheGuard, Had
  <2>5. run'.rest \subseteq DOMAIN Kept(kb)
    BY <1>1, <1>2, <2>1 DEF UpSoFar
  <2>6. \A i \in DOMAIN Kept(kb) \ run'.rest :
          points'[Kept(kb)[i].id] = Expected(kb)[Kept(kb)[i].id]
    <3>1. Upsert
      OBVIOUS
    <3>. QED
      BY <1>2, <2>1, <3>1, Written
  <2>7. \A s \in KeptIds(kb) : before'[s] # NoPoint => points'[s] # NoPoint
    BY <1>1, <1>2, <1>3 DEF UpSoFar
  <2>8. \A s \in Subtopics \ KeptIds(kb) : points'[s] = before'[s]
    BY <1>1, <1>2, <1>3 DEF UpSoFar
  <2>9. UpSoFar'
    BY <2>1, <2>5, <2>6, <2>7, <2>8 DEF UpSoFar
  <2>. QED
    BY <1>4, <2>2, <2>3, <2>4, <2>9 DEF Course
<1>. QED
  BY <1>6, <1>7 DEF Upsert

\* The leftovers go, and the run is over.
LEMMA DeleteStep ==
  ASSUME IInv, Delete
  PROVE  TypeOK' /\ Course'
<1>1. /\ TypeOK /\ End("matches") /\ points' = Removed /\ run.pc = "delete"
      /\ begun' = begun /\ UNCHANGED <<file, calm, before, collection>>
  BY DEF IInv, Delete, around
<1>2. points' \in [Subtopics -> Points \cup {NoPoint}] /\ ~TooMany(begun)'
  BY <1>1, WriteEffect
<1>3. GuardStaysPassed'
  BY <1>2 DEF GuardStaysPassed
<1>4. run' \in Runs /\ EmbeddingType' /\ Course'
  BY <1>1, <1>3, EndStep
<1>. QED
  BY <1>1, <1>2, <1>4 DEF TypeOK

\* A call fails, with or without its effect, or the process is killed.
LEMMA FaultStep ==
  ASSUME IInv, CallFails \/ Kill
  PROVE  TypeOK' /\ Course'
<1>1. /\ TypeOK /\ begun' = begun /\ UNCHANGED <<file, calm, before>>
      /\ collection' \in {"absent", "wrong", "ready"}
      /\ End("not_ready") \/ End("killed")
  BY DEF IInv, TypeOK, CallFails, Kill, around
<1>2. /\ points' \in [Subtopics -> Points \cup {NoPoint}]
      /\ GuardStaysPassed'
  <2>1. CASE points' = points
    BY <1>1, <2>1, GuardWaits DEF IInv, TypeOK
  <2>2. CASE \/ run.pc = "upsert" /\ points' = Upserted
             \/ run.pc = "delete" /\ points' = Removed
    <3>1. points' \in [Subtopics -> Points \cup {NoPoint}] /\ ~TooMany(begun)'
      BY <1>1, <2>2, WriteEffect
    <3>. QED
      BY <3>1 DEF GuardStaysPassed
  <2>. QED
    BY <2>1, <2>2 DEF CallFails, Kill
<1>3. run' \in Runs /\ EmbeddingType' /\ Course'
  BY <1>1, <1>2, EndStep
<1>. QED
  BY <1>1, <1>2, <1>3 DEF TypeOK

\* The first state.
LEMMA InitInv == Init => IInv
<1> SUFFICES ASSUME Init PROVE IInv
  OBVIOUS
<1>1. PICK j : j = NoEmbedding
  OBVIOUS
<1>2. <<>> \in Seq(Texts) /\ TRUE \in BOOLEAN
  OBVIOUS
<1>3. j \in Clients /\ j.pc = "off" /\ j.left = <<>>
  BY <1>1, <1>2, ClientTypes
<1>4. EmbeddingType /\ embedding.pc = "off"
  BY <1>1, <1>3 DEF Init, EmbeddingInit, EmbeddingType, Clients
<1>5. run \in Runs /\ run.pc = "idle"
  BY DEF Init, Idle, Runs, Files
<1>6. points \in [Subtopics -> Points \cup {NoPoint}]
  BY DEF Init, NoPoints
<1>7. TypeOK
  BY <1>4, <1>5, <1>6 DEF Init, TypeOK, Files
<1>8. Course
  BY <1>4, <1>5, TaxLawAssumption
     DEF Init, Course, RunReads, VectorsInOrder, AttemptsLeft, UntouchedSoFar,
         PassedTheGuard, UpSoFar, GuardStaysPassed
<1>. QED
  BY <1>7, <1>8 DEF IInv, Course

\* Every step keeps the invariant.
LEMMA StepInv == IInv /\ [Next]_vars => IInv'
<1> SUFFICES ASSUME IInv, [Next]_vars PROVE TypeOK' /\ Course'
  BY DEF IInv, Course
<1>1. CASE UNCHANGED vars \/ ChangeFile \/ Weather \/ DeleteCollection \/ CreateElsewhere
  BY <1>1, AroundStep
<1>2. CASE ReadFile \/ NotConnected
  BY <1>2, BeginStep
<1>3. CASE Embedding \/ Embedded
  BY <1>3, EmbedStep
<1>4. CASE Exists \/ Create \/ CheckSchema
  BY <1>4, CollectionStep
<1>5. CASE FindStale
  BY <1>5, GuardStep
<1>6. CASE Upsert
  BY <1>6, UpsertStep
<1>7. CASE Delete
  BY <1>7, DeleteStep
<1>8. CASE CallFails \/ Kill
  BY <1>8, FaultStep
<1>. QED
  BY <1>1, <1>2, <1>3, <1>4, <1>5, <1>6, <1>7, <1>8 DEF Next, Progress

-----------------------------------------------------------------------------
(***************************************************************************)
(* The theorems.                                                           *)
(***************************************************************************)
\* The invariant holds in every reachable state.
THEOREM Invariance == Spec => []IInv
BY InitInv, StepInv, PTL DEF Spec

\* Every variable holds what the code can store in it, and no wait is longer
\* than the cap.
THEOREM TypeCorrect == Spec => []TypeOK
<1>1. IInv => TypeOK
  BY DEF IInv
<1>. QED
  BY <1>1, Invariance, PTL

\* The guard never refuses the file whose run was interrupted.
THEOREM InterruptedIsRepaired == Spec => []RepairNotRefused
<1>1. IInv => RepairNotRefused
  <2> SUFFICES ASSUME IInv, run.pc = "scroll", run.reading = begun
               PROVE  ~TooMany(run.reading)
    BY DEF RepairNotRefused
  <2>1. Indexable(run.reading)
    BY DEF IInv, RunReads
  <2>2. begun \in KnowledgeBases
    BY <2>1, IndexableKeeps
  <2>. QED
    BY <2>2 DEF IInv, GuardStaysPassed
<1>. QED
  BY <1>1, Invariance, PTL

\* A step that ends a run with 0 leaves the points of the file it has read.
LEMMA MatchesTells ==
  ASSUME IInv, [Next]_vars, run.pc # "idle", run'.exit = "matches"
  PROVE  points' = Expected(run.reading)
<1>1. Upsert \/ Delete
  <2>1. run.exit = "none"
    BY DEF IInv, RunReads
  <2>. QED
    BY <2>1 DEF Next, Progress, vars, ChangeFile, Weather, DeleteCollection,
                CreateElsewhere, ReadFile, NotConnected, Embedding, Embedded, Exists,
                Create, CheckSchema, FindStale, CallFails, Kill, End, Idle, IInv,
                TypeOK, Runs
<1>2. PICK kb \in KnowledgeBases : kb = run.reading
  BY IndexableKeeps DEF IInv, RunReads
<1>3. /\ run.pc \in {"upsert", "delete"} /\ begun' = begun
      /\ run.pc = "upsert" => points' = Upserted /\ run.rest = Slice /\ run.stale = {}
      /\ run.pc = "delete" => points' = Removed
  <2>1. run.exit = "none" /\ run \in Runs
    BY DEF IInv, TypeOK, RunReads
  <2>. QED
    BY <1>1, <2>1 DEF Upsert, Delete, Runs
<1>4. /\ points' \in [Subtopics -> Points \cup {NoPoint}]
      /\ run.pc = "upsert" =>
           /\ SliceIds \subseteq KeptIds(kb)
           /\ \A s \in Subtopics \ SliceIds : points'[s] = points[s]
      /\ run.pc = "delete" => \A s \in Subtopics \ KeptIds(kb) : points'[s] = NoPoint
  BY <1>2, <1>3, WriteEffect
<1>5. ASSUME NEW s \in KeptIds(kb) PROVE points'[s] = Expected(kb)[s]
  <2>1. PICK i \in DOMAIN Kept(kb) : Kept(kb)[i].id = s
    BY DEF KeptIds, Ids
  <2>2. i \notin run.rest \ Slice
    BY <1>1, <1>3, Written
  <2>. QED
    BY <1>1, <1>2, <2>1, <2>2, Written
<1>6. ASSUME NEW s \in Subtopics \ KeptIds(kb) PROVE points'[s] = NoPoint
  <2>1. CASE run.pc = "upsert"
    <3>1. points'[s] = before[s]
      BY <1>2, <1>4, <2>1 DEF IInv, UpSoFar
    <3>2. Had \ KeptIds(kb) = {}
      BY <1>2, <1>3, <2>1 DEF IInv, PassedTheGuard
    <3>. QED
      BY <3>1, <3>2 DEF Had
  <2>. QED
    BY <1>3, <1>4, <2>1
<1>7. KeptIds(kb) \subseteq Subtopics
  BY KeptType
<1>8. \A s \in Subtopics : points'[s] = Expected(kb)[s]
  BY <1>5, <1>6 DEF Expected
<1>9. PICK e : e = Expected(kb)
  OBVIOUS
<1>10. e = [s \in Subtopics |-> e[s]]
  BY <1>9 DEF Expected
<1>11. points' = [s \in Subtopics |-> points'[s]]
  BY <1>4
<1>. QED
  BY <1>2, <1>8, <1>9, <1>10, <1>11

\* Exit 0 leaves exactly the points of the file that was read, and exit 1 the
\* points as they were.
THEOREM ExitIsTold == Spec => ExitTells
<1>1. IInv /\ [Next]_vars =>
        [/\ (run.pc # "idle" /\ run'.exit = "matches") => points' = Expected(run.reading)
         /\ run'.exit = "unusable" => points' = before']_run
  <2> SUFFICES ASSUME IInv, [Next]_vars, run' # run
               PROVE  /\ (run.pc # "idle" /\ run'.exit = "matches") =>
                            points' = Expected(run.reading)
                      /\ run'.exit = "unusable" => points' = before'
    OBVIOUS
  <2>1. (run.pc # "idle" /\ run'.exit = "matches") => points' = Expected(run.reading)
    BY MatchesTells
  <2>2. ASSUME run'.exit = "unusable" PROVE points' = before'
    <3>1. run \in Runs /\ (run.pc # "idle" => run.exit = "none")
      BY DEF IInv, TypeOK, RunReads
    <3>2. ReadFile \/ Embedded \/ FindStale
      BY <2>2, <3>1
         DEF Next, Progress, vars, ChangeFile, Weather, DeleteCollection, CreateElsewhere,
             NotConnected, Embedding, Exists, Create, CheckSchema, Upsert, Delete,
             CallFails, Kill, End, Idle, Runs
    <3>. QED
      BY <3>2 DEF ReadFile, Embedded, FindStale, around, IInv, UntouchedSoFar
  <2>. QED
    BY <2>1, <2>2
<1>. QED
  BY <1>1, Invariance, PTL DEF Spec, ExitTells

\* The points change under a run by its writes only.
LEMMA OnlyWrites ==
  ASSUME IInv, [Next]_vars, run.pc # "idle"
  PROVE  \/ points' = points
         \/ /\ begun' = begun
            /\ \/ run.pc = "upsert" /\ points' = Upserted
               \/ run.pc = "delete" /\ points' = Removed
BY DEF Next, Progress, vars, ChangeFile, Weather, DeleteCollection, CreateElsewhere,
       ReadFile, NotConnected, Embedding, Embedded, Exists, Create, CheckSchema,
       FindStale, Upsert, Delete, CallFails, Kill

\* A stored subtopic that the file still has is found throughout the run.
THEOREM NeverLost == Spec => KeptStayFindable
<1>1. IInv /\ [Next]_vars =>
        [\A s \in Held :
            run.pc # "idle" /\ s \in KeptIds(run.reading) => points'[s] # NoPoint]_vars
  <2> SUFFICES ASSUME IInv, [Next]_vars, NEW s \in Held, run.pc # "idle",
                      s \in KeptIds(run.reading)
               PROVE  points'[s] # NoPoint
    OBVIOUS
  <2>1. points[s] # NoPoint
    BY DEF Held
  <2>. QED
    BY <2>1, OnlyWrites, WriteEffect
<1>. QED
  BY <1>1, Invariance, PTL DEF Spec, KeptStayFindable

\* What a run has taken away so far is of what the guard has let it delete, and
\* nothing before the deletes.
LEMMA TakenAway ==
  ASSUME IInv, [Next]_vars, run.pc # "idle"
  PROVE  /\ run.pc # "delete" => \A s \in Had : points'[s] # NoPoint
         /\ run.pc = "delete" =>
              /\ \A s \in Had : points'[s] = NoPoint => s \in run.stale
              /\ \E s \in Subtopics : points'[s] # NoPoint
<1>1. PICK kb \in KnowledgeBases : kb = run.reading
  BY IndexableKeeps DEF IInv, RunReads
<1>2. KeptIds(kb) \subseteq Subtopics /\ KeptIds(kb) # {}
  BY <1>1, KeptType, IndexableKeeps DEF IInv, RunReads
<1>3. CASE run.pc \in {"embed", "exists", "create", "schema", "scroll"}
  <2>1. points' = points /\ points = before
    BY <1>3, OnlyWrites DEF IInv, UntouchedSoFar
  <2>. QED
    BY <1>3, <2>1 DEF Had
<1>4. CASE run.pc \in {"upsert", "delete"}
  <2>1. /\ \A s \in KeptIds(kb) : before[s] # NoPoint => points[s] # NoPoint
        /\ \A s \in Subtopics \ KeptIds(kb) : points[s] = before[s]
        /\ run.stale = Had \ KeptIds(kb)
    BY <1>1, <1>4 DEF IInv, UpSoFar, PassedTheGuard
  <2>2. \A s \in KeptIds(kb) : points[s] # NoPoint => points'[s] # NoPoint
    BY <1>1, OnlyWrites, WriteEffect
  <2>3. \A s \in Had : points'[s] = NoPoint => s \in run.stale
    BY <1>2, <2>1, <2>2 DEF Had
  <2>4. ASSUME run.pc = "upsert", NEW s \in Had PROVE points'[s] # NoPoint
    <3>1. s \notin KeptIds(kb) => points'[s] = points[s]
      <4>1. CASE points' = points
        BY <4>1
      <4>2. CASE points' = Upserted /\ begun' = begun
        BY <1>1, <2>4, <4>2, WriteEffect DEF Had
      <4>. QED
        BY <2>4, <4>1, <4>2, OnlyWrites
    <3>. QED
      BY <2>1, <2>2, <3>1 DEF Had
  <2>5. ASSUME run.pc = "delete" PROVE \E s \in Subtopics : points'[s] # NoPoint
    <3>1. PICK i \in DOMAIN Kept(kb) : TRUE
      BY <1>2 DEF KeptIds, Ids
    <3>2. PICK s : s = Kept(kb)[i].id
      OBVIOUS
    <3>3. s \in KeptIds(kb) /\ s \in Subtopics
      BY <1>2, <3>2 DEF KeptIds, Ids
    <3>4. points[s] = Expected(kb)[s]
      BY <1>1, <2>5, <3>2 DEF IInv, UpSoFar
    <3>5. Expected(kb)[s] # NoPoint
      <4>1. Expected(kb)[s] = PointOf(kb, s, ContentOf(kb))
        BY <3>3 DEF Expected
      <4>. QED
        BY <3>3, <4>1, PointType, TaxLawAssumption
    <3>. QED
      BY <2>2, <3>3, <3>4, <3>5
  <2>. QED
    BY <1>4, <2>3, <2>4, <2>5
<1>. QED
  BY <1>3, <1>4 DEF IInv, TypeOK, Runs

\* One run takes away fewer points than the guard's number, or at most half, and
\* never the last one.
THEOREM MostIsKept == Spec => RunKeepsMost
<1> DEFINE had  == {s \in Subtopics : before[s] # NoPoint}
           gone == {s \in had : points'[s] = NoPoint}
<1>1. IInv /\ [Next]_vars =>
        [run.pc # "idle" =>
            /\ Cardinality(gone) < GuardMin \/ Cardinality(gone) * 2 <= Cardinality(had)
            /\ had # {} => gone # had \/ \E s \in Subtopics : points'[s] # NoPoint]_vars
  <2> SUFFICES ASSUME IInv, [Next]_vars, run.pc # "idle"
               PROVE  /\ \/ Cardinality(gone) < GuardMin
                         \/ Cardinality(gone) * 2 <= Cardinality(had)
                      /\ had # {} =>
                           gone # had \/ \E s \in Subtopics : points'[s] # NoPoint
    OBVIOUS
  <2>1. had = Had
    BY DEF Had
  <2>2. IsFiniteSet(Had) /\ Cardinality(Had) \in Nat
    BY TaxLawAssumption, FS_Subset, FS_CardinalityType DEF Had
  <2>3. CASE run.pc # "delete"
    <3>1. gone = {}
      BY <2>1, <2>3, TakenAway
    <3>2. Cardinality(gone) = 0
      BY <3>1, FS_EmptySet
    <3> HIDE DEF gone, had
    <3>. QED
      BY <2>1, <2>2, <3>1, <3>2
  <2>4. CASE run.pc = "delete"
    <3>1. /\ ~(/\ Cardinality(run.stale) >= GuardMin
               /\ Cardinality(run.stale) * 2 > Cardinality(Had))
          /\ run.stale \subseteq Had
      BY <2>4 DEF IInv, PassedTheGuard
    <3>2. gone \subseteq run.stale /\ \E s \in Subtopics : points'[s] # NoPoint
      BY <2>1, <2>4, TakenAway
    <3>3. IsFiniteSet(run.stale)
      BY <2>2, <3>1, FS_Subset
    <3>4. /\ Cardinality(gone) <= Cardinality(run.stale) /\ Cardinality(gone) \in Nat
          /\ Cardinality(run.stale) \in Nat
      BY <3>2, <3>3, FS_Subset, FS_CardinalityType
    <3> DEFINE g == Cardinality(gone)  st == Cardinality(run.stale)  h == Cardinality(Had)
    <3> HIDE DEF g, st, h
    <3>5. g < GuardMin \/ g * 2 <= h
      <4>1. /\ ~(st >= GuardMin /\ st * 2 > h) /\ g <= st
            /\ g \in Nat /\ st \in Nat /\ h \in Nat /\ GuardMin \in Nat
        BY <2>2, <3>1, <3>4, TaxLawAssumption DEF g, st, h
      <4>. QED
        BY ONLY <4>1
    <3>. QED
      BY <2>1, <3>2, <3>5 DEF g, h
  <2>. QED
    BY <2>3, <2>4
<1>. QED
  BY <1>1, Invariance, PTL DEF Spec, RunKeepsMost

=============================================================================
