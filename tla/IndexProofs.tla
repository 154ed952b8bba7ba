------------------------------ MODULE IndexProofs -----------------------------
(* The table of the FAQ and the runs that evaluate it, proved for any number *)
(* of entries, releases, reindexes and runs.                                 *)
EXTENDS IndexInvariants, FiniteSetTheorems, TLAPS

-----------------------------------------------------------------------------
(* Rows.                                                                     *)

LEMMA JobFields ==
  ASSUME NEW j \in Job
  PROVE  /\ j.corpus \in Corpora /\ j.corpus \in Corpus /\ j.force \in BOOLEAN
         /\ j.copy \in [Entries -> Row \cup {None}] /\ j.todo \subseteq Entries
         /\ j.width \in Widths /\ j.now \in Moments
         /\ j # None
<1>1. j # None
  BY RowAssumption DEF RowAssumption
<1> QED BY <1>1, IndexAssumption DEF Job, IndexAssumption

LEMMA RowFields ==
  ASSUME NEW row \in Row
  PROVE  /\ row.id \in RowIds /\ row.hash \in Versions /\ row.vector \in Vector
         /\ row.dimensions \in Widths /\ row.indexed_at \in Moments
         /\ row # None
<1>1. row # None
  BY RowAssumption DEF RowAssumption
<1> QED BY <1>1 DEF Row

(* The row a reindex makes of an entry of its corpus.                        *)
LEMMA NewRows ==
  ASSUME NEW r \in Reindexers, job[r] \in Job, NEW e \in Entries, job[r].corpus[e] # None
  PROVE  /\ NewRow(r, e) \in Row
         /\ NewRow(r, e).id = r
         /\ NewRow(r, e).hash = job[r].corpus[e]
         /\ NewRow(r, e).vector.of = <<e, job[r].corpus[e]>>
         /\ NewRow(r, e).vector.width = job[r].width
         /\ NewRow(r, e).dimensions = job[r].width
<1>1. job[r].corpus[e] \in Versions /\ job[r].width \in Widths /\ job[r].now \in Moments
  BY JobFields DEF Corpus
<1>2. VectorOf(r, e) \in Vector
  BY <1>1 DEF VectorOf, Vector
<1>3. NewRow(r, e) \in Row
  BY <1>1, <1>2 DEF NewRow, Row, RowIds
<1> QED BY <1>3 DEF NewRow, VectorOf

LEMMA UpdatedRows ==
  ASSUME NEW r \in Reindexers, job[r] \in Job, NEW e \in Entries, job[r].corpus[e] # None,
         table[e] \in Row, job[r].copy[e] \in Row, NEW noise \in BOOLEAN
  PROVE  /\ UpdatedRow(r, e, noise) \in Row
         /\ \/ Content(table[e]) = Content(job[r].copy[e])
            \/ Content(table[e]) = Content(NewRow(r, e))
            => Content(UpdatedRow(r, e, noise)) = Content(NewRow(r, e))
<1>1. NewRow(r, e) \in Row
  BY NewRows
<1>2. UpdatedRow(r, e, noise) \in Row
  BY <1>1, RowFields DEF UpdatedRow, Row
<1> QED BY <1>2 DEF UpdatedRow, Content

(* What a save leaves of an entry.                                           *)
LEMMA SavedRows ==
  ASSUME NEW r \in Reindexers, Save(r), NEW e \in Entries,
         \A x \in job[r].todo : x \in Entries /\ job[r].corpus[x] # None
  PROVE  /\ e \in Stale(r) => table'[e] = None
         /\ e \in Inserted(r) => table'[e] = NewRow(r, e)
         /\ e \in job[r].todo \ (Inserted(r) \cup Gone(r)) =>
              \E noise \in BOOLEAN : table'[e] = UpdatedRow(r, e, noise)
         /\ e \notin Stale(r) /\ (e \notin job[r].todo \/ e \in Gone(r)) => table'[e] = table[e]
<1>1. PICK noise \in BOOLEAN :
        table' = [x \in Entries |->
          CASE x \in Stale(r) -> None
            [] x \in Inserted(r) -> NewRow(r, x)
            [] x \in job[r].todo \ (Inserted(r) \cup Gone(r)) -> UpdatedRow(r, x, noise)
            [] OTHER -> table[x]]
  BY DEF Save
<1>2. e \in job[r].todo => e \notin Stale(r)
  BY DEF Stale
<1>3. Inserted(r) \subseteq job[r].todo /\ Gone(r) \cap Inserted(r) = {}
  BY DEF Inserted, Gone
<1> QED BY <1>1, <1>2, <1>3

-----------------------------------------------------------------------------
(* Types, and what a reindex at work has read.                               *)

(* Searches and the endpoint around them leave the index alone.              *)
Reads ==
  /\ UNCHANGED <<table, width, embeddings, stage, job, crossed>>
  /\ disturbed' \subseteq disturbed /\ disturbed \cap Reindexers \subseteq disturbed'

LEMMA Steps ==
  ASSUME [Next]_vars
  PROVE  \/ ModelChanges /\ UNCHANGED evalVars
         \/ \E r \in Reindexers : Reindex(r) /\ UNCHANGED evalVars
         \/ \E q \in Runs : Evaluate(q) /\ Reads
         \/ UNCHANGED vars /\ Reads
<1>1. ASSUME NEW q \in Runs, Evaluate(q) PROVE Reads
  <2>1. CASE Begin(q)
    BY <2>1, IndexAssumption DEF Begin, Reads, IndexAssumption
  <2>2. CASE ~Begin(q)
    BY <1>1, <2>2
    DEF Evaluate, AskRefused, EmptyIndex, EvalSetUnavailable, SelectCases, LookUp, LookUpFails, Query,
        QueryBreaks, FailRun, EndSearch, SaveRun, Respond, RunBreaks, Refuse, Reads, indexVars
  <2> QED BY <2>1, <2>2
<1>2. UNCHANGED vars => Reads
  BY DEF vars, indexVars, Reads
<1> QED BY <1>1, <1>2 DEF Next

LEMMA InitIndexInv == Init => IndexInv /\ MatchInv
<1> SUFFICES ASSUME Init PROVE IndexInv /\ MatchInv
  OBVIOUS
<1>1. PICK c \in Corpora \cup {[e \in Entries |-> None]} :
        table = [e \in Entries |-> IF c[e] = None THEN None ELSE SeededRow(e, c[e], width)]
  BY DEF Init, IndexInit
<1>2. c \in Corpus
  BY <1>1, IndexAssumption DEF IndexAssumption, Corpus
<1>3. 0 \in Moments
  BY IndexAssumption, FS_CardinalityType DEF Moments, IndexAssumption
<1>4. width \in Widths
  BY DEF Init, IndexInit
<1>5. \A e \in Entries : c[e] # None => SeededRow(e, c[e], width) \in Row
  BY <1>2, <1>3, <1>4 DEF SeededRow, Row, Vector, RowIds, Corpus
<1>6. IndexTypeOK
  BY <1>1, <1>3, <1>4, <1>5 DEF Init, IndexInit, IndexTypeOK, Stages
<1>7. embeddings <= Cardinality(Embedded)
  <2>1. IsFiniteSet(Embedded)
    BY FS_Subset, IndexAssumption DEF Embedded, IndexAssumption
  <2> QED BY <2>1, FS_CardinalityType DEF Init, IndexInit
<1>8. \A r \in Reindexers : JobOK(r) /\ CurrentOK(r) /\ ~Working(r)
  BY DEF Init, IndexInit, JobOK, CurrentOK, Working
<1>9. VectorsMatchTexts
  BY <1>1, <1>2, <1>5 DEF VectorsMatchTexts, Indexed, SeededRow
<1> QED BY <1>6, <1>7, <1>8, <1>9 DEF IndexInv, MatchInv
LEMMA LoadTypes ==
  ASSUME IndexInv, NEW r \in Reindexers, Load(r)
  PROVE  /\ job' = [job EXCEPT ![r] = job'[r]] /\ job'[r] \in Job
         /\ stage' = [stage EXCEPT ![r] = stage'[r]]
         /\ stage[r] = "idle" /\ stage'[r] \in {"embedding", "writing"}
         /\ disturbed' = disturbed \ {r}
         /\ UNCHANGED <<table, width, embeddings, crossed>>
         /\ job'[r].copy = table /\ job'[r].width = width
         /\ JobOK(r)'
<1>1. PICK c \in Corpora, f \in BOOLEAN, reference \in References(table) :
        /\ job' = [job EXCEPT ![r] =
             [corpus |-> c, force |-> f, copy |-> table, todo |-> ToEmbed(c, reference, f),
              width |-> width, now |-> embeddings]]
        /\ Enter(r, IF ToEmbed(c, reference, f) = {} THEN "writing" ELSE "embedding")
  BY DEF Load
<1>2. job'[r] = [corpus |-> c, force |-> f, copy |-> table, todo |-> ToEmbed(c, reference, f),
                 width |-> width, now |-> embeddings]
  BY <1>1 DEF IndexInv, IndexTypeOK
<1>3. job'[r] \in Job
  BY <1>2 DEF IndexInv, IndexTypeOK, Job, ToEmbed
<1>4. stage'[r] \in {"embedding", "writing"} /\ stage[r] = "idle"
  BY <1>1 DEF Load, Enter, IndexInv, IndexTypeOK
<1>5. JobOK(r)'
  <2>1. \A e \in job'[r].todo : e \in Entries /\ job'[r].corpus[e] # None
    BY <1>2 DEF ToEmbed
  <2>2. \A e \in Entries : job'[r].corpus[e] # None /\ e \notin job'[r].todo =>
          ~job'[r].force /\ Unchanged(job'[r].copy[e], job'[r].corpus[e], reference)
    BY <1>2 DEF ToEmbed
  <2>3. job'[r] # None
    BY <1>3, JobFields
  <2>4. reference \in References(job'[r].copy)
    BY <1>2
  <2> QED BY <1>4, <2>1, <2>2, <2>3, <2>4 DEF JobOK
<1> QED BY <1>1, <1>2, <1>3, <1>4, <1>5 DEF Load, Enter, IndexInv, IndexTypeOK

LEMMA EmbedTypes ==
  ASSUME IndexInv, NEW r \in Reindexers, Embed(r)
  PROVE  /\ job' = [job EXCEPT ![r] = job'[r]] /\ job[r] \in Job
         /\ job'[r] = [job[r] EXCEPT !.width = width, !.now = embeddings + 1]
         /\ stage' = [stage EXCEPT ![r] = "writing"] /\ stage[r] = "embedding"
         /\ embeddings' = embeddings + 1
         /\ UNCHANGED <<table, width, disturbed, crossed>>
<1>1. job[r] \in Job /\ stage[r] = "embedding"
  BY DEF Embed, IndexInv, IndexTypeOK, JobOK
<1>2. job'[r] = [job[r] EXCEPT !.width = width, !.now = embeddings + 1]
  BY <1>1 DEF Embed, IndexInv, IndexTypeOK
<1> QED BY <1>1, <1>2 DEF Embed, Enter, IndexInv, IndexTypeOK

(* A reindex at work has a job, and its rows are rows.                       *)
LEMMA AtWork ==
  ASSUME IndexInv, NEW r \in Reindexers, stage[r] # "idle"
  PROVE  /\ job[r] \in Job
         /\ \A e \in job[r].todo : e \in Entries /\ job[r].corpus[e] # None
         /\ job[r].copy \in [Entries -> Row \cup {None}]
         /\ Inserted(r) = {e \in job[r].todo : job[r].copy[e] = None}
         /\ \A e \in job[r].todo \ (Inserted(r) \cup Gone(r)) :
              job[r].copy[e] \in Row /\ table[e] \in Row
<1>1. job[r] \in Job
  BY DEF IndexInv, IndexTypeOK, JobOK
<1> QED BY <1>1, JobFields DEF IndexInv, IndexTypeOK, JobOK, Inserted, Gone

LEMMA SaveTypes ==
  ASSUME IndexInv, NEW r \in Reindexers, Save(r)
  PROVE  /\ table' \in [Entries -> Row \cup {None}]
         /\ crossed' \in BOOLEAN
<1>1. DOMAIN table' = Entries /\ table' = [e \in Entries |-> table'[e]] /\ crossed' \in BOOLEAN
  BY DEF Save, IndexInv, IndexTypeOK
<1>2. job[r] \in Job /\ \A e \in job[r].todo : job[r].corpus[e] # None /\ e \in Entries
  BY AtWork DEF Save
<1>3. ASSUME NEW e \in Entries PROVE table'[e] \in Row \cup {None}
  <2>1. CASE e \in Stale(r)
    BY <1>2, <2>1, SavedRows
  <2>2. CASE e \in Inserted(r)
    BY <1>2, <2>2, SavedRows, NewRows DEF Inserted
  <2>3. CASE e \in job[r].todo \ (Inserted(r) \cup Gone(r))
    <3>1. job[r].copy[e] \in Row /\ table[e] \in Row
      BY <2>3, AtWork DEF Save
    <3> QED BY <1>2, <2>3, <3>1, SavedRows, UpdatedRows
  <2>4. CASE e \notin Stale(r) /\ (e \notin job[r].todo \/ e \in Gone(r))
    BY <1>2, <2>4, SavedRows DEF IndexInv, IndexTypeOK
  <2> QED BY <2>1, <2>2, <2>3, <2>4
<1> QED BY <1>1, <1>3

LEMMA StepIndexInv == IndexInv /\ [Next]_vars => IndexInv'
<1> SUFFICES ASSUME IndexInv, [Next]_vars PROVE IndexInv'
  OBVIOUS
<1>0. /\ IsFiniteSet(Embedded) /\ IsFiniteSet(Embedded')
      /\ Embedded \subseteq Embedded' => Cardinality(Embedded) <= Cardinality(Embedded')
      /\ Cardinality(Embedded') <= Cardinality(Reindexers)
      /\ Cardinality(Embedded) \in Nat /\ Cardinality(Embedded') \in Nat
      /\ Cardinality(Reindexers) \in Nat
  <2>1. Embedded \subseteq Reindexers /\ Embedded' \subseteq Reindexers
    BY DEF Embedded
  <2>2. IsFiniteSet(Embedded) /\ IsFiniteSet(Embedded')
    BY <2>1, FS_Subset, IndexAssumption DEF IndexAssumption
  <2> QED BY <2>1, <2>2, FS_Subset, FS_CardinalityType, IndexAssumption DEF IndexAssumption
<1> USE DEF IndexInv
<1>1. CASE ModelChanges
  <2>1. IndexTypeOK'
    BY <1>1 DEF ModelChanges, IndexTypeOK
  <2>2. Embedded' = Embedded
    BY <1>1 DEF ModelChanges, Embedded
  <2>3. \A q \in Reindexers : JobOK(q)' /\ CurrentOK(q)'
    BY <1>1 DEF ModelChanges, JobOK, CurrentOK
  <2> QED BY <1>1, <2>1, <2>2, <2>3 DEF ModelChanges
<1>2. ASSUME NEW r \in Reindexers, Load(r) PROVE IndexInv'
  <2>0. /\ job' = [job EXCEPT ![r] = job'[r]] /\ job'[r] \in Job
        /\ stage' = [stage EXCEPT ![r] = stage'[r]]
        /\ stage[r] = "idle" /\ stage'[r] \in {"embedding", "writing"}
        /\ disturbed' = disturbed \ {r}
        /\ UNCHANGED <<table, width, embeddings, crossed>>
        /\ job'[r].copy = table /\ job'[r].width = width
        /\ JobOK(r)'
    BY <1>2, LoadTypes
  <2>1. IndexTypeOK'
    BY <2>0 DEF IndexTypeOK, Stages
  <2>2. Embedded \subseteq Embedded'
    BY <2>0 DEF Embedded, IndexTypeOK
  <2>3. embeddings' <= Cardinality(Embedded')
    BY <1>0, <2>0, <2>2 DEF IndexTypeOK, Moments
  <2>4. \A q \in Reindexers \ {r} : job'[q] = job[q] /\ stage'[q] = stage[q]
    BY <2>0 DEF IndexTypeOK
  <2>5. \A q \in Reindexers : JobOK(q)'
    BY <2>0, <2>4 DEF JobOK
  <2>6. \A q \in Reindexers : CurrentOK(q)'
    BY <2>0, <2>4 DEF CurrentOK, Working
  <2> QED BY <2>1, <2>3, <2>5, <2>6
<1>3. ASSUME NEW r \in Reindexers, Embed(r) PROVE IndexInv'
  <2>0. /\ job' = [job EXCEPT ![r] = job'[r]] /\ job[r] \in Job
        /\ job'[r] = [job[r] EXCEPT !.width = width, !.now = embeddings + 1]
        /\ stage' = [stage EXCEPT ![r] = "writing"] /\ stage[r] = "embedding"
        /\ embeddings' = embeddings + 1
        /\ UNCHANGED <<table, width, disturbed, crossed>>
    BY <1>3, EmbedTypes
  <2>1. Embedded' = Embedded \cup {r} /\ r \notin Embedded
    BY <2>0 DEF Embedded, IndexTypeOK
  <2>2. Cardinality(Embedded') = Cardinality(Embedded) + 1
    BY <1>0, <2>1, FS_AddElement
  <2>3. embeddings \in Int /\ embeddings' <= Cardinality(Embedded') /\ embeddings' \in Moments
    BY <1>0, <2>0, <2>2 DEF IndexTypeOK, Moments
  <2>4. job'[r] \in Job /\ job'[r].copy = job[r].copy /\ job'[r].corpus = job[r].corpus
        /\ job'[r].todo = job[r].todo /\ job'[r].force = job[r].force /\ job'[r].width = width
        /\ job'[r] # None
    <3>1. job'[r] \in Job
      BY <2>0, <2>3 DEF IndexTypeOK, Job
    <3> QED BY <2>0, <3>1, JobFields DEF Job
  <2>5. IndexTypeOK'
    BY <2>0, <2>3, <2>4 DEF IndexTypeOK, Stages
  <2>6. \A q \in Reindexers \ {r} : job'[q] = job[q] /\ stage'[q] = stage[q]
    BY <2>0 DEF IndexTypeOK
  <2>7. stage'[r] = "writing"
    BY <2>0 DEF IndexTypeOK
  <2>8. ASSUME NEW q \in Reindexers PROVE JobOK(q)'
    <3>1. JobOK(r)'
      <4>1. PICK reference \in References(job[r].copy) : \A e \in Entries :
              job[r].corpus[e] # None /\ e \notin job[r].todo =>
                ~job[r].force /\ Unchanged(job[r].copy[e], job[r].corpus[e], reference)
        BY <2>0 DEF JobOK
      <4>2. \A e \in Entries :
              job'[r].corpus[e] # None /\ e \notin job'[r].todo =>
                ~job'[r].force /\ Unchanged(job'[r].copy[e], job'[r].corpus[e], reference)
        BY <2>4, <4>1
      <4>3. \A e \in job'[r].todo : e \in Entries /\ job'[r].corpus[e] # None
        BY <2>0, <2>4 DEF JobOK
      <4>4. reference \in References(job'[r].copy)
        BY <2>4, <4>1
      <4> QED BY <2>4, <2>7, <4>2, <4>3, <4>4 DEF JobOK
    <3>2. CASE q # r
      BY <2>6, <3>2 DEF JobOK
    <3> QED BY <3>1, <3>2
  <2>9. \A q \in Reindexers : CurrentOK(q)'
    BY <2>0, <2>4, <2>6, <2>7 DEF CurrentOK, Working
  <2> QED BY <2>3, <2>5, <2>8, <2>9
<1>4. ASSUME NEW r \in Reindexers, Save(r) \/ ReindexFails(r) PROVE IndexInv'
  <2>0. /\ stage[r] \in {"embedding", "writing"} /\ stage'[r] \in {"done", "failed"}
        /\ stage' = [stage EXCEPT ![r] = stage'[r]]
        /\ UNCHANGED <<width, embeddings, job>>
        /\ \/ table' = table /\ disturbed' = disturbed
           \/ disturbed' = disturbed \cup ((Reindexers \cup Runs) \ {r})
    BY <1>4 DEF Save, ReindexFails, Working, Enter, IndexTypeOK
  <2>1. IndexTypeOK'
    BY <1>4, <2>0, SaveTypes DEF ReindexFails, IndexTypeOK, Stages
  <2>2. Embedded \subseteq Embedded'
    BY <2>0 DEF Embedded, IndexTypeOK
  <2>3. embeddings' <= Cardinality(Embedded')
    BY <1>0, <2>0, <2>2 DEF IndexTypeOK, Moments
  <2>4. \A q \in Reindexers \ {r} : stage'[q] = stage[q]
    BY <2>0 DEF IndexTypeOK
  <2>5. \A q \in Reindexers : JobOK(q)'
    BY <2>0, <2>4 DEF JobOK
  <2>6. \A q \in Reindexers : CurrentOK(q)'
    BY <2>0, <2>4 DEF CurrentOK, Working
  <2> QED BY <2>1, <2>3, <2>5, <2>6
<1>5. CASE Reads
  <2>1. IndexTypeOK' /\ Embedded' = Embedded
    BY <1>5 DEF Reads, IndexTypeOK, Embedded
  <2>2. \A q \in Reindexers : JobOK(q)' /\ CurrentOK(q)'
    BY <1>5 DEF Reads, JobOK, CurrentOK, Working
  <2> QED BY <1>5, <2>1, <2>2 DEF Reads
<1> QED BY <1>1, <1>2, <1>3, <1>4, <1>5, Steps DEF Reindex

LEMMA IndexInvariance == Spec => []IndexInv
  BY InitIndexInv, StepIndexInv, PTL DEF Spec
-----------------------------------------------------------------------------
(* What a reindex does to the index.                                         *)

(* Only a save writes the table, and it is how a reindex is done.            *)
LEMMA Savers ==
  ASSUME IndexInv, [Next]_vars
  PROVE  /\ UNCHANGED table \/ \E r \in Reindexers : Save(r)
         /\ \A r \in Reindexers : stage[r] = "writing" /\ stage'[r] = "done" => Save(r)
<1> USE DEF IndexInv, IndexTypeOK
<1>1. CASE ModelChanges \/ Reads
  BY <1>1 DEF ModelChanges, Reads
<1>2. ASSUME NEW r \in Reindexers, Load(r) \/ Embed(r) \/ ReindexFails(r)
      PROVE  /\ UNCHANGED table
             /\ \A q \in Reindexers : stage[q] = "writing" => stage'[q] # "done"
  BY <1>2, LoadTypes, EmbedTypes DEF ReindexFails, Enter
<1>3. ASSUME NEW r \in Reindexers, Save(r)
      PROVE  \A q \in Reindexers : stage[q] = "writing" /\ stage'[q] = "done" => q = r
  BY <1>3 DEF Save, Enter
<1> QED BY <1>1, <1>2, <1>3, Steps DEF Reindex

(* A reader never misses an entry that every release at work still has,      *)
(* however many of them reindex and in whatever order.                       *)
THEOREM EntriesStayFound == Spec => FoundThroughout
<1>1. ASSUME IndexInv, [Next]_vars, NEW e \in Entries, table[e] # None,
             \A r \in Reindexers : job[r] # None => job[r].corpus[e] # None
      PROVE  table'[e] # None
  <2>1. CASE UNCHANGED table
    BY <1>1, <2>1
  <2>2. ASSUME NEW r \in Reindexers, Save(r) PROVE table'[e] # None
    <3>1. /\ job[r] \in Job /\ job[r].corpus[e] # None
          /\ \A x \in job[r].todo : x \in Entries /\ job[r].corpus[x] # None
      BY <1>1, <2>2, AtWork, JobFields DEF Save
    <3>2. e \notin Stale(r)
      BY <3>1 DEF Stale
    <3>3. CASE e \in Inserted(r)
      <4>1. table'[e] = NewRow(r, e) /\ NewRow(r, e) \in Row
        BY <2>2, <3>1, <3>3, SavedRows, NewRows
      <4> QED BY <4>1, RowFields
    <3>4. CASE e \in job[r].todo \ (Inserted(r) \cup Gone(r))
      <4>1. job[r].copy[e] \in Row /\ table[e] \in Row
        BY <1>1, <2>2, <3>4, AtWork DEF Save
      <4>2. PICK noise \in BOOLEAN : table'[e] = UpdatedRow(r, e, noise)
        BY <2>2, <3>1, <3>4, SavedRows
      <4>3. table'[e] \in Row
        BY <3>1, <4>1, <4>2, UpdatedRows
      <4> QED BY <4>3, RowFields
    <3>5. CASE e \notin job[r].todo \/ e \in Gone(r)
      BY <1>1, <2>2, <3>1, <3>2, <3>5, SavedRows
    <3> QED BY <3>3, <3>4, <3>5
  <2> QED BY <1>1, <2>1, <2>2, Savers
<1>2. IndexInv /\ [Next]_vars
        => [\A e \in Entries :
              table[e] # None /\ (\A r \in Reindexers : job[r] # None => job[r].corpus[e] # None) =>
                table'[e] # None]_indexVars
  BY <1>1
<1> QED BY <1>2, IndexInvariance, PTL DEF Spec, FoundThroughout

(* What an undisturbed reindex leaves of an entry.                           *)
LEMMA FreshRow ==
  ASSUME IndexInv, NEW r \in Reindexers, Save(r), r \notin disturbed, NEW e \in Entries
  PROVE  /\ table'[e] = None <=> job[r].corpus[e] = None
         /\ table'[e] # None =>
              /\ table'[e].hash = job[r].corpus[e]
              /\ job[r].force => table'[e].dimensions = width
<1>1. /\ job[r] \in Job /\ job[r].copy = table /\ job[r].width = width
      /\ \A x \in job[r].todo : x \in Entries /\ job[r].corpus[x] # None
      /\ table[e] \in Row \cup {None}
  BY AtWork DEF Save, Working, IndexInv, CurrentOK, IndexTypeOK
<1>2. Gone(r) = {}
  BY <1>1 DEF Gone, Inserted
<1>3. PICK reference : \A x \in Entries :
        job[r].corpus[x] # None /\ x \notin job[r].todo =>
          ~job[r].force /\ Unchanged(job[r].copy[x], job[r].corpus[x], reference)
  BY DEF Save, IndexInv, JobOK
<1>4. CASE job[r].corpus[e] = None
  <2>1. CASE table[e] # None
    <3>1. e \in Stale(r)
      BY <1>1, <1>4, <2>1 DEF Stale, Indexed
    <3> QED BY <1>1, <1>4, <3>1, SavedRows
  <2>2. CASE table[e] = None
    <3>1. e \notin Stale(r) /\ e \notin job[r].todo
      BY <1>1, <1>4, <2>2 DEF Stale, Indexed
    <3> QED BY <1>1, <1>4, <2>2, <3>1, SavedRows
  <2> QED BY <2>1, <2>2
<1>5. CASE job[r].corpus[e] # None /\ e \notin job[r].todo
  <2>1. e \notin Stale(r)
    BY <1>5 DEF Stale
  <2>2. table'[e] = table[e]
    BY <1>1, <1>5, <2>1, SavedRows
  <2> QED BY <1>1, <1>3, <1>5, <2>2 DEF Unchanged
<1>6. CASE e \in job[r].todo /\ table[e] = None
  <2>1. e \in Inserted(r) /\ job[r].corpus[e] # None
    BY <1>1, <1>6 DEF Inserted
  <2>2. table'[e] = NewRow(r, e)
    BY <1>1, <2>1, SavedRows
  <2> QED BY <1>1, <2>1, <2>2, NewRows, RowFields
<1>7. CASE e \in job[r].todo /\ table[e] # None
  <2>1. /\ e \in job[r].todo \ (Inserted(r) \cup Gone(r)) /\ job[r].corpus[e] # None
        /\ table[e] \in Row /\ job[r].copy[e] \in Row
    BY <1>1, <1>2, <1>7 DEF Inserted
  <2>2. PICK noise \in BOOLEAN : table'[e] = UpdatedRow(r, e, noise)
    BY <1>1, <2>1, SavedRows
  <2>3. table'[e] \in Row /\ Content(table'[e]) = Content(NewRow(r, e))
    BY <1>1, <2>1, <2>2, UpdatedRows
  <2>4. table'[e].hash = NewRow(r, e).hash /\ table'[e].dimensions = NewRow(r, e).dimensions
    BY <2>3 DEF Content
  <2> QED BY <1>1, <2>1, <2>3, <2>4, NewRows, RowFields
<1> QED BY <1>4, <1>5, <1>6, <1>7

(* A reindex that nothing disturbed leaves every entry of its release        *)
(* indexed, and no other; a forced one as the model embeds it now.           *)
THEOREM ReindexesAreThorough == Spec => FreshAfterReindex
<1>1. IndexInv /\ [Next]_vars
        => [\A r \in Reindexers :
              stage[r] = "writing" /\ stage'[r] = "done" /\ r \notin disturbed =>
                \A e \in Entries :
                  /\ table'[e] = None <=> job[r].corpus[e] = None
                  /\ table'[e] # None =>
                       /\ table'[e].hash = job[r].corpus[e]
                       /\ job[r].force => table'[e].dimensions = width]_indexVars
  BY Savers, FreshRow
<1> QED BY <1>1, IndexInvariance, PTL DEF Spec, FreshAfterReindex
-----------------------------------------------------------------------------
(* Vectors and texts.                                                        *)

(* A job that stays makes the same rows.                                     *)
LEMMA SameRows ==
  ASSUME NEW q, job'[q] = job[q], NEW e
  PROVE  NewRow(q, e)' = NewRow(q, e)
  BY DEF NewRow, VectorOf

LEMMA SeenStays ==
  ASSUME NEW r \in Reindexers, SeenOK(r), UNCHANGED table, job'[r].copy = job[r].copy,
         r \in disturbed => r \in disturbed',
         \A q \in Reindexers : stage[q] = "done" => stage'[q] = "done" /\ job'[q] = job[q]
  PROVE  SeenOK(r)'
<1> SUFFICES ASSUME NEW e \in Entries, table[e] # None, job[r].copy[e] # None,
                    Content(table[e]) # Content(job[r].copy[e])
             PROVE  /\ r \in disturbed'
                    /\ \E q \in Reindexers : /\ stage'[q] = "done" /\ e \in job'[q].todo
                                             /\ Content(table[e]) = Content(NewRow(q, e)')
  BY DEF SeenOK, Content
<1>1. PICK q \in Reindexers :
        stage[q] = "done" /\ e \in job[q].todo /\ Content(table[e]) = Content(NewRow(q, e))
  BY DEF SeenOK
<1>2. NewRow(q, e)' = NewRow(q, e)
  BY <1>1, SameRows
<1> QED BY <1>1, <1>2 DEF SeenOK

(* Where no reindex of another corpus or width overlapped, a row that is     *)
(* written is written whole.                                                 *)
LEMMA WrittenWhole ==
  ASSUME IndexInv, NEW r \in Reindexers, Save(r), SeenOK(r), ~Overlaps(r),
         NEW e \in job[r].todo, e \notin Gone(r)
  PROVE  table'[e] \in Row /\ Content(table'[e]) = Content(NewRow(r, e))
<1>1. /\ job[r] \in Job /\ e \in Entries /\ job[r].corpus[e] # None
      /\ \A x \in job[r].todo : x \in Entries /\ job[r].corpus[x] # None
      /\ stage[r] = "writing"
  BY AtWork DEF Save
<1>2. CASE e \in Inserted(r)
  BY <1>1, <1>2, SavedRows, NewRows
<1>3. CASE e \notin Inserted(r)
  <2>1. job[r].copy[e] \in Row /\ table[e] \in Row
    BY <1>1, <1>3, AtWork
  <2>2. PICK noise \in BOOLEAN : table'[e] = UpdatedRow(r, e, noise)
    BY <1>1, <1>3, SavedRows
  <2>3. \/ Content(table[e]) = Content(job[r].copy[e])
        \/ Content(table[e]) = Content(NewRow(r, e))
    <3>1. ASSUME r \in disturbed, NEW q \in Reindexers, stage[q] = "done",
                 Content(table[e]) = Content(NewRow(q, e))
          PROVE  Content(table[e]) = Content(NewRow(r, e))
      <4>1. q # r /\ job[q] # None
        BY <1>1, <3>1 DEF IndexInv, JobOK
      <4>2. job[q].corpus = job[r].corpus /\ job[q].width = job[r].width
        BY <3>1, <4>1 DEF Overlaps
      <4> QED BY <3>1, <4>2 DEF Content, NewRow, VectorOf
    <3> QED BY <1>1, <2>1, <3>1, RowFields DEF SeenOK
  <2> QED BY <1>1, <2>1, <2>2, <2>3, UpdatedRows
<1> QED BY <1>2, <1>3

LEMMA SavedMatch ==
  ASSUME IndexInv, NEW r \in Reindexers, Save(r), SeenOK(r), ~Overlaps(r), VectorsMatchTexts, ~crossed
  PROVE  \A e \in Entries : table'[e] # None =>
           table'[e].vector.of = <<e, table'[e].hash>> /\ table'[e].dimensions = table'[e].vector.width
<1> SUFFICES ASSUME NEW e \in Entries, table'[e] # None
             PROVE  /\ table'[e].vector.of = <<e, table'[e].hash>>
                    /\ table'[e].dimensions = table'[e].vector.width
  OBVIOUS
<1>1. /\ job[r] \in Job
      /\ \A x \in job[r].todo : x \in Entries /\ job[r].corpus[x] # None
  BY AtWork DEF Save
<1>2. CASE e \in job[r].todo /\ e \notin Gone(r)
  <2>1. /\ table'[e].hash = NewRow(r, e).hash
        /\ table'[e].vector = NewRow(r, e).vector
        /\ table'[e].dimensions = NewRow(r, e).dimensions
    BY <1>2, WrittenWhole DEF Content
  <2> QED BY <1>1, <1>2, <2>1, NewRows
<1>3. CASE e \notin job[r].todo \/ e \in Gone(r)
  <2>1. table'[e] = table[e]
    BY <1>1, <1>3, SavedRows
  <2> QED BY <2>1 DEF VectorsMatchTexts, Indexed
<1> QED BY <1>2, <1>3

LEMMA StepMatchInv == IndexInv /\ MatchInv /\ [Next]_vars => MatchInv'
<1> SUFFICES ASSUME IndexInv, MatchInv, [Next]_vars, ~crossed'
             PROVE  /\ \A e \in Entries : table'[e] # None =>
                         /\ table'[e].vector.of = <<e, table'[e].hash>>
                         /\ table'[e].dimensions = table'[e].vector.width
                    /\ \A r \in Reindexers : Working(r)' => SeenOK(r)'
  BY DEF MatchInv, VectorsMatchTexts, Indexed
<1> USE DEF IndexInv, IndexTypeOK
<1>1. ASSUME UNCHANGED table, ~crossed
      PROVE  \A e \in Entries : table'[e] # None =>
               table'[e].vector.of = <<e, table'[e].hash>>
                 /\ table'[e].dimensions = table'[e].vector.width
  BY <1>1 DEF MatchInv, VectorsMatchTexts, Indexed
<1>2. CASE ModelChanges \/ Reads
  <2>1. UNCHANGED <<table, stage, job, crossed>> /\ disturbed \cap Reindexers \subseteq disturbed'
    BY <1>2 DEF ModelChanges, Reads
  <2>2. \A r \in Reindexers : Working(r)' => SeenOK(r)'
    BY <2>1, SeenStays DEF MatchInv, Working
  <2> QED BY <1>1, <2>1, <2>2
<1>3. ASSUME NEW r \in Reindexers, Load(r)
      PROVE  ~crossed /\ UNCHANGED table /\ \A q \in Reindexers : Working(q)' => SeenOK(q)'
  <2>1. /\ stage[r] = "idle" /\ job'[r].copy = table /\ disturbed' = disturbed \ {r}
        /\ UNCHANGED <<table, crossed>>
        /\ \A q \in Reindexers \ {r} : job'[q] = job[q] /\ stage'[q] = stage[q]
    BY <1>3, LoadTypes
  <2>2. SeenOK(r)'
    BY <2>1 DEF SeenOK
  <2>3. \A q \in Reindexers \ {r} : Working(q)' => SeenOK(q)'
    BY <2>1, SeenStays DEF MatchInv, Working
  <2> QED BY <2>1, <2>2, <2>3
<1>4. ASSUME NEW r \in Reindexers, Embed(r)
      PROVE  ~crossed /\ UNCHANGED table /\ \A q \in Reindexers : Working(q)' => SeenOK(q)'
  <2>1. /\ stage[r] = "embedding" /\ UNCHANGED <<table, disturbed, crossed>>
        /\ \A q \in Reindexers \ {r} : job'[q] = job[q] /\ stage'[q] = stage[q]
        /\ job'[r].copy = job[r].copy
    BY <1>4, EmbedTypes, JobFields DEF Job
  <2> QED BY <2>1, SeenStays DEF MatchInv, Working
<1>5. ASSUME NEW r \in Reindexers, ReindexFails(r)
      PROVE  ~crossed /\ UNCHANGED table /\ \A q \in Reindexers : Working(q)' => SeenOK(q)'
  <2>1. /\ UNCHANGED <<table, disturbed, crossed, job>> /\ Working(r) /\ stage'[r] = "failed"
        /\ \A q \in Reindexers \ {r} : stage'[q] = stage[q]
    BY <1>5 DEF ReindexFails, Enter
  <2> QED BY <2>1, SeenStays DEF MatchInv, Working
<1>6. ASSUME NEW r \in Reindexers, Save(r)
      PROVE  /\ \A e \in Entries : table'[e] # None =>
                  table'[e].vector.of = <<e, table'[e].hash>>
                    /\ table'[e].dimensions = table'[e].vector.width
             /\ \A q \in Reindexers : Working(q)' => SeenOK(q)'
  <2>1. /\ ~crossed /\ ~Overlaps(r) /\ stage[r] = "writing" /\ UNCHANGED job
        /\ stage'[r] = "done" /\ \A q \in Reindexers \ {r} : stage'[q] = stage[q] /\ q \in disturbed'
    BY <1>6 DEF Save, Enter
  <2>2. SeenOK(r) /\ VectorsMatchTexts
    BY <2>1 DEF MatchInv, Working
  <2>3. ASSUME NEW q \in Reindexers, Working(q)' PROVE SeenOK(q)'
    <3>1. q # r /\ Working(q) /\ q \in disturbed'
      BY <2>1, <2>3 DEF Working
    <3>2. ASSUME NEW e \in Entries, table'[e] # None, job[q].copy[e] # None,
                 Content(table'[e]) # Content(job[q].copy[e])
          PROVE  \E w \in Reindexers : /\ stage'[w] = "done" /\ e \in job[w].todo
                                       /\ Content(table'[e]) = Content(NewRow(w, e)')
      <4>1. CASE e \in job[r].todo /\ e \notin Gone(r)
        <5>1. Content(table'[e]) = Content(NewRow(r, e)) /\ NewRow(r, e)' = NewRow(r, e)
          BY <1>6, <2>1, <2>2, <4>1, WrittenWhole, SameRows
        <5> QED BY <2>1, <4>1, <5>1
      <4>2. CASE e \notin job[r].todo \/ e \in Gone(r)
        <5>1. \A x \in job[r].todo : x \in Entries /\ job[r].corpus[x] # None
          BY <1>6, AtWork DEF Save
        <5>2. table'[e] = table[e]
          BY <1>6, <3>2, <4>2, <5>1, SavedRows
        <5>3. PICK w \in Reindexers :
                stage[w] = "done" /\ e \in job[w].todo /\ Content(table[e]) = Content(NewRow(w, e))
          BY <2>1, <3>1, <3>2, <5>2 DEF MatchInv, SeenOK
        <5>4. stage'[w] = "done" /\ NewRow(w, e)' = NewRow(w, e)
          BY <2>1, <5>3, SameRows
        <5> QED BY <5>2, <5>3, <5>4
      <4> QED BY <4>1, <4>2
    <3> QED BY <2>1, <3>1, <3>2 DEF SeenOK, Content
  <2> QED BY <1>6, <2>1, <2>2, <2>3, SavedMatch
<1> QED BY <1>1, <1>2, <1>3, <1>4, <1>5, <1>6, Steps DEF Reindex

(* A row never has the vector of one text beside the hash of another, unless *)
(* reindexes of different releases or builds of the model overlapped.        *)
THEOREM VectorsBelong == Spec => []VectorsMatchTexts
<1>1. MatchInv => VectorsMatchTexts
  BY DEF MatchInv, VectorsMatchTexts
<1> QED BY <1>1, InitIndexInv, StepIndexInv, StepMatchInv, PTL DEF Spec
-----------------------------------------------------------------------------
(* What a run leaves behind.                                                 *)

LEMMA RunRows ==
  ASSUME NEW q
  PROVE  /\ NoRow.status = "none" /\ FailedRow(q).status = "failed"
         /\ CompletedRow(q).status = "completed"
  BY DEF NoRow, FailedRow, CompletedRow

(* A step of one run, by what it does to its row.                            *)
LEMMA RunSteps ==
  ASSUME RunInv, NEW q \in Runs, Evaluate(q)
  PROVE  /\ phase' = [phase EXCEPT ![q] = phase'[q]] /\ phase'[q] \in Phases
         /\ answer' = [answer EXCEPT ![q] = answer'[q]] /\ answer'[q] \in Answers
         /\ DOMAIN runRow' = Runs /\ DOMAIN caseRows' = Runs
         /\ \A p \in Runs \ {q} : runRow'[p] = runRow[p] /\ caseRows'[p] = caseRows[p]
         /\ phase[q] # "done"
         /\ TraceOK(q)'
         /\ phase'[q] = "done" =>
              /\ answer'[q] = "eval_run_failed" <=> runRow'[q].status = "failed"
              /\ answer'[q] = "created" => runRow'[q].status = "completed"
              /\ runRow'[q] # NoRow => answer'[q] \in {"eval_run_failed", "created", "internal_error"}
<1> USE DEF RunInv, Go, Answer, Refuse
<1>1. CASE FailRun(q)
  <2>1. /\ phase'[q] = "done" /\ answer'[q] = "eval_run_failed"
        /\ runRow'[q] = FailedRow(q) /\ caseRows'[q] = <<>>
    BY <1>1, RunRows DEF FailRun, TraceOK
  <2>2. TraceOK(q)'
    BY <2>1 DEF TraceOK
  <2> QED BY <1>1, <2>1, <2>2, RunRows DEF FailRun, Phases, Answers
<1>2. CASE SaveRun(q)
  <2>1. phase'[q] = "saved" /\ runRow'[q] = CompletedRow(q) /\ answer'[q] = "none"
    BY <1>2 DEF SaveRun, TraceOK
  <2>2. TraceOK(q)'
    BY <2>1, RunRows DEF TraceOK
  <2> QED BY <1>2, <2>1, <2>2 DEF SaveRun, Phases, Answers
<1>3. CASE ~FailRun(q) /\ ~SaveRun(q)
  <2>1. /\ UNCHANGED <<runRow, caseRows>> /\ phase[q] # "done"
        /\ phase' = [phase EXCEPT ![q] = phase'[q]] /\ phase'[q] \in Phases
        /\ answer' = [answer EXCEPT ![q] = answer'[q]] /\ answer'[q] \in Answers
        /\ phase'[q] # "saved"
        /\ phase'[q] # "done" => answer'[q] = answer[q] /\ phase[q] # "saved"
        /\ phase'[q] = "done" =>
             /\ answer'[q] # "eval_run_failed"
             /\ answer'[q] = "created" => phase[q] = "saved"
             /\ phase[q] = "saved" => answer'[q] \in {"created", "internal_error"}
    BY <1>3
    DEF Evaluate, AskRefused, Begin, EmptyIndex, EvalSetUnavailable, SelectCases, LookUp, LookUpFails,
        Query, QueryBreaks, EndSearch, Respond, RunBreaks, Phases, Answers
  <2>2. TraceOK(q)'
    BY <2>1 DEF TraceOK
  <2> QED BY <2>1, <2>2, RunRows DEF TraceOK
<1> QED BY <1>1, <1>2, <1>3

LEMMA StepRunInv == RunInv /\ [Next]_vars => RunInv'
<1> SUFFICES ASSUME RunInv, [Next]_vars PROVE RunInv'
  OBVIOUS
<1>1. CASE UNCHANGED evalVars
  BY <1>1 DEF evalVars, RunInv, TraceOK, RunsLeaveATrace, Completed
<1>2. ASSUME NEW q \in Runs, Evaluate(q) PROVE RunInv'
  <2>1. \A p \in Runs \ {q} :
          /\ phase'[p] = phase[p] /\ answer'[p] = answer[p]
          /\ runRow'[p] = runRow[p] /\ caseRows'[p] = caseRows[p]
    BY <1>2, RunSteps DEF RunInv
  <2>2. \A p \in Runs : TraceOK(p)'
    BY <1>2, <2>1, RunSteps DEF RunInv, TraceOK
  <2>3. RunsLeaveATrace'
    BY <1>2, <2>1, <2>2, RunSteps DEF RunInv, RunsLeaveATrace, Completed, TraceOK
  <2>4. phase' \in [Runs -> Phases] /\ answer' \in [Runs -> Answers]
    BY <1>2, RunSteps DEF RunInv
  <2> QED BY <1>2, <2>2, <2>3, <2>4, RunSteps DEF RunInv
<1>3. UNCHANGED vars => UNCHANGED evalVars
  BY DEF vars
<1> QED BY <1>1, <1>2, <1>3, Steps

(* A run that is reported failed has left a row and no cases, one that is    *)
(* reported created all its cases, one that is refused nothing.              *)
THEOREM EveryRunLeavesATrace == Spec => []RunsLeaveATrace
<1>1. Init => RunInv
  BY RunRows DEF Init, RunInv, TraceOK, RunsLeaveATrace, Completed, Phases, Answers
<1>2. RunInv => RunsLeaveATrace
  BY DEF RunInv
<1> QED BY <1>1, <1>2, StepRunInv, PTL DEF Spec
=============================================================================
