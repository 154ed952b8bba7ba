------------------------------- MODULE FaqIndex -------------------------------
(* The table faq_embeddings for one embedding model, and the reindex that    *)
(* fills it: at the start of each instance, or from the command line. A row  *)
(* that another transaction is writing makes the writer of it wait, so the   *)
(* writes of a reindex take effect at its commit.                            *)
EXTENDS Integers, FiniteSets

CONSTANTS None,       \* no value
          Entries,    \* ids in faq.json
          Versions,   \* texts an entry has had; their hashes
          Widths,     \* widths of the vectors the model gives, over time
          Corpora,    \* the faq.json of the releases that run
          Reindexers, Runs   \* reindexes; evaluation runs, which read the index

Corpus == [Entries -> Versions \cup {None}]

ASSUME IndexAssumption ==
  /\ Widths \subseteq Nat /\ Corpora \subseteq Corpus
  /\ None \notin Entries /\ None \notin Versions /\ None \notin Widths
  /\ IsFiniteSet(Reindexers) /\ Reindexers \cap Runs = {}

(* What was embedded, and how wide the vector is.                            *)
Vector == [of : Entries \X Versions, width : Widths]

(* When a text was embedded: the count of embeddings done.                   *)
Moments == 0..Cardinality(Reindexers)

RowIds == Reindexers \cup {"seeded"}

Row == [id : RowIds, hash : Versions, vector : Vector, dimensions : Widths, indexed_at : Moments]

Stages == {"idle", "embedding", "writing", "done", "failed"}

Job == [corpus : Corpora, force : BOOLEAN, copy : [Entries -> Row \cup {None}],
        todo : SUBSET Entries, width : Widths, now : Moments]

ASSUME RowAssumption == None \notin Row /\ None \notin Job

VARIABLES table,      \* the row of each entry
          width,      \* of the vectors the model gives now
          embeddings, \* done so far
          stage, job, \* of each reindex
          disturbed,  \* since they read the table, it or the model changed
          crossed     \* reindexes of different corpora or widths overlapped

indexVars == <<table, width, embeddings, stage, job, disturbed, crossed>>

Indexed(rows) == {e \in Entries : rows[e] # None}

SeededRow(e, v, w) ==
  [id |-> "seeded", hash |-> v, vector |-> [of |-> <<e, v>>, width |-> w],
   dimensions |-> w, indexed_at |-> 0]

(* What an earlier reindex has left, whole.                                  *)
IndexInit ==
  /\ width \in Widths
  /\ \E c \in Corpora \cup {[e \in Entries |-> None]} :
       table = [e \in Entries |-> IF c[e] = None THEN None ELSE SeededRow(e, c[e], width)]
  /\ embeddings = 0
  /\ stage = [r \in Reindexers |-> "idle"]
  /\ job = [r \in Reindexers |-> None]
  /\ disturbed = {}
  /\ crossed = FALSE

Enter(r, s) == stage' = [stage EXCEPT ![r] = s]

Working(r) == stage[r] \in {"embedding", "writing"}

(* The provider has another build of the model, with wider vectors; Widths   *)
(* bounds how often.                                                         *)
ModelChanges ==
  /\ width' \in {w \in Widths : w > width}
  /\ disturbed' = Reindexers \cup Runs
  /\ UNCHANGED <<table, embeddings, stage, job, crossed>>

(* Widths of the rows: one of them is what the others are compared with.     *)
References(rows) == IF Indexed(rows) = {} THEN {None} ELSE {rows[e].dimensions : e \in Indexed(rows)}

(* Mutant: the text is not compared.                                         *)
UnchangedWidth(row, version, reference) == row # None /\ row.dimensions = reference

Unchanged(row, version, reference) ==
  row # None /\ row.hash = version /\ row.dimensions = reference

ToEmbed(corpus, reference, force) ==
  {e \in Entries : corpus[e] # None /\ (force \/ ~Unchanged(table[e], corpus[e], reference))}

(* The entries are read from the file and the rows from the table.           *)
Load(r) ==
  /\ stage[r] = "idle"
  /\ \E c \in Corpora, f \in BOOLEAN, reference \in References(table) :
       LET todo == ToEmbed(c, reference, f)
       IN  /\ job' = [job EXCEPT ![r] = [corpus |-> c, force |-> f, copy |-> table,
                        todo |-> todo, width |-> width, now |-> embeddings]]
           /\ Enter(r, IF todo = {} THEN "writing" ELSE "embedding")
  /\ disturbed' = disturbed \ {r}
  /\ UNCHANGED <<table, width, embeddings, crossed>>

Embed(r) ==
  /\ stage[r] = "embedding"
  /\ embeddings' = embeddings + 1
  /\ job' = [job EXCEPT ![r].width = width, ![r].now = embeddings + 1]
  /\ Enter(r, "writing")
  /\ UNCHANGED <<table, width, disturbed, crossed>>

Inserted(r) == {e \in job[r].todo : job[r].copy[e] = None}

(* The rows it would update that are no longer there, or are others.         *)
Gone(r) ==
  {e \in job[r].todo \ Inserted(r) : table[e] = None \/ table[e].id # job[r].copy[e].id}

(* Mutant: what was not embedded is taken for stale.                         *)
StaleUnlessEmbedded(r) == Indexed(job[r].copy) \ job[r].todo

(* Rows it has seen whose entry is no longer in the file.                    *)
Stale(r) == {e \in Indexed(job[r].copy) : job[r].corpus[e] = None}

(* Mutant: the vectors are not matched with their entries.                   *)
AnyVector(r, e) ==
  LET x == CHOOSE x \in job[r].todo : TRUE
  IN  [of |-> <<x, job[r].corpus[x]>>, width |-> job[r].width]

VectorOf(r, e) == [of |-> <<e, job[r].corpus[e]>>, width |-> job[r].width]

(* Mutant: the width is read off the rows there are, not measured.           *)
NewRowUnmeasured(r, e) ==
  [id |-> r, hash |-> job[r].corpus[e], vector |-> VectorOf(r, e),
   dimensions |-> CHOOSE w \in References(job[r].copy) : TRUE, indexed_at |-> job[r].now]

NewRow(r, e) ==
  [id |-> r, hash |-> job[r].corpus[e], vector |-> VectorOf(r, e),
   dimensions |-> job[r].width, indexed_at |-> job[r].now]

(* A column is written where it differs from the copy. A vector may differ   *)
(* although its text does not: a provider repeats itself but roughly.        *)
UpdatedRow(r, e, noise) ==
  LET old == job[r].copy[e]
      new == NewRow(r, e)
  IN  [id |-> old.id,
       hash |-> IF new.hash # old.hash THEN new.hash ELSE table[e].hash,
       vector |-> IF noise \/ new.vector # old.vector THEN new.vector ELSE table[e].vector,
       dimensions |-> IF new.dimensions # old.dimensions THEN new.dimensions
                      ELSE table[e].dimensions,
       indexed_at |-> new.indexed_at]

Overlaps(r) ==
  \E q \in Reindexers \ {r} :
    /\ job[q] # None /\ (Working(q) \/ r \in disturbed)
    /\ job[q].corpus # job[r].corpus \/ job[q].width # job[r].width

(* The rows are written, what is stale is deleted, all in one transaction. An *)
(* insert that meets a row fails; an update that meets none may go unseen.    *)
Save(r) ==
  /\ stage[r] = "writing"
  /\ Inserted(r) \cap Indexed(table) = {}
  /\ \E noise \in BOOLEAN :
       table' = [e \in Entries |->
         CASE e \in Stale(r) -> None
           [] e \in Inserted(r) -> NewRow(r, e)
           [] e \in job[r].todo \ (Inserted(r) \cup Gone(r)) -> UpdatedRow(r, e, noise)
           [] OTHER -> table[e]]
  /\ crossed' = (crossed \/ Overlaps(r))
  /\ disturbed' = disturbed \cup ((Reindexers \cup Runs) \ {r})
  /\ Enter(r, "done")
  /\ UNCHANGED <<width, embeddings, job>>

(* The provider is out of reach or gives a zero vector; a row clashes, is    *)
(* gone, or the transaction is broken off. At start-up the instance serves   *)
(* all the same.                                                             *)
ReindexFails(r) ==
  /\ Working(r)
  /\ Enter(r, "failed")
  /\ UNCHANGED <<table, width, embeddings, job, disturbed, crossed>>

Reindex(r) == Load(r) \/ Embed(r) \/ Save(r) \/ ReindexFails(r)

-----------------------------------------------------------------------------
(* Properties.                                                               *)

IndexTypeOK ==
  /\ table \in [Entries -> Row \cup {None}]
  /\ width \in Widths /\ embeddings \in Moments
  /\ stage \in [Reindexers -> Stages]
  /\ job \in [Reindexers -> Job \cup {None}]
  /\ disturbed \subseteq Reindexers \cup Runs /\ crossed \in BOOLEAN

(* A reader never misses an entry that every release at work still has: rows *)
(* are updated in place, not deleted and inserted again.                     *)
FoundThroughout ==
  [][\A e \in Entries :
       table[e] # None /\ (\A r \in Reindexers : job[r] # None => job[r].corpus[e] # None) =>
         table'[e] # None]_indexVars

(* A reindex that nothing disturbed leaves the index as its release has the  *)
(* entries; a forced one leaves every vector as the model gives it now.      *)
FreshAfterReindex ==
  [][\A r \in Reindexers :
       stage[r] = "writing" /\ stage'[r] = "done" /\ r \notin disturbed =>
         \A e \in Entries :
           /\ table'[e] = None <=> job[r].corpus[e] = None
           /\ table'[e] # None =>
                /\ table'[e].hash = job[r].corpus[e]
                /\ job[r].force => table'[e].dimensions = width]_indexVars

(* The vector of a row is that of the text in the row, unless reindexes of   *)
(* different releases or builds of the model overlapped: each writes the     *)
(* columns it saw change.                                                    *)
VectorsMatchTexts ==
  ~crossed => \A e \in Indexed(table) :
    /\ table[e].vector.of = <<e, table[e].hash>>
    /\ table[e].dimensions = table[e].vector.width

(* reindex.py: a genuine dimension drift, the same model name now producing  *)
(* a different width, gets caught and re-embedded.                           *)
DriftIsCaught ==
  [][\A r \in Reindexers :
       stage[r] = "writing" /\ stage'[r] = "done" /\ r \notin disturbed =>
         \A e \in Indexed(table') : table'[e].dimensions = width]_indexVars
=============================================================================
