---------------------------- MODULE IndexInvariants ---------------------------
(* The inductive invariants of FaqIndex and Evaluations: what a reindex at   *)
(* work knows of the table, and what a run has stored at each of its phases. *)
(* They carry the proofs in IndexProofs and EvaluationProofs.                *)
EXTENDS Evaluations

(* A reindex at work has read the table, and had a reason to embed what it   *)
(* embeds.                                                                   *)
JobOK(r) ==
  /\ stage[r] = "idle" <=> job[r] = None
  /\ stage[r] # "idle" =>
       /\ \A e \in job[r].todo : e \in Entries /\ job[r].corpus[e] # None
       /\ \E reference \in References(job[r].copy) : \A e \in Entries :
            job[r].corpus[e] # None /\ e \notin job[r].todo =>
              ~job[r].force /\ Unchanged(job[r].copy[e], job[r].corpus[e], reference)

(* Each reindex embeds once.                                                 *)
Embedded == {r \in Reindexers : stage[r] \notin {"idle", "embedding"}}

(* What a reindex that nothing disturbed has read is still so.               *)
CurrentOK(r) ==
  Working(r) /\ r \notin disturbed => job[r].copy = table /\ job[r].width = width

IndexInv ==
  /\ IndexTypeOK
  /\ embeddings <= Cardinality(Embedded)
  /\ \A r \in Reindexers : JobOK(r) /\ CurrentOK(r)

(* What a row says, whenever it was written.                                 *)
Content(row) == <<row.hash, row.vector, row.dimensions>>

(* A row that is no longer as a reindex at work has read it was written by   *)
(* one that ended meanwhile.                                                 *)
SeenOK(r) ==
  \A e \in Entries :
    table[e] # None /\ job[r].copy[e] # None =>
      \/ Content(table[e]) = Content(job[r].copy[e])
      \/ /\ r \in disturbed
         /\ \E q \in Reindexers : /\ stage[q] = "done" /\ e \in job[q].todo
                                  /\ Content(table[e]) = Content(NewRow(q, e))

MatchInv ==
  ~crossed => VectorsMatchTexts /\ \A r \in Reindexers : Working(r) => SeenOK(r)

(* A run has stored nothing before its end, and then what it answers.        *)
TraceOK(q) ==
  /\ phase[q] # "done" => answer[q] = "none"
  /\ phase[q] \notin {"saved", "done"} => runRow[q] = NoRow
  /\ phase[q] = "saved" => runRow[q].status = "completed"
  /\ runRow[q].status # "completed" => caseRows[q] = <<>>

RunInv ==
  /\ phase \in [Runs -> Phases] /\ answer \in [Runs -> Answers]
  /\ DOMAIN runRow = Runs /\ DOMAIN caseRows = Runs
  /\ \A q \in Runs : TraceOK(q)
  /\ RunsLeaveATrace

(* A case to search: an identity case expects the entry it was made from.    *)
SearchCase == {c \in Case : c.tier = "identity" => \E e \in Entries : c.expected = {e}}

FoundRow == [tier : Tiers, expected : SUBSET Entries, results : Seq(Entries),
             first_relevant_rank : Nat \cup {None}]

SearchRow == {c \in FoundRow : c.tier = "identity" => \E e \in Entries : c.expected = {e}}

Tally == [recalls : [1..MaxK -> Int], reciprocals : Int, graded : Int,
          identities : Int, identity : Int, negatives : Int, abstained : Int]

Canaries(rows) == {i \in OfTier(rows, "identity") : FirstHit(rows[i])}

(* What is counted along the way is what the rows found so far amount to.    *)
Tallied(t, rows, ks) ==
  /\ t.graded = Cardinality(OfTier(rows, "paraphrase"))
  /\ t.negatives = Cardinality(OfTier(rows, "negative"))
  /\ \A k \in 1..MaxK : t.recalls[k] = Sum(Shares(rows, k))
  /\ t.reciprocals = Sum(Reciprocals(rows))
  /\ t.abstained = Cardinality(Abstained(rows))
  /\ 1 \in ks => t.identity = Scale * Cardinality(Canaries(rows))

(* What a run has stored is what it has counted, over all its cases.         *)
StoredOK(q) ==
  /\ runRow[q].tally = tally[q] /\ caseRows[q] = found[q]
  /\ runRow[q].case_count = Len(cases[q]) /\ Len(found[q]) = Len(cases[q])

SearchOK(q) ==
  /\ cases[q] \in Seq(SearchCase) /\ found[q] \in Seq(SearchRow) /\ tally[q] \in Tally
  /\ Len(found[q]) <= Len(cases[q])
  /\ phase[q] \in {"idle", "asked"} =>
       found[q] = <<>> /\ tally[q] = NoTally /\ q \notin Completed
  /\ phase[q] = "asked" => ask[q] \in Asks /\ ~BadTier(ask[q]) /\ ~BadK(ask[q])
  /\ phase[q] \in {"searching", "querying", "failing", "saving", "saved"} \/ q \in Completed =>
       ~BadK(ask[q]) /\ Tallied(tally[q], found[q], Ks(ask[q]))
  /\ phase[q] = "querying" => More(q)
  /\ phase[q] = "saving" => ~More(q)
  /\ q \in Completed => StoredOK(q)

SearchInv ==
  /\ release \in [Runs -> [corpus : Corpora, cases : Files]]
  /\ ask \in [Runs -> Asks \cup {None}] /\ queryWidth \in [Runs -> Widths \cup {None}]
  /\ DOMAIN cases = Runs /\ DOMAIN found = Runs /\ DOMAIN tally = Runs
  /\ \A q \in Runs : SearchOK(q)

(* Recall, reciprocal rank and abstention lie between zero and one, and      *)
(* recall does not fall as k grows.                                          *)
RatesOK(t) ==
  /\ \A k \in 1..MaxK : 0 <= t.recalls[k] /\ t.recalls[k] <= Scale * t.graded
  /\ \A j, k \in 1..MaxK : j <= k => t.recalls[j] <= t.recalls[k]
  /\ 0 <= t.reciprocals /\ t.reciprocals <= Scale * t.graded
  /\ 0 <= t.abstained /\ t.abstained <= t.negatives

RatesInv == \A q \in Runs : RatesOK(tally[q])

RatesAreRates == \A q \in Completed : RatesOK(runRow[q].tally)
=============================================================================
