----------------------------- MODULE Evaluations -----------------------------
(* eval.py: an evaluation run searches the index for each case of a curated  *)
(* set and stores what it found. Fractions are whole numbers of parts: one   *)
(* is Scale parts, a mean is a sum and a count.                              *)
EXTENDS FaqIndex, Sequences, SequencesExt

CONSTANTS Files,      \* what faq_eval_set.json may hold, None if it cannot be read
          MaxCases,   \* EVAL_SET_MAX_CASES
          Asks,       \* the requests that come: tiers and k's, empty for none
          MaxK,       \* the largest k that is allowed
          DefaultKs,
          Scale       \* divisible by every rank and every count of expected ids

Tiers == {"paraphrase", "identity", "negative"}
DefaultTiers == <<"paraphrase", "identity", "negative">>

Case == [tier : Tiers, expected : SUBSET Entries]

ASSUME EvaluationAssumption ==
  /\ \A f \in Files \ {None} : f \in Seq(Case)
  /\ MaxCases \in Nat /\ MaxK \in Nat \ {0} /\ Scale \in Nat \ {0}
  /\ IsFiniteSet(Entries) /\ None \notin Nat
  /\ \A a \in Asks : a.tiers \in Seq(STRING) /\ a.ks \in Seq(Int)
  /\ \A n \in 1..Max({MaxK, Cardinality(Entries)}) : Scale % n = 0

Phases == {"idle", "asked", "searching", "querying", "failing", "saving", "saved", "done"}
Answers == {"none", "created", "eval_set_unavailable", "faq_index_unavailable",
            "invalid_k_value", "invalid_tier", "eval_run_failed", "internal_error"}

VARIABLES phase, answer,
          ask, release,  \* what the run is asked; the files of its instance
          stats,         \* of the index, as the run began
          queryWidth,    \* of the vector of the case at hand
          cases, found,  \* to search, and the row of each case searched
          tally,         \* what is counted along the way
          runRow,        \* retrieval_eval_runs
          caseRows       \* retrieval_eval_cases

evalVars == <<phase, answer, ask, release, stats, queryWidth, cases, found, tally, runRow, caseRows>>
vars == <<indexVars, evalVars>>

AskedTiers(a) == IF a.tiers = <<>> THEN DefaultTiers ELSE a.tiers
AskedKs(a) == IF a.ks = <<>> THEN DefaultKs ELSE a.ks

Ks(a) == {AskedKs(a)[i] : i \in DOMAIN AskedKs(a)}

NoRow == [status |-> "none"]

NoTally == [recalls |-> [k \in 1..MaxK |-> 0], reciprocals |-> 0, graded |-> 0,
            identities |-> 0, identity |-> 0, negatives |-> 0, abstained |-> 0]

Init ==
  /\ IndexInit
  /\ phase = [q \in Runs |-> "idle"]
  /\ answer = [q \in Runs |-> "none"]
  /\ ask = [q \in Runs |-> None]
  /\ release \in [Runs -> [corpus : Corpora, cases : Files]]
  /\ stats = [q \in Runs |-> None]
  /\ queryWidth = [q \in Runs |-> None]
  /\ cases = [q \in Runs |-> <<>>]
  /\ found = [q \in Runs |-> <<>>]
  /\ tally = [q \in Runs |-> NoTally]
  /\ runRow = [q \in Runs |-> NoRow]
  /\ caseRows = [q \in Runs |-> <<>>]

Go(q, p) == phase' = [phase EXCEPT ![q] = p]

Answer(q, code) == Go(q, "done") /\ answer' = [answer EXCEPT ![q] = code]

Refuse(q, code) ==
  /\ Answer(q, code)
  /\ UNCHANGED <<indexVars, release, queryWidth, cases, found, tally, runRow, caseRows>>

-----------------------------------------------------------------------------
(* The request is checked, then the index, then the file.                    *)

BadTier(a) == \E i \in DOMAIN AskedTiers(a) : AskedTiers(a)[i] \notin Tiers

BadK(a) == \E k \in Ks(a) : k \notin 1..MaxK

AskRefused(q) ==
  /\ phase[q] = "idle"
  /\ \E a \in Asks :
       /\ BadTier(a) \/ BadK(a)
       /\ ask' = [ask EXCEPT ![q] = a]
       /\ Refuse(q, IF BadTier(a) THEN "invalid_tier" ELSE "invalid_k_value")
  /\ UNCHANGED stats

IndexStats(q) ==
  [row_count |-> Cardinality(Indexed(table)),
   indexed_at |-> Max({table[e].indexed_at : e \in Indexed(table)} \cup {0})]

Begin(q) ==
  /\ phase[q] = "idle"
  /\ \E a \in Asks : ~BadTier(a) /\ ~BadK(a) /\ ask' = [ask EXCEPT ![q] = a]
  /\ stats' = [stats EXCEPT ![q] = IndexStats(q)]
  /\ disturbed' = disturbed \ {q}
  /\ Go(q, "asked")
  /\ UNCHANGED <<table, width, embeddings, stage, job, crossed, answer, release, queryWidth,
                 cases, found, tally, runRow, caseRows>>

EmptyIndex(q) ==
  /\ phase[q] = "asked"
  /\ stats[q].row_count = 0
  /\ Refuse(q, "faq_index_unavailable")
  /\ UNCHANGED <<ask, stats>>

(* The file is there, well-formed, and has not too many cases.               *)
Usable(file) == file # None /\ Len(file) <= MaxCases

EvalSetUnavailable(q) ==
  /\ phase[q] = "asked"
  /\ stats[q].row_count > 0
  /\ ~Usable(release[q].cases)
  /\ Refuse(q, "eval_set_unavailable")
  /\ UNCHANGED <<ask, stats>>

(* Each question of the corpus, which its own entry must answer.             *)
IdentityCases(corpus) ==
  LET ids == SetToSeq(Indexed(corpus))
  IN  [i \in DOMAIN ids |-> [tier |-> "identity", expected |-> {ids[i]}]]

(* The cases a file has of a tier, in its order.                             *)
FileCases(file, tier) ==
  FlattenSeq([i \in DOMAIN file |-> IF file[i].tier = tier THEN <<file[i]>> ELSE <<>>])

CasesOf(tier, files) ==
  IF tier = "identity" THEN IdentityCases(files.corpus) ELSE FileCases(files.cases, tier)

Selected(q) ==
  LET tiers == AskedTiers(ask[q])
  IN  FlattenSeq([i \in DOMAIN tiers |-> CasesOf(tiers[i], release[q])])

SelectCases(q) ==
  /\ phase[q] = "asked"
  /\ stats[q].row_count > 0
  /\ Usable(release[q].cases)
  /\ cases' = [cases EXCEPT ![q] = Selected(q)]
  /\ Go(q, "searching")
  /\ UNCHANGED <<indexVars, answer, ask, release, stats, queryWidth, found, tally, runRow, caseRows>>

-----------------------------------------------------------------------------
(* The cases are searched one after the other.                               *)

Current(q) == cases[q][Len(found[q]) + 1]

More(q) == Len(found[q]) < Len(cases[q])

(* The query is embedded, then the index is asked whether it has any rows.   *)
LookUp(q) ==
  /\ phase[q] = "searching" /\ More(q)
  /\ Indexed(table) # {}
  /\ queryWidth' = [queryWidth EXCEPT ![q] = width]
  /\ Go(q, "querying")
  /\ UNCHANGED <<indexVars, answer, ask, release, stats, cases, found, tally, runRow, caseRows>>

(* The provider is out of reach, or the index has no rows.                   *)
LookUpFails(q) ==
  /\ phase[q] = "searching" /\ More(q)
  /\ Go(q, "failing")
  /\ UNCHANGED <<indexVars, answer, ask, release, stats, queryWidth, cases, found, tally, runRow, caseRows>>

(* The hits a query may have, best first: what is near is up to the vectors. *)
Rankings(q) ==
  LET top == Min({Max(Ks(ask[q])), Cardinality(Indexed(table))})
  IN  {hits \in UNION {[1..n -> Indexed(table)] : n \in 0..top} : IsInjective(hits)}

(* Mutant: the ids expected are counted wherever they are.                   *)
HitsAnywhere(expected, hits, k) == Cardinality(expected \cap {hits[i] : i \in DOMAIN hits})

HitsWithin(expected, hits, k) ==
  Cardinality(expected \cap {hits[i] : i \in {j \in DOMAIN hits : j <= k}})

RecallAtK(expected, hits, k) ==
  IF expected = {} THEN 0 ELSE (Scale * HitsWithin(expected, hits, k)) \div Cardinality(expected)

FirstRelevantRank(expected, hits) ==
  LET ranks == {i \in DOMAIN hits : hits[i] \in expected}
  IN  IF ranks = {} THEN None ELSE Min(ranks)

Reciprocal(rank) == IF rank = None THEN 0 ELSE Scale \div rank

CaseRow(q, hits) ==
  [tier |-> Current(q).tier, expected |-> Current(q).expected, results |-> hits,
   first_relevant_rank |-> FirstRelevantRank(Current(q).expected, hits)]

(* The recall at 1, and nothing where 1 was not asked for.                   *)
IdentityRecall(q, hits) == IF 1 \in Ks(ask[q]) THEN RecallAtK(Current(q).expected, hits, 1) ELSE 0

Counted(q, hits) ==
  LET c == Current(q)
      t == tally[q]
  IN  CASE c.tier = "paraphrase" ->
             [t EXCEPT !.recalls = [k \in DOMAIN @ |-> @[k] + RecallAtK(c.expected, hits, k)],
                       !.reciprocals = @ + Reciprocal(FirstRelevantRank(c.expected, hits)),
                       !.graded = @ + 1]
        [] c.tier = "identity" ->
             [t EXCEPT !.identities = @ + 1, !.identity = @ + IdentityRecall(q, hits)]
        [] c.tier = "negative" ->
             [t EXCEPT !.negatives = @ + 1, !.abstained = @ + (IF hits = <<>> THEN 1 ELSE 0)]

SameWidths(q) == \A e \in Indexed(table) : table[e].vector.width = queryWidth[q]

Query(q) ==
  /\ phase[q] = "querying"
  /\ SameWidths(q)
  /\ \E hits \in Rankings(q) :
       /\ found' = [found EXCEPT ![q] = Append(@, CaseRow(q, hits))]
       /\ tally' = [tally EXCEPT ![q] = Counted(q, hits)]
  /\ Go(q, "searching")
  /\ UNCHANGED <<indexVars, answer, ask, release, stats, queryWidth, cases, runRow, caseRows>>

(* Vectors of different widths have no distance. The transaction is lost, so *)
(* the failed run cannot be stored either.                                   *)
QueryBreaks(q) ==
  /\ phase[q] = "querying"
  /\ Refuse(q, "internal_error")
  /\ UNCHANGED <<ask, stats>>

-----------------------------------------------------------------------------
(* The run is stored.                                                        *)

FailedRow(q) ==
  [status |-> "failed", case_count |-> Len(cases[q]), tally |-> NoTally, index |-> stats[q]]

CompletedRow(q) ==
  [status |-> "completed", case_count |-> Len(cases[q]), tally |-> tally[q], index |-> stats[q]]

(* Mutant: the failed run is not committed.                                  *)
FailWithoutRow(q) ==
  /\ phase[q] = "failing"
  /\ Refuse(q, "eval_run_failed")
  /\ UNCHANGED <<ask, stats>>

FailRun(q) ==
  /\ phase[q] = "failing"
  /\ runRow' = [runRow EXCEPT ![q] = FailedRow(q)]
  /\ Answer(q, "eval_run_failed")
  /\ UNCHANGED <<indexVars, ask, release, stats, queryWidth, cases, found, tally, caseRows>>

EndSearch(q) ==
  /\ phase[q] = "searching" /\ ~More(q)
  /\ Go(q, "saving")
  /\ UNCHANGED <<indexVars, answer, ask, release, stats, queryWidth, cases, found, tally, runRow, caseRows>>

SaveRun(q) ==
  /\ phase[q] = "saving"
  /\ runRow' = [runRow EXCEPT ![q] = CompletedRow(q)]
  /\ caseRows' = [caseRows EXCEPT ![q] = found[q]]
  /\ Go(q, "saved")
  /\ UNCHANGED <<indexVars, answer, ask, release, stats, queryWidth, cases, found, tally>>

(* The run and its cases are read again for the answer.                      *)
Respond(q) ==
  /\ phase[q] = "saved"
  /\ Refuse(q, "created")
  /\ UNCHANGED <<ask, stats>>

(* A statement fails or the process dies; what is committed stays.           *)
RunBreaks(q) ==
  /\ phase[q] \in {"asked", "searching", "failing", "saving", "saved"}
  /\ Refuse(q, "internal_error")
  /\ UNCHANGED <<ask, stats>>

Evaluate(q) ==
  \/ AskRefused(q) \/ Begin(q) \/ EmptyIndex(q) \/ EvalSetUnavailable(q) \/ SelectCases(q)
  \/ LookUp(q) \/ LookUpFails(q) \/ Query(q) \/ QueryBreaks(q)
  \/ FailRun(q) \/ EndSearch(q) \/ SaveRun(q) \/ Respond(q) \/ RunBreaks(q)

Next ==
  \/ (ModelChanges \/ \E r \in Reindexers : Reindex(r)) /\ UNCHANGED evalVars
  \/ \E q \in Runs : Evaluate(q)

Spec == Init /\ [][Next]_vars

-----------------------------------------------------------------------------
(* Properties.                                                               *)

TypeOK ==
  /\ IndexTypeOK
  /\ phase \in [Runs -> Phases] /\ answer \in [Runs -> Answers]
  /\ ask \in [Runs -> Asks \cup {None}] /\ release \in [Runs -> [corpus : Corpora, cases : Files]]
  /\ queryWidth \in [Runs -> Widths \cup {None}]
  /\ \A q \in Runs : Len(found[q]) <= Len(cases[q]) /\ Len(caseRows[q]) <= Len(cases[q])

Sum(w) ==
  LET total[n \in 0..Len(w)] == IF n = 0 THEN 0 ELSE total[n - 1] + w[n]
  IN  total[Len(w)]

OfTier(rows, tier) == {i \in DOMAIN rows : rows[i].tier = tier}

(* Reference: the share of the expected ids that stand at a rank up to k.    *)
ShareByRank(c, k) ==
  IF c.expected = {} THEN 0 ELSE
  (Scale * Cardinality({e \in c.expected : \E i \in 1..k : i \in DOMAIN c.results /\ c.results[i] = e}))
    \div Cardinality(c.expected)

(* Reference: 1/n for the n-th hit that is expected, none before it being.   *)
ReciprocalByRank(c) ==
  LET n == {i \in DOMAIN c.results : c.results[i] \in c.expected
                                     /\ \A j \in 1..(i - 1) : c.results[j] \notin c.expected}
  IN  IF n = {} THEN 0 ELSE Scale \div (CHOOSE i \in n : TRUE)

(* What each row adds to a sum over the paraphrases.                         *)
Shares(rows, k) ==
  [i \in DOMAIN rows |-> IF rows[i].tier = "paraphrase" THEN ShareByRank(rows[i], k) ELSE 0]

Reciprocals(rows) ==
  [i \in DOMAIN rows |-> IF rows[i].tier = "paraphrase" THEN ReciprocalByRank(rows[i]) ELSE 0]

Abstained(rows) == {i \in OfTier(rows, "negative") : rows[i].results = <<>>}

FirstHit(row) == row.results # <<>> /\ row.results[1] \in row.expected

Completed == {q \in Runs : runRow[q].status = "completed"}

(* The numbers of a completed run can be found again from its stored cases:  *)
(* recall and rank from the paraphrases alone, abstention from the negatives, *)
(* and, where recall at 1 was asked for, a perfect canary exactly when every  *)
(* question of the corpus found its own entry first.                          *)
NumbersFollowFromCases ==
  \A q \in Completed :
    LET t == runRow[q].tally
        rows == caseRows[q]
        own == OfTier(rows, "identity")
    IN  /\ Len(rows) = runRow[q].case_count
        /\ t.graded = Cardinality(OfTier(rows, "paraphrase"))
        /\ t.negatives = Cardinality(OfTier(rows, "negative"))
        /\ \A k \in Ks(ask[q]) : t.recalls[k] = Sum(Shares(rows, k))
        /\ t.reciprocals = Sum(Reciprocals(rows))
        /\ t.abstained = Cardinality(Abstained(rows))
        /\ 1 \in Ks(ask[q]) =>
             (t.identity = Scale * Cardinality(own) <=> \A i \in own : FirstHit(rows[i]))

(* A run that is reported failed has left a row and no cases, one that is    *)
(* reported created all its cases, one that is refused nothing.              *)
RunsLeaveATrace ==
  \A q \in Runs : phase[q] = "done" =>
    /\ answer[q] = "eval_run_failed" <=> runRow[q].status = "failed"
    /\ answer[q] = "created" => q \in Completed
    /\ runRow[q] # NoRow => answer[q] \in {"eval_run_failed", "created", "internal_error"}
    /\ caseRows[q] # <<>> => q \in Completed
=============================================================================
