----------------------------- MODULE MCKnowledge -----------------------------
(* An instance small enough for TLC. A behaviour has one of two plans, drawn *)
(* at its start: reindexes of several releases work while a run searches for *)
(* one case, or a run of any kind finds an index that stays as it is.        *)
EXTENDS Evaluations, TLC

CONSTANTS e1, e2, v1, v2

VARIABLE plan

mcVars == <<vars, plan>>

Both == e1 :> v1 @@ e2 :> v1
Later == e1 :> v2 @@ e2 :> v1
Fewer == e1 :> v1 @@ e2 :> None
Nothing == e1 :> None @@ e2 :> None

SomeCorpora == {Both, Later, Fewer, Nothing}

Wide == [tier |-> "paraphrase", expected |-> {e1, e2}]
Narrow == [tier |-> "paraphrase", expected |-> {e2}]
Nowhere == [tier |-> "negative", expected |-> {}]

SomeFiles == {None, <<Wide, Nowhere, Narrow>>, <<Wide, Wide, Wide, Nowhere>>}

Ask(t, k) == [tiers |-> t, ks |-> k]
OneCase == Ask(<<"negative">>, <<1>>)

SomeAsks ==
  {OneCase, Ask(<<>>, <<>>), Ask(<<>>, <<2>>), Ask(<<"identity">>, <<1>>),
   Ask(<<"paraphrase", "negative">>, <<2, 1>>), Ask(<<"negative", "negative">>, <<1>>),
   Ask(<<"other">>, <<1>>), Ask(<<>>, <<0, 1>>), Ask(<<>>, <<3>>)}

Small == <<1, 2>>

InPlan ==
  CASE plan = "reindex"  -> /\ \A q \in Runs : release[q] = [corpus |-> Both, cases |-> <<Wide, Nowhere, Narrow>>]
                            /\ \A q \in Runs : ask[q] \in {None, OneCase}
    [] plan = "evaluate" -> \A r \in Reindexers : stage[r] = "idle"

MCInit == Init /\ plan \in {"reindex", "evaluate"} /\ InPlan

MCNext == Next /\ UNCHANGED plan /\ InPlan'

MCSpec == MCInit /\ [][MCNext]_mcVars

(* Reindexes differ in what they find only.                                  *)
Alike == Permutations(Reindexers)
=============================================================================
