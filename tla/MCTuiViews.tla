----------------------------- MODULE MCTuiViews -----------------------------
(* Up to three runs of three, one and no event, two benchmarks, pages of one or *)
(* two rows.                                                                 *)
EXTENDS TuiViews

MCEvents(r) == CASE r = 1 -> 3 [] r = 2 -> 1 [] OTHER -> 0
MCCatalogue == <<"gen-1", "cod-1">>
MCFamily(b) == IF b = "cod-1" THEN "coding" ELSE "generic"
MCPageSizes == {1, 2}
=============================================================================
