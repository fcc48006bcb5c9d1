--------------------------- MODULE MCTrainingData ---------------------------
(* Seven questions of three categories and two taxa.  Questions 1 and 2    *)
(* share their first image, 3 and 6 their second.                          *)
EXTENDS TrainingData

MCTypeOf == [q \in Question |-> IF q = 7 THEN "2_hop" ELSE Automatic]
MCCategoryOf == <<"a", "a", "b", "b", "c", "c", "a">>
MCTaxonOf == [c \in {"a", "b", "c"} |-> IF c = "b" THEN "Birds" ELSE "Plants"]
MCImagesOf == <<<<"a1", "a2">>, <<"a1", "a3">>, <<"b1", "b2">>, <<"b3", "b4">>,
                <<"c1", "c2">>, <<"c3", "c2">>, <<"a4", "a2">>>>
MCCatalog ==
    [c \in {"a", "b", "c"} |->
        CASE c = "a" -> <<"a1", "a2", "a3", "a4", "a5", "a6", "a7">>
          [] c = "b" -> <<"b1", "b2", "b3", "b4", "b5", "b6">>
          [] c = "c" -> <<"c1", "c2", "c3", "c4", "c5">>]
MCTaxa == <<"Plants", "Birds">>
MCTypes == <<Automatic, "2_hop">>
MCWanted == [t \in {Automatic, "2_hop"} |-> IF t = Automatic THEN 3 ELSE 1]
MCWeights == <<2, 1>>
=============================================================================
