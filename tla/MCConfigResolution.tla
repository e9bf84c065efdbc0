------------------------- MODULE MCConfigResolution -------------------------
(* Small instances of ConfigResolution for TLC. *)
EXTENDS ConfigResolution, TLC

MCIds == {"plan"}

MCRequests == {[id |-> "plan", model |-> None, reasoning |-> None, permission |-> "bypass"]}

Entry(m, r, p) == [model |-> m, reasoning |-> r, permission |-> p]

\* First a variant over a default, then a default alone.
MCFile ==
    [v \in Versions |->
        IF v = 2
        THEN [i \in {"default"} |-> Entry("m2", None, "deny")]
        ELSE [i \in {"default", "plan"} |-> IF i = "plan" THEN Entry(None, "high", None)
                              ELSE Entry(None, None, "prompt")]]

\* A header and two spellings of a model; then another model, and no levels.
MCModelOutput == <<<<"Models", "GPT", "gpt">>, <<"!", "new">>>>
MCLevelOutput == <<<<"Low", "X-High">>, <<"!">>>>
MCLower ==
    ("Models" :> "models") @@ ("GPT" :> "gpt") @@ ("gpt" :> "gpt") @@ ("new" :> "new")
    @@ ("Low" :> "low") @@ ("low" :> "low") @@ ("X-High" :> "x-high")
    @@ ("xhigh" :> "xhigh") @@ ("!" :> "!")
MCWithLetter == DOMAIN MCLower \ {"!"}
MCLevelWords == {"low", "medium", "high", "xhigh"}
MCDefaultLevels == <<"low", "medium", "high">>

Symmetry == Permutations(Tasks)

=============================================================================
