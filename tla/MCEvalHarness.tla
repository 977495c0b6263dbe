---------------------------- MODULE MCEvalHarness ----------------------------
EXTENDS EvalHarness

MCCategoryOf == [r \in Rule |-> IF r = "sql" THEN "security" ELSE "bug"]

\* The words of the guard of "off_by_one" are found in the comment of "items" only.
MCGuard == [r \in Rule |-> IF r = "off_by_one" THEN {"items"} \cap Rule ELSE {r}]

\* A line with range and len is no access to items.
MCHitSets == {hits \in SUBSET Rule : ~({"items", "off_by_one"} \subseteq hits)}
=============================================================================
