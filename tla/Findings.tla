------------------------------ MODULE Findings ------------------------------
(***************************************************************************)
(* What DedupeStage makes of the findings of the model and of Semgrep:     *)
(* the lists are merged, filtered by the repository's flags, cut to its    *)
(* limits, filtered by .sentinel-ignore and deduplicated, in that order.   *)
(* Each step is one turn of one of the loops.                              *)
(*                                                                         *)
(* Two findings are the same to the stage when they are at one place: file, *)
(* line and category.  Their severity is carried along.  Glob patterns are *)
(* reduced to the files they match, and "high_confidence" is the source    *)
(* "both".                                                                 *)
(***************************************************************************)
EXTENDS Naturals, SequencesExt

CONSTANTS
  Finding,              \* findings of the two tools
  MaxLLM, MaxSemgrep,   \* bounds: lengths of their lists
  Limit                 \* bound: values of max_comments and max_comments_per_file

ASSUME FindingsAssumption ==
  /\ \A f \in Finding : DOMAIN f = {"file", "line", "category", "severity"}
  /\ MaxLLM \in Nat /\ MaxSemgrep \in Nat /\ Limit \subseteq Nat

File == {f.file : f \in Finding}
Category == {f.category : f \in Finding}

\* The key that merging and deduplication compare.
Place(f) == [file |-> f.file, line |-> f.line, category |-> f.category]
At(p) == {f \in Finding : Place(f) = p}
Places(list) == {Place(list[k]) : k \in DOMAIN list}

VARIABLES
  stage,                \* the loop that runs
  i,                    \* its next turn
  llm,                  \* ctx.llm_findings
  semgrep,              \* ctx.semgrep_findings
  used,                 \* used_indices, of semgrep
  merged,               \* the list a loop reads, in the end ctx.merged_findings
  out,                  \* the list it builds
  config,               \* ctx.repo_obj.config, once it is read
  ignored,              \* files the patterns of .sentinel-ignore match, once they are read
  combined              \* history: what merge_with_llm_findings returned

inputs == <<llm, semgrep>>
settings == <<config, ignored, combined>>
vars == <<stage, i, inputs, used, merged, out, settings>>

None == "none"

\* Without the key enabled_categories all are enabled.  The limits are numbers here:
\* SemgrepStage has read them before, and a review does not get past one that is none.
Config == [security_only_review : BOOLEAN, disable_style_nits : BOOLEAN,
           enabled_categories : SUBSET Category,
           max_comments_per_file : Limit, max_comments : Limit]

Entry == [finding : Finding, source : {"llm", "semgrep", "both"}]
Sourced(f, source) == [finding |-> f, source |-> source]
EntriesOf(X) == {e \in Entry : e.finding \in X}
InFile(p) == {f \in Finding : f.file = p}

\* How many elements of a list, of those before its k-th, are in a set.
Count(list, X) == Cardinality({j \in DOMAIN list : list[j] \in X})
Before(list, k, X) == Cardinality({j \in 1..(k - 1) : list[j] \in X})

Init ==
  /\ stage = "match" /\ i = 1
  /\ llm \in BoundedSeq(Finding, MaxLLM)
  /\ semgrep \in BoundedSeq(Finding, MaxSemgrep)
  /\ used = {} /\ merged = <<>> /\ out = <<>>
  /\ config = None /\ ignored = {} /\ combined = <<>>

Turn(loop, list) ==
  /\ stage = loop /\ i <= Len(list) /\ i' = i + 1
  /\ UNCHANGED <<stage, inputs, merged, settings>>
Leave(loop, list, next) ==
  /\ stage = loop /\ i > Len(list) /\ stage' = next /\ i' = 1
  /\ UNCHANGED <<inputs, used>>

-----------------------------------------------------------------------------
(* merge_with_llm_findings                                                  *)

\* Mutant of Unused: a Semgrep finding may confirm several findings of the model.
Unused_Again(f) == {j \in DOMAIN semgrep : semgrep[j] \in At(Place(f))}
Unused(f) == {j \in DOMAIN semgrep \ used : semgrep[j] \in At(Place(f))}

\* The inner loop: the first unused Semgrep finding at the same place confirms llm[i].
Match ==
  /\ Turn("match", llm)
  /\ \/ /\ Unused(llm[i]) = {} /\ UNCHANGED used
        /\ out' = Append(out, Sourced(llm[i], "llm"))
     \/ \E j \in Unused(llm[i]) :
          /\ \A k \in Unused(llm[i]) : j <= k
          /\ used' = used \cup {j}
          /\ out' = Append(out, Sourced(llm[i], "both"))

Matched ==
  /\ Leave("match", llm, "unused")
  /\ UNCHANGED <<merged, out, settings>>

AddUnused ==
  /\ Turn("unused", semgrep) /\ UNCHANGED used
  /\ out' = IF i \in used THEN out ELSE Append(out, Sourced(semgrep[i], "semgrep"))

\* FeatureFlags.__init__
ReadFlags ==
  /\ Leave("unused", semgrep, "flags")
  /\ config' \in Config
  /\ merged' = out /\ combined' = out /\ out' = <<>>
  /\ UNCHANGED ignored

-----------------------------------------------------------------------------
(* FeatureFlagService.filter_findings                                       *)

EnabledCategories ==
  IF config.security_only_review
  THEN {"security"}
  ELSE config.enabled_categories \ (IF config.disable_style_nits THEN {"style"} ELSE {})

\* is_enabled: the category decides, a nit's severity does not.
Wanted == {f \in Finding : f.category \in EnabledCategories}

\* Mutant of AddUpToLimit: <= max_comments_per_file.
AddUpToLimit_OneMore(list, e) ==
  IF /\ e.finding \in Wanted
     /\ config.max_comments_per_file > 0 =>
          Count(list, EntriesOf(InFile(e.finding.file))) <= config.max_comments_per_file
  THEN Append(list, e) ELSE list

\* The comprehension over the categories and the loop over the limit per file, which look
\* at the findings in the same order.
AddUpToLimit(list, e) ==
  IF /\ e.finding \in Wanted
     /\ config.max_comments_per_file > 0 =>
          Count(list, EntriesOf(InFile(e.finding.file))) < config.max_comments_per_file
  THEN Append(list, e) ELSE list

FilterFinding ==
  /\ Turn("flags", merged) /\ UNCHANGED used
  /\ out' = AddUpToLimit(out, merged[i])

\* Mutant of CapTotal: zero comments, not any number.
CapTotal_Zero(list) ==
  IF Len(list) > config.max_comments THEN SubSeq(list, 1, config.max_comments) ELSE list

CapTotal(list) ==
  IF config.max_comments > 0 /\ Len(list) > config.max_comments
  THEN SubSeq(list, 1, config.max_comments) ELSE list

\* The total limit; then the patterns are read.
Filtered ==
  /\ Leave("flags", merged, "ignore")
  /\ merged' = CapTotal(out) /\ out' = <<>>
  /\ ignored' \in SUBSET File
  /\ UNCHANGED <<config, combined>>

-----------------------------------------------------------------------------
(* filter_ignored_findings and _deduplicate                                 *)

FilterIgnored ==
  /\ Turn("ignore", merged) /\ UNCHANGED used
  /\ out' = IF merged[i].finding.file \in ignored THEN out ELSE Append(out, merged[i])

IgnoredFiltered ==
  /\ Leave("ignore", merged, "dedupe")
  /\ merged' = out /\ out' = <<>>
  /\ UNCHANGED settings

Seen(list, e) == \E k \in DOMAIN list : list[k].finding \in At(Place(e.finding))

\* Mutant of AddNew: a later finding replaces an earlier one at the same place.
AddNew_LastWins(list, e) ==
  Append(SelectSeq(list, LAMBDA o : Place(o.finding) # Place(e.finding)), e)
AddNew(list, e) == IF Seen(list, e) THEN list ELSE Append(list, e)

Deduplicate ==
  /\ Turn("dedupe", merged) /\ UNCHANGED used
  /\ out' = AddNew(out, merged[i])

Deduplicated ==
  /\ Leave("dedupe", merged, "done")
  /\ merged' = out /\ out' = <<>>
  /\ UNCHANGED settings

Next ==
  \/ Match \/ Matched \/ AddUnused \/ ReadFlags
  \/ FilterFinding \/ Filtered \/ FilterIgnored \/ IgnoredFiltered
  \/ Deduplicate \/ Deduplicated

Spec == Init /\ [][Next]_vars

-----------------------------------------------------------------------------
(* Properties.                                                              *)

\* Merging pairs the two lists one to one: at each place as many entries are confirmed
\* as both tools reported there, the rest stays with the tool that reported it, and the
\* model's come first, in its order and as it worded them
\* (semgrep_integration.py:170-214).
EntriesAt(p, source) == {e \in EntriesOf(At(p)) : e.source = source}
Of(p, source) == Count(merged, EntriesAt(p, source))
MergePairs ==
  stage = "flags" =>
    /\ \A p \in Places(llm) \cup Places(semgrep) :
         /\ Of(p, "both") + Of(p, "llm") = Count(llm, At(p))
         /\ Of(p, "both") + Of(p, "semgrep") = Count(semgrep, At(p))
         /\ Of(p, "llm") = 0 \/ Of(p, "semgrep") = 0
    /\ Len(merged) >= Len(llm)
    /\ \A k \in DOMAIN llm : merged[k].finding = llm[k]

\* A place both tools reported is never posted as that of one: limits and
\* deduplication take away the unconfirmed entries there, not the confirmed one
\* (feature_flags.py:115-136, helpers.py:43-58).
Posted == [k \in DOMAIN merged |-> merged[k].finding]
AgreementSurvives ==
  stage = "done" =>
    \A k \in DOMAIN merged :
      Place(Posted[k]) \in Places(llm) \cap Places(semgrep) => merged[k].source = "both"

\* What is posted keeps both limits, the enabled categories and .sentinel-ignore at once,
\* with one comment at most for a place (pipeline_stages.py:326-352).  It does not keep
\* what feature_flags.py:10-12 promises of disable_style_nits about severity: a nit of an
\* enabled category passes, :70-81 and :113 look at categories only.
PostedIsAllowed ==
  stage = "done" =>
    /\ config.max_comments > 0 => Len(merged) <= config.max_comments
    /\ config.max_comments_per_file > 0 =>
         \A p \in File : Count(Posted, InFile(p)) <= config.max_comments_per_file
    /\ \A k \in DOMAIN merged : Posted[k] \in Wanted /\ Posted[k].file \notin ignored
    /\ \A j, k \in DOMAIN merged : Place(Posted[j]) = Place(Posted[k]) => j = k

\* A place that should get a comment and gets none was cut off by a limit: as many
\* entries of enabled categories as it admits, in the file or in all, stand before it in
\* the merged list, a pair counted once.  Entries that .sentinel-ignore or deduplication
\* then take away count too, since the limits run first (feature_flags.py:115-136 before
\* pipeline_stages.py:339-350), although the stage says it deduplicates before it
\* enforces the limit (:298).  A nit is lost for no other reason than another finding.
CutOff(k) ==
  LET wantedInFile == Wanted \cap InFile(combined[k].finding.file)
  IN  \/ /\ config.max_comments > 0
         /\ Before(combined, k, EntriesOf(Wanted)) >= config.max_comments
      \/ /\ config.max_comments_per_file > 0
         /\ Before(combined, k, EntriesOf(wantedInFile)) >= config.max_comments_per_file
NothingLost ==
  stage = "done" =>
    \A k \in DOMAIN combined :
      LET f == combined[k].finding
      IN  f \in Wanted /\ f.file \notin ignored => CutOff(k) \/ Place(f) \in Places(Posted)
=============================================================================
