----------------------------- MODULE EvalHarness -----------------------------
(***************************************************************************)
(* scripts/run_evaluation.py: the reviewer is run over fixtures with known *)
(* issues and scored.  _mock_review_diff numbers the added lines of a diff *)
(* and applies its rules to them, _live_review_diff asks a model and falls *)
(* back to the rules, _compute_metrics pairs findings with known issues,   *)
(* and _generate_report counts by category.                                *)
(*                                                                         *)
(* A diff is read line by line beside the numbers its lines really have in *)
(* the new file.  What a line is about is the set of rules that match its  *)
(* text and the set of issues planted on it, both named by rules.          *)
(***************************************************************************)
EXTENDS Naturals, FiniteSets, Functions

CONSTANTS
  Rule,                 \* patterns of the analyzer, and kinds of known issues
  CategoryOf,           \* category of each
  Guard,                \* rules whose comments hold the words a rule looks for before it reports
  HitSets,              \* sets of rules that the text of one line can match
  MaxEntries,           \* entries of data/eval_set.json
  MaxLines,             \* bound: diff lines of the whole set
  MaxIssues             \* bound: rules matched and issues planted in one diff

ASSUME EvalAssumption ==
  /\ MaxEntries \in Nat \ {0} /\ MaxLines \in Nat /\ MaxIssues \in Nat
  /\ IsFiniteSet(Rule) /\ HitSets \subseteq SUBSET Rule
  /\ \A r \in Rule : \A s \in Guard[r] : s \in Rule /\ CategoryOf[s] = CategoryOf[r]

Category == {CategoryOf[r] : r \in Rule}

VARIABLES
  pc,                   \* what the runner does with the current entry
  entries,              \* entries begun
  lines,                \* diff lines read
  file, real,           \* where the diff is: its file, and the new file's line number
  current_line_num,
  extra, missed,        \* history: lines of this hunk counted too much, and not counted
  added_lines,          \* the added lines recorded, with their real place beside
  known,                \* known_issues of the entry
  reviewer,             \* history: who reviewed the entry
  findings,             \* of the entry
  left,                 \* findings not compared yet
  matched,              \* known issues matched (matched_known_indices)
  tp, fp,               \* findings in true_positives and in false_positives
  total,                \* the four sums over the entries
  cats,                 \* cat_known, cat_tp and cat_fp
  cat                   \* the variable cat, which the last loop reads

position == <<file, real, current_line_num, extra, missed>>
diff == <<lines, position, added_lines, known>>
scores == <<reviewer, findings, left, matched, tp, fp>>
sums == <<total, cats, cat>>
vars == <<pc, entries, diff, scores, sums>>

None == "none"
Issue == [file : Nat, line : Nat, rule : Rule]
Finding == [file : Nat, line : Nat, rule : Rule, nth : Nat]
\* at is the number the code gives the line, nth its turn in the loops over added_lines.
AddedLine ==
  [at : Nat, nth : Nat, file : Nat, line : Nat, hits : SUBSET Rule, extra : Nat, missed : Nat]
Zero == [c \in Category |-> 0]

Init ==
  /\ reviewer = None /\ pc = "diff" /\ entries = 1 /\ lines = 0
  /\ file = 0 /\ real = 0 /\ current_line_num = 0 /\ extra = 0 /\ missed = 0
  /\ added_lines = {} /\ known = {}
  /\ findings = {} /\ left = {} /\ matched = {} /\ tp = {} /\ fp = {}
  /\ total = [known |-> 0, tp |-> 0, fp |-> 0, fn |-> 0]
  /\ cats = [known |-> Zero, tp |-> Zero, fp |-> Zero]
  /\ cat = None

-----------------------------------------------------------------------------
(* The loop over the lines of the diff.                                     *)

Line ==
  /\ pc = "diff" /\ lines < MaxLines
  /\ lines' = lines + 1
  /\ UNCHANGED <<pc, entries, scores, sums>>
\* in_hunk, in the code.
InHunk == Line /\ real > 0 /\ UNCHANGED file

\* A file's section: a header, which counts as context inside of a hunk, and its first
\* hunk header, or one hunk header more.
Starts == {1, 2}
OldFileEnded == extra > 0
Section(start) ==
  \/ file' = file + 1
  \/ file > 0 /\ start > real /\ ~OldFileEnded /\ UNCHANGED file

HunkHeader ==
  \E start \in Starts :
    /\ Line /\ Section(start)
    /\ real' = start /\ current_line_num' = start
    /\ extra' = 0 /\ missed' = 0
    /\ UNCHANGED <<added_lines, known>>

Context ==
  /\ InHunk /\ ~OldFileEnded
  /\ real' = real + 1 /\ current_line_num' = current_line_num + 1
  /\ UNCHANGED <<extra, missed, added_lines, known>>

\* A removed line; the old file's last one may have "\ No newline at end of file" after
\* it, which counts as context.  Only added lines can follow that.
Removed ==
  /\ InHunk /\ ~OldFileEnded
  /\ \/ UNCHANGED <<extra, current_line_num>>
     \/ extra' = extra + 1 /\ current_line_num' = current_line_num + 1
  /\ UNCHANGED <<real, missed, added_lines, known>>

Planted(issues) == known' = known \cup {[file |-> file, line |-> real, rule |-> r] : r \in issues}

Hit == {h \in added_lines \X Rule : h[2] \in h[1].hits}
RoomFor(n) == Cardinality(Hit) + Cardinality(known) + n <= MaxIssues

Added ==
  \E hits \in HitSets, issues \in SUBSET Rule :
    /\ InHunk
    /\ RoomFor(Cardinality(hits) + Cardinality(issues))
    /\ added_lines' = added_lines \cup
         {[at |-> current_line_num, nth |-> Cardinality(added_lines) + 1, file |-> file,
           line |-> real, hits |-> hits, extra |-> extra, missed |-> missed]}
    /\ Planted(issues)
    /\ real' = real + 1 /\ current_line_num' = current_line_num + 1
    /\ UNCHANGED <<extra, missed>>

\* An added line whose text begins with "++" looks like a file header: it is not recorded
\* and not counted.
AddedPlusPlus ==
  \E issues \in SUBSET Rule :
    /\ InHunk
    /\ RoomFor(Cardinality(issues))
    /\ Planted(issues)
    /\ real' = real + 1 /\ missed' = missed + 1
    /\ UNCHANGED <<current_line_num, extra, added_lines>>

ReadDiff == HunkHeader \/ Context \/ Removed \/ Added \/ AddedPlusPlus

-----------------------------------------------------------------------------
(* The review of an entry.                                                  *)

FindingOf(a, r) == [file |-> 1, line |-> a.at, rule |-> r, nth |-> a.nth]

\* Mutant of Mock: what was found under a number keeps every other rule off it.
Mock_OnePerLine ==
  {FindingOf(h[1], h[2]) : h \in
     {x \in Hit : /\ x[2] = CHOOSE r \in x[1].hits : TRUE
                  /\ ~\E b \in added_lines : b.nth < x[1].nth /\ b.at = x[1].at /\ b.hits # {}}}

\* Every rule in turn over all added lines.  A rule is silent where an earlier line of the
\* same number, of whatever file, has a finding whose comment holds the words its guard
\* looks for: mostly the rule's own, but "off-by-one" stands in the comment on items[ only,
\* and "zero-division" in none.  The path is the diff's first, whatever file the line is in.
Mock ==
  {FindingOf(h[1], h[2]) : h \in
     {x \in Hit : ~\E b \in added_lines :
        b.nth < x[1].nth /\ b.at = x[1].at /\ b.hits \cap Guard[x[2]] # {}}}

\* A model may find what is planted, something else at such a line, or something with no
\* line (line 0 for None).
Answers ==
  {answer \in SUBSET ({[file |-> k.file, line |-> k.line, rule |-> r, nth |-> 0] :
                           k \in known, r \in Rule}
                        \cup {[file |-> 1, line |-> 0, rule |-> r, nth |-> 0] : r \in Rule}) :
     Cardinality(answer) + Cardinality(known) <= MaxIssues}

\* --mode chooses; without a key, a package or a well-formed answer the rules stand in for
\* the model.  What an SDK raises ends the evaluation.
Review ==
  /\ pc = "diff"
  /\ \/ /\ reviewer' = "rules" /\ pc' = "match"
        /\ findings' = Mock /\ UNCHANGED added_lines
     \/ /\ reviewer' = "model" /\ added_lines' = {}
        /\ \/ findings' \in Answers /\ pc' = "match"
           \/ findings' = {} /\ pc' = "raised"
  /\ left' = findings'
  /\ file' = 0 /\ real' = 0 /\ current_line_num' = 0 /\ extra' = 0 /\ missed' = 0
  /\ UNCHANGED <<entries, lines, known, matched, tp, fp, sums>>

\* _finding_matches_known; a known issue always has a line.
Matches(f, k) ==
  f.file = k.file /\ f.line = k.line /\ CategoryOf[f.rule] = CategoryOf[k.rule]

\* Mutant of MatchFinding: a known issue may be matched again.
MatchFinding_Again ==
  /\ pc = "match"
  /\ \E f \in left :
       /\ left' = left \ {f}
       /\ \/ \E k \in known : /\ Matches(f, k)
                              /\ matched' = matched \cup {k}
                              /\ tp' = tp \cup {f} /\ UNCHANGED fp
          \/ /\ ~\E k \in known : Matches(f, k)
             /\ fp' = fp \cup {f} /\ UNCHANGED <<matched, tp>>
  /\ UNCHANGED <<pc, entries, diff, reviewer, findings, sums>>

\* One turn of the loop of _compute_metrics.
MatchFinding ==
  /\ pc = "match"
  /\ \E f \in left :
       /\ left' = left \ {f}
       /\ \/ \E k \in known \ matched : /\ Matches(f, k)
                                        /\ matched' = matched \cup {k}
                                        /\ tp' = tp \cup {f} /\ UNCHANGED fp
          \/ /\ ~\E k \in known \ matched : Matches(f, k)
             /\ fp' = fp \cup {f} /\ UNCHANGED <<matched, tp>>
  /\ UNCHANGED <<pc, entries, diff, reviewer, findings, sums>>

Scored ==
  /\ pc = "match" /\ left = {} /\ pc' = "score"
  /\ UNCHANGED <<entries, diff, scores, sums>>

-----------------------------------------------------------------------------
(* The sums.  The report goes over the entries once more, in the same order; *)
(* here each entry is added when it has its scores.                         *)

Of(issues, c) == {i \in issues : CategoryOf[i.rule] = c}
Plus(counts, issues) == [c \in Category |-> counts[c] + Cardinality(Of(issues, c))]
Categories(issues) == {CategoryOf[i.rule] : i \in issues}

\* What cat is when the loop over the false positives begins: the category of the last
\* true positive, else of the last known issue, else what an entry before has left.
LastCat == IF tp # {} THEN Categories(tp) ELSE IF known # {} THEN Categories(known) ELSE {cat}

Sums ==
  /\ total' = [known |-> total.known + Cardinality(known), tp |-> total.tp + Cardinality(tp),
               fp |-> total.fp + Cardinality(fp),
               fn |-> total.fn + Cardinality(known \ matched)]
  /\ cat' \in LastCat

\* Mutant of Tally: every known issue that was found counts, as often as it was.
Tally_PerFinding ==
  cats' = [known |-> Plus(cats.known, known), tp |-> Plus(cats.tp, findings),
           fp |-> [cats.fp EXCEPT ![cat'] = @ + Cardinality(fp)]]

\* All false positives of an entry are counted under cat.
Tally ==
  cats' = [known |-> Plus(cats.known, known), tp |-> Plus(cats.tp, tp),
           fp |-> IF fp = {} THEN cats.fp ELSE [cats.fp EXCEPT ![cat'] = @ + Cardinality(fp)]]

Proceed ==
  \/ /\ entries < MaxEntries /\ entries' = entries + 1 /\ pc' = "diff"
     /\ added_lines' = {} /\ known' = {}
     /\ reviewer' = None /\ findings' = {} /\ matched' = {} /\ tp' = {} /\ fp' = {}
     /\ UNCHANGED <<lines, position, left>>
  \/ /\ pc' = "written"
     /\ UNCHANGED <<entries, diff, scores>>

\* The next entry, or the report.  It cannot be generated when there are false positives
\* and cat has no value yet.
NextEntry ==
  /\ pc = "score" /\ Sums
  /\ \/ /\ fp # {} /\ cat' = None /\ pc' = "raised"
        /\ UNCHANGED <<entries, diff, scores, cats>>
     \/ /\ fp # {} => cat' # None
        /\ Tally
        /\ Proceed

Next == ReadDiff \/ Review \/ MatchFinding \/ Scored \/ NextEntry

Spec == Init /\ [][Next]_vars

-----------------------------------------------------------------------------
(* Properties.                                                              *)

At(issues, i) == {j \in issues : Matches(j, i)}
AtMost(m, n) == IF m < n THEN m ELSE n

\* Pairing one finding at a time is as good as any pairing: at each place as many are
\* matched as there are findings or known issues, whichever are fewer; and every finding
\* counts once (analyzers.py:386-433).
MatchingIsMaximal ==
  pc = "score" =>
    /\ \A i \in findings \cup known :
         /\ Cardinality(At(matched, i)) = AtMost(Cardinality(At(findings, i)), Cardinality(At(known, i)))
         /\ Cardinality(At(tp, i)) = Cardinality(At(matched, i))
    /\ tp \cup fp = findings /\ tp \cap fp = {}

\* From the diff to the score: which planted issues the rules get the credit for.  Those of
\* the first file at whose number the code has an added line, of any file, that a rule of
\* the category matches; and the number the code gives a line is its number in the new
\* file, plus one after "\ No newline" of the old file, less one for each added line before
\* it in its hunk that begins with "++" (analyzers.py:87-256 and 386-433).  So no guard
\* against repeated findings loses an issue, whatever numbers lines of other files and
\* slipped lines share; and where the numbering slipped an issue is missed, unless another
\* line has slipped into its place.
PlantedIssueIsFound ==
  pc = "score" /\ reviewer = "rules" =>
    \A k \in known :
      At(matched, k) # {} <=>
        /\ k.file = 1
        /\ \E a \in added_lines : /\ a.line + a.extra = k.line + a.missed
                                  /\ \E r \in a.hits : CategoryOf[r] = CategoryOf[k.rule]

\* The table by category agrees with the summary above it: its columns have the same sums,
\* and no row has a negative number of misses (runners.py:118-167).
CategoriesAddUp ==
  pc \in {"diff", "written"} =>
    /\ SumFunction(cats.known) = total.known /\ SumFunction(cats.tp) = total.tp /\ SumFunction(cats.fp) = total.fp
    /\ total.fn = total.known - total.tp
    /\ \A c \in Category : cats.tp[c] <= cats.known[c]
=============================================================================
