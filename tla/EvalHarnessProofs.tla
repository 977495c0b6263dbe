-------------------------- MODULE EvalHarnessProofs --------------------------
(***************************************************************************)
(* Proofs about EvalHarness, for every finite set of rules, every division *)
(* of them into categories and every bound on the evaluation set.          *)
(*                                                                         *)
(* The first part is about SumFunction of the community modules, a fold    *)
(* and so a recursive function on the subsets of a domain.  An induction   *)
(* over finite sets is done by hand: of the sets for which a fact fails    *)
(* there would be a smallest one.                                          *)
(***************************************************************************)
EXTENDS EvalHarness, FiniteSetTheorems, TLAPS

-----------------------------------------------------------------------------
(* Sums of functions.                                                       *)

\* Of some subsets of a finite set one has none of the others in it.
LEMMA SmallestSet ==
  ASSUME NEW S, IsFiniteSet(S), NEW T, T \subseteq SUBSET S, T # {}
  PROVE  \E s \in T : \A u \in T : u \subseteq s => u = s
<1>1. FiniteSubsetsOf(S) = SUBSET S
  BY FS_FiniteSubsetsOfFinite
<1>2. IsWellFoundedOn(StrictSubsetOrdering(S), SUBSET S)
  BY <1>1, FS_StrictSubsetOrderingWellFounded
<1>3. PICK s \in T : \A u \in T : <<u, s>> \notin StrictSubsetOrdering(S)
  BY <1>2, WFMin
<1> QED BY <1>3 DEF StrictSubsetOrdering

Below == OpToRel(<, Nat)

\* Of some natural numbers one is the least.
LEMMA LeastNumber ==
  ASSUME NEW T, T \subseteq Nat, T # {}
  PROVE  \E n \in T : \A m \in T : n <= m
<1>1. IsWellFoundedOn(Below, Nat)
  BY NatLessThanWellFounded DEF Below
<1>2. Below = {ss \in Nat \X Nat : ss[1] < ss[2]}
  BY DEF Below, OpToRel
<1>3. PICK n \in T : \A m \in T : <<m, n>> \notin Below
  BY <1>1, WFMin, Zenon
<1>4. ASSUME NEW m \in T PROVE n <= m
  <2>1. m \in Nat /\ n \in Nat /\ <<m, n>> \notin Below
    BY <1>3
  <2>2. ~(m < n)
    BY <1>2, <2>1
  <2> QED BY <2>1, <2>2
<1> QED BY <1>4

Pick(s) == CHOOSE x \in s : TRUE

LEMMA PickIsElement == ASSUME NEW s, s # {} PROVE Pick(s) \in s
BY DEF Pick

\* g gives the sum of f over each of the sets in D.
AddsUp(g, f, D) ==
  /\ g \in [D -> Nat]
  /\ \A s \in D : g[s] = IF s = {} THEN 0 ELSE f[Pick(s)] + g[s \ {Pick(s)}]

Small(S, n) == {s \in SUBSET S : Cardinality(s) <= n}

LEMMA SmallerSet ==
  ASSUME NEW S, IsFiniteSet(S), NEW s \in SUBSET S, s # {}
  PROVE  /\ Pick(s) \in S
         /\ s \ {Pick(s)} \in SUBSET S
         /\ s \ {Pick(s)} # s
         /\ Cardinality(s \ {Pick(s)}) = Cardinality(s) - 1
         /\ Cardinality(s) \in Nat
<1>1. Pick(s) \in s
  BY PickIsElement
<1>2. IsFiniteSet(s)
  BY FS_Subset
<1> QED BY <1>1, <1>2, FS_RemoveElement, FS_CardinalityType

LEMMA SumExistsNext ==
  ASSUME NEW S, IsFiniteSet(S), NEW f \in [S -> Nat], NEW n \in Nat,
         \E g : AddsUp(g, f, Small(S, n))
  PROVE  \E g : AddsUp(g, f, Small(S, n + 1))
<1>1. PICK g : AddsUp(g, f, Small(S, n))
  OBVIOUS
<1> DEFINE h == [s \in Small(S, n + 1) |->
                   IF s = {} THEN 0 ELSE f[Pick(s)] + g[s \ {Pick(s)}]]
<1>2. ASSUME NEW s \in Small(S, n + 1), s # {}
      PROVE  /\ f[Pick(s)] \in Nat
             /\ s \ {Pick(s)} \in Small(S, n)
             /\ g[s \ {Pick(s)}] \in Nat
  <2>1. s \in SUBSET S /\ Cardinality(s) <= n + 1
    BY DEF Small
  <2>2. Pick(s) \in S
    BY <1>2, <2>1, SmallerSet
  <2>3. s \ {Pick(s)} \in Small(S, n)
    BY <1>2, <2>1, SmallerSet DEF Small
  <2> QED BY <1>1, <2>2, <2>3 DEF AddsUp
<1>3. h \in [Small(S, n + 1) -> Nat]
  BY <1>2
<1>4. ASSUME NEW s \in Small(S, n) PROVE s \in Small(S, n + 1) /\ h[s] = g[s]
  <2>1. s \in Small(S, n + 1)
    <3>1. s \in SUBSET S /\ IsFiniteSet(s) /\ Cardinality(s) <= n
      BY FS_Subset DEF Small
    <3> QED BY <3>1, FS_CardinalityType DEF Small
  <2> QED BY <1>1, <2>1 DEF AddsUp
<1>5. ASSUME NEW s \in Small(S, n + 1)
      PROVE  h[s] = IF s = {} THEN 0 ELSE f[Pick(s)] + h[s \ {Pick(s)}]
  <2>1. CASE s = {}
    BY <2>1
  <2>2. CASE s # {}
    BY <1>2, <1>4, <2>2
  <2> QED BY <2>1, <2>2
<1> HIDE DEF h
<1> QED BY <1>3, <1>5 DEF AddsUp

LEMMA SumExists ==
  ASSUME NEW S, IsFiniteSet(S), NEW f \in [S -> Nat]
  PROVE  \E g : AddsUp(g, f, SUBSET S)
<1> DEFINE Missing == {n \in Nat : ~\E g : AddsUp(g, f, Small(S, n))}
<1>1. Missing = {}
  <2> SUFFICES ASSUME Missing # {} PROVE FALSE
    OBVIOUS
  <2>1. PICK n \in Missing : \A m \in Missing : n <= m
    BY LeastNumber
  <2>2. CASE n = 0
    <3> DEFINE g == [s \in {{}} |-> 0]
    <3>1. Small(S, 0) = {{}}
      <4>1. ASSUME NEW s \in SUBSET S PROVE Cardinality(s) <= 0 <=> s = {}
        <5>1. IsFiniteSet(s)
          BY FS_Subset
        <5> QED BY <5>1, FS_EmptySet, FS_CardinalityType
      <4> QED BY <4>1 DEF Small
    <3>2. AddsUp(g, f, Small(S, 0))
      BY <3>1 DEF AddsUp
    <3> QED BY <2>2, <3>2
  <2>3. CASE n # 0
    <3>1. n - 1 \in Nat /\ n - 1 \notin Missing
      BY <2>1, <2>3
    <3>2. \E g : AddsUp(g, f, Small(S, (n - 1) + 1))
      BY <3>1, SumExistsNext
    <3>3. (n - 1) + 1 = n
      OBVIOUS
    <3> QED BY <3>2, <3>3
  <2> QED BY <2>2, <2>3
<1>2. Cardinality(S) \in Nat
  BY FS_CardinalityType
<1>3. \E g : AddsUp(g, f, Small(S, Cardinality(S)))
  BY <1>1, <1>2
<1>4. Small(S, Cardinality(S)) = SUBSET S
  BY FS_Subset DEF Small
<1> QED BY <1>3, <1>4

\* SumFunction is the sum over the whole domain.
LEMMA SumIs ==
  ASSUME NEW S, IsFiniteSet(S), NEW f \in [S -> Nat], NEW g, AddsUp(g, f, SUBSET S)
  PROVE  SumFunction(f) = g[S]
<1> DEFINE Recurs(h) ==
             h = [s \in SUBSET S |-> IF s = {} THEN 0 ELSE f[Pick(s)] + h[s \ {Pick(s)}]]
<1>1. SumFunction(f) = (CHOOSE h : Recurs(h))[S]
  BY DEF SumFunction, SumFunctionOnSet, FoldFunctionOnSet, MapThenFoldSet, Pick
<1>2. Recurs(g)
  BY DEF AddsUp
<1>3. ASSUME NEW h, Recurs(h) PROVE h = g
  <2>1. ASSUME NEW s \in SUBSET S
        PROVE  h[s] = IF s = {} THEN 0 ELSE f[Pick(s)] + h[s \ {Pick(s)}]
    BY <1>3
  <2> DEFINE Differ == {s \in SUBSET S : g[s] # h[s]}
  <2>2. Differ = {}
    <3> SUFFICES ASSUME Differ # {} PROVE FALSE
      OBVIOUS
    <3>0. Differ \subseteq SUBSET S
      OBVIOUS
    <3>1. PICK s \in Differ : \A u \in Differ : u \subseteq s => u = s
      <4> HIDE DEF Differ
      <4> QED BY <3>0, SmallestSet
    <3>2. s # {}
      BY <2>1 DEF AddsUp
    <3>3. s \ {Pick(s)} \in SUBSET S /\ s \ {Pick(s)} # s
      BY <3>2, SmallerSet
    <3>4. g[s \ {Pick(s)}] = h[s \ {Pick(s)}]
      BY <3>1, <3>3
    <3> QED BY <2>1, <3>2, <3>4 DEF AddsUp
  <2> QED BY <1>3, <2>2 DEF AddsUp
<1> HIDE DEF Recurs
<1> QED BY <1>1, <1>2, <1>3

\* w is, over each set, what h has more than f.
Gained(w, f, h, S) ==
  /\ w \in [SUBSET S -> Nat] /\ w[{}] = 0
  /\ \A s \in SUBSET S : \A x \in s : h[x] + w[s \ {x}] = f[x] + w[s]

\* What is added to a function is added to its sum.
LEMMA SumGrows ==
  ASSUME NEW S, IsFiniteSet(S), NEW f \in [S -> Nat], NEW h \in [S -> Nat], NEW w,
         Gained(w, f, h, S)
  PROVE  SumFunction(h) = SumFunction(f) + w[S]
<1> USE DEF Gained
<1>1. PICK g : AddsUp(g, f, SUBSET S)
  BY SumExists
<1> DEFINE u == [s \in SUBSET S |-> g[s] + w[s]]
<1>2. u \in [SUBSET S -> Nat]
  BY <1>1 DEF AddsUp
<1>3. ASSUME NEW s \in SUBSET S
      PROVE  u[s] = IF s = {} THEN 0 ELSE h[Pick(s)] + u[s \ {Pick(s)}]
  <2>1. CASE s = {}
    <3>1. g[s] = 0 /\ w[s] = 0 /\ u[s] = g[s] + w[s]
      BY <1>1, <2>1 DEF AddsUp
    <3> QED BY <2>1, <3>1
  <2>2. CASE s # {}
    <3> DEFINE x == Pick(s)
               rest == s \ {Pick(s)}
    <3>1. x \in s /\ x \in S /\ rest \in SUBSET S
      BY <2>2, PickIsElement
    <3>2. g[s] = f[x] + g[rest]
      BY <1>1, <2>2 DEF AddsUp
    <3>3. h[x] + w[rest] = f[x] + w[s]
      BY <3>1
    <3>4. /\ f[x] \in Nat /\ h[x] \in Nat /\ w[s] \in Nat /\ w[rest] \in Nat
          /\ g[s] \in Nat /\ g[rest] \in Nat
      BY <1>1, <3>1 DEF AddsUp
    <3>5. u[s] = g[s] + w[s] /\ u[rest] = g[rest] + w[rest]
      BY <3>1
    <3> HIDE DEF x, rest, u
    <3>6. u[s] = h[x] + u[rest]
      BY <3>2, <3>3, <3>4, <3>5
    <3> QED BY <2>2, <3>6 DEF x, rest
  <2> QED BY <2>1, <2>2
<1>4. AddsUp(u, h, SUBSET S)
  BY <1>2, <1>3 DEF AddsUp
<1>5. SumFunction(h) = u[S]
  BY <1>4, SumIs
<1>6. SumFunction(f) = g[S]
  BY <1>1, SumIs
<1> QED BY <1>5, <1>6

-----------------------------------------------------------------------------
(* The sets of an entry are finite.                                         *)

LEMMA CategoryFinite == IsFiniteSet(Category)
<1> DEFINE f == [r \in Rule |-> CategoryOf[r]]
<1>1. f \in Surjection(Rule, Category)
  BY DEF Surjection, Category
<1> QED BY <1>1, FS_Surjection, EvalAssumption

LEMMA PlantedFinite ==
  ASSUME NEW issues \in SUBSET Rule, file \in Nat, real \in Nat
  PROVE  LET planted == {[file |-> file, line |-> real, rule |-> r] : r \in issues}
         IN  planted \subseteq Issue /\ IsFiniteSet(planted)
<1> DEFINE planted == {[file |-> file, line |-> real, rule |-> r] : r \in issues}
           f == [r \in issues |-> [file |-> file, line |-> real, rule |-> r]]
<1>1. f \in Surjection(issues, planted)
  BY DEF Surjection
<1>2. IsFiniteSet(issues)
  BY FS_Subset, EvalAssumption
<1>3. IsFiniteSet(planted)
  BY <1>1, <1>2, FS_Surjection
<1>4. planted \subseteq Issue
  BY DEF Issue
<1> QED BY <1>3, <1>4

LEMMA MockFinite ==
  ASSUME added_lines \subseteq AddedLine, IsFiniteSet(added_lines)
  PROVE  Mock \subseteq Finding /\ IsFiniteSet(Mock)
<1> DEFINE heard == {x \in Hit : ~\E b \in added_lines :
                       b.nth < x[1].nth /\ b.at = x[1].at /\ b.hits \cap Guard[x[2]] # {}}
           f == [h \in heard |-> FindingOf(h[1], h[2])]
<1>1. f \in Surjection(heard, Mock)
  <2>1. Mock = {FindingOf(h[1], h[2]) : h \in heard}
    BY DEF Mock
  <2> HIDE DEF heard
  <2> QED BY <2>1 DEF Surjection
<1>2. IsFiniteSet(added_lines \X Rule)
  BY FS_Product, EvalAssumption
<1>3. IsFiniteSet(Hit)
  BY <1>2, FS_Subset DEF Hit
<1>4. IsFiniteSet(Mock)
  <2>1. IsFiniteSet(heard)
    BY <1>3, FS_Subset
  <2> HIDE DEF heard, f
  <2> QED BY <1>1, <2>1, FS_Surjection
<1>5. Mock \subseteq Finding
  BY DEF Mock, FindingOf, Finding, Hit, AddedLine
<1> QED BY <1>4, <1>5

LEMMA AnswersFinite ==
  ASSUME known \subseteq Issue, IsFiniteSet(known), NEW answer \in Answers
  PROVE  answer \subseteq Finding /\ IsFiniteSet(answer)
<1> DEFINE near == {[file |-> k.file, line |-> k.line, rule |-> r, nth |-> 0] :
                      k \in known, r \in Rule}
           nowhere == {[file |-> 1, line |-> 0, rule |-> r, nth |-> 0] : r \in Rule}
           f == [h \in known \X Rule |->
                   [file |-> h[1].file, line |-> h[1].line, rule |-> h[2], nth |-> 0]]
           g == [r \in Rule |-> [file |-> 1, line |-> 0, rule |-> r, nth |-> 0]]
<1>1. f \in Surjection(known \X Rule, near)
  <2>1. f \in [known \X Rule -> near]
    OBVIOUS
  <2>2. ASSUME NEW y \in near PROVE \E h \in known \X Rule : f[h] = y
    <3>1. PICK k \in known, r \in Rule : y = [file |-> k.file, line |-> k.line, rule |-> r, nth |-> 0]
      OBVIOUS
    <3>2. <<k, r>> \in known \X Rule /\ f[<<k, r>>] = y
      BY <3>1
    <3> QED BY <3>2
  <2> HIDE DEF f, near
  <2> QED BY <2>1, <2>2 DEF Surjection
<1>2. g \in Surjection(Rule, nowhere)
  BY DEF Surjection
<1>3. IsFiniteSet(known \X Rule)
  BY FS_Product, EvalAssumption
<1>4. IsFiniteSet(near) /\ IsFiniteSet(nowhere)
  <2> HIDE DEF f, g, near, nowhere
  <2> QED BY <1>1, <1>2, <1>3, FS_Surjection, EvalAssumption
<1>5. IsFiniteSet(near \cup nowhere)
  <2> HIDE DEF near, nowhere
  <2> QED BY <1>4, FS_Union
<1>6. near \subseteq Finding /\ nowhere \subseteq Finding
  BY DEF Issue, Finding
<1>7. answer \in SUBSET (near \cup nowhere)
  BY DEF Answers
<1> QED BY <1>5, <1>6, <1>7, FS_Subset

-----------------------------------------------------------------------------
(* The invariant.                                                           *)

TypeOK ==
  /\ pc \in {"diff", "match", "score", "raised", "written"}
  /\ entries \in Nat /\ lines \in Nat
  /\ file \in Nat /\ real \in Nat /\ current_line_num \in Nat
  /\ extra \in Nat /\ missed \in Nat
  /\ added_lines \subseteq AddedLine /\ IsFiniteSet(added_lines)
  /\ known \subseteq Issue /\ IsFiniteSet(known)
  /\ findings \subseteq Finding /\ IsFiniteSet(findings)
  /\ left \subseteq findings
  /\ matched \subseteq known /\ tp \subseteq findings /\ fp \subseteq findings
  /\ cat \in Category \cup {None}

\* How far the counter is from the line's number in the new file.
Numbered ==
  /\ current_line_num + missed = real + extra
  /\ \A a \in added_lines : a.at + a.missed = a.line + a.extra

ByRules == pc \in {"match", "score"} /\ reviewer = "rules" => findings = Mock

\* While findings are compared: each known issue that is matched has its own finding, at
\* its place and of its category, and what was not matched has no known issue left.
Some == Issue \cup Finding

Paired ==
  pc \in {"match", "score"} =>
    /\ findings = tp \cup fp \cup left
    /\ tp \cap fp = {} /\ tp \cap left = {} /\ fp \cap left = {}
    /\ \A i \in Some : Cardinality(At(tp, i)) = Cardinality(At(matched, i))
    /\ \A c \in Category : Cardinality(Of(tp, c)) = Cardinality(Of(matched, c))
    /\ Cardinality(tp) = Cardinality(matched)
    /\ \A f \in fp, k \in known \ matched : ~Matches(f, k)

NothingLeft == pc # "match" => left = {}

NotYetPaired == pc = "diff" => matched = {} /\ tp = {} /\ fp = {}

Counted ==
  pc # "raised" =>
    /\ cats.known \in [Category -> Nat] /\ cats.tp \in [Category -> Nat]
    /\ cats.fp \in [Category -> Nat]
    /\ total.known \in Nat /\ total.tp \in Nat /\ total.fp \in Nat /\ total.fn \in Nat
    /\ SumFunction(cats.known) = total.known
    /\ SumFunction(cats.tp) = total.tp
    /\ SumFunction(cats.fp) = total.fp
    /\ total.fn = total.known - total.tp
    /\ \A c \in Category : cats.tp[c] <= cats.known[c]

Inv ==
  TypeOK /\ Numbered /\ ByRules /\ Paired /\ NothingLeft /\ NotYetPaired /\ Counted

LEMMA ZeroSums == Zero \in [Category -> Nat] /\ SumFunction(Zero) = 0
<1> DEFINE g == [s \in SUBSET Category |-> 0]
<1>1. Zero \in [Category -> Nat]
  BY DEF Zero
<1>2. ASSUME NEW s \in SUBSET Category
      PROVE  g[s] = IF s = {} THEN 0 ELSE Zero[Pick(s)] + g[s \ {Pick(s)}]
  <2>1. CASE s = {}
    BY <2>1
  <2>2. CASE s # {}
    <3>1. Pick(s) \in Category
      BY <2>2, PickIsElement
    <3> QED BY <2>2, <3>1 DEF Zero
  <2> QED BY <2>1, <2>2
<1>3. AddsUp(g, Zero, SUBSET Category)
  BY <1>2 DEF AddsUp
<1>4. SumFunction(Zero) = g[Category]
  BY <1>1, <1>3, CategoryFinite, SumIs
<1> QED BY <1>1, <1>4

LEMMA InitInv == Init => Inv
<1> SUFFICES ASSUME Init PROVE Inv
  OBVIOUS
<1>1. TypeOK
  BY FS_EmptySet DEF Init, TypeOK
<1>2. Counted
  BY ZeroSums DEF Init, Counted, Zero
<1>3. Numbered /\ ByRules /\ Paired /\ NothingLeft /\ NotYetPaired
  BY DEF Init, Numbered, ByRules, Paired, NothingLeft, NotYetPaired
<1> QED BY <1>1, <1>2, <1>3 DEF Inv

-----------------------------------------------------------------------------
(* Each step keeps the types.                                               *)

LEMMA ReadDiffTypeOK == TypeOK /\ ReadDiff => TypeOK'
<1> SUFFICES ASSUME TypeOK, ReadDiff PROVE TypeOK'
  OBVIOUS
<1> USE DEF TypeOK, Line, InHunk, scores, sums
<1>1. CASE HunkHeader
  <2>1. extra' = 0 /\ missed' = 0
    BY <1>1 DEF HunkHeader
  <2>2. file' \in Nat /\ real' \in Nat /\ current_line_num' \in Nat
    BY <1>1 DEF HunkHeader, Section, Starts
  <2> QED BY <1>1, <2>1, <2>2 DEF HunkHeader
<1>2. CASE Context
  BY <1>2 DEF Context
<1>3. CASE Removed
  <2>1. extra' \in Nat /\ missed' \in Nat
    BY <1>3 DEF Removed
  <2> QED BY <1>3, <2>1 DEF Removed
<1>4. CASE Added
  <2>1. PICK hits \in SUBSET Rule, issues \in SUBSET Rule :
          /\ InHunk
          /\ added_lines' = added_lines \cup
               {[at |-> current_line_num, nth |-> Cardinality(added_lines) + 1, file |-> file,
                 line |-> real, hits |-> hits, extra |-> extra, missed |-> missed]}
          /\ Planted(issues)
          /\ real' = real + 1 /\ current_line_num' = current_line_num + 1
          /\ UNCHANGED <<extra, missed>>
    BY <1>4, EvalAssumption DEF Added
  <2>2. added_lines' \subseteq AddedLine
    <3>1. Cardinality(added_lines) + 1 \in Nat
      BY FS_CardinalityType
    <3> QED BY <2>1, <3>1 DEF AddedLine
  <2>3. IsFiniteSet(added_lines')
    BY <2>1, FS_AddElement
  <2>4. known' \subseteq Issue /\ IsFiniteSet(known') /\ known \subseteq known'
    BY <2>1, PlantedFinite, FS_Union DEF Planted
  <2> QED BY <2>1, <2>2, <2>3, <2>4
<1>5. CASE AddedPlusPlus
  <2>1. PICK issues \in SUBSET Rule :
          /\ InHunk
          /\ Planted(issues)
          /\ real' = real + 1 /\ missed' = missed + 1
          /\ UNCHANGED <<current_line_num, extra, added_lines>>
    BY <1>5 DEF AddedPlusPlus
  <2>2. known' \subseteq Issue /\ IsFiniteSet(known') /\ known \subseteq known'
    BY <2>1, PlantedFinite, FS_Union DEF Planted
  <2> QED BY <2>1, <2>2
<1> QED BY <1>1, <1>2, <1>3, <1>4, <1>5 DEF ReadDiff

LEMMA ReviewTypeOK == TypeOK /\ NotYetPaired /\ Review => TypeOK'
<1> SUFFICES ASSUME TypeOK, NotYetPaired, Review PROVE TypeOK'
  OBVIOUS
<1>1. findings' \subseteq Finding /\ IsFiniteSet(findings')
  BY MockFinite, AnswersFinite, FS_EmptySet DEF TypeOK, Review
<1>2. added_lines' \subseteq AddedLine /\ IsFiniteSet(added_lines')
  BY FS_EmptySet DEF TypeOK, Review
<1>3. matched' = {} /\ tp' = {} /\ fp' = {}
  BY DEF NotYetPaired, Review
<1>4. pc' \in {"diff", "match", "score", "raised", "written"} /\ extra' = 0 /\ missed' = 0
  BY DEF Review
<1> QED BY <1>1, <1>2, <1>3, <1>4 DEF TypeOK, Review, sums

LEMMA MatchTypeOK == TypeOK /\ MatchFinding => TypeOK'
BY DEF TypeOK, MatchFinding, diff, position, sums

LEMMA ScoredTypeOK == TypeOK /\ Scored => TypeOK'
BY DEF TypeOK, Scored, diff, position, scores, sums

LEMMA NextEntryTypeOK == TypeOK /\ NothingLeft /\ NextEntry => TypeOK'
<1> SUFFICES ASSUME TypeOK, NothingLeft, NextEntry PROVE TypeOK'
  OBVIOUS
<1>1. cat' \in Category \cup {None}
  <2>1. Categories(tp) \subseteq Category /\ Categories(known) \subseteq Category
    BY DEF TypeOK, Categories, Category, Issue, Finding
  <2> QED BY <2>1 DEF NextEntry, Sums, LastCat, TypeOK
<1>2. CASE UNCHANGED <<entries, diff, scores>> /\ pc' \in {"raised", "written"}
  BY <1>1, <1>2 DEF TypeOK, diff, position, scores
<1>3. CASE Proceed /\ pc' = "diff"
  <2>1. left = {}
    BY DEF NothingLeft, NextEntry
  <2> QED BY <1>1, <1>3, <2>1, FS_EmptySet DEF TypeOK, Proceed, position
<1> QED BY <1>2, <1>3 DEF NextEntry, Proceed

-----------------------------------------------------------------------------
(* Each step keeps the rest of the invariant.                               *)

LEMMA NumberedStep == TypeOK /\ Numbered /\ Next => Numbered'
<1> SUFFICES ASSUME TypeOK, Numbered, Next PROVE Numbered'
  OBVIOUS
<1>0. real \in Nat /\ current_line_num \in Nat /\ extra \in Nat /\ missed \in Nat
  BY DEF TypeOK
<1>1. CASE HunkHeader
  <2>1. PICK start \in Starts : real' = start /\ current_line_num' = start
    BY <1>1 DEF HunkHeader
  <2> QED BY <1>1, <2>1 DEF HunkHeader, Starts, Numbered
<1>2. CASE Context
  BY <1>0, <1>2 DEF Context, Numbered
<1>3. CASE Removed
  BY <1>0, <1>3 DEF Removed, InHunk, Line, Numbered
<1>4. CASE Added
  BY <1>0, <1>4 DEF Added, Numbered
<1>5. CASE AddedPlusPlus
  BY <1>0, <1>5 DEF AddedPlusPlus, Numbered
<1>6. CASE Review
  BY <1>6 DEF Review, Numbered
<1>7. CASE MatchFinding \/ Scored
  BY <1>7 DEF MatchFinding, Scored, Numbered, diff, position
<1>8. CASE NextEntry
  BY <1>8 DEF NextEntry, Proceed, Numbered, diff, position
<1> QED BY <1>1, <1>2, <1>3, <1>4, <1>5, <1>6, <1>7, <1>8 DEF Next, ReadDiff

LEMMA ByRulesStep == ByRules /\ Next => ByRules'
<1> SUFFICES ASSUME ByRules, Next PROVE ByRules'
  OBVIOUS
<1>1. CASE ReadDiff
  <2>1. pc' = pc /\ pc = "diff"
    BY <1>1 DEF ReadDiff, HunkHeader, Context, Removed, Added, AddedPlusPlus, InHunk, Line
  <2> QED BY <2>1 DEF ByRules
<1>2. CASE Review
  BY <1>2 DEF Review, ByRules, Mock, Hit
<1>3. CASE MatchFinding \/ Scored
  BY <1>3 DEF MatchFinding, Scored, ByRules, Mock, Hit, diff, scores
<1>4. CASE NextEntry
  BY <1>4 DEF NextEntry, Proceed, ByRules
<1> QED BY <1>1, <1>2, <1>3, <1>4 DEF Next

LEMMA RestStep == NothingLeft /\ NotYetPaired /\ Next => NothingLeft' /\ NotYetPaired'
<1> SUFFICES ASSUME NothingLeft, NotYetPaired, Next PROVE NothingLeft' /\ NotYetPaired'
  OBVIOUS
<1>1. CASE ReadDiff
  BY <1>1 DEF ReadDiff, HunkHeader, Context, Removed, Added, AddedPlusPlus, InHunk, Line,
              scores, NothingLeft, NotYetPaired
<1>2. CASE Review
  BY <1>2 DEF Review, NothingLeft, NotYetPaired
<1>3. CASE MatchFinding \/ Scored
  BY <1>3 DEF MatchFinding, Scored, NothingLeft, NotYetPaired, scores
<1>4. CASE NextEntry
  BY <1>4 DEF NextEntry, Proceed, NothingLeft, NotYetPaired, scores
<1> QED BY <1>1, <1>2, <1>3, <1>4 DEF Next

LEMMA MatchesAlike ==
  ASSUME NEW f, NEW k, NEW i, Matches(f, k)
  PROVE  Matches(k, f) /\ (Matches(f, i) <=> Matches(k, i))
BY DEF Matches

LEMMA AddToPlace ==
  ASSUME NEW X, IsFiniteSet(X), NEW x, x \notin X, NEW i
  PROVE  /\ Cardinality(At(X, i)) \in Nat
         /\ Cardinality(At(X \cup {x}, i)) =
              IF Matches(x, i) THEN Cardinality(At(X, i)) + 1 ELSE Cardinality(At(X, i))
<1>1. At(X, i) \in SUBSET X /\ x \notin At(X, i)
  BY DEF At
<1>2. IsFiniteSet(At(X, i))
  BY <1>1, FS_Subset
<1>3. At(X \cup {x}, i) = IF Matches(x, i) THEN At(X, i) \cup {x} ELSE At(X, i)
  BY DEF At
<1> QED BY <1>1, <1>2, <1>3, FS_AddElement, FS_CardinalityType

LEMMA AddToCategory ==
  ASSUME NEW X, IsFiniteSet(X), NEW x, x \notin X, NEW c
  PROVE  /\ Cardinality(Of(X, c)) \in Nat
         /\ Cardinality(Of(X \cup {x}, c)) =
              IF CategoryOf[x.rule] = c THEN Cardinality(Of(X, c)) + 1 ELSE Cardinality(Of(X, c))
<1>1. Of(X, c) \in SUBSET X /\ x \notin Of(X, c)
  BY DEF Of
<1>2. IsFiniteSet(Of(X, c))
  BY <1>1, FS_Subset
<1>3. Of(X \cup {x}, c) = IF CategoryOf[x.rule] = c THEN Of(X, c) \cup {x} ELSE Of(X, c)
  BY DEF Of
<1> QED BY <1>1, <1>2, <1>3, FS_AddElement, FS_CardinalityType

LEMMA MatchPaired == TypeOK /\ Paired /\ MatchFinding => Paired'
<1> SUFFICES ASSUME TypeOK, Paired, MatchFinding PROVE Paired'
  OBVIOUS
<1>0. pc = "match" /\ pc' = "match" /\ findings' = findings /\ known' = known
  BY DEF MatchFinding, diff
<1>1. PICK f \in left :
        /\ left' = left \ {f}
        /\ \/ \E k \in known \ matched : /\ Matches(f, k)
                                         /\ matched' = matched \cup {k}
                                         /\ tp' = tp \cup {f} /\ UNCHANGED fp
           \/ /\ ~\E k \in known \ matched : Matches(f, k)
              /\ fp' = fp \cup {f} /\ UNCHANGED <<matched, tp>>
  BY DEF MatchFinding
<1>2. IsFiniteSet(tp) /\ IsFiniteSet(matched) /\ f \notin tp
  BY <1>0, FS_Subset DEF TypeOK, Paired
<1>3. CASE \E k \in known \ matched : /\ Matches(f, k)
                                      /\ matched' = matched \cup {k}
                                      /\ tp' = tp \cup {f} /\ UNCHANGED fp
  <2>1. PICK k \in known \ matched :
          Matches(f, k) /\ matched' = matched \cup {k} /\ tp' = tp \cup {f} /\ fp' = fp
    BY <1>3
  <2>2. \A i \in Some : Cardinality(At(tp', i)) = Cardinality(At(matched', i))
    <3> SUFFICES ASSUME NEW i \in Some
                 PROVE  Cardinality(At(tp', i)) = Cardinality(At(matched', i))
      OBVIOUS
    <3>1. Matches(f, i) <=> Matches(k, i)
      BY <2>1, MatchesAlike
    <3>2. Cardinality(At(tp, i)) = Cardinality(At(matched, i))
      BY <1>0 DEF Paired
    <3> QED BY <1>2, <2>1, <3>1, <3>2, AddToPlace
  <2>3. \A c \in Category : Cardinality(Of(tp', c)) = Cardinality(Of(matched', c))
    <3> SUFFICES ASSUME NEW c \in Category
                 PROVE  Cardinality(Of(tp', c)) = Cardinality(Of(matched', c))
      OBVIOUS
    <3>1. CategoryOf[f.rule] = CategoryOf[k.rule]
      BY <2>1 DEF Matches
    <3>2. Cardinality(Of(tp, c)) = Cardinality(Of(matched, c))
      BY <1>0 DEF Paired
    <3> QED BY <1>2, <2>1, <3>1, <3>2, AddToCategory
  <2>4. Cardinality(tp') = Cardinality(matched')
    <3>1. Cardinality(tp \cup {f}) = Cardinality(tp) + 1
      BY <1>2, FS_AddElement
    <3>2. Cardinality(matched \cup {k}) = Cardinality(matched) + 1
      BY <1>2, FS_AddElement
    <3> QED BY <1>0, <2>1, <3>1, <3>2 DEF Paired
  <2>5. \A g \in fp', j \in known' \ matched' : ~Matches(g, j)
    BY <1>0, <2>1 DEF Paired
  <2>6. /\ findings' = tp' \cup fp' \cup left'
        /\ tp' \cap fp' = {} /\ tp' \cap left' = {} /\ fp' \cap left' = {}
    BY <1>0, <1>1, <2>1 DEF Paired
  <2> QED BY <2>2, <2>3, <2>4, <2>5, <2>6 DEF Paired
<1>4. CASE /\ ~\E k \in known \ matched : Matches(f, k)
           /\ fp' = fp \cup {f} /\ UNCHANGED <<matched, tp>>
  <2>1. \A g \in fp', j \in known' \ matched' : ~Matches(g, j)
    BY <1>0, <1>4 DEF Paired
  <2>2. /\ findings' = tp' \cup fp' \cup left'
        /\ tp' \cap fp' = {} /\ tp' \cap left' = {} /\ fp' \cap left' = {}
    BY <1>0, <1>1, <1>4 DEF Paired
  <2>3. /\ \A i \in Some : Cardinality(At(tp', i)) = Cardinality(At(matched', i))
        /\ \A c \in Category : Cardinality(Of(tp', c)) = Cardinality(Of(matched', c))
        /\ Cardinality(tp') = Cardinality(matched')
    BY <1>0, <1>4 DEF Paired
  <2> QED BY <2>1, <2>2, <2>3 DEF Paired
<1> QED BY <1>1, <1>3, <1>4

LEMMA PairedStep == TypeOK /\ Paired /\ NotYetPaired /\ Next => Paired'
<1> SUFFICES ASSUME TypeOK, Paired, NotYetPaired, Next PROVE Paired'
  OBVIOUS
<1>1. CASE ReadDiff
  <2>1. pc' = pc /\ pc = "diff"
    BY <1>1 DEF ReadDiff, HunkHeader, Context, Removed, Added, AddedPlusPlus, InHunk, Line
  <2> QED BY <2>1 DEF Paired
<1>2. CASE Review
  <2>1. matched' = {} /\ tp' = {} /\ fp' = {} /\ left' = findings'
    BY <1>2 DEF Review, NotYetPaired
  <2>2. \A i : At(tp', i) = At(matched', i) /\ Of(tp', i) = Of(matched', i)
    BY <2>1
  <2> QED BY <2>1, <2>2 DEF Paired
<1>3. CASE MatchFinding
  BY <1>3, MatchPaired
<1>4. CASE Scored
  BY <1>4 DEF Scored, Paired, diff, scores
<1>5. CASE NextEntry
  BY <1>5 DEF NextEntry, Proceed, Paired
<1> QED BY <1>1, <1>2, <1>3, <1>4, <1>5 DEF Next

LEMMA DisjointUnion ==
  ASSUME NEW S, NEW T, IsFiniteSet(S), IsFiniteSet(T), S \cap T = {}
  PROVE  Cardinality(S \cup T) = Cardinality(S) + Cardinality(T)
<1>1. Cardinality(S \cup T) = Cardinality(S) + Cardinality(T) - Cardinality(S \cap T)
  BY FS_Union
<1>2. Cardinality(S) \in Nat /\ Cardinality(T) \in Nat /\ Cardinality(S \cap T) = 0
  BY FS_CardinalityType, FS_EmptySet
<1> QED BY <1>1, <1>2

LEMMA SumAt ==
  ASSUME NEW counts \in [Category -> Nat], NEW c \in Category, NEW n \in Nat
  PROVE  LET more == [counts EXCEPT ![c] = @ + n]
         IN  more \in [Category -> Nat] /\ SumFunction(more) = SumFunction(counts) + n
<1> DEFINE more == [counts EXCEPT ![c] = @ + n]
           w == [s \in SUBSET Category |-> IF c \in s THEN n ELSE 0]
<1>1. more \in [Category -> Nat]
  OBVIOUS
<1>2. w \in [SUBSET Category -> Nat] /\ w[{}] = 0 /\ w[Category] = n
  OBVIOUS
<1>3. ASSUME NEW s \in SUBSET Category, NEW x \in s
      PROVE  more[x] + w[s \ {x}] = counts[x] + w[s]
  <2>1. s \ {x} \in SUBSET Category /\ x \in Category
    OBVIOUS
  <2>2. CASE x = c
    BY <2>1, <2>2
  <2>3. CASE x # c
    BY <2>1, <2>3
  <2> QED BY <2>2, <2>3
<1> HIDE DEF more, w
<1>4. Gained(w, counts, more, Category)
  BY <1>2, <1>3 DEF Gained
<1>5. SumFunction(more) = SumFunction(counts) + w[Category]
  BY <1>1, <1>4, CategoryFinite, SumGrows
<1> QED BY <1>1, <1>2, <1>5 DEF more

LEMMA SumPlus ==
  ASSUME NEW counts \in [Category -> Nat], NEW issues \in SUBSET Some, IsFiniteSet(issues)
  PROVE  /\ Plus(counts, issues) \in [Category -> Nat]
         /\ SumFunction(Plus(counts, issues)) = SumFunction(counts) + Cardinality(issues)
<1> DEFINE In(s) == {i \in issues : CategoryOf[i.rule] \in s}
           w == [s \in SUBSET Category |-> Cardinality(In(s))]
<1>1. \A s : In(s) \in SUBSET issues /\ IsFiniteSet(In(s)) /\ Cardinality(In(s)) \in Nat
  BY FS_Subset, FS_CardinalityType
<1>2. \A c : Of(issues, c) \in SUBSET issues /\ IsFiniteSet(Of(issues, c))
               /\ Cardinality(Of(issues, c)) \in Nat
  BY FS_Subset, FS_CardinalityType DEF Of
<1>3. Plus(counts, issues) \in [Category -> Nat]
  BY <1>2 DEF Plus
<1>4. w \in [SUBSET Category -> Nat]
  BY <1>1
<1>5. w[{}] = 0
  BY FS_EmptySet
<1>6. w[Category] = Cardinality(issues)
  <2>1. In(Category) = issues
    BY DEF Some, Issue, Finding, Category
  <2> QED BY <2>1
<1>7. ASSUME NEW s \in SUBSET Category, NEW x \in s
      PROVE  Plus(counts, issues)[x] + w[s \ {x}] = counts[x] + w[s]
  <2>1. Plus(counts, issues)[x] = counts[x] + Cardinality(Of(issues, x))
    BY DEF Plus
  <2>2. /\ In(s) = Of(issues, x) \cup In(s \ {x})
        /\ Of(issues, x) \cap In(s \ {x}) = {}
    BY DEF Of
  <2>3. Cardinality(In(s)) = Cardinality(Of(issues, x)) + Cardinality(In(s \ {x}))
    <3> HIDE DEF In
    <3>1. IsFiniteSet(Of(issues, x)) /\ IsFiniteSet(In(s \ {x}))
      BY <1>1, <1>2
    <3> QED BY <2>2, <3>1, DisjointUnion
  <2>4. w[s] = Cardinality(In(s)) /\ w[s \ {x}] = Cardinality(In(s \ {x}))
    OBVIOUS
  <2>5. counts[x] \in Nat
    OBVIOUS
  <2> HIDE DEF w, In
  <2> QED BY <1>1, <1>2, <2>1, <2>3, <2>4, <2>5
<1> DEFINE more == Plus(counts, issues)
<1> HIDE DEF w, more
<1>8. more \in [Category -> Nat]
  BY <1>3 DEF more
<1>9. Gained(w, counts, more, Category)
  BY <1>4, <1>5, <1>7 DEF more, Gained
<1>10. SumFunction(more) = SumFunction(counts) + w[Category]
  BY <1>8, <1>9, CategoryFinite, SumGrows
<1> QED BY <1>3, <1>6, <1>10 DEF more

LEMMA CountedStep == Inv /\ Next => Counted'
<1> SUFFICES ASSUME Inv, Next PROVE Counted'
  OBVIOUS
<1>1. CASE ReadDiff
  <2>1. pc' = pc /\ UNCHANGED <<total, cats>>
    BY <1>1 DEF ReadDiff, HunkHeader, Context, Removed, Added, AddedPlusPlus, InHunk, Line, sums
  <2> QED BY <2>1 DEF Inv, Counted
<1>2. CASE Review
  <2>1. pc = "diff" /\ UNCHANGED <<total, cats>>
    BY <1>2 DEF Review, sums
  <2> QED BY <2>1 DEF Inv, Counted
<1>3. CASE MatchFinding \/ Scored
  <2>1. pc = "match" /\ UNCHANGED <<total, cats>>
    BY <1>3 DEF MatchFinding, Scored, sums
  <2> QED BY <2>1 DEF Inv, Counted
<1>4. CASE NextEntry
  <2> SUFFICES ASSUME pc' # "raised" PROVE Counted'
    BY DEF Counted
  <2>1. pc = "score" /\ Sums /\ (fp # {} => cat' # None) /\ Tally
    BY <1>4 DEF NextEntry
  <2> DEFINE more == [cats.fp EXCEPT ![cat'] = @ + Cardinality(fp)]
  <2>2. /\ IsFiniteSet(known) /\ known \in SUBSET Some /\ Cardinality(known) \in Nat
        /\ IsFiniteSet(tp) /\ tp \in SUBSET Some /\ Cardinality(tp) \in Nat
        /\ IsFiniteSet(fp) /\ fp \in SUBSET Some /\ Cardinality(fp) \in Nat
        /\ IsFiniteSet(matched) /\ matched \in SUBSET known /\ Cardinality(matched) \in Nat
    BY FS_Subset, FS_CardinalityType DEF Inv, TypeOK, Some
  <2>3. /\ cats.known \in [Category -> Nat] /\ cats.tp \in [Category -> Nat]
        /\ cats.fp \in [Category -> Nat]
        /\ total.known \in Nat /\ total.tp \in Nat /\ total.fp \in Nat /\ total.fn \in Nat
        /\ SumFunction(cats.known) = total.known
        /\ SumFunction(cats.tp) = total.tp
        /\ SumFunction(cats.fp) = total.fp
        /\ total.fn = total.known - total.tp
    BY <2>1 DEF Inv, Counted
  <2>4. /\ total'.known = total.known + Cardinality(known)
        /\ total'.tp = total.tp + Cardinality(tp)
        /\ total'.fp = total.fp + Cardinality(fp)
        /\ total'.fn = total.fn + Cardinality(known \ matched)
    BY <2>1 DEF Sums
  <2>5. /\ cats'.known = Plus(cats.known, known)
        /\ cats'.tp = Plus(cats.tp, tp)
        /\ cats'.fp = IF fp = {} THEN cats.fp ELSE more
    BY <2>1 DEF Tally
  <2>6. /\ cats'.known \in [Category -> Nat]
        /\ SumFunction(cats'.known) = total'.known
    BY <2>2, <2>3, <2>4, <2>5, SumPlus
  <2>7. /\ cats'.tp \in [Category -> Nat]
        /\ SumFunction(cats'.tp) = total'.tp
    BY <2>2, <2>3, <2>4, <2>5, SumPlus
  <2>8. /\ cats'.fp \in [Category -> Nat]
        /\ SumFunction(cats'.fp) = total'.fp
    <3>1. CASE fp = {}
      BY <2>3, <2>4, <2>5, <3>1, FS_EmptySet
    <3>2. CASE fp # {}
      <4>1. cat' \in Category
        <5>1. TypeOK'
          BY <1>4, NextEntryTypeOK DEF Inv
        <5> QED BY <2>1, <3>2, <5>1 DEF TypeOK
      <4>2. more \in [Category -> Nat] /\ SumFunction(more) = SumFunction(cats.fp) + Cardinality(fp)
        BY <2>2, <2>3, <4>1, SumAt
      <4> QED BY <2>3, <2>4, <2>5, <3>2, <4>2
    <3> QED BY <3>1, <3>2
  <2>9. Cardinality(tp) = Cardinality(matched)
    BY <2>1 DEF Inv, Paired
  <2>10. Cardinality(known \ matched) = Cardinality(known) - Cardinality(matched)
    <3>1. known \cap matched = matched
      BY <2>2
    <3> QED BY <2>2, <3>1, FS_Difference
  <2>11. Cardinality(matched) <= Cardinality(known)
    BY <2>2, FS_Subset
  <2>12. /\ total'.known \in Nat /\ total'.tp \in Nat /\ total'.fp \in Nat /\ total'.fn \in Nat
         /\ total'.fn = total'.known - total'.tp
    BY <2>2, <2>3, <2>4, <2>9, <2>10, <2>11
  <2>13. ASSUME NEW c \in Category PROVE cats'.tp[c] <= cats'.known[c]
    <3>1. cats.tp[c] <= cats.known[c] /\ Cardinality(Of(tp, c)) = Cardinality(Of(matched, c))
      BY <2>1 DEF Inv, Counted, Paired
    <3>2. /\ Of(known, c) \in SUBSET known /\ Of(matched, c) \in SUBSET Of(known, c)
          /\ Of(tp, c) \in SUBSET tp
      BY <2>2 DEF Of
    <3>3. IsFiniteSet(Of(known, c)) /\ IsFiniteSet(Of(tp, c))
      BY <2>2, <3>2, FS_Subset
    <3>4. Cardinality(Of(matched, c)) <= Cardinality(Of(known, c))
      BY <3>2, <3>3, FS_Subset
    <3>5. Cardinality(Of(tp, c)) \in Nat /\ Cardinality(Of(known, c)) \in Nat
      BY <3>3, FS_CardinalityType
    <3>6. /\ cats'.tp[c] = cats.tp[c] + Cardinality(Of(tp, c))
          /\ cats'.known[c] = cats.known[c] + Cardinality(Of(known, c))
      BY <2>5 DEF Plus
    <3>7. cats.tp[c] \in Nat /\ cats.known[c] \in Nat
      BY <2>3
    <3> QED BY <3>1, <3>4, <3>5, <3>6, <3>7
  <2> QED BY <2>6, <2>7, <2>8, <2>12, <2>13 DEF Counted
<1> QED BY <1>1, <1>2, <1>3, <1>4 DEF Next

LEMMA StepInv == Inv /\ [Next]_vars => Inv'
<1> SUFFICES ASSUME Inv, [Next]_vars PROVE Inv'
  OBVIOUS
<1>1. CASE Next
  <2>1. TypeOK'
    BY <1>1, ReadDiffTypeOK, ReviewTypeOK, MatchTypeOK, ScoredTypeOK, NextEntryTypeOK DEF Next, Inv
  <2>2. Numbered' /\ ByRules' /\ Paired' /\ NothingLeft' /\ NotYetPaired'
    BY <1>1, NumberedStep, ByRulesStep, PairedStep, RestStep DEF Inv
  <2>3. Counted'
    BY <1>1, CountedStep
  <2> QED BY <2>1, <2>2, <2>3 DEF Inv
<1>2. CASE UNCHANGED vars
  BY <1>2 DEF vars, diff, position, scores, sums, Inv, TypeOK, Numbered, ByRules, Paired,
              NothingLeft, NotYetPaired, Counted, Mock, Hit
<1> QED BY <1>1, <1>2

\* The variables keep their types, and what the loops of the scorer keep true holds in
\* every state.
THEOREM InvCorrect == Spec => []Inv
<1> QED BY InitInv, StepInv, PTL DEF Spec

-----------------------------------------------------------------------------
(* The properties.                                                          *)

LEMMA PlaceFinite ==
  ASSUME NEW X, IsFiniteSet(X), NEW Y \in SUBSET X, NEW i
  PROVE  /\ IsFiniteSet(At(X, i)) /\ IsFiniteSet(At(Y, i))
         /\ Cardinality(At(X, i)) \in Nat /\ Cardinality(At(Y, i)) \in Nat
         /\ Cardinality(At(Y, i)) <= Cardinality(At(X, i))
<1>1. At(X, i) \in SUBSET X /\ At(Y, i) \in SUBSET At(X, i)
  BY DEF At
<1>2. IsFiniteSet(At(X, i)) /\ IsFiniteSet(At(Y, i))
  BY <1>1, FS_Subset
<1> QED BY <1>1, <1>2, FS_Subset, FS_CardinalityType

LEMMA InvMaximal == Inv => MatchingIsMaximal
<1> SUFFICES ASSUME Inv, pc = "score"
             PROVE  /\ \A i \in findings \cup known :
                         /\ Cardinality(At(matched, i)) =
                              AtMost(Cardinality(At(findings, i)), Cardinality(At(known, i)))
                         /\ Cardinality(At(tp, i)) = Cardinality(At(matched, i))
                    /\ tp \cup fp = findings /\ tp \cap fp = {}
  BY DEF MatchingIsMaximal
<1>1. /\ tp \cup fp = findings /\ tp \cap fp = {}
      /\ \A i \in Some : Cardinality(At(tp, i)) = Cardinality(At(matched, i))
      /\ \A f \in fp, k \in known \ matched : ~Matches(f, k)
  BY DEF Inv, Paired, NothingLeft
<1>2. ASSUME NEW i \in findings \cup known
      PROVE  /\ Cardinality(At(matched, i)) =
                  AtMost(Cardinality(At(findings, i)), Cardinality(At(known, i)))
             /\ Cardinality(At(tp, i)) = Cardinality(At(matched, i))
  <2>1. i \in Some
    BY DEF Inv, TypeOK, Some
  <2>2. Cardinality(At(tp, i)) = Cardinality(At(matched, i))
    BY <1>1, <2>1
  <2>3. /\ Cardinality(At(findings, i)) \in Nat /\ Cardinality(At(known, i)) \in Nat
        /\ Cardinality(At(matched, i)) \in Nat /\ Cardinality(At(tp, i)) \in Nat
        /\ Cardinality(At(tp, i)) <= Cardinality(At(findings, i))
        /\ Cardinality(At(matched, i)) <= Cardinality(At(known, i))
    BY PlaceFinite DEF Inv, TypeOK
  <2>4. CASE \E f \in fp : Matches(f, i)
    <3>1. PICK f \in fp : Matches(f, i)
      BY <2>4
    <3>2. ASSUME NEW k \in At(known, i) PROVE k \in At(matched, i)
      <4>1. Matches(f, k)
        BY <3>1 DEF At, Matches
      <4> QED BY <1>1, <4>1 DEF At
    <3>3. At(matched, i) = At(known, i)
      BY <3>2 DEF At, Inv, TypeOK
    <3> QED BY <2>2, <2>3, <3>3 DEF AtMost
  <2>5. CASE ~\E f \in fp : Matches(f, i)
    <3>1. At(findings, i) = At(tp, i)
      BY <1>1, <2>5 DEF At
    <3> QED BY <2>2, <2>3, <3>1 DEF AtMost
  <2> QED BY <2>4, <2>5
<1> QED BY <1>1, <1>2

\* Pairing findings with known issues greedily, one at a time and in any order, matches as
\* many as any pairing would: at each place all the findings or all the known issues.  It
\* needs Paired, which says that a finding that was turned away has no known issue left.
THEOREM MatchingIsMaximalCorrect == Spec => []MatchingIsMaximal
<1> QED BY InvCorrect, InvMaximal, PTL

\* A rule of the category reports under a number as soon as one of them matches some line
\* of that number: what a guard looks for is a finding of the category itself.
LEMMA FoundByRules ==
  ASSUME TypeOK, pc = "score", reviewer = "rules", ByRules, NEW k \in Issue
  PROVE  At(findings, k) # {} <=>
           /\ k.file = 1
           /\ \E a \in added_lines : /\ a.at = k.line
                                     /\ \E r \in a.hits : CategoryOf[r] = CategoryOf[k.rule]
<1>0. findings = Mock
  BY DEF ByRules
<1>1. ASSUME NEW f \in findings, Matches(f, k)
      PROVE  /\ k.file = 1
             /\ \E a \in added_lines : /\ a.at = k.line
                                       /\ \E r \in a.hits : CategoryOf[r] = CategoryOf[k.rule]
  <2>1. PICK h \in Hit : f = FindingOf(h[1], h[2])
    BY <1>0 DEF Mock
  <2>2. /\ h[1] \in added_lines /\ h[2] \in h[1].hits
        /\ f.file = 1 /\ f.line = h[1].at /\ f.rule = h[2]
    BY <2>1 DEF Hit, FindingOf
  <2> QED BY <1>1, <2>2 DEF Matches
<1>2. ASSUME k.file = 1,
             NEW b \in added_lines, b.at = k.line,
             NEW s \in b.hits, CategoryOf[s] = CategoryOf[k.rule]
      PROVE  At(findings, k) # {}
  <2> DEFINE Suits(a) == a.at = k.line /\ \E r \in a.hits : CategoryOf[r] = CategoryOf[k.rule]
             Turns == {n \in Nat : \E a \in added_lines : a.nth = n /\ Suits(a)}
  <2>1. \A a \in added_lines : a.nth \in Nat /\ a.hits \in SUBSET Rule
    BY DEF TypeOK, AddedLine
  <2>2. Turns \subseteq Nat /\ Turns # {}
    <3>1. b.nth \in Turns
      BY <1>2, <2>1
    <3> QED BY <3>1
  <2>3. PICK n \in Turns : \A m \in Turns : n <= m
    <3> HIDE DEF Turns
    <3> QED BY <2>2, LeastNumber
  <2>4. PICK a \in added_lines : a.nth = n /\ Suits(a)
    BY <2>3
  <2>5. PICK r \in a.hits : CategoryOf[r] = CategoryOf[k.rule]
    BY <2>4
  <2>6. r \in Rule /\ <<a, r>> \in Hit
    BY <2>1 DEF Hit
  <2>7. ~\E c \in added_lines : c.nth < a.nth /\ c.at = a.at /\ c.hits \cap Guard[r] # {}
    <3> SUFFICES ASSUME NEW c \in added_lines, c.nth < a.nth, c.at = a.at,
                        NEW t \in c.hits, t \in Guard[r]
                 PROVE  FALSE
      OBVIOUS
    <3>1. CategoryOf[t] = CategoryOf[k.rule]
      BY <2>5, <2>6, EvalAssumption
    <3>2. c.nth \in Turns
      BY <2>1, <2>4, <3>1
    <3>3. n <= c.nth /\ c.nth \in Nat /\ a.nth = n /\ n \in Nat
      BY <2>1, <2>3, <2>4, <3>2
    <3> HIDE DEF Turns, Suits
    <3> QED BY <3>3
  <2>8. FindingOf(a, r) \in findings
    <3> DEFINE h == <<a, r>>
    <3>1. h \in Hit /\ h[1] = a /\ h[2] = r
      BY <2>6
    <3> HIDE DEF h
    <3> QED BY <1>0, <2>7, <3>1 DEF Mock
  <2>9. Matches(FindingOf(a, r), k)
    BY <1>2, <2>4, <2>5 DEF Matches, FindingOf
  <2> QED BY <2>8, <2>9 DEF At
<1>3. At(findings, k) # {} <=> \E f \in findings : Matches(f, k)
  BY DEF At
<1> QED BY <1>1, <1>2, <1>3

LEMMA InvPlanted == Inv => PlantedIssueIsFound
<1> SUFFICES ASSUME Inv, pc = "score", reviewer = "rules", NEW k \in known
             PROVE  At(matched, k) # {} <=>
                      /\ k.file = 1
                      /\ \E a \in added_lines :
                           /\ a.line + a.extra = k.line + a.missed
                           /\ \E r \in a.hits : CategoryOf[r] = CategoryOf[k.rule]
  BY DEF PlantedIssueIsFound
<1>1. k \in Issue /\ k.line \in Nat /\ k \in At(known, k)
  BY DEF Inv, TypeOK, Issue, At, Matches
<1>2. /\ Cardinality(At(findings, k)) \in Nat /\ IsFiniteSet(At(findings, k))
      /\ Cardinality(At(known, k)) \in Nat /\ IsFiniteSet(At(known, k))
      /\ Cardinality(At(matched, k)) \in Nat /\ IsFiniteSet(At(matched, k))
  BY PlaceFinite DEF Inv, TypeOK
<1>3. Cardinality(At(matched, k)) =
        AtMost(Cardinality(At(findings, k)), Cardinality(At(known, k)))
  BY InvMaximal DEF MatchingIsMaximal
<1>4. Cardinality(At(known, k)) # 0
  BY <1>1, <1>2, FS_EmptySet
<1>5. Cardinality(At(matched, k)) = 0 <=> Cardinality(At(findings, k)) = 0
  BY <1>2, <1>3, <1>4 DEF AtMost
<1>6. At(matched, k) # {} <=> At(findings, k) # {}
  BY <1>2, <1>5, FS_EmptySet
<1>7. \A a \in added_lines : a.at = k.line <=> a.line + a.extra = k.line + a.missed
  <2> SUFFICES ASSUME NEW a \in added_lines
               PROVE  a.at = k.line <=> a.line + a.extra = k.line + a.missed
    OBVIOUS
  <2>1. a.at \in Nat /\ a.line \in Nat /\ a.extra \in Nat /\ a.missed \in Nat
    BY DEF Inv, TypeOK, AddedLine
  <2>2. a.at + a.missed = a.line + a.extra
    BY DEF Inv, Numbered
  <2> QED BY <1>1, <2>1, <2>2
<1>8. At(findings, k) # {} <=>
        /\ k.file = 1
        /\ \E a \in added_lines : /\ a.at = k.line
                                  /\ \E r \in a.hits : CategoryOf[r] = CategoryOf[k.rule]
  BY <1>1, FoundByRules DEF Inv
<1> QED BY <1>6, <1>7, <1>8

\* From the diff to the score: an issue of the first file is credited to the rules if and
\* only if the code has an added line under its number that a rule of its category matches,
\* where that number may have slipped.  It needs how far the numbering is off, that the
\* findings are the rules', that no guard silences a category, and the maximal matching.
THEOREM PlantedIssueIsFoundCorrect == Spec => []PlantedIssueIsFound
<1> QED BY InvCorrect, InvPlanted, PTL

\* The table by category agrees with the summary: the columns have the same sums, and no
\* category has a negative number of misses.  It needs that as many known issues of each
\* category are matched as there are true positives in it.
THEOREM CategoriesAddUpCorrect == Spec => []CategoriesAddUp
<1>1. Inv => CategoriesAddUp
  BY DEF Inv, Counted, CategoriesAddUp
<1> QED BY <1>1, InvCorrect, PTL

=============================================================================
