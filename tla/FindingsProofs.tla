--------------------------- MODULE FindingsProofs ---------------------------
(***************************************************************************)
(* Proofs about Findings, for lists of any length, any findings, and any   *)
(* flags, limits and ignored files.                                        *)
(***************************************************************************)
EXTENDS Findings, FiniteSetTheorems, SequenceTheorems, TLAPS

-----------------------------------------------------------------------------
(* Counting elements of lists.                                              *)

LEMMA ListsAreSequences == \A n \in Nat : BoundedSeq(Finding, n) \subseteq Seq(Finding)
BY DEF BoundedSeq, SeqOf

LEMMA UpTo == \A n \in Nat : IsFiniteSet(1..n) /\ Cardinality(1..n) = n
BY FS_Interval

LEMMA CountFacts ==
  ASSUME NEW S, NEW list \in Seq(S), NEW X
  PROVE  /\ IsFiniteSet({j \in DOMAIN list : list[j] \in X})
         /\ Count(list, X) \in Nat
         /\ Count(list, X) <= Len(list)
<1>1. DOMAIN list = 1..Len(list) /\ Len(list) \in Nat
  OBVIOUS
<1>2. IsFiniteSet(1..Len(list)) /\ Cardinality(1..Len(list)) = Len(list)
  BY <1>1, UpTo
<1>3. {j \in DOMAIN list : list[j] \in X} \in SUBSET (1..Len(list))
  BY <1>1
<1> QED BY <1>2, <1>3, FS_Subset, FS_CardinalityType DEF Count

LEMMA CountEmpty == \A X : Count(<<>>, X) = 0
<1>1. \A X : {j \in DOMAIN <<>> : <<>>[j] \in X} = {}
  OBVIOUS
<1> QED BY <1>1, FS_EmptySet DEF Count

LEMMA CountAppend ==
  ASSUME NEW S, NEW list \in Seq(S), NEW x \in S, NEW X
  PROVE  Count(Append(list, x), X) = IF x \in X THEN Count(list, X) + 1 ELSE Count(list, X)
<1> DEFINE same == {j \in DOMAIN list : list[j] \in X}
           new == Len(list) + 1
           more == Append(list, x)
<1>1. /\ DOMAIN more = DOMAIN list \cup {new} /\ new \notin DOMAIN list
      /\ more[new] = x
      /\ \A j \in DOMAIN list : more[j] = list[j]
  OBVIOUS
<1>2. {j \in DOMAIN more : more[j] \in X} = IF x \in X THEN same \cup {new} ELSE same
  <2> HIDE DEF more, new
  <2> QED BY <1>1
<1>3. IsFiniteSet(same) /\ new \notin same
  BY <1>1, CountFacts
<1> HIDE DEF same, new, more
<1> QED BY <1>2, <1>3, FS_AddElement DEF Count, same, more

LEMMA CountMonotone ==
  ASSUME NEW S, NEW list \in Seq(S), NEW X, NEW Y, \A x \in S : x \in X => x \in Y
  PROVE  Count(list, X) <= Count(list, Y)
<1>1. {j \in DOMAIN list : list[j] \in X} \in SUBSET {j \in DOMAIN list : list[j] \in Y}
  OBVIOUS
<1> QED BY <1>1, CountFacts, FS_Subset DEF Count

LEMMA CountAll ==
  ASSUME NEW S, NEW list \in Seq(S), NEW X, \A j \in DOMAIN list : list[j] \in X
  PROVE  Count(list, X) = Len(list)
<1>1. {j \in DOMAIN list : list[j] \in X} = 1..Len(list) /\ Len(list) \in Nat
  OBVIOUS
<1>2. Cardinality(1..Len(list)) = Len(list)
  BY <1>1, UpTo
<1> QED BY <1>1, <1>2 DEF Count

LEMMA CountPrefix ==
  ASSUME NEW S, NEW list \in Seq(S), NEW n \in Nat, n <= Len(list), NEW X
  PROVE  Count(SubSeq(list, 1, n), X) <= Count(list, X)
<1> DEFINE cut == SubSeq(list, 1, n)
<1>1. DOMAIN cut = 1..n /\ \A j \in 1..n : cut[j] = list[j]
  BY SubSeqProperties
<1>2. {j \in DOMAIN cut : cut[j] \in X} \in SUBSET {j \in DOMAIN list : list[j] \in X}
  <2> HIDE DEF cut
  <2> QED BY <1>1
<1>3. IsFiniteSet({j \in DOMAIN list : list[j] \in X})
  BY CountFacts
<1>4. Count(cut, X) <= Count(list, X)
  <2> HIDE DEF cut
  <2> QED BY <1>2, <1>3, FS_Subset DEF Count
<1> QED BY <1>4

LEMMA BeforeFacts ==
  ASSUME NEW list, NEW k \in Nat \ {0}, NEW X
  PROVE  IsFiniteSet({j \in 1..(k - 1) : list[j] \in X}) /\ Before(list, k, X) \in Nat
<1>1. IsFiniteSet(1..(k - 1))
  BY FS_Interval
<1> QED BY <1>1, FS_Subset, FS_CardinalityType DEF Before

LEMMA BeforeFirst == \A list, X : Before(list, 1, X) = 0
<1>1. \A list, X : {j \in 1..(1 - 1) : list[j] \in X} = {}
  OBVIOUS
<1> QED BY <1>1, FS_EmptySet DEF Before

LEMMA BeforeNext ==
  ASSUME NEW list, NEW k \in Nat \ {0}, NEW X
  PROVE  Before(list, k + 1, X) = IF list[k] \in X THEN Before(list, k, X) + 1 ELSE Before(list, k, X)
<1> DEFINE same == {j \in 1..(k - 1) : list[j] \in X}
<1>1. {j \in 1..((k + 1) - 1) : list[j] \in X} = IF list[k] \in X THEN same \cup {k} ELSE same
  OBVIOUS
<1>2. IsFiniteSet(same) /\ k \notin same
  BY BeforeFacts
<1> HIDE DEF same
<1> QED BY <1>1, <1>2, FS_AddElement DEF Before, same

LEMMA BeforeEnd ==
  ASSUME NEW S, NEW list \in Seq(S), NEW X
  PROVE  Before(list, Len(list) + 1, X) = Count(list, X)
<1>1. {j \in 1..((Len(list) + 1) - 1) : list[j] \in X} = {j \in DOMAIN list : list[j] \in X}
  OBVIOUS
<1> QED BY <1>1 DEF Before, Count

-----------------------------------------------------------------------------
(* The invariant, one part per loop.                                        *)

Agreed == Places(llm) \cap Places(semgrep)
FindingsOf(list) == {list[k].finding : k \in DOMAIN list}
PlacesOf(list) == {Place(list[k].finding) : k \in DOMAIN list}
HasBoth(list, p) == \E k \in DOMAIN list : list[k] \in EntriesAt(p, "both")

\* The first entry at a place of both tools is the confirmed one.
FirstBoth(list) ==
  \A k \in DOMAIN list :
    Place(list[k].finding) \in Agreed =>
      \E j \in 1..k : list[j] \in EntriesAt(Place(list[k].finding), "both")

\* What a loop has built of the first k - 1 elements of from: some of them, each as often
\* at most.
SelectedFrom(list, from, k) ==
  /\ ToSet(list) \subseteq ToSet(from)
  /\ \A X \in SUBSET Entry : Count(list, X) <= Before(from, k, X)
Selected == SelectedFrom(out, merged, i)

LoopList ==
  CASE stage = "match" -> llm
    [] stage = "unused" -> semgrep
    [] OTHER -> merged

TypeOK ==
  /\ stage \in {"match", "unused", "flags", "ignore", "dedupe", "done"}
  /\ llm \in Seq(Finding) /\ semgrep \in Seq(Finding) /\ used \subseteq DOMAIN semgrep
  /\ merged \in Seq(Entry) /\ out \in Seq(Entry) /\ combined \in Seq(Entry)
  /\ i \in Nat \ {0} /\ i <= Len(LoopList) + 1
  /\ stage \notin {"match", "unused"} => config \in Config
  /\ ignored \subseteq File

\* The entries of the model's findings, and who confirmed them.
Confirmed ==
  /\ \A p : Count(out, EntriesAt(p, "both")) = Cardinality({j \in used : semgrep[j] \in At(p)})
  /\ \A j \in used : HasBoth(out, Place(semgrep[j]))
  /\ \A k \in DOMAIN out : out[k].source = "llm" =>
       \A j \in DOMAIN semgrep \ used : Place(semgrep[j]) # Place(out[k].finding)
  /\ FirstBoth(out)

ModelsFirst(list) ==
  /\ Len(list) >= Len(llm)
  /\ \A k \in DOMAIN llm : list[k].finding = llm[k] /\ list[k].source \in {"llm", "both"}
  /\ \A k \in DOMAIN list \ DOMAIN llm : list[k].source = "semgrep"

MatchInv ==
  stage = "match" =>
    /\ Confirmed
    /\ Len(out) = i - 1
    /\ \A k \in DOMAIN out : out[k].finding = llm[k] /\ out[k].source \in {"llm", "both"}

\* Indices of the Semgrep findings that were added.
Alone == (1..(i - 1)) \ used

UnusedInv ==
  stage = "unused" =>
    /\ Confirmed /\ ModelsFirst(out)
    /\ \A p : Count(out, EntriesAt(p, "semgrep")) = Cardinality({j \in Alone : semgrep[j] \in At(p)})

PerFileLimit(list) ==
  config.max_comments_per_file > 0 =>
    \A p \in File : Count(list, EntriesOf(InFile(p))) <= config.max_comments_per_file

\* Nothing more of the file of merged[j] is taken: as much as the limit admits was wanted
\* before it.
Overfull(j) ==
  LET p == merged[j].finding.file
  IN  /\ config.max_comments_per_file > 0
      /\ Count(out, EntriesOf(InFile(p))) >= config.max_comments_per_file
      /\ Before(merged, j, EntriesOf(Wanted \cap InFile(p))) >= config.max_comments_per_file

\* merged[j] is taken, as one of the first when little was wanted before it.
Taken(j) ==
  \E n \in DOMAIN out : out[n] = merged[j] /\ n <= Before(merged, j + 1, EntriesOf(Wanted))

FlagsInv ==
  stage = "flags" =>
    /\ MergePairs /\ FirstBoth(merged) /\ FirstBoth(out) /\ Selected
    /\ combined = merged
    /\ FindingsOf(out) \subseteq Wanted
    /\ PerFileLimit(out)
    /\ \A j \in 1..(i - 1) : merged[j].finding \in Wanted => Taken(j) \/ Overfull(j)

Limited(list) ==
  /\ config.max_comments > 0 => Len(list) <= config.max_comments
  /\ PerFileLimit(list)

NothingLostIn(list) ==
  \A k \in DOMAIN combined :
    LET f == combined[k].finding
    IN  f \in Wanted /\ f.file \notin ignored => CutOff(k) \/ Place(f) \in PlacesOf(list)

IgnoreInv ==
  stage = "ignore" =>
    /\ FirstBoth(merged) /\ FirstBoth(out) /\ Selected
    /\ Limited(merged) /\ NothingLostIn(merged)
    /\ FindingsOf(merged) \subseteq Wanted
    /\ \A f \in FindingsOf(out) : f.file \notin ignored
    /\ \A j \in 1..(i - 1) : merged[j].finding.file \notin ignored => merged[j] \in ToSet(out)

Unconfirmed(list) ==
  {k \in DOMAIN list : Place(list[k].finding) \in Agreed /\ list[k].source # "both"}
Distinct(list) ==
  \A j, k \in DOMAIN list : Place(list[j].finding) = Place(list[k].finding) => j = k

DedupeInv ==
  stage = "dedupe" =>
    /\ FirstBoth(merged) /\ Selected
    /\ Limited(merged) /\ NothingLostIn(merged)
    /\ FindingsOf(merged) \subseteq Wanted
    /\ \A f \in FindingsOf(merged) : f.file \notin ignored
    /\ \A j \in 1..(i - 1) : Place(merged[j].finding) \in PlacesOf(out)
    /\ Unconfirmed(out) = {} /\ Distinct(out)

DoneInv ==
  stage = "done" =>
    /\ Limited(merged) /\ NothingLostIn(merged)
    /\ FindingsOf(merged) \subseteq Wanted
    /\ \A f \in FindingsOf(merged) : f.file \notin ignored
    /\ Unconfirmed(merged) = {} /\ Distinct(merged)

Inv ==
  TypeOK /\ MatchInv /\ UnusedInv /\ FlagsInv /\ IgnoreInv /\ DedupeInv /\ DoneInv

-----------------------------------------------------------------------------
(* Lists of entries.                                                        *)

LEMMA SourcedFacts ==
  /\ \A f \in Finding : \A s \in {"llm", "semgrep", "both"} :
       /\ Sourced(f, s) \in Entry
       /\ Sourced(f, s).finding = f /\ Sourced(f, s).source = s
  /\ \A e \in Entry : /\ e.finding \in Finding /\ e.source \in {"llm", "semgrep", "both"}
                      /\ e = Sourced(e.finding, e.source)
BY DEF Sourced, Entry

LEMMA PlaceFacts ==
  /\ \A f \in Finding : \A p : f \in At(p) <=> Place(f) = p
  /\ \A f, g \in Finding :
       Place(f) = Place(g) => f.file = g.file /\ (f \in Wanted <=> g \in Wanted)
BY DEF Place, At, Wanted

LEMMA EntriesAtFacts ==
  ASSUME NEW e \in Entry, NEW p, NEW s
  PROVE  e \in EntriesAt(p, s) <=> Place(e.finding) = p /\ e.source = s
<1>1. e.finding \in Finding
  BY SourcedFacts
<1> QED BY <1>1, PlaceFacts DEF EntriesAt, EntriesOf

LEMMA AppendFacts ==
  ASSUME NEW S, NEW list \in Seq(S), NEW e \in S
  PROVE  /\ Append(list, e) \in Seq(S)
         /\ Len(Append(list, e)) = Len(list) + 1
         /\ DOMAIN Append(list, e) = DOMAIN list \cup {Len(list) + 1}
         /\ Len(list) + 1 \notin DOMAIN list
         /\ \A k \in DOMAIN list : Append(list, e)[k] = list[k]
         /\ Append(list, e)[Len(list) + 1] = e
         /\ ToSet(Append(list, e)) = ToSet(list) \cup {e}
<1> DEFINE more == Append(list, e)
           new == Len(list) + 1
<1>1. /\ more \in Seq(S) /\ Len(more) = new
      /\ DOMAIN more = DOMAIN list \cup {new} /\ new \notin DOMAIN list
      /\ \A k \in DOMAIN list : more[k] = list[k]
      /\ more[new] = e
  OBVIOUS
<1>2. ToSet(more) = ToSet(list) \cup {e}
  <2> HIDE DEF more, new
  <2> QED BY <1>1 DEF ToSet
<1> QED BY <1>1, <1>2

LEMMA FindingsOfAppend ==
  ASSUME NEW list \in Seq(Entry), NEW e \in Entry
  PROVE  FindingsOf(Append(list, e)) = FindingsOf(list) \cup {e.finding}
<1> DEFINE more == Append(list, e)
           new == Len(list) + 1
<1>1. /\ DOMAIN more = DOMAIN list \cup {new} /\ more[new] = e
      /\ \A k \in DOMAIN list : more[k] = list[k]
  BY AppendFacts
<1>2. FindingsOf(more) = FindingsOf(list) \cup {e.finding}
  <2> HIDE DEF more, new
  <2> QED BY <1>1 DEF FindingsOf
<1> QED BY <1>2

LEMMA PlacesOfAppend ==
  ASSUME NEW list \in Seq(Entry), NEW e \in Entry
  PROVE  PlacesOf(Append(list, e)) = PlacesOf(list) \cup {Place(e.finding)}
<1> DEFINE more == Append(list, e)
           new == Len(list) + 1
<1>1. /\ DOMAIN more = DOMAIN list \cup {new} /\ more[new] = e
      /\ \A k \in DOMAIN list : more[k] = list[k]
  BY AppendFacts
<1>2. PlacesOf(more) = PlacesOf(list) \cup {Place(e.finding)}
  <2> HIDE DEF more, new
  <2> QED BY <1>1 DEF PlacesOf
<1> QED BY <1>2

LEMMA FirstBothAppend ==
  ASSUME NEW list \in Seq(Entry), NEW e \in Entry, FirstBoth(list),
         Place(e.finding) \in Agreed => e.source = "both" \/ HasBoth(list, Place(e.finding))
  PROVE  FirstBoth(Append(list, e))
<1> DEFINE more == Append(list, e)
           new == Len(list) + 1
<1>1. /\ DOMAIN more = DOMAIN list \cup {new} /\ more[new] = e
      /\ \A k \in DOMAIN list : more[k] = list[k]
      /\ DOMAIN list = 1..Len(list) /\ Len(list) \in Nat
  BY AppendFacts
<1>2. ASSUME NEW k \in DOMAIN more, Place(more[k].finding) \in Agreed
      PROVE  \E j \in 1..k : more[j] \in EntriesAt(Place(more[k].finding), "both")
  <2> HIDE DEF more, new
  <2>1. CASE k \in DOMAIN list
    <3>1. PICK j \in 1..k : list[j] \in EntriesAt(Place(list[k].finding), "both")
      BY <1>1, <1>2, <2>1 DEF FirstBoth
    <3> QED BY <1>1, <2>1, <3>1
  <2>2. CASE k = new /\ e.source = "both"
    <3>1. more[k] \in EntriesAt(Place(more[k].finding), "both")
      BY <1>1, <2>2, EntriesAtFacts
    <3>2. k \in 1..k
      BY <1>1, <2>2 DEF new
    <3> QED BY <3>1, <3>2
  <2>3. CASE k = new /\ HasBoth(list, Place(e.finding))
    <3>1. PICK j \in DOMAIN list : list[j] \in EntriesAt(Place(e.finding), "both")
      BY <2>3 DEF HasBoth
    <3>2. j \in 1..k /\ more[j] \in EntriesAt(Place(more[k].finding), "both")
      BY <1>1, <2>3, <3>1 DEF new
    <3> QED BY <3>2
  <2> QED BY <1>1, <1>2, <2>1, <2>2, <2>3
<1> HIDE DEF more
<1> QED BY <1>2 DEF FirstBoth, more

LEMMA FirstBothEmpty == FirstBoth(<<>>)
BY DEF FirstBoth

LEMMA EntriesOfFacts ==
  ASSUME NEW X, NEW e \in Entry
  PROVE  e \in EntriesOf(X) <=> e.finding \in X
BY DEF EntriesOf

-----------------------------------------------------------------------------
(* Types.                                                                   *)

LEMMA InitInv == Init => Inv
<1> SUFFICES ASSUME Init PROVE Inv
  OBVIOUS
<1>1. llm \in Seq(Finding) /\ semgrep \in Seq(Finding)
  BY ListsAreSequences, FindingsAssumption DEF Init
<1>2. TypeOK
  BY <1>1 DEF Init, TypeOK, LoopList
<1>3. MatchInv
  <2>1. \A p : Cardinality({j \in {} : semgrep[j] \in At(p)}) = 0
    <3>1. \A p : {j \in {} : semgrep[j] \in At(p)} = {}
      OBVIOUS
    <3> QED BY <3>1, FS_EmptySet
  <2>2. Confirmed
    BY <2>1, CountEmpty, FirstBothEmpty DEF Init, Confirmed
  <2> QED BY <2>2 DEF Init, MatchInv
<1>4. UnusedInv /\ FlagsInv /\ IgnoreInv /\ DedupeInv /\ DoneInv
  BY DEF Init, UnusedInv, FlagsInv, IgnoreInv, DedupeInv, DoneInv
<1> QED BY <1>2, <1>3, <1>4 DEF Inv

LEMMA MatchOut ==
  ASSUME TypeOK, Match
  PROVE  /\ i \in DOMAIN llm /\ llm[i] \in Finding
         /\ out' \in Seq(Entry) /\ used' \subseteq DOMAIN semgrep
<1>1. i \in DOMAIN llm /\ llm[i] \in Finding
  BY DEF TypeOK, Match, Turn
<1>2. Sourced(llm[i], "llm") \in Entry /\ Sourced(llm[i], "both") \in Entry
  BY <1>1, SourcedFacts
<1>3. \/ out' = Append(out, Sourced(llm[i], "llm"))
      \/ out' = Append(out, Sourced(llm[i], "both"))
  BY DEF Match
<1>4. out' \in Seq(Entry)
  <2>1. out \in Seq(Entry)
    BY DEF TypeOK
  <2>2. Append(out, Sourced(llm[i], "llm")) \in Seq(Entry)
    BY <1>2, <2>1, AppendFacts
  <2>3. Append(out, Sourced(llm[i], "both")) \in Seq(Entry)
    BY <1>2, <2>1, AppendFacts
  <2> QED BY <1>3, <2>2, <2>3
<1>5. used' \subseteq DOMAIN semgrep
  BY DEF TypeOK, Match, Unused
<1> QED BY <1>1, <1>4, <1>5

LEMMA TypeStep == TypeOK /\ Next => TypeOK'
<1> SUFFICES ASSUME TypeOK, Next PROVE TypeOK'
  OBVIOUS
<1> USE DEF TypeOK, LoopList
<1>1. CASE Match
  <2>1. out' \in Seq(Entry) /\ used' \subseteq DOMAIN semgrep
    BY <1>1, MatchOut
  <2> QED BY <1>1, <2>1 DEF Match, Turn, inputs, settings
<1>2. CASE Matched
  BY <1>2 DEF Matched, Leave, inputs, settings
<1>3. CASE AddUnused
  <2> USE <1>3 DEF AddUnused, Turn, inputs, settings
  <2>1. i \in DOMAIN semgrep
    OBVIOUS
  <2>2. out' \in Seq(Entry)
    BY <2>1, SourcedFacts
  <2> QED BY <2>2
<1>4. CASE ReadFlags
  BY <1>4 DEF ReadFlags, Leave, inputs
<1>6. CASE FilterFinding
  <2> USE <1>6 DEF FilterFinding, Turn, inputs, settings
  <2>1. i \in DOMAIN merged
    OBVIOUS
  <2>2. out' \in Seq(Entry)
    BY <2>1 DEF AddUpToLimit
  <2> QED BY <2>2
<1>7. CASE Filtered
  <2> USE <1>7 DEF Filtered, Leave, inputs
  <2>1. config.max_comments \in Nat
    BY FindingsAssumption DEF Config
  <2>2. merged' \in Seq(Entry)
    BY <2>1, SubSeqProperties DEF CapTotal
  <2> QED BY <2>2
<1>8. CASE FilterIgnored
  <2> USE <1>8 DEF FilterIgnored, Turn, inputs, settings
  <2>1. i \in DOMAIN merged
    OBVIOUS
  <2>2. out' \in Seq(Entry)
    BY <2>1
  <2> QED BY <2>2
<1>9. CASE IgnoredFiltered
  BY <1>9 DEF IgnoredFiltered, Leave, inputs, settings
<1>11. CASE Deduplicated
  BY <1>11 DEF Deduplicated, Leave, inputs, settings
<1>10. CASE Deduplicate
  <2> USE <1>10 DEF Deduplicate, Turn, inputs, settings
  <2>1. i \in DOMAIN merged
    OBVIOUS
  <2>2. out' \in Seq(Entry)
    BY <2>1 DEF AddNew
  <2> QED BY <2>2
<1> QED BY <1>1, <1>2, <1>3, <1>4, <1>6, <1>7, <1>8, <1>9, <1>10, <1>11 DEF Next

-----------------------------------------------------------------------------
(* The loops of merge_with_llm_findings.                                    *)

LEMMA CountAt ==
  ASSUME NEW list \in Seq(Entry), NEW e \in Entry, NEW p, NEW s
  PROVE  Count(Append(list, e), EntriesAt(p, s)) =
           IF Place(e.finding) = p /\ e.source = s
           THEN Count(list, EntriesAt(p, s)) + 1 ELSE Count(list, EntriesAt(p, s))
<1>1. e \in EntriesAt(p, s) <=> Place(e.finding) = p /\ e.source = s
  BY EntriesAtFacts
<1> QED BY <1>1, CountAppend

LEMMA UsedFinite ==
  ASSUME TypeOK, NEW X \in SUBSET DOMAIN semgrep
  PROVE  IsFiniteSet(X) /\ Cardinality(X) \in Nat
<1>1. DOMAIN semgrep = 1..Len(semgrep) /\ Len(semgrep) \in Nat
  BY DEF TypeOK
<1>2. IsFiniteSet(DOMAIN semgrep)
  BY <1>1, UpTo
<1> QED BY <1>2, FS_Subset, FS_CardinalityType

LEMMA MatchStep ==
  ASSUME TypeOK, MatchInv, Match
  PROVE  MatchInv'
<1> DEFINE f == llm[i]
<1>1. /\ stage = "match" /\ stage' = "match" /\ i' = i + 1 /\ UNCHANGED <<llm, semgrep>>
      /\ Confirmed /\ Len(out) = i - 1
      /\ \A k \in DOMAIN out : out[k].finding = llm[k] /\ out[k].source \in {"llm", "both"}
  BY DEF Match, Turn, inputs, MatchInv
<1>2. /\ f \in Finding /\ out \in Seq(Entry) /\ used \subseteq DOMAIN semgrep /\ i \in Nat
      /\ \A j \in DOMAIN semgrep : semgrep[j] \in Finding
  BY MatchOut DEF TypeOK
<1>3. ASSUME NEW s \in {"llm", "both"}, out' = Append(out, Sourced(f, s))
      PROVE  /\ Len(out') = i' - 1
             /\ \A k \in DOMAIN out' : out'[k].finding = llm[k] /\ out'[k].source \in {"llm", "both"}
             /\ \A p : Count(out', EntriesAt(p, "both")) =
                  IF Place(f) = p /\ s = "both" THEN Count(out, EntriesAt(p, "both")) + 1
                                                ELSE Count(out, EntriesAt(p, "both"))
             /\ \A p : HasBoth(out, p) => HasBoth(out', p)
             /\ s = "both" => HasBoth(out', Place(f))
             /\ \A k \in DOMAIN out' : out'[k] # Sourced(f, s) => k \in DOMAIN out /\ out'[k] = out[k]
  <2> DEFINE e == Sourced(f, s)
  <2>1. e \in Entry /\ e.finding = f /\ e.source = s
    BY <1>2, SourcedFacts
  <2>2. /\ Len(out') = Len(out) + 1
        /\ DOMAIN out' = DOMAIN out \cup {Len(out) + 1}
        /\ \A k \in DOMAIN out : out'[k] = out[k]
        /\ out'[Len(out) + 1] = e
    BY <1>2, <1>3, <2>1, AppendFacts
  <2>3. \A p : Count(out', EntriesAt(p, "both")) =
                  IF Place(f) = p /\ s = "both" THEN Count(out, EntriesAt(p, "both")) + 1
                                                ELSE Count(out, EntriesAt(p, "both"))
    <3> HIDE DEF e
    <3> QED BY <1>2, <1>3, <2>1, CountAt DEF e
  <2>4. Len(out) \in Nat
    BY <1>2
  <2>5. \A k \in DOMAIN out' : out'[k].finding = llm[k] /\ out'[k].source \in {"llm", "both"}
    <3> HIDE DEF e
    <3>1. Len(out) + 1 = i
      BY <1>1, <1>2, <2>4
    <3> QED BY <1>1, <2>1, <2>2, <3>1
  <2> HIDE DEF e
  <2>6. Len(out') = i' - 1
    BY <1>1, <1>2, <2>2, <2>4
  <2>7. \A p : HasBoth(out, p) => HasBoth(out', p)
    BY <2>2 DEF HasBoth
  <2>8. s = "both" => HasBoth(out', Place(f))
    BY <2>1, <2>2, EntriesAtFacts DEF HasBoth
  <2> QED BY <2>2, <2>3, <2>5, <2>6, <2>7, <2>8 DEF e
<1>4. CASE Unused(f) = {} /\ used' = used /\ out' = Append(out, Sourced(f, "llm"))
  <2>1. \A p : Count(out', EntriesAt(p, "both")) = Cardinality({j \in used' : semgrep'[j] \in At(p)})
    BY <1>1, <1>3, <1>4 DEF Confirmed
  <2>2. \A j \in used' : HasBoth(out', Place(semgrep'[j]))
    BY <1>1, <1>3, <1>4 DEF Confirmed
  <2>3. ASSUME NEW k \in DOMAIN out', out'[k].source = "llm", NEW j \in DOMAIN semgrep \ used
        PROVE  Place(semgrep[j]) # Place(out'[k].finding)
    <3>1. CASE out'[k] = Sourced(f, "llm")
      BY <1>2, <1>4, <2>3, <3>1, SourcedFacts, PlaceFacts DEF Unused
    <3>2. CASE out'[k] # Sourced(f, "llm")
      BY <1>1, <1>3, <1>4, <2>3, <3>2 DEF Confirmed
    <3> QED BY <3>1, <3>2
  <2>4. FirstBoth(Append(out, Sourced(f, "llm")))
    <3>1. FirstBoth(out)
      BY <1>1 DEF Confirmed
    <3>2. Place(f) \in Agreed => HasBoth(out, Place(f))
      <4> SUFFICES ASSUME Place(f) \in Agreed PROVE HasBoth(out, Place(f))
        OBVIOUS
      <4>1. PICK j \in DOMAIN semgrep : Place(semgrep[j]) = Place(f)
        BY DEF Agreed, Places
      <4>2. j \in used
        BY <1>2, <1>4, <4>1, PlaceFacts DEF Unused
      <4> QED BY <1>1, <4>1, <4>2 DEF Confirmed
    <3>3. Sourced(f, "llm") \in Entry /\ Sourced(f, "llm").finding = f
      BY <1>2, SourcedFacts
    <3> QED BY <1>2, <3>1, <3>2, <3>3, FirstBothAppend
  <2>5. FirstBoth(out)'
    BY <1>1, <1>4, <2>4 DEF FirstBoth, Agreed, Places
  <2>6. Confirmed'
    BY <1>1, <1>4, <2>1, <2>2, <2>3, <2>5 DEF Confirmed
  <2> QED BY <1>1, <1>3, <1>4, <2>6 DEF MatchInv
<1>5. CASE \E j \in Unused(f) : used' = used \cup {j} /\ out' = Append(out, Sourced(f, "both"))
  <2>1. PICK j \in Unused(f) : used' = used \cup {j} /\ out' = Append(out, Sourced(f, "both"))
    BY <1>5
  <2>2. j \in DOMAIN semgrep \ used /\ Place(semgrep[j]) = Place(f)
    BY <1>2, <2>1, PlaceFacts DEF Unused
  <2>3. ASSUME NEW p
        PROVE  Count(out', EntriesAt(p, "both")) = Cardinality({k \in used' : semgrep'[k] \in At(p)})
    <3> DEFINE same == {k \in used : semgrep[k] \in At(p)}
    <3>0. semgrep[j] \in At(p) <=> Place(f) = p
      BY <1>2, <2>2, PlaceFacts
    <3>1. {k \in used' : semgrep'[k] \in At(p)} = IF Place(f) = p THEN same \cup {j} ELSE same
      BY <1>1, <2>1, <3>0
    <3>2. IsFiniteSet(same) /\ j \notin same
      BY <1>2, <2>2, UsedFinite
    <3>3. Count(out, EntriesAt(p, "both")) = Cardinality(same)
      BY <1>1 DEF Confirmed
    <3>4. Count(out', EntriesAt(p, "both")) =
            IF Place(f) = p THEN Count(out, EntriesAt(p, "both")) + 1 ELSE Count(out, EntriesAt(p, "both"))
      BY <1>3, <2>1
    <3> HIDE DEF same
    <3> QED BY <3>1, <3>2, <3>3, <3>4, FS_AddElement
  <2>4. \A k \in used' : HasBoth(out', Place(semgrep'[k]))
    <3>1. \A k \in used : HasBoth(out, Place(semgrep[k]))
      BY <1>1 DEF Confirmed
    <3>2. HasBoth(out', Place(semgrep[j])) /\ \A p : HasBoth(out, p) => HasBoth(out', p)
      BY <1>3, <2>1, <2>2
    <3> QED BY <1>1, <2>1, <3>1, <3>2
  <2>5. ASSUME NEW k \in DOMAIN out', out'[k].source = "llm", NEW m \in DOMAIN semgrep \ used'
        PROVE  Place(semgrep[m]) # Place(out'[k].finding)
    <3>1. out'[k] # Sourced(f, "both")
      BY <1>2, <2>5, SourcedFacts
    <3> QED BY <1>1, <1>3, <2>1, <2>5, <3>1 DEF Confirmed
  <2>6. FirstBoth(Append(out, Sourced(f, "both")))
    <3>1. FirstBoth(out)
      BY <1>1 DEF Confirmed
    <3>2. Sourced(f, "both") \in Entry /\ Sourced(f, "both").source = "both"
      BY <1>2, SourcedFacts
    <3> QED BY <1>2, <3>1, <3>2, FirstBothAppend
  <2>7. FirstBoth(out)'
    BY <1>1, <2>1, <2>6 DEF FirstBoth, Agreed, Places
  <2>8. Confirmed'
    BY <1>1, <2>3, <2>4, <2>5, <2>7 DEF Confirmed
  <2> QED BY <1>1, <1>3, <2>1, <2>8 DEF MatchInv
<1> QED BY <1>4, <1>5 DEF Match

\* When every finding of the model has its entry, the list counts like the model's.
LEMMA MatchedStep ==
  ASSUME TypeOK, MatchInv, Matched
  PROVE  UnusedInv'
<1>1. /\ stage = "match" /\ i' = 1 /\ UNCHANGED <<llm, semgrep, used, out>>
      /\ Confirmed /\ Len(out) = i - 1
      /\ \A k \in DOMAIN out : out[k].finding = llm[k] /\ out[k].source \in {"llm", "both"}
  BY DEF Matched, Leave, inputs, MatchInv
<1>2. /\ out \in Seq(Entry) /\ llm \in Seq(Finding)
      /\ DOMAIN out = 1..Len(out) /\ DOMAIN llm = 1..Len(llm)
      /\ i \in Nat /\ i > Len(llm) /\ i <= Len(llm) + 1
  BY <1>1 DEF TypeOK, LoopList, Matched, Leave
<1>3. Len(out) = Len(llm) /\ DOMAIN out = DOMAIN llm
  BY <1>1, <1>2
<1>4. ModelsFirst(out)
  BY <1>1, <1>2, <1>3 DEF ModelsFirst
<1>5. Alone' = {}
  BY <1>1 DEF Alone
<1>6. \A X : {j \in Alone' : semgrep'[j] \in X} = {}
  BY <1>5
<1>8. ASSUME NEW p PROVE Count(out, EntriesAt(p, "semgrep")) = 0
  <2>1. \A j \in DOMAIN out : out[j] \notin EntriesAt(p, "semgrep")
    BY <1>1 DEF EntriesAt
  <2>2. {j \in DOMAIN out : out[j] \in EntriesAt(p, "semgrep")} = {}
    BY <2>1
  <2> QED BY <2>2, FS_EmptySet DEF Count
<1>9. \A p : Count(out', EntriesAt(p, "semgrep")) = Cardinality({j \in Alone' : semgrep'[j] \in At(p)})
  BY <1>1, <1>6, <1>8, FS_EmptySet
<1>10. Confirmed' /\ ModelsFirst(out)'
  <2>1. FirstBoth(out)' = FirstBoth(out) /\ \A p : HasBoth(out, p)' = HasBoth(out, p)
    BY <1>1 DEF FirstBoth, HasBoth, Agreed, Places
  <2>2. ModelsFirst(out)'
    BY <1>1, <1>4 DEF ModelsFirst
  <2>3. \A j \in used' : HasBoth(out', Place(semgrep'[j]))
    BY <1>1 DEF Confirmed, HasBoth
  <2> QED BY <1>1, <2>1, <2>2, <2>3 DEF Confirmed
<1> QED BY <1>9, <1>10 DEF UnusedInv

LEMMA AddUnusedStep ==
  ASSUME TypeOK, UnusedInv, AddUnused
  PROVE  UnusedInv'
<1>1. /\ stage = "unused" /\ i' = i + 1 /\ UNCHANGED <<stage, llm, semgrep, used>>
      /\ Confirmed /\ ModelsFirst(out)
      /\ \A p : Count(out, EntriesAt(p, "semgrep")) = Cardinality({j \in Alone : semgrep[j] \in At(p)})
  BY DEF AddUnused, Turn, inputs, UnusedInv
<1>2. /\ out \in Seq(Entry) /\ llm \in Seq(Finding) /\ semgrep \in Seq(Finding)
      /\ used \subseteq DOMAIN semgrep
      /\ i \in Nat \ {0} /\ i \in DOMAIN semgrep /\ semgrep[i] \in Finding
  BY DEF TypeOK, AddUnused, Turn
<1>3. CASE i \in used
  <2>1. Alone' = Alone
    BY <1>1, <1>2, <1>3 DEF Alone
  <2>2. out' = out
    BY <1>3 DEF AddUnused
  <2> HIDE DEF Alone
  <2>3. Confirmed' /\ ModelsFirst(out)'
    BY <1>1, <2>2 DEF Confirmed, FirstBoth, HasBoth, Agreed, Places, ModelsFirst
  <2> QED BY <1>1, <2>1, <2>2, <2>3 DEF UnusedInv
<1>4. CASE i \notin used
  <2> DEFINE f == semgrep[i]
             e == Sourced(f, "semgrep")
  <2>1. e \in Entry /\ e.finding = f /\ e.source = "semgrep"
    BY <1>2, SourcedFacts
  <2>2. out' = Append(out, e)
    BY <1>4 DEF AddUnused
  <2> HIDE DEF e
  <2>3. /\ Len(out') = Len(out) + 1 /\ Len(out) \in Nat
        /\ DOMAIN out = 1..Len(out)
        /\ DOMAIN out' = DOMAIN out \cup {Len(out) + 1} /\ Len(out) + 1 \notin DOMAIN out
        /\ \A k \in DOMAIN out : out'[k] = out[k]
        /\ out'[Len(out) + 1] = e
        /\ ToSet(out') = ToSet(out) \cup {e}
    BY <1>2, <2>1, <2>2, AppendFacts
  <2>4. Alone' = Alone \cup {i} /\ i \notin Alone
    BY <1>1, <1>2, <1>4 DEF Alone
  <2>5. IsFiniteSet(Alone)
    <3>1. IsFiniteSet(1..(i - 1))
      BY <1>2, FS_Interval
    <3> QED BY <3>1, FS_Difference DEF Alone
  <2>7. \A p : Count(out', EntriesAt(p, "semgrep")) = Cardinality({j \in Alone' : semgrep'[j] \in At(p)})
    <3> SUFFICES ASSUME NEW p
                 PROVE  Count(out', EntriesAt(p, "semgrep")) = Cardinality({j \in Alone' : semgrep[j] \in At(p)})
      BY <1>1
    <3> DEFINE same == {j \in Alone : semgrep[j] \in At(p)}
    <3>0. f \in At(p) <=> Place(f) = p
      BY <1>2, PlaceFacts
    <3>1. {j \in Alone' : semgrep[j] \in At(p)} = IF Place(f) = p THEN same \cup {i} ELSE same
      BY <2>4, <3>0
    <3>2. IsFiniteSet(same) /\ i \notin same
      BY <2>4, <2>5, FS_Subset
    <3>3. Count(out', EntriesAt(p, "semgrep")) =
            IF Place(f) = p THEN Count(out, EntriesAt(p, "semgrep")) + 1
            ELSE Count(out, EntriesAt(p, "semgrep"))
      BY <1>2, <2>1, <2>2, CountAt
    <3>4. Count(out, EntriesAt(p, "semgrep")) = Cardinality(same)
      BY <1>1
    <3> HIDE DEF same
    <3> QED BY <3>1, <3>2, <3>3, <3>4, FS_AddElement
  <2>9. ModelsFirst(out)'
    <3>1. /\ DOMAIN llm = 1..Len(llm) /\ Len(llm) \in Nat /\ Len(out) >= Len(llm)
          /\ \A k \in DOMAIN llm : out[k].finding = llm[k] /\ out[k].source \in {"llm", "both"}
          /\ \A k \in DOMAIN out \ DOMAIN llm : out[k].source = "semgrep"
      BY <1>1, <1>2 DEF ModelsFirst
    <3>2. DOMAIN llm \subseteq DOMAIN out
      BY <2>3, <3>1
    <3>3. \A k \in DOMAIN llm : out'[k].finding = llm[k] /\ out'[k].source \in {"llm", "both"}
      BY <2>3, <3>1, <3>2
    <3>4. \A k \in DOMAIN out' \ DOMAIN llm : out'[k].source = "semgrep"
      BY <2>1, <2>3, <3>1
    <3>5. Len(out') >= Len(llm)
      BY <2>3, <3>1
    <3> QED BY <1>1, <3>3, <3>4, <3>5 DEF ModelsFirst
  <2>10. FirstBoth(out)'
    <3>1. FirstBoth(out)
      BY <1>1 DEF Confirmed
    <3>2. Place(f) \in Agreed => HasBoth(out, Place(f))
      <4> SUFFICES ASSUME Place(f) \in Agreed PROVE HasBoth(out, Place(f))
        OBVIOUS
      <4>1. PICK k \in DOMAIN llm : Place(llm[k]) = Place(f)
        BY DEF Agreed, Places
      <4>2. k \in DOMAIN out /\ Place(out[k].finding) = Place(f)
        BY <1>1, <1>2, <2>3, <4>1 DEF ModelsFirst
      <4>3. PICK j \in 1..k : out[j] \in EntriesAt(Place(f), "both")
        BY <3>1, <4>2 DEF FirstBoth
      <4>4. j \in DOMAIN out
        BY <2>3, <4>2, <4>3
      <4> QED BY <4>3, <4>4 DEF HasBoth
    <3>3. FirstBoth(Append(out, e))
      BY <1>2, <2>1, <3>1, <3>2, FirstBothAppend
    <3> QED BY <1>1, <2>2, <3>3 DEF FirstBoth, Agreed, Places
  <2>11. \A p : Count(out', EntriesAt(p, "both")) = Count(out, EntriesAt(p, "both"))
    BY <1>2, <2>1, <2>2, CountAt
  <2>12. Confirmed'
    <3>1. \A p : Count(out', EntriesAt(p, "both")) = Cardinality({j \in used' : semgrep'[j] \in At(p)})
      BY <1>1, <2>11 DEF Confirmed
    <3>2. \A j \in used' : HasBoth(out', Place(semgrep'[j]))
      BY <1>1, <2>3 DEF Confirmed, HasBoth
    <3>3. \A k \in DOMAIN out' : out'[k].source = "llm" =>
            \A j \in DOMAIN semgrep' \ used' : Place(semgrep'[j]) # Place(out'[k].finding)
      BY <1>1, <2>1, <2>3 DEF Confirmed
    <3> QED BY <2>10, <3>1, <3>2, <3>3 DEF Confirmed
  <2> QED BY <2>7, <2>9, <2>12 DEF UnusedInv
<1> QED BY <1>3, <1>4

LEMMA DisjointUnion ==
  ASSUME NEW S, NEW T, IsFiniteSet(S), IsFiniteSet(T), S \cap T = {}
  PROVE  Cardinality(S \cup T) = Cardinality(S) + Cardinality(T)
<1>1. Cardinality(S \cup T) = Cardinality(S) + Cardinality(T) - Cardinality(S \cap T)
  BY FS_Union
<1>2. Cardinality(S) \in Nat /\ Cardinality(T) \in Nat /\ Cardinality(S \cap T) = 0
  BY FS_CardinalityType, FS_EmptySet
<1> QED BY <1>1, <1>2

\* A Semgrep finding confirms one of the model's or is added alone.
LEMMA UsedAndAlone ==
  ASSUME TypeOK, i = Len(semgrep) + 1, NEW X
  PROVE  /\ Cardinality({j \in used : semgrep[j] \in X}) + Cardinality({j \in Alone : semgrep[j] \in X})
              = Count(semgrep, X)
         /\ Cardinality({j \in used : semgrep[j] \in X}) \in Nat
         /\ Cardinality({j \in Alone : semgrep[j] \in X}) \in Nat
<1> DEFINE U == {j \in used : semgrep[j] \in X}
           A == {j \in Alone : semgrep[j] \in X}
<1>1. DOMAIN semgrep = 1..Len(semgrep) /\ Len(semgrep) \in Nat /\ used \subseteq DOMAIN semgrep
  BY DEF TypeOK
<1>2. Alone = DOMAIN semgrep \ used
  BY <1>1 DEF Alone
<1>3. U \cup A = {j \in DOMAIN semgrep : semgrep[j] \in X} /\ U \cap A = {}
  BY <1>1, <1>2
<1>4. /\ IsFiniteSet(U) /\ Cardinality(U) \in Nat
      /\ IsFiniteSet(A) /\ Cardinality(A) \in Nat
  BY <1>1, <1>2, UsedFinite
<1>5. Cardinality(U \cup A) = Cardinality(U) + Cardinality(A)
  <2> HIDE DEF U, A
  <2> QED BY <1>3, <1>4, DisjointUnion
<1> QED BY <1>3, <1>4, <1>5 DEF Count

\* At the end of the two loops the lists are paired one to one.
LEMMA Paired ==
  ASSUME TypeOK, UnusedInv, stage = "unused", i = Len(semgrep) + 1, NEW p
  PROVE  LET Has(s) == Count(out, EntriesAt(p, s))
         IN  /\ Has("both") + Has("llm") = Count(llm, At(p))
             /\ Has("both") + Has("semgrep") = Count(semgrep, At(p))
             /\ Has("llm") = 0 \/ Has("semgrep") = 0
<1> DEFINE Has(s) == Count(out, EntriesAt(p, s))
           B == {k \in DOMAIN out : out[k] \in EntriesAt(p, "both")}
           L == {k \in DOMAIN out : out[k] \in EntriesAt(p, "llm")}
<1>1. /\ Confirmed /\ ModelsFirst(out)
      /\ Has("semgrep") = Cardinality({j \in Alone : semgrep[j] \in At(p)})
  BY DEF UnusedInv
<1>2. /\ out \in Seq(Entry) /\ \A k \in DOMAIN out : out[k] \in Entry
      /\ \A k \in DOMAIN llm : llm[k] \in Finding
      /\ \A j \in DOMAIN semgrep : semgrep[j] \in Finding
  BY DEF TypeOK
<1>3. Has("both") + Has("llm") = Count(llm, At(p))
  <2>1. DOMAIN llm = 1..Len(llm) /\ DOMAIN out = 1..Len(out) /\ Len(llm) \in Nat /\ Len(out) \in Nat
    BY DEF TypeOK
  <2>2. DOMAIN llm \subseteq DOMAIN out
    BY <1>1, <2>1 DEF ModelsFirst
  <2>3. ASSUME NEW k \in DOMAIN out
        PROVE  (k \in B \/ k \in L) <=> k \in DOMAIN llm /\ llm[k] \in At(p)
    <3>1. k \in B \/ k \in L <=> Place(out[k].finding) = p /\ out[k].source \in {"both", "llm"}
      BY <1>2, EntriesAtFacts
    <3>2. k \in DOMAIN llm => out[k].finding = llm[k] /\ out[k].source \in {"llm", "both"}
      BY <1>1 DEF ModelsFirst
    <3>3. k \notin DOMAIN llm => out[k].source = "semgrep"
      BY <1>1 DEF ModelsFirst
    <3>4. k \in DOMAIN llm => (llm[k] \in At(p) <=> Place(llm[k]) = p)
      BY <1>2, PlaceFacts
    <3> HIDE DEF B, L
    <3> QED BY <3>1, <3>2, <3>3, <3>4
  <2>4. B \cup L = {k \in DOMAIN llm : llm[k] \in At(p)}
    <3>1. B \subseteq DOMAIN out /\ L \subseteq DOMAIN out
      OBVIOUS
    <3> HIDE DEF B, L
    <3> QED BY <2>2, <2>3, <3>1
  <2>5. B \cap L = {}
    BY DEF EntriesAt
  <2>6. IsFiniteSet(B) /\ IsFiniteSet(L)
    BY <1>2, CountFacts
  <2>7. Cardinality(B \cup L) = Cardinality(B) + Cardinality(L)
    <3> HIDE DEF B, L
    <3> QED BY <2>5, <2>6, DisjointUnion
  <2> QED BY <2>4, <2>7 DEF Count
<1>4. Has("both") + Has("semgrep") = Count(semgrep, At(p))
  <2>1. Has("both") = Cardinality({j \in used : semgrep[j] \in At(p)})
    BY <1>1 DEF Confirmed
  <2> HIDE DEF Has
  <2> QED BY <1>1, <2>1, UsedAndAlone
<1>5. Has("llm") = 0 \/ Has("semgrep") = 0
  <2> SUFFICES ASSUME L # {} PROVE Has("semgrep") = 0
    BY FS_EmptySet DEF Count
  <2>1. PICK k \in DOMAIN out : out[k] \in EntriesAt(p, "llm")
    OBVIOUS
  <2>2. out[k].source = "llm" /\ Place(out[k].finding) = p
    BY <1>2, <2>1, EntriesAtFacts
  <2>3. \A j \in DOMAIN semgrep \ used : semgrep[j] \notin At(p)
    BY <1>1, <1>2, <2>2, PlaceFacts DEF Confirmed
  <2>4. Alone \subseteq DOMAIN semgrep \ used
    BY DEF Alone, TypeOK
  <2>5. {j \in Alone : semgrep[j] \in At(p)} = {}
    BY <2>3, <2>4
  <2> QED BY <1>1, <2>5, FS_EmptySet
<1> QED BY <1>3, <1>4, <1>5

-----------------------------------------------------------------------------
(* The loops over the merged list.                                          *)

LEMMA SelectedStart == \A from : SelectedFrom(<<>>, from, 1)
<1>1. ToSet(<<>>) = {}
  BY DEF ToSet
<1> QED BY <1>1, CountEmpty, BeforeFirst DEF SelectedFrom

LEMMA SelectedNext ==
  ASSUME NEW list \in Seq(Entry), NEW from \in Seq(Entry), NEW k \in DOMAIN from,
         SelectedFrom(list, from, k)
  PROVE  /\ SelectedFrom(list, from, k + 1)
         /\ SelectedFrom(Append(list, from[k]), from, k + 1)
<1>1. k \in Nat \ {0} /\ from[k] \in Entry /\ from[k] \in ToSet(from)
  BY DEF ToSet
<1>2. ASSUME NEW X \in SUBSET Entry
      PROVE  /\ Count(list, X) <= Before(from, k + 1, X)
             /\ Count(Append(list, from[k]), X) <= Before(from, k + 1, X)
  <2>1. Count(list, X) <= Before(from, k, X)
    BY DEF SelectedFrom
  <2>2. Before(from, k + 1, X) = IF from[k] \in X THEN Before(from, k, X) + 1 ELSE Before(from, k, X)
    BY <1>1, BeforeNext
  <2>3. Count(Append(list, from[k]), X) = IF from[k] \in X THEN Count(list, X) + 1 ELSE Count(list, X)
    BY <1>1, CountAppend
  <2>4. Count(list, X) \in Nat
    BY CountFacts
  <2>5. Before(from, k, X) \in Nat
    BY <1>1, BeforeFacts
  <2> QED BY <2>1, <2>2, <2>3, <2>4, <2>5
<1>3. ToSet(Append(list, from[k])) = ToSet(list) \cup {from[k]}
  BY <1>1, AppendFacts
<1>4. ToSet(list) \subseteq ToSet(from)
  BY DEF SelectedFrom
<1>5. SelectedFrom(list, from, k + 1)
  BY <1>2, <1>4 DEF SelectedFrom
<1>6. SelectedFrom(Append(list, from[k]), from, k + 1)
  BY <1>1, <1>2, <1>3, <1>4 DEF SelectedFrom
<1> QED BY <1>5, <1>6

LEMMA SelectedEnd ==
  ASSUME NEW list \in Seq(Entry), NEW from \in Seq(Entry),
         SelectedFrom(list, from, Len(from) + 1)
  PROVE  /\ \A X \in SUBSET Entry : Count(list, X) <= Count(from, X)
         /\ FindingsOf(list) \subseteq FindingsOf(from)
         /\ Len(list) <= Len(from)
<1>1. \A X \in SUBSET Entry : Count(list, X) <= Count(from, X)
  BY BeforeEnd DEF SelectedFrom
<1>2. FindingsOf(list) \subseteq FindingsOf(from)
  BY DEF SelectedFrom, FindingsOf, ToSet
<1>3. Count(list, Entry) = Len(list) /\ Count(from, Entry) = Len(from)
  <2>1. \A j \in DOMAIN list : list[j] \in Entry
    OBVIOUS
  <2>2. \A j \in DOMAIN from : from[j] \in Entry
    OBVIOUS
  <2>3. Count(list, Entry) = Len(list)
    BY <2>1, CountAll
  <2>4. Count(from, Entry) = Len(from)
    BY <2>2, CountAll
  <2> QED BY <2>3, <2>4
<1> QED BY <1>1, <1>2, <1>3

LEMMA ReadFlagsStep ==
  ASSUME TypeOK, TypeOK', UnusedInv, ReadFlags
  PROVE  FlagsInv'
<1>1. /\ stage = "unused" /\ stage' = "flags" /\ i' = 1 /\ UNCHANGED <<llm, semgrep, used>>
      /\ merged' = out /\ combined' = out /\ out' = <<>>
      /\ Confirmed /\ ModelsFirst(out)
  BY DEF ReadFlags, Leave, inputs, UnusedInv
<1>2. /\ out \in Seq(Entry) /\ llm \in Seq(Finding) /\ semgrep \in Seq(Finding)
      /\ i = Len(semgrep) + 1
  BY <1>1 DEF TypeOK, LoopList, ReadFlags, Leave
<1>3. MergePairs'
  <2>1. ASSUME NEW p
        PROVE  /\ Of(p, "both")' + Of(p, "llm")' = Count(llm, At(p))
               /\ Of(p, "both")' + Of(p, "semgrep")' = Count(semgrep, At(p))
               /\ Of(p, "llm")' = 0 \/ Of(p, "semgrep")' = 0
    <3>1. \A s : Of(p, s)' = Count(out, EntriesAt(p, s))
      BY <1>1 DEF Of
    <3> QED BY <1>1, <1>2, <3>1, Paired
  <2>2. Len(out) >= Len(llm) /\ \A k \in DOMAIN llm : out[k].finding = llm[k]
    BY <1>1 DEF ModelsFirst
  <2> QED BY <1>1, <2>1, <2>2 DEF MergePairs
<1>4. FirstBoth(merged)' /\ FirstBoth(out)'
  <2>1. FirstBoth(out)
    BY <1>1 DEF Confirmed
  <2> QED BY <1>1, <2>1, FirstBothEmpty DEF FirstBoth, Agreed, Places
<1>5. Selected'
  BY <1>1, SelectedStart DEF Selected
<1>8. PerFileLimit(out)'
  <2>1. \A p : Count(out', EntriesOf(InFile(p))) = 0
    BY <1>1, CountEmpty
  <2>2. config'.max_comments_per_file \in Nat
    BY <1>1, FindingsAssumption DEF TypeOK, Config
  <2> QED BY <2>1, <2>2 DEF PerFileLimit
<1>9. FindingsOf(out)' = {} /\ (1..(i - 1))' = {}
  BY <1>1 DEF FindingsOf
<1> QED BY <1>1, <1>3, <1>4, <1>5, <1>8, <1>9 DEF FlagsInv

LEMMA ConfigFacts ==
  \A c \in Config : c.max_comments \in Nat /\ c.max_comments_per_file \in Nat
BY FindingsAssumption DEF Config

\* What a turn of the loop over the flags leaves as it was.
LEMMA FlagsUnchanged ==
  ASSUME TypeOK, FlagsInv, FilterFinding
  PROVE  /\ stage = "flags" /\ i \in DOMAIN merged /\ i' = i + 1
         /\ UNCHANGED <<stage, llm, semgrep, merged, config, combined>>
         /\ MergePairs' /\ FirstBoth(merged) /\ FirstBoth(merged)'
         /\ Wanted' = Wanted
<1>1. stage = "flags" /\ i' = i + 1 /\ UNCHANGED <<stage, llm, semgrep, merged, config, combined>>
  BY DEF FilterFinding, Turn, inputs, settings
<1>2. MergePairs /\ FirstBoth(merged)
  BY <1>1 DEF FlagsInv
<1>3. MergePairs'
  BY <1>1, <1>2 DEF MergePairs, Of, Places
<1>4. FirstBoth(merged)'
  BY <1>1, <1>2 DEF FirstBoth, Agreed, Places
<1>5. Wanted' = Wanted
  BY <1>1 DEF Wanted, EnabledCategories
<1>6. i \in DOMAIN merged
  BY DEF TypeOK, FilterFinding, Turn
<1> QED BY <1>1, <1>2, <1>3, <1>4, <1>5, <1>6

LEMMA FilterFindingStep ==
  ASSUME TypeOK, FlagsInv, FilterFinding
  PROVE  FlagsInv'
<1>1. /\ stage = "flags" /\ i \in DOMAIN merged /\ i' = i + 1
      /\ UNCHANGED <<stage, llm, semgrep, merged, config, combined>>
      /\ FirstBoth(merged) /\ Wanted' = Wanted
      /\ merged \in Seq(Entry) /\ out \in Seq(Entry)
      /\ i \in Nat \ {0} /\ config \in Config /\ combined = merged
  BY FlagsUnchanged DEF TypeOK, FlagsInv
<1>e. PICK e \in Entry, m \in DOMAIN merged : m = i /\ e = merged[m]
  BY <1>1
<1> DEFINE p == e.finding.file
           limit == config.max_comments_per_file
           Has(list, q) == Count(list, EntriesOf(InFile(q)))
           WantedIn(q) == EntriesOf(Wanted \cap InFile(q))
<1>2. e.finding \in Finding /\ p \in File /\ limit \in Nat
  BY <1>1, SourcedFacts, ConfigFacts DEF File
<1>3. /\ FirstBoth(out) /\ SelectedFrom(out, merged, i)
      /\ FindingsOf(out) \subseteq Wanted /\ PerFileLimit(out)
      /\ \A j \in 1..(i - 1) : merged[j].finding \in Wanted => Taken(j) \/ Overfull(j)
  BY <1>1 DEF FlagsInv, Selected
<1>4. \/ /\ e.finding \in Wanted
         /\ limit > 0 => Has(out, p) < limit
         /\ out' = Append(out, e)
      \/ /\ e.finding \notin Wanted /\ out' = out
      \/ /\ e.finding \in Wanted /\ limit > 0 /\ ~(Has(out, p) < limit) /\ out' = out
  BY <1>e DEF FilterFinding, AddUpToLimit
<1>5. /\ \A X \in SUBSET Entry : Count(out', X) >= Count(out, X)
      /\ \A n \in DOMAIN out : n \in DOMAIN out' /\ out'[n] = out[n]
  <2>1. \A X \in SUBSET Entry : Count(out, X) \in Nat
    BY <1>1, <1>2, CountFacts
  <2>2. \A X \in SUBSET Entry : Count(Append(out, e), X) >= Count(out, X)
    BY <1>1, <1>2, <2>1, CountAppend
  <2>3. \A n \in DOMAIN out : n \in DOMAIN Append(out, e) /\ Append(out, e)[n] = out[n]
    BY <1>1, <1>2, AppendFacts
  <2>4. CASE out' = Append(out, e)
    BY <2>2, <2>3, <2>4
  <2>5. CASE out' = out
    BY <2>1, <2>5
  <2> QED BY <1>4, <2>4, <2>5
<1>6. Selected'
  <2>1. SelectedFrom(out, merged, i + 1) /\ SelectedFrom(Append(out, e), merged, i + 1)
    BY <1>e, <1>1, <1>2, <1>3, SelectedNext
  <2>2. SelectedFrom(out', merged, i + 1)
    BY <1>4, <2>1
  <2> QED BY <1>1, <2>2 DEF Selected
\* What was taken or overfull stays so.
<1>7. ASSUME NEW j \in DOMAIN merged, Overfull(j)
      PROVE  Overfull(j)'
  <2> DEFINE q == merged[j].finding.file
  <2>1. limit > 0 /\ Has(out, q) >= limit /\ Before(merged, j, WantedIn(q)) >= limit
    BY <1>7 DEF Overfull
  <2>2. Has(out', q) >= limit
    <3>1. EntriesOf(InFile(q)) \in SUBSET Entry
      BY DEF EntriesOf
    <3>2. Has(out', q) >= Has(out, q) /\ Has(out, q) \in Nat /\ Has(out', q) \in Nat
      <4>1. out' \in Seq(Entry)
        <5>1. Append(out, e) \in Seq(Entry)
          BY <1>1, AppendFacts
        <5>2. out' = Append(out, e) \/ out' = out
          BY <1>4
        <5> QED BY <1>1, <5>1, <5>2
      <4> QED BY <1>1, <1>2, <1>5, <3>1, <4>1, CountFacts
    <3> HIDE DEF q, Has
    <3> QED BY <1>1, <1>2, <2>1, <3>2
  <2> QED BY <1>1, <2>1, <2>2 DEF Overfull, InFile
<1>8. ASSUME NEW j \in 1..(i - 1), merged[j].finding \in Wanted
      PROVE  Taken(j)' \/ Overfull(j)'
  <2>1. j \in DOMAIN merged
    BY <1>1
  <2>2. CASE Taken(j)
    BY <1>1, <1>5, <2>2 DEF Taken
  <2>3. CASE Overfull(j)
    BY <1>7, <2>1, <2>3
  <2> QED BY <1>3, <1>8, <2>2, <2>3
<1> DEFINE Done == /\ FirstBoth(out') /\ FindingsOf(out') \subseteq Wanted /\ PerFileLimit(out')
                   /\ e.finding \in Wanted => Taken(m)' \/ Overfull(m)'
<1>9. ASSUME e.finding \in Wanted, limit > 0 => Has(out, p) < limit, out' = Append(out, e)
      PROVE  Done
  <2>1. \E n \in DOMAIN out' : out'[n] = e /\ n <= Before(merged, i + 1, EntriesOf(Wanted))
    <3> DEFINE n == Len(out) + 1
               wanted == EntriesOf(Wanted)
    <3>1. \A k \in DOMAIN out : out[k] \in wanted
      <4>1. \A k \in DOMAIN out : out[k] \in Entry /\ out[k].finding \in Wanted
        BY <1>1, <1>3 DEF FindingsOf
      <4> QED BY <4>1, EntriesOfFacts
    <3>2. Count(out, wanted) = Len(out) /\ Len(out) \in Nat
      BY <1>1, <3>1, CountAll
    <3>3. wanted \in SUBSET Entry /\ e \in wanted
      BY <1>9 DEF EntriesOf
    <3>4. Count(out, wanted) <= Before(merged, i, wanted)
      BY <1>3, <3>3 DEF SelectedFrom
    <3>5. Before(merged, i + 1, wanted) = Before(merged, i, wanted) + 1
      BY <1>e, <1>1, <3>3, BeforeNext
    <3>6. Before(merged, i, wanted) \in Nat
      BY <1>1, BeforeFacts
    <3>7. n \in DOMAIN out' /\ out'[n] = e
      BY <1>1, <1>9, AppendFacts
    <3>8. n <= Before(merged, i + 1, wanted)
      <4> HIDE DEF wanted
      <4> QED BY <3>2, <3>4, <3>5, <3>6
    <3> QED BY <3>7, <3>8
  <2>2. FindingsOf(out') \subseteq Wanted
    <3>1. FindingsOf(Append(out, e)) = FindingsOf(out) \cup {e.finding}
      BY <1>1, <1>2, FindingsOfAppend
    <3> QED BY <1>3, <1>9, <3>1
  <2>3. PerFileLimit(out')
    <3> SUFFICES ASSUME limit > 0, NEW q \in File
                 PROVE  Has(out', q) <= limit
      BY DEF PerFileLimit
    <3>1. Has(out, q) <= limit /\ Has(out, q) \in Nat
      BY <1>1, <1>2, <1>3, CountFacts DEF PerFileLimit
    <3>2. Has(out', q) = IF e \in EntriesOf(InFile(q)) THEN Has(out, q) + 1 ELSE Has(out, q)
      BY <1>1, <1>2, <1>9, CountAppend
    <3>3. e \in EntriesOf(InFile(q)) => q = p
      BY <1>1, <1>2, EntriesOfFacts DEF InFile
    <3>4. Has(out, p) < limit
      BY <1>9
    <3> HIDE DEF p, limit, Has
    <3> QED BY <1>1, <1>2, <3>1, <3>2, <3>3, <3>4
  <2>4. Place(e.finding) \in Agreed => e.source = "both" \/ HasBoth(out, Place(e.finding))
    <3> SUFFICES ASSUME Place(e.finding) \in Agreed, ~HasBoth(out, Place(e.finding))
                 PROVE  e.source = "both"
      OBVIOUS
    <3>1. PICK j \in 1..i : merged[j] \in EntriesAt(Place(e.finding), "both")
      BY <1>e, <1>1, <1>3 DEF FirstBoth
    <3>2. merged[j] \in Entry
      BY <1>1
    <3>3. Place(merged[j].finding) = Place(e.finding) /\ merged[j].source = "both"
      BY <3>1, <3>2, EntriesAtFacts
    <3>4. merged[j].finding.file = p /\ merged[j].finding \in Wanted
      BY <1>2, <1>9, <3>2, <3>3, SourcedFacts, PlaceFacts
    <3>5. CASE j = i
      BY <1>e, <3>3, <3>5
    <3>6. CASE j # i
      <4>1. j \in 1..(i - 1)
        BY <1>1, <1>2, <3>6
      <4>2. ~Taken(j)
        BY <3>1 DEF Taken, HasBoth
      <4>3. Overfull(j)
        BY <1>3, <3>4, <4>1, <4>2
      <4>4. limit > 0 /\ Has(out, p) >= limit
        BY <3>4, <4>3 DEF Overfull
      <4>5. Has(out, p) \in Nat
        BY <1>1, <1>2, CountFacts
      <4> HIDE DEF Has, limit, p
      <4> QED BY <1>1, <1>2, <1>9, <4>4, <4>5
    <3> QED BY <3>5, <3>6
  <2>5. FirstBoth(out')
    BY <1>1, <1>2, <1>3, <1>9, <2>4, FirstBothAppend
  <2>6. Taken(m)'
    <3>1. \E n \in DOMAIN out' : out'[n] = merged'[m] /\ n <= Before(merged', m + 1, EntriesOf(Wanted'))
      BY <1>e, <1>1, <2>1
    <3> QED BY <3>1 DEF Taken, EntriesOf
  <2> QED BY <2>2, <2>3, <2>5, <2>6
<1>10. ASSUME e.finding \notin Wanted, out' = out
       PROVE  Done
  BY <1>3, <1>10
\* As much of e's file was wanted before it as was taken.
<1>11. ASSUME e.finding \in Wanted, limit > 0, ~(Has(out, p) < limit), out' = out
       PROVE  Done
  <2>1. WantedIn(p) \in SUBSET Entry
    BY DEF EntriesOf
  <2>2. Has(out, p) = Count(out, WantedIn(p))
    <3>1. \A k \in DOMAIN out : out[k] \in EntriesOf(InFile(p)) <=> out[k] \in WantedIn(p)
      <4>1. \A k \in DOMAIN out : out[k].finding \in Wanted
        BY <1>3 DEF FindingsOf
      <4> QED BY <4>1 DEF EntriesOf
    <3>2. {k \in DOMAIN out : out[k] \in EntriesOf(InFile(p))} = {k \in DOMAIN out : out[k] \in WantedIn(p)}
      <4> HIDE DEF WantedIn
      <4> QED BY <3>1
    <3> QED BY <3>2 DEF Count
  <2>3. Count(out, WantedIn(p)) <= Before(merged, i, WantedIn(p))
    BY <1>3, <2>1 DEF SelectedFrom
  <2>4. Has(out, p) \in Nat /\ Before(merged, i, WantedIn(p)) \in Nat
    BY <1>1, <1>2, CountFacts, BeforeFacts
  <2>5. Has(out, p) >= limit /\ Before(merged, i, WantedIn(p)) >= limit
    <3> HIDE DEF Has, WantedIn, p, limit
    <3> QED BY <1>1, <1>2, <1>11, <2>2, <2>3, <2>4
  <2>6. Overfull(m)'
    <3>1. merged'[m].finding.file = p /\ config'.max_comments_per_file = limit
      BY <1>e, <1>1
    <3>2. Has(out', p) >= limit /\ Before(merged', m, EntriesOf(Wanted' \cap InFile(p))) >= limit
      BY <1>e, <1>1, <1>11, <2>5
    <3> HIDE DEF p, limit
    <3> QED BY <1>11, <3>1, <3>2 DEF Overfull, InFile
  <2> QED BY <1>3, <1>11, <2>6
<1>12. Done
  BY <1>4, <1>9, <1>10, <1>11
<1>13. FirstBoth(out)' /\ (FindingsOf(out) \subseteq Wanted)' /\ PerFileLimit(out)'
  <2>1. FirstBoth(out)'
    BY <1>1, <1>12 DEF FirstBoth, Agreed, Places
  <2>2. (FindingsOf(out) \subseteq Wanted)'
    BY <1>1, <1>12 DEF FindingsOf
  <2>3. PerFileLimit(out)'
    BY <1>1, <1>12 DEF PerFileLimit
  <2> QED BY <2>1, <2>2, <2>3
<1>14. (\A j \in 1..(i - 1) : merged[j].finding \in Wanted => Taken(j) \/ Overfull(j))'
  <2> SUFFICES ASSUME NEW j \in 1..(i' - 1), merged[j].finding \in Wanted
               PROVE  Taken(j)' \/ Overfull(j)'
    BY <1>1
  <2>1. CASE j = i
    BY <1>e, <1>1, <1>12, <2>1
  <2>2. CASE j # i
    <3>1. j \in 1..(i - 1)
      BY <1>1, <1>2, <2>2
    <3> QED BY <1>8, <3>1
  <2> QED BY <2>1, <2>2
<1> QED BY <1>1, <1>6, <1>13, <1>14, FlagsUnchanged DEF FlagsInv

LEMMA SelectedLimited ==
  ASSUME NEW list \in Seq(Entry), NEW from \in Seq(Entry), config \in Config,
         SelectedFrom(list, from, Len(from) + 1), Limited(from)
  PROVE  Limited(list)
<1>1. config.max_comments \in Nat /\ config.max_comments_per_file \in Nat
  BY ConfigFacts
<1>2. config.max_comments > 0 => Len(list) <= config.max_comments
  <2>1. Len(list) <= Len(from)
    BY SelectedEnd
  <2> QED BY <1>1, <2>1 DEF Limited
<1>3. PerFileLimit(list)
  <2> SUFFICES ASSUME config.max_comments_per_file > 0, NEW p \in File
               PROVE  Count(list, EntriesOf(InFile(p))) <= config.max_comments_per_file
    BY DEF PerFileLimit
  <2>1. Count(list, EntriesOf(InFile(p))) <= Count(from, EntriesOf(InFile(p)))
    <3>1. EntriesOf(InFile(p)) \in SUBSET Entry
      BY DEF EntriesOf
    <3> QED BY <3>1, SelectedEnd
  <2>2. Count(from, EntriesOf(InFile(p))) <= config.max_comments_per_file
    BY DEF Limited, PerFileLimit
  <2>3. Count(list, EntriesOf(InFile(p))) \in Nat /\ Count(from, EntriesOf(InFile(p))) \in Nat
    BY CountFacts
  <2> QED BY <1>1, <2>1, <2>2, <2>3
<1> QED BY <1>2, <1>3 DEF Limited

LEMMA CapTotalFacts ==
  ASSUME NEW list \in Seq(Entry), config \in Config
  PROVE  /\ CapTotal(list) \in Seq(Entry)
         /\ \E n \in Nat :
              /\ n <= Len(list) /\ Len(CapTotal(list)) = n
              /\ \A k \in DOMAIN CapTotal(list) : k \in DOMAIN list /\ CapTotal(list)[k] = list[k]
         /\ \A X : Count(CapTotal(list), X) <= Count(list, X)
         /\ config.max_comments > 0 => Len(CapTotal(list)) <= config.max_comments
         /\ CapTotal(list) # list => config.max_comments > 0 /\ Len(list) > config.max_comments
<1> DEFINE n == config.max_comments
           cut == SubSeq(list, 1, n)
<1>1. n \in Nat /\ Len(list) \in Nat
  BY ConfigFacts
<1>2. CASE n > 0 /\ Len(list) > n
  <2>1. CapTotal(list) = cut
    BY <1>2 DEF CapTotal
  <2>2. /\ cut \in Seq(Entry) /\ Len(cut) = n /\ n <= Len(list) /\ DOMAIN cut = 1..n
        /\ \A k \in 1..n : k \in DOMAIN list /\ cut[k] = list[k]
    BY <1>1, <1>2, SubSeqProperties
  <2>3. \A X : Count(cut, X) <= Count(list, X)
    BY <1>1, <2>2, CountPrefix
  <2> HIDE DEF cut, n
  <2> QED BY <1>1, <1>2, <2>1, <2>2, <2>3 DEF n
<1>3. CASE ~(n > 0 /\ Len(list) > n)
  <2>1. CapTotal(list) = list
    BY <1>3 DEF CapTotal
  <2>2. \A X : Count(list, X) <= Count(list, X)
    <3>1. \A X : Count(list, X) \in Nat
      BY CountFacts
    <3> QED BY <3>1
  <2>3. n > 0 => Len(list) <= n
    BY <1>1, <1>3
  <2> QED BY <1>1, <2>1, <2>2, <2>3
<1> QED BY <1>2, <1>3

\* What is wanted and was not taken was cut off.
LEMMA TakenOrCutOff ==
  ASSUME TypeOK, FlagsInv, stage = "flags", i = Len(merged) + 1,
         NEW k \in DOMAIN combined, combined[k].finding \in Wanted
  PROVE  CutOff(k) \/ combined[k] \in ToSet(CapTotal(out))
<1> DEFINE limit == config.max_comments
           wanted == EntriesOf(Wanted)
<1>1. /\ merged \in Seq(Entry) /\ out \in Seq(Entry) /\ config \in Config
      /\ combined = merged /\ limit \in Nat
      /\ k \in Nat \ {0} /\ k \in 1..(i - 1) /\ merged[k] \in Entry
  BY ConfigFacts DEF TypeOK, FlagsInv
<1>2. Taken(k) \/ Overfull(k)
  BY <1>1 DEF FlagsInv
<1>3. CASE Overfull(k)
  BY <1>1, <1>3 DEF Overfull, CutOff
<1>4. CASE Taken(k)
  <2>1. PICK n \in DOMAIN out : out[n] = merged[k] /\ n <= Before(merged, k + 1, wanted)
    BY <1>4 DEF Taken
  <2>2. CASE n \in DOMAIN CapTotal(out)
    <3>1. CapTotal(out)[n] = out[n]
      BY <1>1, <2>2, CapTotalFacts
    <3> QED BY <1>1, <2>1, <2>2, <3>1 DEF ToSet
  <2>3. CASE n \notin DOMAIN CapTotal(out)
    <3>1. limit > 0 /\ n > limit /\ n \in Nat
      <4>1. limit > 0 /\ Len(out) > limit /\ CapTotal(out) = SubSeq(out, 1, limit)
        BY <2>3 DEF CapTotal
      <4>2. DOMAIN CapTotal(out) = 1..limit
        BY <1>1, <4>1, SubSeqProperties
      <4>3. n \in Nat \ {0}
        BY <1>1
      <4> HIDE DEF limit
      <4> QED BY <1>1, <2>3, <4>1, <4>2, <4>3
    <3>2. merged[k] \in wanted
      BY <1>1 DEF EntriesOf
    <3>3. Before(merged, k + 1, wanted) = Before(merged, k, wanted) + 1
      BY <1>1, <3>2, BeforeNext
    <3>4. Before(merged, k, wanted) \in Nat
      BY <1>1, BeforeFacts
    <3>5. Before(merged, k, wanted) >= limit
      <4> HIDE DEF wanted, limit
      <4> QED BY <1>1, <2>1, <3>1, <3>3, <3>4
    <3> QED BY <1>1, <3>1, <3>5 DEF CutOff
  <2> QED BY <2>2, <2>3
<1> QED BY <1>2, <1>3, <1>4

LEMMA FilteredStep ==
  ASSUME TypeOK, FlagsInv, Filtered
  PROVE  IgnoreInv'
<1>1. /\ stage = "flags" /\ i > Len(merged) /\ i' = 1
      /\ UNCHANGED <<llm, semgrep, config, combined>>
      /\ merged' = CapTotal(out) /\ out' = <<>>
  BY DEF Filtered, Leave, inputs
<1>2. /\ merged \in Seq(Entry) /\ out \in Seq(Entry) /\ config \in Config
      /\ i = Len(merged) + 1
  BY <1>1 DEF TypeOK, LoopList
<1>3. FirstBoth(out) /\ FindingsOf(out) \subseteq Wanted /\ PerFileLimit(out)
  BY <1>1 DEF FlagsInv
<1>4. PICK n \in Nat :
        /\ n <= Len(out) /\ Len(merged') = n
        /\ \A k \in DOMAIN merged' : k \in DOMAIN out /\ merged'[k] = out[k]
  BY <1>1, <1>2, CapTotalFacts
<1>5. /\ merged' \in Seq(Entry) /\ \A X : Count(merged', X) <= Count(out, X)
      /\ config.max_comments > 0 => Len(merged') <= config.max_comments
  BY <1>1, <1>2, CapTotalFacts
<1>6. FirstBoth(merged')
  <2> SUFFICES ASSUME NEW k \in DOMAIN merged', Place(merged'[k].finding) \in Agreed
               PROVE  \E j \in 1..k : merged'[j] \in EntriesAt(Place(merged'[k].finding), "both")
    BY DEF FirstBoth
  <2>1. k \in DOMAIN out /\ merged'[k] = out[k]
    BY <1>4
  <2>2. PICK j \in 1..k : out[j] \in EntriesAt(Place(out[k].finding), "both")
    BY <1>3, <2>1 DEF FirstBoth
  <2>3. j \in DOMAIN merged'
    BY <1>5, <2>2
  <2> QED BY <1>4, <2>1, <2>2, <2>3
<1>7. FindingsOf(merged') \subseteq Wanted
  BY <1>3, <1>4 DEF FindingsOf
<1>8. PerFileLimit(merged')
  <2> SUFFICES ASSUME config.max_comments_per_file > 0, NEW p \in File
               PROVE  Count(merged', EntriesOf(InFile(p))) <= config.max_comments_per_file
    BY DEF PerFileLimit
  <2>1. /\ Count(merged', EntriesOf(InFile(p))) <= Count(out, EntriesOf(InFile(p)))
        /\ Count(out, EntriesOf(InFile(p))) <= config.max_comments_per_file
    BY <1>3, <1>5 DEF PerFileLimit
  <2>2. /\ Count(merged', EntriesOf(InFile(p))) \in Nat
        /\ Count(out, EntriesOf(InFile(p))) \in Nat
        /\ config.max_comments_per_file \in Nat
    BY <1>2, <1>5, CountFacts, ConfigFacts
  <2> QED BY <2>1, <2>2
<1>9. ASSUME NEW k \in DOMAIN combined, combined[k].finding \in Wanted
      PROVE  CutOff(k) \/ Place(combined[k].finding) \in PlacesOf(merged')
  <2>1. CutOff(k) \/ combined[k] \in ToSet(merged')
    BY <1>1, <1>2, <1>9, TakenOrCutOff
  <2> QED BY <2>1 DEF ToSet, PlacesOf
<1>10. Wanted' = Wanted /\ \A k : CutOff(k)' = CutOff(k)
  <2>1. Wanted' = Wanted
    BY <1>1 DEF Wanted, EnabledCategories
  <2> QED BY <1>1, <2>1 DEF CutOff
<1>11. FirstBoth(merged)' /\ FirstBoth(out)' /\ Limited(merged)'
  BY <1>1, <1>5, <1>6, <1>8, FirstBothEmpty DEF FirstBoth, Agreed, Limited, PerFileLimit
<1>12. /\ FindingsOf(merged)' = FindingsOf(merged') /\ PlacesOf(merged)' = PlacesOf(merged')
       /\ FindingsOf(out)' = {} /\ (1..(i - 1))' = {}
  BY <1>1 DEF FindingsOf, PlacesOf
<1>13. NothingLostIn(merged)' /\ (FindingsOf(merged) \subseteq Wanted)'
  BY <1>1, <1>7, <1>9, <1>10, <1>12 DEF NothingLostIn
<1>14. Selected'
  BY <1>1, SelectedStart DEF Selected
<1> QED BY <1>11, <1>12, <1>13, <1>14 DEF IgnoreInv

\* What the loops after the flags leave as it was.
LEMMA ListUnchanged ==
  ASSUME UNCHANGED <<llm, semgrep, config, ignored, combined>>, NEW list, merged' = list
  PROVE  /\ Wanted' = Wanted
         /\ FirstBoth(list) => FirstBoth(merged)'
         /\ Limited(list) => Limited(merged)'
         /\ NothingLostIn(list) => NothingLostIn(merged)'
         /\ FindingsOf(merged)' = FindingsOf(list) /\ PlacesOf(merged)' = PlacesOf(list)
         /\ Unconfirmed(merged)' = Unconfirmed(list)
         /\ Distinct(list) => Distinct(merged)'
<1>1. Wanted' = Wanted
  BY DEF Wanted, EnabledCategories
<1>2. FirstBoth(list) => FirstBoth(merged)'
  BY DEF FirstBoth, Agreed, Places
<1>3. Limited(list) => Limited(merged)'
  BY DEF Limited, PerFileLimit
<1>4. FindingsOf(merged)' = FindingsOf(list) /\ PlacesOf(merged)' = PlacesOf(list)
  BY DEF FindingsOf, PlacesOf
<1>5. NothingLostIn(list) => NothingLostIn(merged)'
  <2>1. \A k : CutOff(k)' = CutOff(k)
    BY <1>1 DEF CutOff
  <2> QED BY <1>1, <1>4, <2>1 DEF NothingLostIn
<1>6. Unconfirmed(merged)' = Unconfirmed(list)
  BY DEF Unconfirmed, Agreed, Places
<1>7. Distinct(list) => Distinct(merged)'
  BY DEF Distinct
<1> QED BY <1>1, <1>2, <1>3, <1>4, <1>5, <1>6, <1>7

LEMMA FilterIgnoredStep ==
  ASSUME TypeOK, IgnoreInv, FilterIgnored
  PROVE  IgnoreInv'
<1>1. /\ stage = "ignore" /\ i' = i + 1
      /\ UNCHANGED <<stage, llm, semgrep, merged, config, ignored, combined>>
      /\ merged \in Seq(Entry) /\ out \in Seq(Entry) /\ i \in Nat \ {0} /\ i \in DOMAIN merged
  BY DEF FilterIgnored, Turn, inputs, settings, TypeOK
<1>2. PICK e \in Entry : e = merged[i]
  BY <1>1
<1>3. /\ FirstBoth(merged) /\ FirstBoth(out) /\ SelectedFrom(out, merged, i)
      /\ Limited(merged) /\ NothingLostIn(merged)
      /\ FindingsOf(merged) \subseteq Wanted
      /\ \A f \in FindingsOf(out) : f.file \notin ignored
      /\ \A j \in 1..(i - 1) : merged[j].finding.file \notin ignored => merged[j] \in ToSet(out)
  BY <1>1 DEF IgnoreInv, Selected
<1>4. /\ FirstBoth(merged)' /\ Limited(merged)' /\ NothingLostIn(merged)'
      /\ (FindingsOf(merged) \subseteq Wanted)'
  BY <1>1, <1>3, ListUnchanged
<1>5. SelectedFrom(out, merged, i + 1) /\ SelectedFrom(Append(out, e), merged, i + 1)
  BY <1>1, <1>2, <1>3, SelectedNext
<1> DEFINE Done == /\ FirstBoth(out') /\ SelectedFrom(out', merged, i + 1)
                   /\ \A f \in FindingsOf(out') : f.file \notin ignored
                   /\ ToSet(out) \subseteq ToSet(out')
                   /\ e.finding.file \notin ignored => e \in ToSet(out')
<1>6. ASSUME e.finding.file \in ignored
      PROVE  Done
  <2>1. out' = out
    BY <1>2, <1>6 DEF FilterIgnored
  <2> QED BY <1>3, <1>5, <1>6, <2>1
<1>7. ASSUME e.finding.file \notin ignored
      PROVE  Done
  <2>1. out' = Append(out, e)
    BY <1>2, <1>7 DEF FilterIgnored
  <2>2. FindingsOf(Append(out, e)) = FindingsOf(out) \cup {e.finding}
    BY <1>1, FindingsOfAppend
  <2>3. ToSet(Append(out, e)) = ToSet(out) \cup {e}
    BY <1>1, AppendFacts
  <2>4. Place(e.finding) \in Agreed => e.source = "both" \/ HasBoth(out, Place(e.finding))
    <3> SUFFICES ASSUME Place(e.finding) \in Agreed
                 PROVE  e.source = "both" \/ HasBoth(out, Place(e.finding))
      OBVIOUS
    <3>1. PICK j \in 1..i : merged[j] \in EntriesAt(Place(e.finding), "both")
      BY <1>1, <1>2, <1>3 DEF FirstBoth
    <3>2. merged[j] \in Entry
      BY <1>1
    <3>3. /\ Place(merged[j].finding) = Place(e.finding) /\ merged[j].source = "both"
          /\ merged[j].finding.file = e.finding.file
      BY <3>1, <3>2, EntriesAtFacts, SourcedFacts, PlaceFacts
    <3>4. CASE j = i
      BY <1>2, <3>3, <3>4
    <3>5. CASE j # i
      <4>1. j \in 1..(i - 1)
        BY <1>1, <3>5
      <4>2. merged[j] \in ToSet(out)
        BY <1>3, <1>7, <3>3, <4>1
      <4> QED BY <3>1, <4>2 DEF ToSet, HasBoth
    <3> QED BY <3>4, <3>5
  <2>5. FirstBoth(Append(out, e))
    BY <1>1, <1>3, <2>4, FirstBothAppend
  <2> QED BY <1>3, <1>5, <1>7, <2>1, <2>2, <2>3, <2>5
<1>8. Done
  BY <1>6, <1>7
<1>9. FirstBoth(out)' /\ Selected' /\ (\A f \in FindingsOf(out) : f.file \notin ignored)'
  BY <1>1, <1>8 DEF FirstBoth, Agreed, Places, Selected, FindingsOf
<1>10. (\A j \in 1..(i - 1) : merged[j].finding.file \notin ignored => merged[j] \in ToSet(out))'
  <2> SUFFICES ASSUME NEW j \in 1..((i + 1) - 1), merged[j].finding.file \notin ignored
               PROVE  merged[j] \in ToSet(out')
    BY <1>1
  <2>1. CASE j = i
    BY <1>2, <1>8, <2>1
  <2>2. CASE j # i
    <3>1. j \in 1..(i - 1)
      BY <1>1, <2>2
    <3> QED BY <1>3, <1>8, <3>1
  <2> QED BY <2>1, <2>2
<1> QED BY <1>4, <1>9, <1>10 DEF IgnoreInv

LEMMA IgnoredFilteredStep ==
  ASSUME TypeOK, IgnoreInv, IgnoredFiltered
  PROVE  DedupeInv'
<1>1. /\ stage = "ignore" /\ i > Len(merged) /\ i' = 1
      /\ UNCHANGED <<llm, semgrep, config, ignored, combined>> /\ merged' = out /\ out' = <<>>
  BY DEF IgnoredFiltered, Leave, inputs, settings
<1>2. /\ merged \in Seq(Entry) /\ out \in Seq(Entry) /\ config \in Config
      /\ i = Len(merged) + 1
  BY <1>1 DEF TypeOK, LoopList
<1>3. /\ FirstBoth(out) /\ SelectedFrom(out, merged, Len(merged) + 1)
      /\ Limited(merged) /\ NothingLostIn(merged)
      /\ FindingsOf(merged) \subseteq Wanted
      /\ \A f \in FindingsOf(out) : f.file \notin ignored
      /\ \A j \in DOMAIN merged : merged[j].finding.file \notin ignored => merged[j] \in ToSet(out)
  BY <1>1, <1>2 DEF IgnoreInv, Selected
<1>4. Limited(out) /\ FindingsOf(out) \subseteq Wanted
  BY <1>2, <1>3, SelectedEnd, SelectedLimited
<1>5. NothingLostIn(out)
  <2> SUFFICES ASSUME NEW k \in DOMAIN combined, NEW f, f = combined[k].finding,
                      f \in Wanted, f.file \notin ignored, ~CutOff(k)
               PROVE  Place(f) \in PlacesOf(out)
    BY DEF NothingLostIn
  <2>1. PICK j \in DOMAIN merged : Place(merged[j].finding) = Place(f)
    BY <1>3 DEF NothingLostIn, PlacesOf
  <2>2. merged[j].finding.file = f.file
    <3>1. merged[j].finding \in Finding /\ f \in Finding
      BY <1>2, SourcedFacts DEF Wanted
    <3> QED BY <2>1, <3>1, PlaceFacts
  <2>3. merged[j] \in ToSet(out)
    BY <1>3, <2>2
  <2> QED BY <2>1, <2>3 DEF PlacesOf, ToSet
<1>6. /\ FirstBoth(merged)' /\ Limited(merged)' /\ NothingLostIn(merged)'
      /\ (FindingsOf(merged) \subseteq Wanted)' /\ FindingsOf(merged)' = FindingsOf(out)
  BY <1>1, <1>3, <1>4, <1>5, ListUnchanged
<1>7. Selected'
  BY <1>1, SelectedStart DEF Selected
<1>8. (1..(i - 1))' = {} /\ Unconfirmed(out)' = {} /\ Distinct(out)'
  BY <1>1 DEF Unconfirmed, Distinct
<1> QED BY <1>1, <1>3, <1>6, <1>7, <1>8 DEF DedupeInv

LEMMA DeduplicateStep ==
  ASSUME TypeOK, DedupeInv, Deduplicate
  PROVE  DedupeInv'
<1>1. /\ stage = "dedupe" /\ i' = i + 1
      /\ UNCHANGED <<stage, llm, semgrep, merged, config, ignored, combined>>
      /\ merged \in Seq(Entry) /\ out \in Seq(Entry) /\ i \in Nat \ {0} /\ i \in DOMAIN merged
  BY DEF Deduplicate, Turn, inputs, settings, TypeOK
<1>2. PICK e \in Entry : e = merged[i]
  BY <1>1
<1>3. /\ FirstBoth(merged) /\ SelectedFrom(out, merged, i)
      /\ Limited(merged) /\ NothingLostIn(merged)
      /\ FindingsOf(merged) \subseteq Wanted
      /\ \A f \in FindingsOf(merged) : f.file \notin ignored
      /\ \A j \in 1..(i - 1) : Place(merged[j].finding) \in PlacesOf(out)
      /\ Unconfirmed(out) = {} /\ Distinct(out)
  BY <1>1 DEF DedupeInv, Selected
<1>4. /\ FirstBoth(merged)' /\ Limited(merged)' /\ NothingLostIn(merged)'
      /\ (FindingsOf(merged) \subseteq Wanted)'
      /\ (\A f \in FindingsOf(merged) : f.file \notin ignored)'
  BY <1>1, <1>3, ListUnchanged
<1>5. SelectedFrom(out, merged, i + 1) /\ SelectedFrom(Append(out, e), merged, i + 1)
  BY <1>1, <1>2, <1>3, SelectedNext
<1> DEFINE Done == /\ SelectedFrom(out', merged, i + 1)
                   /\ PlacesOf(out') = PlacesOf(out) \cup {Place(e.finding)}
                   /\ Unconfirmed(out') = {} /\ Distinct(out')
<1>6. ASSUME Seen(out, e)
      PROVE  Done
  <2>1. out' = out
    BY <1>2, <1>6 DEF Deduplicate, AddNew
  <2>2. Place(e.finding) \in PlacesOf(out)
    BY <1>1, <1>6, SourcedFacts, PlaceFacts DEF Seen, PlacesOf
  <2> QED BY <1>3, <1>5, <2>1, <2>2
<1>7. ASSUME ~Seen(out, e)
      PROVE  Done
  <2> DEFINE new == Len(out) + 1
             more == Append(out, e)
  <2>1. out' = more
    BY <1>2, <1>7 DEF Deduplicate, AddNew
  <2>2. PlacesOf(more) = PlacesOf(out) \cup {Place(e.finding)}
    BY <1>1, PlacesOfAppend
  <2>3. /\ DOMAIN more = DOMAIN out \cup {new} /\ more[new] = e
        /\ \A k \in DOMAIN out : more[k] = out[k]
    BY <1>1, AppendFacts
  <2>n. Place(e.finding) \notin PlacesOf(out)
    BY <1>1, <1>7, SourcedFacts, PlaceFacts DEF Seen, PlacesOf
  \* The first entry at its place, so it is the confirmed one.
  <2>4. Place(e.finding) \in Agreed => e.source = "both"
    <3> SUFFICES ASSUME Place(e.finding) \in Agreed PROVE e.source = "both"
      OBVIOUS
    <3>1. PICK j \in 1..i : merged[j] \in EntriesAt(Place(e.finding), "both")
      BY <1>1, <1>2, <1>3 DEF FirstBoth
    <3>2. Place(merged[j].finding) = Place(e.finding) /\ merged[j].source = "both"
      <4>1. merged[j] \in Entry
        BY <1>1
      <4> QED BY <3>1, <4>1, EntriesAtFacts
    <3>3. Place(e.finding) \notin PlacesOf(out)
      BY <2>n
    <3>4. j \notin 1..(i - 1)
      BY <1>3, <3>2, <3>3
    <3>5. j = i
      BY <1>1, <3>4
    <3> QED BY <1>2, <3>2, <3>5
  <2> HIDE DEF more, new
  <2>5. Unconfirmed(more) = {}
    BY <1>3, <2>3, <2>4 DEF Unconfirmed
  <2>6. Distinct(more)
    BY <1>3, <2>3, <2>n DEF Distinct, PlacesOf
  <2> QED BY <1>5, <2>1, <2>2, <2>5, <2>6 DEF more
<1>8. Done
  BY <1>6, <1>7
<1>9. /\ Selected' /\ PlacesOf(out)' = PlacesOf(out) \cup {Place(e.finding)}
      /\ Unconfirmed(out)' = {} /\ Distinct(out)'
  BY <1>1, <1>8 DEF Selected, PlacesOf, Unconfirmed, Agreed, Places, Distinct
<1>10. (\A j \in 1..(i - 1) : Place(merged[j].finding) \in PlacesOf(out))'
  <2> SUFFICES ASSUME NEW j \in 1..((i + 1) - 1)
               PROVE  Place(merged[j].finding) \in PlacesOf(out) \cup {Place(e.finding)}
    BY <1>1, <1>9
  <2>1. CASE j = i
    BY <1>2, <2>1
  <2>2. CASE j # i
    <3>1. j \in 1..(i - 1)
      BY <1>1, <2>2
    <3> QED BY <1>3, <3>1
  <2> QED BY <2>1, <2>2
<1> QED BY <1>4, <1>9, <1>10 DEF DedupeInv

LEMMA DeduplicatedStep ==
  ASSUME TypeOK, DedupeInv, Deduplicated
  PROVE  DoneInv'
<1>1. /\ stage = "dedupe" /\ i > Len(merged)
      /\ UNCHANGED <<llm, semgrep, config, ignored, combined>> /\ merged' = out
  BY DEF Deduplicated, Leave, inputs, settings
<1>2. /\ merged \in Seq(Entry) /\ out \in Seq(Entry) /\ config \in Config
      /\ i = Len(merged) + 1
  BY <1>1 DEF TypeOK, LoopList
<1>3. /\ SelectedFrom(out, merged, Len(merged) + 1)
      /\ Limited(merged) /\ NothingLostIn(merged)
      /\ FindingsOf(merged) \subseteq Wanted
      /\ \A f \in FindingsOf(merged) : f.file \notin ignored
      /\ \A j \in DOMAIN merged : Place(merged[j].finding) \in PlacesOf(out)
      /\ Unconfirmed(out) = {} /\ Distinct(out)
  BY <1>1, <1>2 DEF DedupeInv, Selected
<1>4. Limited(out) /\ FindingsOf(out) \subseteq FindingsOf(merged)
  BY <1>2, <1>3, SelectedEnd, SelectedLimited
<1>5. NothingLostIn(out)
  <2>1. PlacesOf(merged) \subseteq PlacesOf(out)
    BY <1>3 DEF PlacesOf
  <2> QED BY <1>3, <2>1 DEF NothingLostIn
<1>6. /\ Limited(merged)' /\ NothingLostIn(merged)'
      /\ (FindingsOf(merged) \subseteq Wanted)' /\ FindingsOf(merged)' = FindingsOf(out)
      /\ Unconfirmed(merged)' = {} /\ Distinct(merged)'
  BY <1>1, <1>3, <1>4, <1>5, ListUnchanged
<1>7. (\A f \in FindingsOf(merged) : f.file \notin ignored)'
  BY <1>1, <1>3, <1>4, <1>6
<1> QED BY <1>6, <1>7 DEF DoneInv

-----------------------------------------------------------------------------
(* The theorems.                                                            *)

\* A step leaves the parts of the other stages alone.
LEMMA StepInv == Inv /\ [Next]_vars => Inv'
<1> SUFFICES ASSUME Inv, [Next]_vars PROVE Inv'
  OBVIOUS
<1>1. TypeOK /\ MatchInv /\ UnusedInv /\ FlagsInv /\ IgnoreInv /\ DedupeInv /\ DoneInv
  BY DEF Inv
<1> USE DEF Inv
<1>2. ASSUME Next PROVE TypeOK'
  BY <1>1, <1>2, TypeStep
<1>3. CASE Match
  <2>1. stage' = "match" /\ MatchInv'
    BY <1>1, <1>3, MatchStep DEF Match, Turn
  <2> QED BY <1>2, <1>3, <2>1 DEF Next, UnusedInv, FlagsInv, IgnoreInv, DedupeInv, DoneInv
<1>4. CASE Matched
  <2>1. stage' = "unused" /\ UnusedInv'
    BY <1>1, <1>4, MatchedStep DEF Matched, Leave
  <2> QED BY <1>2, <1>4, <2>1 DEF Next, MatchInv, FlagsInv, IgnoreInv, DedupeInv, DoneInv
<1>5. CASE AddUnused
  <2>1. stage' = "unused" /\ UnusedInv'
    BY <1>1, <1>5, AddUnusedStep DEF AddUnused, Turn
  <2> QED BY <1>2, <1>5, <2>1 DEF Next, MatchInv, FlagsInv, IgnoreInv, DedupeInv, DoneInv
<1>6. CASE ReadFlags
  <2>1. stage' = "flags" /\ FlagsInv'
    BY <1>1, <1>2, <1>6, ReadFlagsStep DEF Next, ReadFlags, Leave
  <2> QED BY <1>2, <1>6, <2>1 DEF Next, MatchInv, UnusedInv, IgnoreInv, DedupeInv, DoneInv
<1>8. CASE FilterFinding
  <2>1. stage' = "flags" /\ FlagsInv'
    BY <1>1, <1>8, FilterFindingStep DEF FilterFinding, Turn
  <2> QED BY <1>2, <1>8, <2>1 DEF Next, MatchInv, UnusedInv, IgnoreInv, DedupeInv, DoneInv
<1>9. CASE Filtered
  <2>1. stage' = "ignore" /\ IgnoreInv'
    BY <1>1, <1>9, FilteredStep DEF Filtered, Leave
  <2> QED BY <1>2, <1>9, <2>1 DEF Next, MatchInv, UnusedInv, FlagsInv, DedupeInv, DoneInv
<1>10. CASE FilterIgnored
  <2>1. stage' = "ignore" /\ IgnoreInv'
    BY <1>1, <1>10, FilterIgnoredStep DEF FilterIgnored, Turn
  <2> QED BY <1>2, <1>10, <2>1 DEF Next, MatchInv, UnusedInv, FlagsInv, DedupeInv, DoneInv
<1>11. CASE IgnoredFiltered
  <2>1. stage' = "dedupe" /\ DedupeInv'
    BY <1>1, <1>11, IgnoredFilteredStep DEF IgnoredFiltered, Leave
  <2> QED BY <1>2, <1>11, <2>1 DEF Next, MatchInv, UnusedInv, FlagsInv, IgnoreInv, DoneInv
<1>12. CASE Deduplicate
  <2>1. stage' = "dedupe" /\ DedupeInv'
    BY <1>1, <1>12, DeduplicateStep DEF Deduplicate, Turn
  <2> QED BY <1>2, <1>12, <2>1 DEF Next, MatchInv, UnusedInv, FlagsInv, IgnoreInv, DoneInv
<1>13. CASE Deduplicated
  <2>1. stage' = "done" /\ DoneInv'
    BY <1>1, <1>13, DeduplicatedStep DEF Deduplicated, Leave
  <2> QED BY <1>2, <1>13, <2>1 DEF Next, MatchInv, UnusedInv, FlagsInv, IgnoreInv, DedupeInv
<1>14. CASE UNCHANGED vars
  <2>1. UNCHANGED <<stage, i, llm, semgrep, used, merged, out, config, ignored, combined>>
    BY <1>14 DEF vars, inputs, settings
  <2>2. TypeOK'
    BY <1>1, <2>1 DEF TypeOK, LoopList
  <2>3. Confirmed' = Confirmed /\ ModelsFirst(out)' = ModelsFirst(out) /\ Alone' = Alone
    BY <2>1 DEF Confirmed, FirstBoth, HasBoth, Agreed, Places, ModelsFirst, Alone
  <2>4. MatchInv' /\ UnusedInv'
    BY <1>1, <2>1, <2>3 DEF MatchInv, UnusedInv
  <2>5. /\ Wanted' = Wanted /\ Selected' = Selected
        /\ FirstBoth(merged)' = FirstBoth(merged) /\ FirstBoth(out)' = FirstBoth(out)
        /\ FindingsOf(merged)' = FindingsOf(merged) /\ FindingsOf(out)' = FindingsOf(out)
        /\ PlacesOf(merged)' = PlacesOf(merged) /\ PlacesOf(out)' = PlacesOf(out)
        /\ Unconfirmed(merged)' = Unconfirmed(merged) /\ Unconfirmed(out)' = Unconfirmed(out)
        /\ Distinct(merged)' = Distinct(merged) /\ Distinct(out)' = Distinct(out)
    BY <2>1 DEF Wanted, EnabledCategories, Selected, FirstBoth, Agreed, Places, FindingsOf,
                PlacesOf, Unconfirmed, Distinct
  <2>7. FlagsInv'
    <3>1. MergePairs' = MergePairs
      BY <2>1 DEF MergePairs, Of, Places
    <3>2. PerFileLimit(out)' = PerFileLimit(out)
      BY <2>1 DEF PerFileLimit
    <3>3. \A j : Overfull(j)' = Overfull(j) /\ Taken(j)' = Taken(j)
      BY <2>1, <2>5 DEF Overfull, Taken
    <3> QED BY <1>1, <2>1, <2>5, <3>1, <3>2, <3>3 DEF FlagsInv
  <2>8. Limited(merged)' = Limited(merged) /\ NothingLostIn(merged)' = NothingLostIn(merged)
    <3>1. \A k : CutOff(k)' = CutOff(k)
      BY <2>1, <2>5 DEF CutOff
    <3> QED BY <2>1, <2>5, <3>1 DEF Limited, PerFileLimit, NothingLostIn
  <2>9. IgnoreInv' /\ DedupeInv' /\ DoneInv'
    BY <1>1, <2>1, <2>5, <2>8 DEF IgnoreInv, DedupeInv, DoneInv
  <2> QED BY <2>2, <2>4, <2>7, <2>9
<1> QED BY <1>3, <1>4, <1>5, <1>6, <1>8, <1>9, <1>10, <1>11, <1>12, <1>13, <1>14 DEF Next

\* Whatever the tools report and the repository has configured, each loop of the stage
\* keeps its part of the invariant: what it has built so far answers for what it has
\* read so far.
THEOREM InvCorrect == Spec => []Inv
BY InitInv, StepInv, PTL DEF Spec

\* Merging pairs lists of any length one to one: each place has as many confirmed
\* entries as both tools reported there, and the model's come first in its order.
THEOREM MergePairsCorrect == Spec => []MergePairs
<1>1. Inv => MergePairs
  BY DEF Inv, FlagsInv, MergePairs
<1> QED BY <1>1, InvCorrect, PTL

\* Under any flags, limits and ignored files, what both tools reported is posted as
\* confirmed or not at all.
THEOREM AgreementSurvivesCorrect == Spec => []AgreementSurvives
<1>1. Inv => AgreementSurvives
  BY DEF Inv, DoneInv, Unconfirmed, Agreed, AgreementSurvives, Posted
<1> QED BY <1>1, InvCorrect, PTL

LEMMA PostedFacts ==
  /\ Places(Posted) = PlacesOf(merged)
  /\ merged \in Seq(Entry) => \A X : Count(Posted, X) = Count(merged, EntriesOf(X))
<1>1. DOMAIN Posted = DOMAIN merged /\ \A k \in DOMAIN merged : Posted[k] = merged[k].finding
  BY DEF Posted
<1>2. Places(Posted) = PlacesOf(merged)
  BY <1>1 DEF Places, PlacesOf
<1>4. ASSUME merged \in Seq(Entry), NEW X
      PROVE  Count(Posted, X) = Count(merged, EntriesOf(X))
  <2>1. \A k \in DOMAIN merged : Posted[k] \in X <=> merged[k] \in EntriesOf(X)
    BY <1>1, <1>4, EntriesOfFacts
  <2>2. {k \in DOMAIN Posted : Posted[k] \in X} = {k \in DOMAIN merged : merged[k] \in EntriesOf(X)}
    BY <1>1, <2>1
  <2> QED BY <2>2 DEF Count
<1> QED BY <1>2, <1>4

\* Under any flags, limits and ignored files, what is posted keeps the two limits, the
\* enabled categories, .sentinel-ignore and one comment for a place, all at once.
THEOREM PostedIsAllowedCorrect == Spec => []PostedIsAllowed
<1>1. Inv => PostedIsAllowed
  <2> SUFFICES ASSUME Inv, stage = "done" PROVE PostedIsAllowed
    BY DEF PostedIsAllowed
  <2>1. /\ Limited(merged) /\ Distinct(merged) /\ merged \in Seq(Entry)
        /\ \A k \in DOMAIN merged : merged[k].finding \in Wanted /\ merged[k].finding.file \notin ignored
    BY DEF Inv, TypeOK, DoneInv, FindingsOf
  <2>2. config.max_comments_per_file > 0 =>
          \A p \in File : Count(Posted, InFile(p)) <= config.max_comments_per_file
    BY <2>1, PostedFacts DEF Limited, PerFileLimit
  <2>3. config.max_comments > 0 => Len(merged) <= config.max_comments
    BY <2>1 DEF Limited
  <2>4. /\ \A k \in DOMAIN merged : Posted[k] \in Wanted /\ Posted[k].file \notin ignored
        /\ \A j, k \in DOMAIN merged : Place(Posted[j]) = Place(Posted[k]) => j = k
    BY <2>1 DEF Posted, Distinct
  <2> QED BY <2>2, <2>3, <2>4 DEF PostedIsAllowed
<1> QED BY <1>1, InvCorrect, PTL

\* Whatever is reported and configured, an entry of an enabled category whose place is
\* neither ignored nor posted had as many such entries before it in the merged list as a
\* limit admits; severity is no reason, and the ignored and the duplicates count.
THEOREM NothingLostCorrect == Spec => []NothingLost
<1>1. Inv => NothingLost
  BY PostedFacts DEF Inv, DoneInv, NothingLostIn, NothingLost
<1> QED BY <1>1, InvCorrect, PTL
=============================================================================
