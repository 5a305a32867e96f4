------------------------ MODULE ScenarioBuilderProofs ------------------------
(***************************************************************************)
(* Proofs about ScenarioBuilder and Scoring: what the form publishes is    *)
(* accepted, leaves no score without a branch, and judges in order.        *)
(*                                                                         *)
(* The three are consequences of the check of the form in any state of the *)
(* right types (TypeOK), however its author came there.  The branches that *)
(* cover the scores are ordered by Before: of those that begin at a score  *)
(* or below, the last one contains it (Covered).  The judgement is in      *)
(* order because every stage of it is: the signals (DetectedCalmer), their *)
(* weights (WeightGrows), the balance of the rubrics (BalanceInOrder), the *)
(* penalty (PenalisedInOrder) and the range (ClampInOrder).                *)
(***************************************************************************)
EXTENDS ScenarioBuilder, SequenceTheorems, FiniteSetTheorems, WellFoundedInduction, TLAPS

(* The fields of the form hold what can be entered in them. *)
TypeOK == entry \in Names \cup {Blank} /\ clips \in Seq(ClipForm)

(* What is left of a list, one entry deleted, has the same kind of entries. *)
LEMMA Removed ==
  ASSUME NEW S, NEW s \in Seq(S), NEW i \in DOMAIN s
  PROVE  RemoveAt(s, i) \in Seq(S)
<1>1. i \in 1..Len(s)
  OBVIOUS
<1>2. SubSeq(s, 1, i - 1) \in Seq(S)
  BY <1>1, SubSeqProperties
<1>3. SubSeq(s, i + 1, Len(s)) \in Seq(S)
  BY <1>1, SubSeqProperties
<1> QED
  BY <1>2, <1>3 DEF RemoveAt

(* An empty card is a card. *)
LEMMA EmptyTyped == EmptyClip \in ClipForm
<1>1. Everywhere \in Branch
  BY DEF Everywhere, Branch, Lowest, Beyond
<1>2. <<Everywhere>> \in Seq(Branch)
  BY <1>1
<1> QED
  BY <1>2, BuilderAssumption DEF EmptyClip, ClipForm

(* A card in place of another. *)
LEMMA UpdateTyped ==
  ASSUME TypeOK, NEW i \in DOMAIN clips, NEW clip \in ClipForm, Update(i, clip)
  PROVE  TypeOK'
BY DEF Update, TypeOK

(* A branch condition in place of another. *)
LEMMA BranchTyped ==
  ASSUME NEW clip \in ClipForm, NEW k \in DOMAIN clip.branches, NEW b \in Branch
  PROVE  [clip EXCEPT !.branches = [@ EXCEPT ![k] = b]] \in ClipForm
BY DEF ClipForm

(* Every edit of the form keeps TypeOK. *)
LEMMA TypeStep == TypeOK /\ [Next]_vars => TypeOK'
<1> SUFFICES ASSUME TypeOK, [Next]_vars PROVE TypeOK'
  OBVIOUS
<1> USE DEF TypeOK
<1>1. CASE AddClip
  BY <1>1, EmptyTyped DEF AddClip
<1>2. CASE EditEntry
  BY <1>2 DEF EditEntry
<1>3. ASSUME NEW i \in DOMAIN clips, RemoveClip(i) PROVE TypeOK'
  BY <1>3, Removed DEF RemoveClip
<1>4. ASSUME NEW i \in DOMAIN clips, MoveDown(i) PROVE TypeOK'
  <2>1. i + 1 \in DOMAIN clips
    BY <1>4 DEF MoveDown
  <2> QED
    BY <2>1, <1>4 DEF MoveDown
<1>5. ASSUME NEW i \in DOMAIN clips, EditClip(i) PROVE TypeOK'
  <2>1. clips[i] \in ClipForm
    OBVIOUS
  <2>2. ASSUME NEW name \in Names PROVE [clips[i] EXCEPT !.clip_id = name] \in ClipForm
    BY <2>1 DEF ClipForm
  <2>3. ASSUME NEW file \in Files PROVE [clips[i] EXCEPT !.file = file] \in ClipForm
    BY <2>1 DEF ClipForm
  <2> QED
    BY <2>2, <2>3, <1>5, UpdateTyped DEF EditClip
<1>6. ASSUME NEW i \in DOMAIN clips, EditNumbers(i) PROVE TypeOK'
  <2>1. clips[i] \in ClipForm
    OBVIOUS
  <2>2. CASE \E scoring \in Scorings : Update(i, [clips[i] EXCEPT !.scoring = scoring])
    <3>1. PICK scoring \in Scorings : Update(i, [clips[i] EXCEPT !.scoring = scoring])
      BY <2>2
    <3>2. [clips[i] EXCEPT !.scoring = scoring] \in ClipForm
      BY <2>1 DEF ClipForm
    <3> QED
      BY <3>1, <3>2, UpdateTyped
  <2>3. CASE \E range \in Ranges : Update(i, [clips[i] EXCEPT !.range = range])
    <3>1. PICK range \in Ranges : Update(i, [clips[i] EXCEPT !.range = range])
      BY <2>3
    <3>2. [clips[i] EXCEPT !.range = range] \in ClipForm
      BY <2>1 DEF ClipForm
    <3> QED
      BY <3>1, <3>2, UpdateTyped
  <2>4. CASE Update(i, [clips[i] EXCEPT !.branches = Append(@, Everywhere)])
    <3>1. Everywhere \in Branch
      BY DEF Everywhere, Branch, Lowest, Beyond
    <3>2. Append(clips[i].branches, Everywhere) \in Seq(Branch)
      <4>1. clips[i].branches \in Seq(Branch)
        BY <2>1 DEF ClipForm
      <4> QED
        BY <4>1, <3>1
    <3>3. [clips[i] EXCEPT !.branches = Append(@, Everywhere)] \in ClipForm
      BY <2>1, <3>2 DEF ClipForm
    <3> QED
      BY <2>4, <3>3, UpdateTyped
  <2>5. CASE \E k \in DOMAIN clips[i].branches :
               Update(i, [clips[i] EXCEPT !.branches = RemoveAt(@, k)])
    <3>1. PICK k \in DOMAIN clips[i].branches :
            Update(i, [clips[i] EXCEPT !.branches = RemoveAt(@, k)])
      BY <2>5
    <3>2. RemoveAt(clips[i].branches, k) \in Seq(Branch)
      BY <2>1, Removed DEF ClipForm
    <3>3. [clips[i] EXCEPT !.branches = RemoveAt(@, k)] \in ClipForm
      BY <2>1, <3>2 DEF ClipForm
    <3> QED
      BY <3>1, <3>3, UpdateTyped
  <2>6. CASE \E k \in DOMAIN clips[i].branches, interval \in Intervals :
               Update(i, [clips[i] EXCEPT !.branches[k].min = interval[1],
                                          !.branches[k].max = interval[2]])
    <3>1. PICK k \in DOMAIN clips[i].branches, interval \in Intervals :
            Update(i, [clips[i] EXCEPT !.branches[k].min = interval[1],
                                       !.branches[k].max = interval[2]])
      BY <2>6
    <3>2. clips[i].branches[k] \in Branch
      BY <2>1 DEF ClipForm
    <3> DEFINE b == [clips[i].branches[k] EXCEPT !.min = interval[1], !.max = interval[2]]
    <3>3. b \in Branch
      BY <3>2, BuilderAssumption DEF Branch
    <3>4. [clips[i] EXCEPT !.branches = [@ EXCEPT ![k] = b]] \in ClipForm
      BY <2>1, <3>3, BranchTyped
    <3>5. [clips[i] EXCEPT !.branches[k].min = interval[1], !.branches[k].max = interval[2]]
            = [clips[i] EXCEPT !.branches = [@ EXCEPT ![k] = b]]
      BY <2>1, <3>2 DEF ClipForm, Branch
    <3> QED
      BY <3>1, <3>4, <3>5, UpdateTyped
  <2> QED
    BY <2>2, <2>3, <2>4, <2>5, <2>6, <1>6 DEF EditNumbers
<1>7. ASSUME NEW i \in DOMAIN clips, ChooseNext(i) PROVE TypeOK'
  <2>1. clips[i] \in ClipForm
    OBVIOUS
  <2>2. PICK k \in DOMAIN clips[i].branches, next \in DefinedIds \cup {Null} :
          Update(i, [clips[i] EXCEPT !.branches[k].next = next])
    BY <1>7 DEF ChooseNext
  <2>3. clips[i].branches[k] \in Branch
    BY <2>1 DEF ClipForm
  <2>4. next \in Names \cup {Null}
    <3>1. ASSUME NEW j \in DOMAIN clips PROVE clips[j].clip_id \in Names \cup {Blank}
      <4>1. clips[j] \in ClipForm
        OBVIOUS
      <4> QED
        BY <4>1 DEF ClipForm
    <3>2. DefinedIds \subseteq Names
      BY <3>1 DEF DefinedIds
    <3> QED
      BY <3>2
  <2> DEFINE b == [clips[i].branches[k] EXCEPT !.next = next]
  <2>5. b \in Branch
    BY <2>3, <2>4 DEF Branch
  <2>6. [clips[i] EXCEPT !.branches = [@ EXCEPT ![k] = b]] \in ClipForm
    BY <2>1, <2>5, BranchTyped
  <2>7. [clips[i] EXCEPT !.branches[k].next = next]
          = [clips[i] EXCEPT !.branches = [@ EXCEPT ![k] = b]]
    BY <2>1, <2>3 DEF ClipForm, Branch
  <2> QED
    BY <2>2, <2>6, <2>7, UpdateTyped
<1>8. CASE UNCHANGED vars
  BY <1>8 DEF vars
<1> QED
  BY <1>1, <1>2, <1>3, <1>4, <1>5, <1>6, <1>7, <1>8 DEF Next

(* The empty form has it. *)
LEMMA TypeInit == Init => TypeOK
BY EmptyTyped DEF Init, TypeOK

(* Whatever is typed, chosen, added, moved or removed, every card of the form
   stays a card: numbers or nothing as bounds, and next clips that once were
   ids. *)
THEOREM TypeAlways == Spec => []TypeOK
<1> QED
  BY TypeInit, TypeStep, PTL DEF Spec
-----------------------------------------------------------------------------
(* Sets of numbers. *)

(* A set of natural numbers has a least element. *)
LEMMA NatLeast ==
  ASSUME NEW S \in SUBSET Nat, S # {}
  PROVE  \E m \in S : \A n \in S : m <= n
<1> DEFINE R == OpToRel(<, Nat)
<1>1. IsWellFoundedOn(R, Nat)
  BY NatLessThanWellFounded
<1> HIDE DEF R
<1>2. PICK m \in S : \A n \in S : ~(<<n, m>> \in R)
  BY <1>1, WFMin
<1>3. ASSUME NEW n \in S PROVE m <= n
  <2> SUFFICES ASSUME n < m PROVE FALSE
    OBVIOUS
  <2>1. <<n, m>> \in R
    BY DEF R, OpToRel
  <2> QED
    BY <1>2, <2>1, Zenon
<1> QED
  BY <1>3

(* So has a set of integers that is bounded below. *)
LEMMA IntLeast ==
  ASSUME NEW S \in SUBSET Int, S # {}, NEW low \in Int, \A x \in S : low <= x
  PROVE  \E m \in S : \A n \in S : m <= n
<1> DEFINE U == {x - low : x \in S}
<1>1. U \in SUBSET Nat
  OBVIOUS
<1>2. U # {}
  OBVIOUS
<1>3. PICK u \in U : \A v \in U : u <= v
  BY <1>1, <1>2, NatLeast
<1>4. PICK m \in S : u = m - low
  OBVIOUS
<1>5. ASSUME NEW n \in S PROVE m <= n
  <2>1. u <= n - low
    BY <1>3
  <2> QED
    BY <2>1, <1>4
<1> QED
  BY <1>5

(* One that is bounded above has a greatest. *)
LEMMA IntGreatest ==
  ASSUME NEW S \in SUBSET Int, S # {}, NEW high \in Int, \A x \in S : x <= high
  PROVE  \E m \in S : \A n \in S : n <= m
<1> DEFINE U == {high - x : x \in S}
<1>1. U \in SUBSET Nat
  OBVIOUS
<1>2. U # {}
  OBVIOUS
<1>3. PICK u \in U : \A v \in U : u <= v
  BY <1>1, <1>2, NatLeast
<1>4. PICK m \in S : u = high - m
  OBVIOUS
<1>5. ASSUME NEW n \in S PROVE n <= m
  <2>1. u <= high - n
    BY <1>3
  <2> QED
    BY <2>1, <1>4
<1> QED
  BY <1>5

-----------------------------------------------------------------------------
(* Branch conditions in their order. *)

(* The bounds of a condition that is checked are numbers. *)
LEMMA NumericTyped ==
  ASSUME NEW branches \in Seq(Branch), NEW k \in Numeric(branches)
  PROVE  k \in 1..Len(branches) /\ branches[k].min \in Int /\ branches[k].max \in Int
<1>1. k \in 1..Len(branches) /\ branches[k].min # Blank /\ branches[k].max # Blank
  BY DEF Numeric
<1>2. branches[k] \in Branch
  BY <1>1
<1> QED
  BY <1>1, <1>2 DEF Branch

(* Of conditions that begin no later than s, one is the last. *)
LEMMA GreatestBefore ==
  ASSUME NEW branches \in Seq(Branch), NEW T \in SUBSET Numeric(branches), T # {},
         NEW s \in Int, \A k \in T : branches[k].min <= s
  PROVE  \E j \in T : \A k \in T : ~Before(branches, j, k)
<1> DEFINE Mins == {branches[k].min : k \in T}
<1>1. \A k \in T : k \in 1..Len(branches) /\ branches[k].min \in Int
  BY NumericTyped
<1>2. Mins \in SUBSET Int /\ Mins # {} /\ \A x \in Mins : x <= s
  BY <1>1
<1>3. PICK m \in Mins : \A x \in Mins : x <= m
  BY <1>2, IntGreatest
<1> DEFINE Tops == {k \in T : branches[k].min = m}
<1>4. Tops \in SUBSET Int /\ Tops # {} /\ \A k \in Tops : k <= Len(branches)
  BY <1>1, <1>3
<1>5. PICK j \in Tops : \A k \in Tops : k <= j
  <2>1. Len(branches) \in Int
    OBVIOUS
  <2> HIDE DEF Tops
  <2> QED
    BY <1>4, <2>1, IntGreatest
<1>6. ASSUME NEW k \in T, Before(branches, j, k) PROVE FALSE
  <2>1. branches[k].min <= m /\ branches[j].min = m
    BY <1>3
  <2>2. branches[k].min = m /\ j < k
    BY <2>1, <1>1, <1>6 DEF Before
  <2> QED
    BY <2>2, <1>5, <1>1
<1> QED
  BY <1>6

(* Of conditions that begin no earlier than s, one is the first. *)
LEMMA LeastBefore ==
  ASSUME NEW branches \in Seq(Branch), NEW T \in SUBSET Numeric(branches), T # {},
         NEW s \in Int, \A k \in T : s <= branches[k].min
  PROVE  \E j \in T : \A k \in T : ~Before(branches, k, j)
<1> DEFINE Mins == {branches[k].min : k \in T}
<1>1. \A k \in T : k \in 1..Len(branches) /\ branches[k].min \in Int
  BY NumericTyped
<1>2. Mins \in SUBSET Int /\ Mins # {} /\ \A x \in Mins : s <= x
  BY <1>1
<1>3. PICK m \in Mins : \A x \in Mins : m <= x
  BY <1>2, IntLeast
<1> DEFINE Tops == {k \in T : branches[k].min = m}
<1>4. Tops \in SUBSET Int /\ Tops # {} /\ \A k \in Tops : 1 <= k
  BY <1>1, <1>3
<1>5. PICK j \in Tops : \A k \in Tops : j <= k
  <2>1. 1 \in Int
    OBVIOUS
  <2> HIDE DEF Tops
  <2> QED
    BY <1>4, <2>1, IntLeast
<1>6. ASSUME NEW k \in T, Before(branches, k, j) PROVE FALSE
  <2>1. m <= branches[k].min /\ branches[j].min = m
    BY <1>3
  <2>2. branches[k].min = m /\ k < j
    BY <2>1, <1>1, <1>6 DEF Before
  <2> QED
    BY <2>2, <1>5, <1>1
<1> QED
  BY <1>6

(* If a list of conditions passes the check, each score is in one of them or
   in a hole of less than the tolerance: in the last one that begins no later,
   which ends beyond the highest score or close to where the next one begins,
   and that is later than the score. *)
LEMMA Covered ==
  ASSUME NEW branches \in Seq(Branch), Covers(branches), NEW s, IsScore(s)
  PROVE  \/ \E k \in Numeric(branches) : branches[k].min <= s /\ s < branches[k].max
         \/ \E k \in Numeric(branches), end \in Int :
              /\ end = Lowest \/ \E j \in Numeric(branches) : end = branches[j].max
              /\ Near(branches[k].min, end) /\ end <= s /\ s < branches[k].min
<1> DEFINE N == Numeric(branches)
           T == {k \in N : branches[k].min <= s}
<1>1. \A k \in N : k \in 1..Len(branches) /\ branches[k].min \in Int /\ branches[k].max \in Int
  BY NumericTyped
<1>2. CASE T = {}
  <2>1. PICK f \in N : Near(branches[f].min, Lowest)
    BY DEF Covers
  <2>2. ~(branches[f].min <= s)
    BY <1>2
  <2>3. Lowest \in Int /\ Lowest <= s /\ s < branches[f].min
    BY <1>1, <2>2 DEF IsScore, Lowest
  <2> QED
    BY <2>1, <2>3
<1>3. CASE T # {}
  <2>1. PICK j \in T : \A k \in T : ~Before(branches, j, k)
    <3>1. s \in Int
      BY DEF IsScore
    <3>2. T \in SUBSET Numeric(branches) /\ \A k \in T : branches[k].min <= s
      OBVIOUS
    <3> HIDE DEF T
    <3> QED
      BY <1>3, <3>1, <3>2, GreatestBefore
  <2>2. j \in N /\ branches[j].min <= s
    BY <2>1
  <2>3. CASE Final(branches, j)
    <3>1. PICK f \in N : Final(branches, f) /\ Near(branches[f].max, Beyond)
      BY DEF Covers
    <3>2. ~Before(branches, f, j) /\ ~Before(branches, j, f)
      BY <3>1, <2>2, <2>3 DEF Final
    <3>3. f = j
      BY <3>2, <2>2, <1>1 DEF Before
    <3>4. s < branches[j].max
      BY <3>1, <3>3, <1>1 DEF IsScore, Near, Tolerance, Highest, Beyond
    <3> QED
      BY <3>4, <2>2
  <2>4. CASE ~Final(branches, j)
    <3> DEFINE After == {k \in N : Before(branches, j, k)}
    <3>1. After # {}
      BY <2>4 DEF Final
    <3>2. \A k \in After : branches[j].min <= branches[k].min
      BY <1>1, <2>2 DEF Before
    <3>3. PICK k \in After : \A i \in After : ~Before(branches, i, k)
      BY <3>1, <3>2, <2>2, <1>1, LeastBefore
    <3>4. Adjoining(branches, j, k)
      BY <3>3 DEF Adjoining
    <3>5. Near(branches[k].min, branches[j].max)
      BY <3>3, <3>4, <2>2 DEF Covers
    <3>6. ~(branches[k].min <= s)
      BY <2>1, <3>3
    <3>7. s < branches[k].min /\ s \in Int /\ branches[j].max \in Int
      BY <3>3, <3>6, <2>2, <1>1 DEF IsScore
    <3>8. CASE s < branches[j].max
      BY <3>8, <2>2
    <3>9. CASE branches[j].max <= s
      BY <3>9, <3>3, <3>5, <3>7, <2>2
    <3> QED
      BY <3>7, <3>8, <3>9
  <2> QED
    BY <2>3, <2>4
<1> QED
  BY <1>2, <1>3

-----------------------------------------------------------------------------
(* From the form to the scenario. *)

(* What a card of the form consists of. *)
LEMMA Cards ==
  ASSUME TypeOK, NEW i \in DOMAIN clips
  PROVE  /\ clips[i] \in ClipForm
         /\ clips[i].branches \in Seq(Branch)
         /\ clips[i].range \in Ranges
         /\ clips[i].scoring \in Scorings
<1>1. clips[i] \in ClipForm
  BY DEF TypeOK
<1> QED
  BY <1>1 DEF ClipForm

(* Each clip of the scenario is written from a card with its id. *)
LEMMA CardOf ==
  ASSUME NEW name \in DefinedIds
  PROVE  \E i \in DOMAIN clips :
           clips[i].clip_id = name /\ Serialised.clips[name] = ClipWritten(clips[i])
<1> DEFINE i == CHOOSE j \in DOMAIN clips : clips[j].clip_id = name
<1>1. \E j \in DOMAIN clips : clips[j].clip_id = name
  BY DEF DefinedIds
<1>2. i \in DOMAIN clips /\ clips[i].clip_id = name
  BY <1>1, Zenon
<1>3. Serialised.clips[name] = ClipWritten(clips[i])
  BY Zenon DEF Serialised
<1> QED
  BY <1>2, <1>3, Zenon

(* The scenario has the clips that were given an id. *)
LEMMA SerialisedDomain == DOMAIN Serialised.clips = DefinedIds
BY Zenon DEF Serialised

(* Conditions that pass the check are not none. *)
LEMMA SomeBranch ==
  ASSUME NEW branches, Covers(branches)
  PROVE  \E k \in DOMAIN branches : TRUE
BY DEF Covers, Numeric

(* In a state of the right types, the loader agrees with the form. *)
LEMMA FormAgreesIn == TypeOK => FormAgreesWithLoader
<1> SUFFICES ASSUME TypeOK, FormValid, LoaderWants PROVE LoaderAccepts(Serialised)
  BY DEF FormAgreesWithLoader
<1> USE SerialisedDomain
<1>1. Serialised.entry \in DefinedIds
  BY DEF FormValid, EntryDefined, LoaderWants, Serialised
<1>2. ASSUME NEW name \in DefinedIds
      PROVE  /\ Serialised.clips[name].file # Blank
             /\ Serialised.clips[name].branches # <<>>
             /\ \A k \in DOMAIN Serialised.clips[name].branches :
                  Serialised.clips[name].branches[k].next \in DefinedIds \cup {Null}
  <2>1. PICK i \in DOMAIN clips : Serialised.clips[name] = ClipWritten(clips[i])
    BY CardOf
  <2> DEFINE old == clips[i].branches
             new == Serialised.clips[name].branches
  <2>2. Serialised.clips[name].file = clips[i].file
    BY <2>1 DEF ClipWritten
  <2>3. new = [k \in DOMAIN old |-> BranchWritten(old[k])]
    BY <2>1 DEF ClipWritten
  <2>4. clips[i].file # Blank /\ Covers(old) /\ References(old)
    BY DEF FormValid
  <2>5. PICK k \in DOMAIN old : TRUE
    BY <2>4, SomeBranch
  <2>6. new # <<>>
    BY <2>3, <2>5
  <2>7. ASSUME NEW n \in DOMAIN new PROVE new[n].next \in DefinedIds \cup {Null}
    <3>1. n \in DOMAIN old /\ new[n].next = old[n].next
      BY <2>3 DEF BranchWritten
    <3> QED
      BY <3>1, <2>4 DEF References
  <2> QED
    BY <2>2, <2>4, <2>6, <2>7
<1>3. ASSUME NEW a \in DefinedIds, NEW b \in DefinedIds,
             Serialised.clips[a].file = Serialised.clips[b].file
      PROVE  a = b
  <2>1. PICK i \in DOMAIN clips : clips[i].clip_id = a /\ Serialised.clips[a] = ClipWritten(clips[i])
    BY CardOf
  <2>2. PICK j \in DOMAIN clips : clips[j].clip_id = b /\ Serialised.clips[b] = ClipWritten(clips[j])
    BY CardOf
  <2>3. clips[i].file = clips[j].file
    BY <2>1, <2>2, <1>3 DEF ClipWritten
  <2> QED
    BY <2>1, <2>2, <2>3 DEF LoaderWants
<1> QED
  BY <1>1, <1>2, <1>3 DEF LoaderAccepts

(* Whatever edits led to it, a form that passes validateForm() is accepted by
   validate() of the loader, but for an entry clip and distinct files. *)
THEOREM FormAgreesAlways == Spec => []FormAgreesWithLoader
<1> QED
  BY TypeAlways, FormAgreesIn, PTL

-----------------------------------------------------------------------------
(* Branching. *)

(* The range of a clip is written as two numbers. *)
LEMMA RangeTyped ==
  ASSUME NEW range \in Ranges
  PROVE  RangeWritten(range).min \in Int /\ RangeWritten(range).max \in Int
<1>1. range.min \in Int \cup {Blank} /\ range.max \in Int \cup {Blank}
  BY BuilderAssumption DEF Bounds
<1> QED
  BY <1>1 DEF RangeWritten, Falsy, Lowest, Highest

(* A range that meets the scores takes scores to scores. *)
LEMMA ClampWithin ==
  ASSUME NEW range, range.min \in Int, range.max \in Int, Meets(range),
         NEW raw, IsScore(raw)
  PROVE  IsScore(Clamp(raw, range))
BY DEF IsScore, Meets, Clamp, Lowest, Highest

(* resolveNextClip() follows one of the conditions that match, if any does. *)
LEMMA FirstMatches ==
  ASSUME NEW branches, NEW n \in Nat, DOMAIN branches = 1..n,
         NEW score, Matching(branches, score) # {}
  PROVE  \E k \in Matching(branches, score) : ResolveNextClip(branches, score) = branches[k].next
<1> DEFINE M == Matching(branches, score)
<1>1. M \in SUBSET Nat
  BY DEF Matching
<1>2. PICK m \in M : \A j \in M : m <= j
  BY <1>1, NatLeast
<1>3. FirstOf(M) \in M
  BY <1>2 DEF FirstOf
<1> QED
  BY <1>3 DEF ResolveNextClip

(* Every score, not only those that Scores samples, leads to a clip that was
   announced or to the end, and only in a seam without a branch. *)
LEMMA EveryScoreLeads ==
  ASSUME TypeOK, FormValid, NEW name \in DefinedIds, NEW score, IsScore(score)
  PROVE  LET branches == Serialised.clips[name].branches
         IN  /\ Matching(branches, score) # {} \/ InSeam(branches, score)
             /\ ResolveNextClip(branches, score) \in Candidates(Serialised, branches) \cup {Null}
<1>1. PICK i \in DOMAIN clips : Serialised.clips[name] = ClipWritten(clips[i])
  BY CardOf
<1> DEFINE old == clips[i].branches
           new == Serialised.clips[name].branches
<1>2. old \in Seq(Branch)
  BY Cards
<1>3. new = [k \in DOMAIN old |-> BranchWritten(old[k])]
  BY <1>1 DEF ClipWritten
<1>4. Covers(old) /\ References(old)
  BY DEF FormValid
<1>5. DOMAIN new = 1..Len(old) /\ Len(old) \in Nat
  BY <1>2, <1>3
<1>6. score \in Int
  BY DEF IsScore
<1>7. ASSUME NEW k \in Numeric(old)
      PROVE  /\ k \in DOMAIN new /\ new[k].min = old[k].min /\ new[k].max = old[k].max
             /\ old[k].min \in Int /\ old[k].max \in Int
  <2>1. k \in DOMAIN old /\ old[k].min # Blank /\ old[k].max # Blank
    BY DEF Numeric
  <2>2. old[k].min \in Int /\ old[k].max \in Int
    BY <1>2, NumericTyped
  <2> QED
    BY <1>3, <2>1, <2>2 DEF BranchWritten, BoundWritten
<1>8. Matching(new, score) # {} \/ InSeam(new, score)
  <2>1. CASE \E k \in Numeric(old) : old[k].min <= score /\ score < old[k].max
    <3>1. PICK k \in Numeric(old) : old[k].min <= score /\ score < old[k].max
      BY <2>1
    <3>2. AsNumber(new[k].min) = old[k].min /\ AsNumber(new[k].max) = old[k].max
      BY <1>7, BuilderAssumption DEF AsNumber
    <3>3. k \in Matching(new, score)
      BY <1>6, <1>7, <3>1, <3>2 DEF Matching
    <3> QED
      BY <3>3
  <2>2. CASE \E k \in Numeric(old), end \in Int :
               /\ end = Lowest \/ \E j \in Numeric(old) : end = old[j].max
               /\ Near(old[k].min, end) /\ end <= score /\ score < old[k].min
    <3>1. PICK k \in Numeric(old), end \in Int :
            /\ end = Lowest \/ \E j \in Numeric(old) : end = old[j].max
            /\ Near(old[k].min, end) /\ end <= score /\ score < old[k].min
      BY <2>2
    <3>2. end \in {Lowest} \cup {new[j].max : j \in DOMAIN new}
      BY <1>7, <3>1
    <3> QED
      BY <1>7, <3>1, <3>2 DEF InSeam
  <2> QED
    BY <1>2, <1>4, <2>1, <2>2, Covered
<1>9. ResolveNextClip(new, score) \in Candidates(Serialised, new) \cup {Null}
  <2>1. CASE Matching(new, score) = {}
    BY <2>1 DEF ResolveNextClip
  <2>2. CASE Matching(new, score) # {}
    <3>1. PICK m \in Matching(new, score) : ResolveNextClip(new, score) = new[m].next
      BY <1>5, <2>2, FirstMatches
    <3>2. m \in DOMAIN new /\ m \in DOMAIN old /\ new[m].next = old[m].next
      BY <1>3 DEF Matching, BranchWritten
    <3>3. new[m].next \in DefinedIds \cup {Null}
      BY <1>4, <3>2 DEF References
    <3> QED
      BY <3>1, <3>2, <3>3, SerialisedDomain DEF Candidates
  <2> QED
    BY <2>1, <2>2
<1> QED
  BY <1>8, <1>9

(* What a clip can get is a score, whatever its range. *)
LEMMA AttainableScores ==
  ASSUME TypeOK, NEW name \in DefinedIds, NEW score \in Attainable(Serialised.clips[name])
  PROVE  IsScore(score)
<1> DEFINE clip == Serialised.clips[name]
<1>1. PICK i \in DOMAIN clips : clip = ClipWritten(clips[i])
  BY CardOf
<1>2. clip.range.min \in Int /\ clip.range.max \in Int
  BY <1>1, Cards, RangeTyped DEF ClipWritten
<1>3. CASE score = Fallback
  BY <1>3 DEF IsScore, Fallback, Lowest, Highest
<1>4. CASE /\ Meets(clip.range)
           /\ score \in {Clamp(raw, clip.range) : raw \in Scores(clip.branches, clip.range)}
  <2>1. PICK raw \in Scores(clip.branches, clip.range) : score = Clamp(raw, clip.range)
    BY <1>4
  <2>2. IsScore(raw)
    BY DEF Scores
  <2> QED
    BY <1>2, <1>4, <2>1, <2>2, ClampWithin
<1> QED
  BY <1>3, <1>4 DEF Attainable

(* In particular those that Scores samples. *)
LEMMA NeverStrandedIn == TypeOK => NeverStranded
<1> SUFFICES ASSUME TypeOK, FormValid, NEW name \in DefinedIds,
                    NEW score \in Attainable(Serialised.clips[name])
             PROVE  LET clip == Serialised.clips[name]
                    IN  /\ Matching(clip.branches, score) # {} \/ InSeam(clip.branches, score)
                        /\ ResolveNextClip(clip.branches, score)
                             \in Candidates(Serialised, clip.branches) \cup {Null}
  BY SerialisedDomain, Zenon DEF NeverStranded
<1> QED
  BY AttainableScores, EveryScoreLeads

(* However many branches a clip has, and wherever their bounds: no score that
   the Evaluation container can send for a clip of a published scenario, nor
   the one the app puts in its place, falls between two of them but into a hole
   narrower than the tolerance of validateForm(); and the branch it falls in
   leads to a candidate the client was told of, or ends the scenario. *)
THEOREM NeverStrandedAlways == Spec => []NeverStranded
<1> QED
  BY TypeAlways, NeverStrandedIn, PTL

-----------------------------------------------------------------------------
(* Judging. *)

(* The signals A have all the positive ones of B, and no negative ones besides. *)
Calmer(A, B) == B \cap Positive \subseteq A /\ A \cap Negative \subseteq B

(* Whatever is missing of a response, its measurement is one. *)
LEMMA MeasuredTyped ==
  ASSUME NEW r \in Response, NEW seconds \in Nat \ {0}
  PROVE  Measured(r, seconds) \in Measurement
<1> USE DEF Response
<1>1. Tension(r) \in Int
  BY DEF Tension
<1>2. OpenHands(r) \in Int \cup {Missing}
  BY DEF OpenHands
<1>3. Facing(r) \in Int
  BY DEF Facing
<1>4. Pace(r) \in Nat
  BY DEF Pace
<1>5. Silence(r, seconds) \in Int
  BY DEF Silence, Clip01
<1>6. (IF r.frames = 0 THEN 0 ELSE r.nod) \in Int
  OBVIOUS
<1> QED
  BY <1>1, <1>2, <1>3, <1>4, <1>5, <1>6 DEF Measured, Measurement

(* A measurement that is no less calm yields signals that are calmer, group by
   group. *)
LEMMA DetectedCalmer ==
  ASSUME NEW a \in Measurement, NEW b \in Measurement, NoLessCalm(a, b)
  PROVE  Calmer(Detected(a), Detected(b))
<1> USE DEF Calmer, Grade, Positive, Negative
<1> DEFINE Voice(m) == Grade(m.tension <= Limits.calm, "calm_voice",
                             m.tension >= Limits.raised, "raised_voice")
           Speech(m) == IF m.pace = 0 THEN {}
                        ELSE Grade(m.pace <= Limits.measured, "measured_pace",
                                   m.pace >= Limits.fast, "fast_speech")
           Gesture(m) == IF m.open = Missing THEN {} ELSE Hands(m)
           Listening(m) == IF m.nod >= Limits.nod THEN {"active_listening"} ELSE {}
           Pause(m) == Grade(Limits.silent_min <= m.silence /\ m.silence <= Limits.silent_max,
                             "appropriate_silence", m.silence >= Limits.long, "long_silence")
           Coldness(m) == IF m.markers \cap Empathic = {} THEN {"no_empathy"} ELSE {}
           Tone(m) == Grade(m.tone = "positive", "positive_tone",
                            m.tone = "negative", "negative_tone")
<1>1. Calmer(Voice(a), Voice(b))
  <2>1. a.tension \in Int /\ b.tension \in Int /\ a.tension <= b.tension
    BY DEF NoLessCalm, Measurement
  <2>2. Limits.calm \in Int /\ Limits.raised \in Int /\ Limits.calm < Limits.raised
    BY LimitsAssumption DEF Thresholds
  <2> QED
    BY <2>1, <2>2
<1>2. Calmer(Speech(a), Speech(b))
  <2>1. a.pace \in Nat /\ b.pace \in Nat /\ (a.pace = b.pace \/ (a.pace > 0 /\ a.pace <= b.pace))
    BY DEF NoLessCalm, Measurement
  <2>2. Limits.measured \in Int /\ Limits.fast \in Int /\ Limits.measured < Limits.fast
    BY LimitsAssumption DEF Thresholds
  <2> QED
    BY <2>1, <2>2
<1>3. Calmer(Gesture(a), Gesture(b))
  <2>1. CASE a.open = b.open
    BY <2>1 DEF Hands
  <2>2. CASE Missing \notin {a.open, b.open} /\ a.open >= b.open
    <3>1. a.open \in Int /\ b.open \in Int
      BY <2>2 DEF Measurement
    <3>2. Limits.closed \in Int /\ Limits.open \in Int /\ Limits.closed < Limits.open
      BY LimitsAssumption DEF Thresholds
    <3>3. Calmer(Hands(a), Hands(b))
      BY <2>2, <3>1, <3>2 DEF Hands
    <3> QED
      BY <2>2, <3>3
  <2> QED
    BY <2>1, <2>2 DEF NoLessCalm
<1>4. Calmer(Listening(a), Listening(b))
  <2>1. a.nod \in Int /\ b.nod \in Int /\ a.nod >= b.nod
    BY DEF NoLessCalm, Measurement
  <2>2. Limits.nod \in Int
    BY LimitsAssumption DEF Thresholds
  <2> QED
    BY <2>1, <2>2
<1>5. Calmer(Posture(a), Posture(b))
  <2>1. a.facing \in Int /\ b.facing \in Int /\ a.facing >= b.facing
    BY DEF NoLessCalm, Measurement
  <2>2. Limits.away \in Int /\ Limits.facing \in Int /\ Limits.away < Limits.facing
    BY LimitsAssumption DEF Thresholds
  <2> QED
    BY <2>1, <2>2 DEF Posture
<1>6. Calmer(Pause(a), Pause(b))
  BY DEF NoLessCalm
<1>7. Calmer(a.markers, b.markers)
  BY DEF Empathic, NoLessCalm, Measurement
<1>8. Calmer(Coldness(a), Coldness(b))
  BY DEF Empathic, NoLessCalm, Measurement
<1>9. Calmer(Tone(a), Tone(b))
  BY DEF Rank, NoLessCalm, Measurement
<1>10. \A m : Detected(m) = UNION {Voice(m), Speech(m), Gesture(m), Listening(m), Posture(m),
                                   Pause(m), m.markers, Coldness(m), Tone(m)}
  BY Zenon DEF Detected
<1> HIDE DEF Voice, Speech, Gesture, Listening, Pause, Coldness, Tone, Positive, Negative,
             Grade
<1>11. Detected(b) \cap Positive \subseteq Detected(a)
  BY <1>1, <1>2, <1>3, <1>4, <1>5, <1>6, <1>7, <1>8, <1>9, <1>10
<1>12. Detected(a) \cap Negative \subseteq Detected(b)
  BY <1>1, <1>2, <1>3, <1>4, <1>5, <1>6, <1>7, <1>8, <1>9, <1>10
<1> QED
  BY <1>11, <1>12

(* A rubric without negative weights gives more signals no less weight.  The
   sum is taken in four parts. *)
LEMMA WeightGrows ==
  ASSUME NEW rubric, \A signal \in DOMAIN rubric : rubric[signal] \in Nat,
         NEW X, NEW Y, DOMAIN rubric \cap X \subseteq Y
  PROVE  /\ Weight(rubric, X) \in Nat /\ Weight(rubric, Y) \in Nat
         /\ Weight(rubric, X) <= Weight(rubric, Y)
<1> DEFINE Grows(signal) ==
             /\ Worth(rubric, X, signal) \in Nat /\ Worth(rubric, Y, signal) \in Nat
             /\ Worth(rubric, X, signal) <= Worth(rubric, Y, signal)
<1>1. ASSUME NEW signal PROVE Grows(signal)
  BY DEF Worth
<1>2. /\ Grows("raised_voice") /\ Grows("fast_speech") /\ Grows("turning_away")
      /\ Grows("closed_gesture") /\ Grows("negative_tone") /\ Grows("long_silence")
      /\ Grows("no_empathy") /\ Grows("calm_voice") /\ Grows("measured_pace")
      /\ Grows("active_listening") /\ Grows("open_posture") /\ Grows("open_gesture")
      /\ Grows("empathy_phrase") /\ Grows("open_question") /\ Grows("validation")
      /\ Grows("positive_tone") /\ Grows("appropriate_silence")
  BY <1>1, Zenon
<1> DEFINE
  Sum1(Z) ==
    Worth(rubric, Z, "raised_voice") + Worth(rubric, Z, "fast_speech")
       + Worth(rubric, Z, "turning_away") + Worth(rubric, Z, "closed_gesture")
       + Worth(rubric, Z, "negative_tone")
  Sum2(Z) ==
    Sum1(Z) + Worth(rubric, Z, "long_silence") + Worth(rubric, Z, "no_empathy")
       + Worth(rubric, Z, "calm_voice") + Worth(rubric, Z, "measured_pace")
  Sum3(Z) ==
    Sum2(Z) + Worth(rubric, Z, "active_listening")
       + Worth(rubric, Z, "open_posture") + Worth(rubric, Z, "open_gesture")
       + Worth(rubric, Z, "empathy_phrase")
  Sum4(Z) ==
    Sum3(Z) + Worth(rubric, Z, "open_question") + Worth(rubric, Z, "validation")
       + Worth(rubric, Z, "positive_tone")
       + Worth(rubric, Z, "appropriate_silence")
<1>3. Sum1(X) \in Nat /\ Sum1(Y) \in Nat /\ Sum1(X) <= Sum1(Y)
  BY <1>2
<1> HIDE DEF Sum1
<1>4. Sum2(X) \in Nat /\ Sum2(Y) \in Nat /\ Sum2(X) <= Sum2(Y)
  BY <1>2, <1>3
<1> HIDE DEF Sum2
<1>5. Sum3(X) \in Nat /\ Sum3(Y) \in Nat /\ Sum3(X) <= Sum3(Y)
  BY <1>2, <1>4
<1> HIDE DEF Sum3
<1>6. Sum4(X) \in Nat /\ Sum4(Y) \in Nat /\ Sum4(X) <= Sum4(Y)
  BY <1>2, <1>5
<1> HIDE DEF Sum4
<1>7. \A Z : Weight(rubric, Z) = Sum4(Z)
  BY DEF Weight, Sum1, Sum2, Sum3, Sum4
<1> QED
  BY <1>6, <1>7

(* Division by a positive number, rounded down, keeps the order. *)
LEMMA DivGrows ==
  ASSUME NEW a \in Int, NEW b \in Int, NEW t \in Nat \ {0}, a <= b
  PROVE  a \div t \in Int /\ b \div t \in Int /\ a \div t <= b \div t
<1> DEFINE p == a \div t
           q == b \div t
<1>1. p \in Int /\ q \in Int
  OBVIOUS
<1>2. t * p <= a /\ b < t * q + t
  OBVIOUS
<1>3. ASSUME q + 1 <= p PROVE FALSE
  <2>1. t * (q + 1) <= t * p
    BY <1>1, <1>3
  <2>2. t * (q + 1) = t * q + t
    BY <1>1
  <2> QED
    BY <2>1, <2>2, <1>1, <1>2
<1> QED
  BY <1>1, <1>3

(* A part of a total is at most the whole. *)
LEMMA DivBounded ==
  ASSUME NEW a \in Int, NEW t \in Nat \ {0}, a <= 100000 * t
  PROVE  a \div t \in Int /\ a \div t <= 100000
<1>1. (100000 * t) \div t = 100000
  OBVIOUS
<1>2. 100000 * t \in Int
  OBVIOUS
<1> QED
  BY <1>1, <1>2, DivGrows

(* Calmer signals never have the higher balance, in either scoring mode, and
   no balance is above the highest score. *)
LEMMA BalanceInOrder ==
  ASSUME NEW scoring, scoring.mode \in {"rubric", "threshold"},
         IsRubric(scoring.de, Positive), IsRubric(scoring.esc, Negative), Judicious(scoring),
         NEW A, NEW B, Calmer(A, B)
  PROVE  /\ Balance(scoring, A) \in Int /\ Balance(scoring, B) \in Int
         /\ Balance(scoring, A) <= Balance(scoring, B)
         /\ Balance(scoring, B) <= Highest
<1> DEFINE D == scoring.de
           E == scoring.esc
           dA == Weight(D, A)
           dB == Weight(D, B)
           dT == Total(D)
           eA == Weight(E, A)
           eB == Weight(E, B)
           eT == Total(E)
<1>1. \A signal \in DOMAIN D : D[signal] \in Nat
  BY DEF Judicious, IsRubric
<1>2. \A signal \in DOMAIN E : E[signal] \in Nat
  BY DEF Judicious, IsRubric
<1>3. dA \in Nat /\ dB \in Nat /\ dB <= dA
  <2>1. DOMAIN D \cap B \subseteq A
    BY DEF IsRubric, Calmer
  <2> QED
    BY <2>1, <1>1, WeightGrows
<1>4. eA \in Nat /\ eB \in Nat /\ eA <= eB
  <2>1. DOMAIN E \cap A \subseteq B
    BY DEF IsRubric, Calmer
  <2> QED
    BY <2>1, <1>2, WeightGrows
<1>5. dT \in Nat
  <2>1. DOMAIN D \cap A \subseteq DOMAIN D
    OBVIOUS
  <2> QED
    BY <2>1, <1>1, WeightGrows DEF Total
<1>6. eT \in Nat /\ eB <= eT
  <2>1. DOMAIN E \cap B \subseteq DOMAIN E
    OBVIOUS
  <2> QED
    BY <2>1, <1>2, WeightGrows DEF Total
<1> HIDE DEF dA, dB, dT, eA, eB, eT
<1>7. CASE dT + eT = 0
  <2>1. Balance(scoring, A) = 0 /\ Balance(scoring, B) = 0
    BY <1>7 DEF Balance, dT, eT
  <2> QED
    BY <2>1 DEF Highest
<1>8. CASE dT + eT # 0 /\ scoring.mode = "threshold" /\ eT = 0
  <2>1. Balance(scoring, A) = 0 /\ Balance(scoring, B) = 0
    BY <1>8 DEF Balance, dT, eT
  <2> QED
    BY <2>1 DEF Highest
<1>9. CASE dT + eT # 0 /\ scoring.mode = "threshold" /\ eT # 0
  <2>1. eT > 0
    BY <1>6, <1>9
  <2>2. Balance(scoring, A) = (100000 * eA) \div eT /\ Balance(scoring, B) = (100000 * eB) \div eT
    BY <2>1, <1>9 DEF Balance, Highest, dT, eT, eA, eB
  <2>3. 100000 * eA \in Int /\ 100000 * eB \in Int /\ 100000 * eA <= 100000 * eB /\ 100000 * eB <= 100000 * eT
    BY <1>4, <1>6
  <2>4. eT \in Nat \ {0}
    BY <1>6, <1>9
  <2>5. (100000 * eA) \div eT <= (100000 * eB) \div eT /\ (100000 * eA) \div eT \in Int
    BY <2>3, <2>4, DivGrows
  <2>6. (100000 * eB) \div eT <= 100000 /\ (100000 * eB) \div eT \in Int
    BY <2>3, <2>4, DivBounded
  <2> QED
    BY <2>2, <2>5, <2>6 DEF Highest
<1>10. CASE dT + eT # 0 /\ scoring.mode = "rubric"
  <2> DEFINE t == dT + eT
             x == 100000 * (eA - dA)
             y == 100000 * (eB - dB)
  <2>1. Balance(scoring, A) = x \div t /\ Balance(scoring, B) = y \div t
    BY <1>10 DEF Balance, Highest, dT, eT, eA, eB, dA, dB
  <2>2. x \in Int /\ y \in Int /\ x <= y /\ y <= 100000 * t
    BY <1>3, <1>4, <1>5, <1>6
  <2>3. t \in Nat \ {0}
    BY <1>5, <1>6, <1>10
  <2> HIDE DEF t, x, y
  <2>4. x \div t <= y \div t /\ x \div t \in Int
    BY <2>2, <2>3, DivGrows
  <2>5. y \div t <= 100000 /\ y \div t \in Int
    BY <2>2, <2>3, DivBounded
  <2> QED
    BY <2>1, <2>4, <2>5 DEF Highest
<1> QED
  BY <1>7, <1>8, <1>9, <1>10

(* There are finitely many signs of escalation. *)
LEMMA NegativeFinite == IsFiniteSet(Negative)
<1> DEFINE f == <<"raised_voice", "fast_speech", "turning_away", "closed_gesture",
                  "negative_tone", "long_silence", "no_empathy">>
<1>1. f \in [1..7 -> Negative]
  BY DEF Negative
<1>2. \A signal \in Negative : \E n \in 1..7 : f[n] = signal
  BY DEF Negative
<1>3. f \in Surjection(1..7, Negative)
  BY <1>1, <1>2 DEF Surjection
<1>4. IsFiniteSet(1..7)
  <2>1. 1 \in Int /\ 7 \in Int
    OBVIOUS
  <2> QED
    BY <2>1, FS_Interval
<1> QED
  BY <1>3, <1>4, FS_Surjection

(* Critical failures keep the order, and so does the ceiling, which is only
   there if there are any. *)
LEMMA PenalisedInOrder ==
  ASSUME NEW scoring, scoring.critical \subseteq Negative, NEW A, NEW B, Calmer(A, B),
         NEW x \in Int, NEW y \in Int, x <= y, y <= Highest
  PROVE  /\ Penalised(x, scoring, A) \in Int /\ Penalised(y, scoring, B) \in Int
         /\ Penalised(x, scoring, A) <= Penalised(y, scoring, B)
<1> DEFINE fA == Cardinality(scoring.critical \cap A)
           fB == Cardinality(scoring.critical \cap B)
<1>1. scoring.critical \cap A \subseteq scoring.critical \cap B
  BY DEF Calmer
<1>2. scoring.critical \cap B \subseteq Negative
  OBVIOUS
<1>3. IsFiniteSet(scoring.critical \cap B)
  BY <1>2, NegativeFinite, FS_Subset
<1>4. IsFiniteSet(scoring.critical \cap A) /\ fA <= fB
  BY <1>1, <1>3, FS_Subset
<1>5. fA \in Nat /\ fB \in Nat
  BY <1>3, <1>4, FS_CardinalityType
<1> HIDE DEF fA, fB
<1>6. Penalised(x, scoring, A) = IF fA > 0 /\ x + 40000 * fA > 100000 THEN 100000 ELSE x + 40000 * fA
  BY DEF Penalised, fA, Highest
<1>7. Penalised(y, scoring, B) = IF fB > 0 /\ y + 40000 * fB > 100000 THEN 100000 ELSE y + 40000 * fB
  BY DEF Penalised, fB, Highest
<1> QED
  BY <1>4, <1>5, <1>6, <1>7 DEF Highest

(* A range keeps the order, even one whose ends are exchanged. *)
LEMMA ClampInOrder ==
  ASSUME NEW range, range.min \in Int, range.max \in Int,
         NEW x \in Int, NEW y \in Int, x <= y
  PROVE  Clamp(x, range) <= Clamp(y, range)
BY DEF Clamp

(* In a state of the right types, calmer responses are never judged worse. *)
LEMMA JudgedInOrderIn == TypeOK => JudgedInOrder
<1> SUFFICES ASSUME TypeOK, FormValid, NEW name \in DefinedIds,
                    Judicious(Serialised.clips[name].scoring),
                    NEW a \in Responses, NEW b \in Responses,
                    NoLessCalm(Measured(a, Serialised.clips[name].seconds),
                               Measured(b, Serialised.clips[name].seconds))
             PROVE  EscalationScore(a, Serialised.clips[name])
                      <= EscalationScore(b, Serialised.clips[name])
  BY SerialisedDomain, Zenon DEF JudgedInOrder
<1>1. PICK i \in DOMAIN clips : Serialised.clips[name] = ClipWritten(clips[i])
  BY CardOf
<1> DEFINE clip == Serialised.clips[name]
           A == Detected(Measured(a, clip.seconds))
           B == Detected(Measured(b, clip.seconds))
<1>2. /\ clip.seconds = Seconds /\ clip.scoring = clips[i].scoring
      /\ clip.range = RangeWritten(clips[i].range)
  BY <1>1 DEF ClipWritten
<1>3. clips[i].scoring \in Scorings /\ clips[i].range \in Ranges
  BY Cards
<1>4. Calmer(A, B)
  <2>1. Seconds \in Nat \ {0} /\ a \in Response /\ b \in Response
    BY BuilderAssumption
  <2>2. Measured(a, clip.seconds) \in Measurement /\ Measured(b, clip.seconds) \in Measurement
    BY <2>1, <1>2, MeasuredTyped
  <2> QED
    BY <2>2, DetectedCalmer
<1> HIDE DEF A, B
<1> DEFINE x == Balance(clip.scoring, A)
           y == Balance(clip.scoring, B)
<1>5. x \in Int /\ y \in Int /\ x <= y /\ y <= Highest
  <2>1. /\ clip.scoring.mode \in {"rubric", "threshold"}
        /\ IsRubric(clip.scoring.de, Positive) /\ IsRubric(clip.scoring.esc, Negative)
    BY <1>2, <1>3, BuilderAssumption DEF IsScoring
  <2> QED
    BY <2>1, <1>4, BalanceInOrder
<1> HIDE DEF x, y
<1> DEFINE p == Penalised(x, clip.scoring, A)
           q == Penalised(y, clip.scoring, B)
<1>6. p \in Int /\ q \in Int /\ p <= q
  <2>1. clip.scoring.critical \subseteq Negative
    BY DEF Judicious
  <2> QED
    BY <2>1, <1>4, <1>5, PenalisedInOrder
<1> HIDE DEF p, q
<1>7. Clamp(p, clip.range) <= Clamp(q, clip.range)
  BY <1>2, <1>3, <1>6, RangeTyped, ClampInOrder
<1>8. Score(a, clip) = Clamp(p, clip.range) /\ Score(b, clip) = Clamp(q, clip.range)
  BY DEF Score, p, q, x, y, A, B
<1>9. CASE Refused(clip)
  BY <1>9 DEF EscalationScore, Fallback
<1>10. CASE ~Refused(clip)
  BY <1>7, <1>8, <1>10 DEF EscalationScore
<1> QED
  BY <1>9, <1>10

(* For all limits, rubrics, modes and ranges that are judicious, the scorer of
   the Evaluation container gives no response a higher score than one that
   shows less calm or more of escalation. *)
THEOREM JudgedInOrderAlways == Spec => []JudgedInOrder
<1> QED
  BY TypeAlways, JudgedInOrderIn, PTL
=============================================================================
