--------------------------- MODULE ScenarioBuilder ---------------------------
(***************************************************************************)
(* The way of a scenario from its author to a branching decision: the form *)
(* of client/src/admin (ScenarioBuilder.tsx, ClipCard.tsx and its          *)
(* editors), its check and its serialisation; validate() of                *)
(* scenario-loader.ts, which decides on the upload; and buildCandidates()  *)
(* and resolveNextClip() of clip-controller.ts, which play it on the       *)
(* scores of the Evaluation container (module Scoring).                    *)
(*                                                                         *)
(* Scores are integers, a hundred thousand to the unit, so that what the   *)
(* check takes for rounding can be told apart.  A field of the form is     *)
(* Blank if what was typed is no number.  Fields that neither check nor    *)
(* branching reads are left out, and so are the scenario's own id, title,  *)
(* description and language and the durations: they are taken as filled    *)
(* in, which the loader insists on and the form does not.                  *)
(***************************************************************************)
EXTENDS Scoring, Sequences, SequencesExt

CONSTANTS
  Names,          (* clip ids an author may type                           *)
  Files,          (* video files to choose from                            *)
  Ranges,         (* bound: score ranges an author may type                *)
  Intervals,      (* bound: branch intervals an author may type            *)
  Scorings,       (* bound: scoring modes and rubrics an author may enter  *)
  Plain,          (* the scoring of an empty card                          *)
  Responses,      (* bound: responses a student may give                   *)
  Seconds,        (* the duration of every clip                            *)
  MaxClips,       (* bound: clips of the form                              *)
  MaxBranches,    (* bound: branch conditions of a clip                    *)
  MaxTuned,       (* bound: cards whose numbers or rubrics are edited      *)
  Blank,
  Null            (* JSON's: no next clip, where the scenario ends; no number *)

(* What the fields of the form let an author enter: numbers or nothing, and in
   a rubric the signals of its own vocabulary (ClipCard, RubricEditor). *)
Bounds == [min : Int \cup {Blank}, max : Int \cup {Blank}]
IsRubric(rubric, vocabulary) ==
  DOMAIN rubric \subseteq vocabulary /\ \A signal \in DOMAIN rubric : rubric[signal] \in Int
IsScoring(scoring) ==
  /\ scoring.mode \in {"rubric", "threshold"}
  /\ IsRubric(scoring.de, Positive) /\ IsRubric(scoring.esc, Negative)
  /\ scoring.critical \subseteq Positive \cup Negative

ASSUME BuilderAssumption ==
  /\ {Blank, Null} \cap Names = {} /\ Blank \notin Files /\ {Blank, Null} \cap Int = {}
  /\ MaxClips \in Nat \ {0}
  /\ Seconds \in Nat \ {0}
  /\ Ranges \subseteq Bounds /\ [min |-> Lowest, max |-> Highest] \in Ranges
  /\ \A interval \in Intervals :
       interval[1] \in Int \cup {Blank} /\ interval[2] \in Int \cup {Blank}
  /\ Plain \in Scorings /\ Plain.mode = "rubric"
  /\ \A scoring \in Scorings : IsScoring(scoring)
  /\ Responses \subseteq Response

VARIABLES
  entry,          (* the field entry_clip                                  *)
  clips           (* the clip cards, in order                              *)

vars == <<entry, clips>>

Branch == [min : Int \cup {Blank}, max : Int \cup {Blank}, next : Names \cup {Null}]
ClipForm == [clip_id : Names \cup {Blank}, file : Files \cup {Blank},
             range : Ranges, scoring : Scorings, branches : Seq(Branch)]

Everywhere == [min |-> Lowest, max |-> Beyond, next |-> Null]

EmptyClip == [clip_id |-> Blank, file |-> Blank,
              range |-> [min |-> Lowest, max |-> Highest],
              scoring |-> Plain, branches |-> <<Everywhere>>]

DefinedIds == {clips[i].clip_id : i \in DOMAIN clips} \ {Blank}

-----------------------------------------------------------------------------
(* The form.  The entry clip is typed; the next clip of a branch is chosen
   from the ids defined at that moment, which may change afterwards. *)

Init == entry = Blank /\ clips = <<EmptyClip>>

AddClip ==
  /\ Len(clips) < MaxClips
  /\ clips' = Append(clips, EmptyClip)
  /\ UNCHANGED entry

RemoveClip(i) ==
  /\ Len(clips) > 1
  /\ clips' = RemoveAt(clips, i)
  /\ UNCHANGED entry

MoveDown(i) ==
  /\ i < Len(clips)
  /\ clips' = [clips EXCEPT ![i] = clips[i + 1], ![i + 1] = clips[i]]
  /\ UNCHANGED entry

Update(i, clip) == clips' = [clips EXCEPT ![i] = clip] /\ UNCHANGED entry

EditClip(i) ==
  \/ \E name \in Names : Update(i, [clips[i] EXCEPT !.clip_id = name])
  \/ \E file \in Files : Update(i, [clips[i] EXCEPT !.file = file])

(* Cards whose numbers are no longer those of an empty one. *)
Tuned(clip) ==
  \/ clip.range # EmptyClip.range \/ clip.scoring # Plain \/ Len(clip.branches) # 1
  \/ \E k \in DOMAIN clip.branches : clip.branches[k].min # Lowest \/ clip.branches[k].max # Beyond
MayTune(i) == Cardinality({j \in DOMAIN clips \ {i} : Tuned(clips[j])}) < MaxTuned

EditNumbers(i) ==
  /\ MayTune(i)
  /\ \/ \E scoring \in Scorings : Update(i, [clips[i] EXCEPT !.scoring = scoring])
     \/ \E range \in Ranges : Update(i, [clips[i] EXCEPT !.range = range])
     \/ /\ Len(clips[i].branches) < MaxBranches
        /\ Update(i, [clips[i] EXCEPT !.branches = Append(@, Everywhere)])
     \/ \E k \in DOMAIN clips[i].branches :
          \/ Update(i, [clips[i] EXCEPT !.branches = RemoveAt(@, k)])
          \/ \E interval \in Intervals :
               Update(i, [clips[i] EXCEPT !.branches[k].min = interval[1],
                                          !.branches[k].max = interval[2]])

ChooseNext(i) ==
  \E k \in DOMAIN clips[i].branches, next \in DefinedIds \cup {Null} :
    Update(i, [clips[i] EXCEPT !.branches[k].next = next])

EditEntry == \E name \in Names : entry' = name /\ UNCHANGED clips

Next ==
  \/ AddClip \/ EditEntry
  \/ \E i \in DOMAIN clips :
       RemoveClip(i) \/ MoveDown(i) \/ EditClip(i) \/ EditNumbers(i) \/ ChooseNext(i)

Spec == Init /\ [][Next]_vars

-----------------------------------------------------------------------------
(* validateForm().  Definitions named Bad... are slips the code could
   contain. *)

EntryDefined == entry = Blank \/ entry \in DefinedIds

IdsDistinct == \A i, j \in DOMAIN clips :
                 clips[i].clip_id = clips[j].clip_id => i = j

(* Conditions whose bounds are no numbers are filtered out of this check. *)
Numeric(branches) ==
  {k \in DOMAIN branches : branches[k].min # Blank /\ branches[k].max # Blank}

(* The others are sorted by their lower ends; where these are the same they
   stay as they were entered. *)
Before(branches, j, k) ==
  \/ branches[j].min < branches[k].min
  \/ branches[j].min = branches[k].min /\ j < k

First(branches, j) == \A k \in Numeric(branches) : ~Before(branches, k, j)
Final(branches, j) == \A k \in Numeric(branches) : ~Before(branches, j, k)
Adjoining(branches, j, k) ==
  /\ Before(branches, j, k)
  /\ \A i \in Numeric(branches) : ~(Before(branches, j, i) /\ Before(branches, i, k))

(* Two bounds are taken for one if they are less than 0.0001 apart. *)
Tolerance == 10
Near(a, b) == a - b < Tolerance /\ b - a < Tolerance

BadCovers(branches) ==
  /\ \E j \in Numeric(branches) : First(branches, j) /\ Near(branches[j].min, Lowest)
  /\ \A j, k \in Numeric(branches) :
       Adjoining(branches, j, k) => Near(branches[k].min, branches[j].max)

Covers(branches) ==
  /\ \E j \in Numeric(branches) : First(branches, j) /\ Near(branches[j].min, Lowest)
  /\ \E j \in Numeric(branches) : Final(branches, j) /\ Near(branches[j].max, Beyond)
  /\ \A j, k \in Numeric(branches) :
       Adjoining(branches, j, k) => Near(branches[k].min, branches[j].max)

BadReferences(branches) == TRUE
References(branches) ==
  \A k \in DOMAIN branches : branches[k].next \in DefinedIds \cup {Null}

RangeOK(range) == range.min # Blank /\ range.max # Blank => range.min < range.max

FormValid ==
  /\ EntryDefined
  /\ IdsDistinct
  /\ \A i \in DOMAIN clips :
       /\ clips[i].clip_id # Blank
       /\ clips[i].file # Blank
       /\ Covers(clips[i].branches)
       /\ References(clips[i].branches)
       /\ RangeOK(clips[i].range)

(* What the form would have to check besides: the loader rejects a scenario
   without an entry clip, and two clips of one file. *)
LoaderWants ==
  /\ entry # Blank
  /\ \A i, j \in DOMAIN clips : clips[i].file = clips[j].file => i = j

-----------------------------------------------------------------------------
(* serialise().  A zero is falsy and gives way to the default; a bound of a
   branch that is no number becomes null. *)

Falsy(x) == x = Blank \/ x = 0
RangeWritten(range) ==
  [min |-> IF Falsy(range.min) THEN Lowest ELSE range.min,
   max |-> IF Falsy(range.max) THEN Highest ELSE range.max]

BoundWritten(x) == IF x = Blank THEN Null ELSE x
BranchWritten(b) ==
  [min |-> BoundWritten(b.min), max |-> BoundWritten(b.max), next |-> b.next]

ClipWritten(clip) ==
  [file |-> clip.file, seconds |-> Seconds,
   range |-> RangeWritten(clip.range), scoring |-> clip.scoring,
   branches |-> [k \in DOMAIN clip.branches |-> BranchWritten(clip.branches[k])]]

Serialised ==
  [entry |-> entry,
   clips |-> [name \in DefinedIds |->
     ClipWritten(clips[CHOOSE i \in DOMAIN clips : clips[i].clip_id = name])]]

(* validate() of the loader, and the check for files in registerScenario(). *)
LoaderAccepts(raw) ==
  /\ raw.entry \in DOMAIN raw.clips
  /\ \A name \in DOMAIN raw.clips :
       /\ raw.clips[name].file # Blank
       /\ raw.clips[name].branches # <<>>
       /\ \A k \in DOMAIN raw.clips[name].branches :
            raw.clips[name].branches[k].next \in DOMAIN raw.clips \cup {Null}
  /\ \A a, b \in DOMAIN raw.clips : raw.clips[a].file = raw.clips[b].file => a = b

-----------------------------------------------------------------------------
(* Playing a clip of the scenario. *)

(* resolveNextClip(): the first condition that matches.  JavaScript compares
   null like zero. *)
AsNumber(x) == IF x = Null THEN 0 ELSE x
Matching(branches, score) ==
  {k \in DOMAIN branches :
     score >= AsNumber(branches[k].min) /\ score < AsNumber(branches[k].max)}
FirstOf(matching) == CHOOSE k \in matching : \A j \in matching : k <= j
ResolveNextClip(branches, score) ==
  LET matching == Matching(branches, score)
  IN  IF matching = {} THEN Null ELSE branches[FirstOf(matching)].next

(* buildCandidates(): the clips announced to the client. *)
Candidates(raw, branches) ==
  {branches[k].next : k \in DOMAIN branches} \cap DOMAIN raw.clips

(* Where any of the three changes its mind, and one step to either side. *)
Scores(branches, range) ==
  LET edges == {Lowest, 0, Highest, range.min, range.max}
                 \cup {AsNumber(branches[k].min) : k \in DOMAIN branches}
                 \cup {AsNumber(branches[k].max) : k \in DOMAIN branches}
  IN  {s \in UNION {{e - 1, e, e + 1} : e \in edges} : IsScore(s)}

(* The Evaluation container refuses a clip with a bound that is null (422),
   and the app takes every response to it for zero. *)
Refused(clip) == \E k \in DOMAIN clip.branches :
                   Null \in {clip.branches[k].min, clip.branches[k].max}
Fallback == 0
EscalationScore(r, clip) == IF Refused(clip) THEN Fallback ELSE Score(r, clip)

-----------------------------------------------------------------------------
(* Properties. *)

(* What passes the check of the form, clips added, renamed and removed in any
   order before, is accepted by the loader, but for what it wants besides. *)
FormAgreesWithLoader == FormValid /\ LoaderWants => LoaderAccepts(Serialised)

(* A range with scores in it; that much the form does not ask for. *)
Meets(range) == range.min <= Highest /\ range.max >= Lowest

(* The scores a clip can get: those of its range, and the app's own when no
   answer came from the Evaluation container, which is not clamped. *)
Attainable(clip) ==
  {Fallback} \cup (IF Refused(clip) \/ ~Meets(clip.range) THEN {}
                  ELSE {Clamp(raw, clip.range) : raw \in Scores(clip.branches, clip.range)})

(* The hole that the check of the form leaves between two branches, or before
   the first: it is narrower than the tolerance. *)
InSeam(branches, score) ==
  \E k \in DOMAIN branches,
     end \in {Lowest} \cup {branches[j].max : j \in DOMAIN branches} :
    /\ {branches[k].min, end} \subseteq Int /\ Near(branches[k].min, end)
    /\ end <= score /\ score < branches[k].min

(* Every score that a clip of a published scenario can get meets a branch,
   unless it falls into such a seam, where the scenario ends; and the branch
   leads to a clip that was announced to the client, or to the end
   (validateForm, resolveNextClip, buildCandidates). *)
NeverStranded ==
  FormValid =>
    \A name \in DOMAIN Serialised.clips :
      LET clip == Serialised.clips[name]
      IN  \A score \in Attainable(clip) :
            /\ Matching(clip.branches, score) # {} \/ InSeam(clip.branches, score)
            /\ ResolveNextClip(clip.branches, score)
                 \in Candidates(Serialised, clip.branches) \cup {Null}

(* No weight is negative, and the critical failures are signs of escalation:
   the form checks neither. *)
Judicious(scoring) ==
  /\ scoring.critical \subseteq Negative
  /\ \A rubric \in {scoring.de, scoring.esc} :
       \A signal \in DOMAIN rubric : rubric[signal] >= 0

(* Of two responses to a published clip, the one that shows no less calm and
   no more of escalation never gets the higher score, whatever rubric, mode
   and range its author gave it, as long as they are judicious. *)
JudgedInOrder ==
  FormValid =>
    \A name \in DOMAIN Serialised.clips :
      LET clip == Serialised.clips[name]
      IN  Judicious(clip.scoring) =>
            \A a, b \in Responses :
              NoLessCalm(Measured(a, clip.seconds), Measured(b, clip.seconds))
                => EscalationScore(a, clip) <= EscalationScore(b, clip)
=============================================================================
