------------------------------- MODULE Scoring -------------------------------
(***************************************************************************)
(* How the Evaluation container judges a response (evaluation/src/         *)
(* behaviour_analyser.py): what its stages measure, which signals it takes *)
(* from the measurements, and the escalation score it makes of them.       *)
(*                                                                         *)
(* Ratios are integers, a hundred to the unit, and scores are a hundred    *)
(* thousand to the unit; both are rounded down.                            *)
(* The signal processing itself (MFCCs, landmarks, the spectrum of nods,   *)
(* the sentiment model) is left to the response, which says what comes out *)
(* of it; what is modelled is what is made of missing input.               *)
(***************************************************************************)
EXTENDS Integers, FiniteSets

CONSTANTS
  Limits,         (* [signal_thresholds] of evaluation_config.toml         *)
  Missing         (* a measurement that could not be made                  *)

(* What _load_analyser_config() insists on: every threshold is a number, and
   those of one measurement are in order. *)
Thresholds ==
  {limits \in [calm : Int, raised : Int, measured : Int, fast : Int, closed : Int, open : Int,
               nod : Int, away : Int, facing : Int, silent_min : Int, silent_max : Int,
               long : Int] :
     /\ limits.calm < limits.raised
     /\ limits.measured < limits.fast
     /\ limits.closed < limits.open
     /\ limits.away < limits.facing
     /\ limits.silent_min < limits.silent_max /\ limits.silent_max < limits.long
     /\ limits.nod > 0 /\ limits.measured > 0}

ASSUME LimitsAssumption == Limits \in Thresholds
ASSUME MissingAssumption == Missing \notin Int

Negative == {"raised_voice", "fast_speech", "turning_away", "closed_gesture",
             "negative_tone", "long_silence", "no_empathy"}
Positive == {"calm_voice", "measured_pace", "active_listening", "open_posture",
             "open_gesture", "empathy_phrase", "open_question", "validation",
             "positive_tone", "appropriate_silence"}
Empathic == {"empathy_phrase", "open_question", "validation"}

(* The range of escalation scores, and the bound its branches must reach. *)
Lowest == -100000
Highest == 100000
Beyond == 101000
IsScore(s) == s \in Int /\ Lowest <= s /\ s <= Highest

Clip01(x) == IF x < 0 THEN 0 ELSE IF x > 100 THEN 100 ELSE x

-----------------------------------------------------------------------------
(* The stages.  A response tells the tension of its voice, the numbers of
   frames, of those with a hand, of hands and open hands, of faces and faces
   turned to the camera, the frequency of nods, its syllables and seconds of
   speech, and what was found in its words: the markers are the categories of
   the lexicon, the tone is that of _normalise_sentiment_label(). *)
Rank == [negative |-> 1, neutral |-> 2, positive |-> 3]

Response ==
  [tension : Int \cup {Missing}, frames : Nat, handframes : Nat, hands : Nat, open : Nat,
   faces : Nat, turned : Nat, nod : Int, syllables : Nat, speech : Nat,
   markers : SUBSET Empathic, tone : DOMAIN Rank]

(* SignalSummary: what the stages make of a response. *)
Measurement ==
  [tension : Int, pace : Nat, open : Int \cup {Missing}, nod : Int, facing : Int,
   silence : Int, markers : SUBSET Empathic, tone : DOMAIN Rank]

Tension(r) == IF r.tension = Missing THEN 0 ELSE r.tension

OpenHands(r) ==
  IF r.frames > 0 /\ 2 * r.handframes >= r.frames /\ r.hands > 0
  THEN (100 * r.open) \div r.hands
  ELSE Missing

Facing(r) ==
  CASE r.frames = 0 -> 0
    [] r.frames > 0 /\ r.faces = 0 -> 50
    [] OTHER -> (100 * r.turned) \div r.faces

Pace(r) == IF r.speech > 0 THEN (100 * r.syllables) \div r.speech ELSE 0
Silence(r, seconds) == Clip01((100 * (seconds - r.speech)) \div seconds)

Measured(r, seconds) ==
  [tension |-> Tension(r), pace |-> Pace(r), open |-> OpenHands(r),
   nod |-> IF r.frames = 0 THEN 0 ELSE r.nod, facing |-> Facing(r),
   silence |-> Silence(r, seconds), markers |-> r.markers, tone |-> r.tone]

-----------------------------------------------------------------------------
(* _scorer(): signals, rubric sums, penalty, range.  Definitions named Bad...
   are slips the code could contain. *)

Grade(good, signal, bad, contrary) ==
  IF good THEN {signal} ELSE IF bad THEN {contrary} ELSE {}

Hands(m) ==
  Grade(m.open >= Limits.open, "open_gesture", m.open <= Limits.closed, "closed_gesture")

BadPosture(m) ==
  Grade(m.facing <= Limits.facing, "open_posture", m.facing >= Limits.away, "turning_away")
Posture(m) ==
  Grade(m.facing >= Limits.facing, "open_posture", m.facing <= Limits.away, "turning_away")

Detected(m) ==
  UNION {
    Grade(m.tension <= Limits.calm, "calm_voice", m.tension >= Limits.raised, "raised_voice"),
    IF m.pace = 0 THEN {}
    ELSE Grade(m.pace <= Limits.measured, "measured_pace", m.pace >= Limits.fast, "fast_speech"),
    IF m.open = Missing THEN {} ELSE Hands(m),
    IF m.nod >= Limits.nod THEN {"active_listening"} ELSE {},
    Posture(m),
    Grade(Limits.silent_min <= m.silence /\ m.silence <= Limits.silent_max, "appropriate_silence",
          m.silence >= Limits.long, "long_silence"),
    m.markers,
    IF m.markers \cap Empathic = {} THEN {"no_empathy"} ELSE {},
    Grade(m.tone = "positive", "positive_tone", m.tone = "negative", "negative_tone")}

(* A rubric is a function from signals to weights; their sum is written out,
   signal by signal. *)
Worth(rubric, detected, signal) ==
  IF signal \in DOMAIN rubric \cap detected THEN rubric[signal] ELSE 0
Weight(rubric, detected) ==
  LET w(signal) == Worth(rubric, detected, signal)
  IN  w("raised_voice") + w("fast_speech") + w("turning_away") + w("closed_gesture")
        + w("negative_tone") + w("long_silence") + w("no_empathy")
        + w("calm_voice") + w("measured_pace") + w("active_listening") + w("open_posture")
        + w("open_gesture") + w("empathy_phrase") + w("open_question") + w("validation")
        + w("positive_tone") + w("appropriate_silence")
Total(rubric) == Weight(rubric, DOMAIN rubric)

Balance(scoring, detected) ==
  LET total == Total(scoring.de) + Total(scoring.esc)
      de == Weight(scoring.de, detected)
      esc == Weight(scoring.esc, detected)
  IN  IF total = 0 THEN 0
      ELSE IF scoring.mode = "threshold"
           THEN IF Total(scoring.esc) > 0 THEN (Highest * esc) \div Total(scoring.esc) ELSE 0
           ELSE (Highest * (esc - de)) \div total

(* Each critical failure adds 0.4, and the sum stops at 1. *)
Penalised(raw, scoring, detected) ==
  LET failures == Cardinality(scoring.critical \cap detected)
      sum == raw + 40000 * failures
  IN  IF failures > 0 /\ sum > Highest THEN Highest ELSE sum

(* np.clip in the scorers of the Evaluation container. *)
Clamp(score, range) ==
  LET raised == IF score < range.min THEN range.min ELSE score
  IN  IF raised > range.max THEN range.max ELSE raised

Score(r, clip) ==
  LET detected == Detected(Measured(r, clip.seconds))
  IN  Clamp(Penalised(Balance(clip.scoring, detected), clip.scoring, detected), clip.range)

(* a shows whatever calm b shows, and nothing more of escalation. *)
NoLessCalm(a, b) ==
  /\ a.tension <= b.tension
  /\ a.pace = b.pace \/ (a.pace > 0 /\ a.pace <= b.pace)
  /\ a.open = b.open \/ (Missing \notin {a.open, b.open} /\ a.open >= b.open)
  /\ a.nod >= b.nod
  /\ a.facing >= b.facing
  /\ a.silence = b.silence
  /\ b.markers \subseteq a.markers
  /\ Rank[a.tone] >= Rank[b.tone]
=============================================================================
