-------------------------- MODULE MCScenarioBuilder --------------------------
(* Two clips; one at a time has numbers, branches or a rubric of its own.    *)
EXTENDS ScenarioBuilder

Symmetric == Permutations(Names) \cup Permutations(Files)

MCRanges == {[min |-> Lowest, max |-> Highest], [min |-> 0, max |-> 20000]}
(* All scores; two that adjoin, the first a little late, and one that leaves a
   seam to it; a bound that was not typed. *)
MCIntervals == {<<Lowest, Beyond>>, <<Lowest + 5, 20000>>, <<20000, Beyond>>,
                <<20009, Beyond>>, <<Blank, Beyond>>}

MCPlain == [mode |-> "rubric", de |-> <<>>, esc |-> <<>>, critical |-> {}]
MCGraded == [mode |-> "rubric",
             de |-> [s \in {"open_posture", "active_listening", "validation"} |-> 10],
             esc |-> [s \in {"raised_voice", "turning_away", "no_empathy"} |-> 5],
             critical |-> {"raised_voice"}]
MCThreshold == [MCGraded EXCEPT !.mode = "threshold", !.critical = {"closed_gesture"}]
MCScorings == {MCPlain, MCGraded, MCThreshold}

MCLimits == [calm |-> 35, raised |-> 65, measured |-> 350, fast |-> 550,
             closed |-> 20, open |-> 60, nod |-> 5, away |-> 30, facing |-> 70,
             silent_min |-> 10, silent_max |-> 40, long |-> 70]

(* Nothing recorded; a calm response and some that differ in a thing or two. *)
Nothing == [tension |-> Missing, frames |-> 0, handframes |-> 0, hands |-> 0, open |-> 0,
            faces |-> 0, turned |-> 0, nod |-> 0, syllables |-> 0, speech |-> 0,
            markers |-> {}, tone |-> "neutral"]
Calm == [tension |-> 20, frames |-> 10, handframes |-> 5, hands |-> 10, open |-> 6,
         faces |-> 10, turned |-> 8, nod |-> 10, syllables |-> 24, speech |-> 8,
         markers |-> {"validation"}, tone |-> "positive"]
MCResponses ==
  {Nothing, Calm,
   [Calm EXCEPT !.tension = 50, !.open = 3], [Calm EXCEPT !.tension = 65],
   [Calm EXCEPT !.turned = 5, !.nod = 0], [Calm EXCEPT !.turned = 3, !.open = 2],
   [Calm EXCEPT !.markers = {}, !.tone = "neutral"],
   [Calm EXCEPT !.faces = 0, !.handframes = 4],
   [Calm EXCEPT !.syllables = 48, !.tone = "negative"]}
=============================================================================
