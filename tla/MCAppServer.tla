----------------------------- MODULE MCAppServer -----------------------------
(***************************************************************************)
(* The app container on a small instance: two sessions and one slot, so    *)
(* that one of them waits; a scenario whose entry clip leads to a second   *)
(* clip at a low score and ends the session at a high one.                 *)
(***************************************************************************)
EXTENDS AppServer, TLC

MCScenarios == {"de-escalate"}
MCClips == {"shout", "calm"}

MCEntry == [sc \in MCScenarios |-> "shout"]
MCScenarioOf == [c \in MCClips |-> "de-escalate"]

MCBranches ==
  [c \in MCClips |->
     IF c = "shout"
     THEN << [min |-> 0, max |-> 5, next |-> "calm"],
             [min |-> 5, max |-> 11, next |-> None] >>
     ELSE << [min |-> 0, max |-> 11, next |-> None] >>]

MCGuidance == [sc \in MCScenarios |->
                 [coaching |-> "context", objectives |-> "objectives",
                  audience |-> "audience"]]
(* Without admins the sessions are interchangeable, and the properties of the
   run that uses this are about states and single steps. *)
Interchangeable == Permutations(Sessions)

=============================================================================
