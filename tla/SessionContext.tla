--------------------------- MODULE SessionContext ---------------------------
(***************************************************************************)
(* The data half of a session: SessionContext and the setters of class     *)
(* SessionManager (app/src/session-manager.ts), as operators on a record.  *)
(* Callers hold the only reference by id, so a setter is a function of the *)
(* record it changes; a sequence of calls is their composition.            *)
(***************************************************************************)
EXTENDS Integers, Sequences

CONSTANT None     (* null *)

(* makeContext. *)
FreshContext(admin) ==
  [scenario |-> None, clip |-> None, turns |-> <<>>, admin |-> admin,
   coaching |-> None, objectives |-> None, audience |-> None]

Bound(ctx) == ctx.scenario # None

SetScenario(ctx, scenario) ==
  IF Bound(ctx) THEN ctx ELSE [ctx EXCEPT !.scenario = scenario]

SetCoachingContext(ctx, text) ==
  IF Bound(ctx) THEN ctx ELSE [ctx EXCEPT !.coaching = text]

SetLearningObjectives(ctx, list) ==
  IF Bound(ctx) THEN ctx ELSE [ctx EXCEPT !.objectives = list]

SetTargetAudience(ctx, text) ==
  IF Bound(ctx) THEN ctx ELSE [ctx EXCEPT !.audience = text]

SetCurrentClip(ctx, clip) == [ctx EXCEPT !.clip = clip]

AppendTurn(ctx, turn) == [ctx EXCEPT !.turns = Append(@, turn)]

(* buildFeedbackRequest: null until a scenario is bound. *)
FeedbackRequest(ctx) ==
  IF Bound(ctx)
  THEN [scenario |-> ctx.scenario, history |-> ctx.turns,
        coaching |-> ctx.coaching, objectives |-> ctx.objectives,
        audience |-> ctx.audience]
  ELSE None

=============================================================================
