----------------------------- MODULE MCScenarios -----------------------------
(* One scenario is shipped; two uploads, which may be of one id and share a  *)
(* file or be of different ids, and one has a clip named metadata.json.      *)
EXTENDS Scenarios

CONSTANTS intro, calm, metadata, a, b, short, long, clash, other

MCIdOf == (short :> a) @@ (long :> a) @@ (clash :> a) @@ (other :> b)
MCFilesOf ==
  (short :> {intro}) @@ (long :> {intro, calm}) @@ (clash :> {metadata}) @@ (other :> {intro})
=============================================================================
