----------------------------- MODULE MCECSWorld -----------------------------
(***************************************************************************)
(* Model-checking instance of ECSWorld: two components (0 = Position,     *)
(* 1 = Velocity), the shapes A = {Position} and B = {Position, Velocity}  *)
(* of scenario 1 of the spec, with Default<B, Velocity> specialised as in *)
(* scenario 2, three Entity objects and three ids.                        *)
(***************************************************************************)
EXTENDS ECSWorld

MCComponents == {0, 1}
MCShapes == {{0}, {0, 1}}
MCHasDefault == ({0} :> {}) @@ ({0, 1} :> {1})
MCQueries == {{0}, {1}, {0, 1}}

\* One query, over Position, for the refinement run: it matches both
\* archetypes, so an emptied or a later table is part of every answer.
MCRefinementQueries == {{0}}
=============================================================================
