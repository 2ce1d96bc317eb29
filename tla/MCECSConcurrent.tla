-------------------------- MODULE MCECSConcurrent --------------------------
(***************************************************************************)
(* Three threads: two construct an Entity of shape B = {0, 1} (so their   *)
(* add_row calls write the same two columns and race on creating the same *)
(* new archetype), one constructs shape A = {0}. Each then destroys its   *)
(* entity. Viewer v1 iterates components_view over component 0, which     *)
(* every shape holds, so it meets every table the threads build; v2       *)
(* iterates over {0, 1}, so its rows pair cells of two columns.          *)
(***************************************************************************)
EXTENDS ECSConcurrent

CONSTANTS t1, t2, t3, v1, v2

MCComponents == {0, 1}
MCShapes == {{0}, {0, 1}}
MCHasDefault == ({0} :> {}) @@ ({0, 1} :> {1})
MCThreads == {t1, t2, t3}
MCThreadShape == (t1 :> {0, 1}) @@ (t2 :> {0, 1}) @@ (t3 :> {0})
MCViewers == {v1, v2}
MCViewQuery == (v1 :> {0}) @@ (v2 :> {0, 1})
MCNoViewers == {}
MCNoViewQuery == [v \in MCNoViewers |-> {0}]
=============================================================================
