--------------------------- MODULE MCComponentMask ---------------------------
(***************************************************************************)
(* Four component types against a width of three: the fourth type to be   *)
(* instantiated must be rejected. Nine entity types mix in components     *)
(* directly and through InheritComponents chains up to three deep, in     *)
(* several orders and with overlapping sets (no type reaches the same     *)
(* component twice).                                                      *)
(***************************************************************************)
EXTENDS ComponentMask

CONSTANTS t1, t2, t3, t4, eA, eB, eC, eD, eE, eF, eG, eH, eI

MCTypes == {t1, t2, t3, t4}
MCEntityTypes == {eA, eB, eC, eD, eE, eF, eG, eH, eI}
MCMixins ==
    (eA :> <<t1>>) @@ (eB :> <<t2, eA>>) @@ (eC :> <<eA, t2>>) @@
    (eD :> <<t3>>) @@ (eE :> <<eC, t3>>) @@ (eF :> <<t3, t2>>) @@
    (eG :> <<t4, eA>>) @@ (eH :> <<t2, t4>>) @@ (eI :> <<eE>>)
=============================================================================
