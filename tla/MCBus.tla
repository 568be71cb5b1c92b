--------------------------------- MODULE MCBus ---------------------------------
(***************************************************************************)
(* The message bus on small instances: requests are interchangeable.       *)
(***************************************************************************)
EXTENDS Bus, TLC

Symmetry == Permutations(Data \ Lost)
===============================================================================
