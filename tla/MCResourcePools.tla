-------------------------- MODULE MCResourcePools --------------------------
(***************************************************************************)
(* Constants of ResourcePools for TLC: a definition whose name, pool id    *)
(* and id can agree, one of a type the factory does not make, one whose    *)
(* name differs from its pool id, and one that is not ACTIVE.              *)
(***************************************************************************)
EXTENDS ResourcePools, TLC

CONSTANTS p1, p2

Pool(state, name, poolID, type) ==
    [state |-> state, name |-> name, poolID |-> poolID, type |-> type]
MCDefinitions ==
    {Pool("ACTIVE", p1, p1, "Docker"), Pool("INACTIVE", p1, p1, "Docker"),
     Pool("ACTIVE", p1, p2, "Docker"), Pool("ACTIVE", p2, p2, "Docker"),
     Pool("ACTIVE", p1, p1, "VM")}

CallSymmetry == Permutations(Calls)
=============================================================================
