--------------------------- MODULE MCO3Pipeline ---------------------------
(***************************************************************************)
(* Instances of O3Pipeline for TLC.                                        *)
(***************************************************************************)
EXTENDS O3Pipeline, TLC

CONSTANTS r0, r1, misc

Platform(insts, width, rob, squash, dests, kinds, tc) ==
    [maxInsts |-> insts, width |-> width, robEntries |-> rob, squashWidth |-> squash,
     dests |-> dests, kinds |-> kinds, squashFromTC |-> tc]

MCPlatforms ==
    { Platform(4, 2, 3, 1, {{r0}, {misc}, {r1, misc}}, {"plain"}, TRUE),
      Platform(4, 2, 2, 2, {{r0}}, {"plain", "before", "after"}, FALSE),
      Platform(6, 1, 6, 1, {{misc}}, {"plain"}, FALSE) }

Symmetry == Permutations(PhysRegs)
=============================================================================
