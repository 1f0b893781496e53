--------------------------- MODULE MCMESITwoLevel ---------------------------
(***************************************************************************)
(* Instances of MESITwoLevel.  A platform is a number of active cores, the *)
(* operations they issue, and whether other lines push this one out of the *)
(* L2.                                                                     *)
(***************************************************************************)
EXTENDS MESITwoLevel, TLC

\* n of the cores issue ops, the others are idle.
Cores(n, ops, values, l2Evicts) ==
  {[ops |-> [l \in L1Cache |-> IF l \in active THEN ops ELSE {}],
    values |-> values, l2Evicts |-> l2Evicts] :
     active \in {s \in SUBSET L1Cache : Cardinality(s) = n}}

Plain == {"LD", "ST"}
Split == {"LD", "IFETCH", "ST"}
Locked == {"Locked_RMW_Read", "Locked_RMW_Write"}
X86 == {"LD"} \cup Locked
Arm == {"LD", "ST", "Load_Linked", "Store_Conditional"}

One == {CHOOSE v \in Values : TRUE}

\* Two cores and the values they write; three cores for the counts of acks.
SafetyPlatforms ==
  Cores(2, Split, Values, TRUE) \cup Cores(2, X86, Values, TRUE)
    \cup Cores(2, Arm, Values, FALSE) \cup Cores(3, Plain, One, FALSE)

LivePlatforms ==
  Cores(2, Plain, One, TRUE) \cup Cores(2, {"IFETCH", "ST"}, One, TRUE)
    \cup Cores(2, Locked, One, TRUE)
    \cup Cores(2, {"Load_Linked", "Store_Conditional"}, One, FALSE)

\* Load_Linked where lines are pushed out of the L2.
LLSCPlatforms == Cores(2, Arm, Values, TRUE)

Symmetry == Permutations(L1Cache) \cup Permutations(Values)
=============================================================================
