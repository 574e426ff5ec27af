---------------------------- MODULE MCSiteControl ----------------------------
(***************************************************************************)
(* Two loads of which both fit beside the low base level (an export), and *)
(* only one beside the high level.                                         *)
(***************************************************************************)
EXTENDS SiteControl

MCLoads      == {1, 2}
MCPower      == [l \in MCLoads |-> IF l = 1 THEN 2 ELSE 1]
MCMetered    == {1, 2}
MCHardLimit  == 3
MCBaseLevels == {-1, 1}

\* One load that is above the limit beside the high level.
SoleLoad     == {1}
SolePower    == [l \in SoleLoad |-> 2]
SoleLevels   == {0, 2}

=============================================================================
