--------------------------- MODULE MCRdWpctlThread ---------------------------
(***************************************************************************)
(* Instances of RdWpctlThread.  The values of the constants are in the     *)
(* configurations: slots (DWARF mode with two slots, one of three          *)
(* addresses refused by the hardware, room for one event), fp_tables (FP   *)
(* mode with small tables), and reset_race and reservoir.                  *)
(***************************************************************************)
EXTENDS RdWpctlThread, TLC

\* Call chains are only compared with each other.
ChainSymmetry == Permutations(Chains)

\* So are the addresses that the hardware can watch.
VaSymmetry == Permutations(Vas \ BadVas)

==============================================================================
