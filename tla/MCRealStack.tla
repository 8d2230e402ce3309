----------------------------- MODULE MCRealStack -----------------------------
(* An instance of RealStack for TLC: the PRESENCE and the SOS of the runs,  *)
(* the profiles of the scenarios, and a run with all their troubles at once *)
(* and one with a partition in time.                                        *)
EXTENDS RealStack

MCPriority(i) == IF i = "sos" THEN 1 ELSE 3

Profile(loss, corrupt, drop, timed, down) ==
    [packet_loss_percent |-> loss, corrupt_percent |-> corrupt, drop_first_frames |-> drop,
     timed |-> timed, down |-> down]

Run(name, frames, p) == [name |-> name, frames |-> frames, profile |-> p]

MCRuns ==
    {Run("e2e_real_stack", 6, Profile(0, 0, 0, FALSE, {})),
     Run("c4_live", 6, Profile(0, 0, 0, FALSE, {})),
     Run("loss_50", 5, Profile(50, 0, 0, FALSE, {})),
     Run("partition_heal", 8, Profile(0, 0, 4, FALSE, {})),
     Run("asymmetric_link", 6, Profile(0, 0, 0, FALSE, {<<2, 1>>})),
     Run("loss_20_realstack", 8, Profile(20, 5, 4, FALSE, {<<2, 1>>})),
     Run("loss_20_realstack", 4, Profile(20, 0, 0, TRUE, {}))}
=============================================================================
