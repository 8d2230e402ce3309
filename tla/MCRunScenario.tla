---------------------------- MODULE MCRunScenario ---------------------------
(* An instance of RunScenario for TLC: the scenarios of cli.py with the     *)
(* figures of their profiles, the shortest and the longest delay and jitter,*)
(* and normal also on the profile of loss_20, as --profile allows.          *)
EXTENDS RunScenario

Profile(loss, twice, reorder, corrupt, busy, delays) ==
    [packet_loss_percent |-> loss, duplicate_percent |-> twice, reorder_percent |-> reorder,
     corrupt_percent |-> corrupt, channel_busy_percent |-> busy, delays |-> delays]

Normal == Profile(0, 0, 0, 0, 0, {10, 40})
Loss20 == Profile(20, 5, 5, 0, 0, {20, 80})
Busy80 == Profile(5, 10, 10, 1, 80, {50, 180})
Run(name, mode, steps, p) == [name |-> name, mode |-> mode, steps |-> steps, profile |-> p]

MCProfiles == {Normal, Loss20}
MCRuns ==
    {Run(name, mode, 160, Normal) :
        name \in {"normal", "gateway_cli"} \cup DOMAIN SpecialPlans, mode \in {"fake", "cli"}}
    \cup {Run(name, "fake", 160, Loss20) : name \in {"normal", "loss_20"}}

BusyProfiles == {Busy80}
BusyRuns == {Run("busy_sos", "fake", 12, Busy80)}

MCTimes == 0..300 \cup {STEP_MS * k : k \in 0..159}
=============================================================================
