---------------------------- MODULE MCNetworkGym ----------------------------
(* Instances of NetworkGym with one official session.                      *)
EXTENDS NetworkGym, TLC

CONSTANTS e1, admin, custom, adminCustom

MCEnvs == {e1}
MCSession == [p \in Clients \cup Workers |-> admin]
MCWorkerEnvs == [w \in Workers |-> {e1}]
MCPrivateEnv == [s \in {admin} |-> adminCustom]
MCEnvOf == [c \in Clients |-> e1]
MCTimestamps == 0..TotalSteps

=============================================================================
