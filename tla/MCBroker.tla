------------------------------ MODULE MCBroker ------------------------------
(***************************************************************************)
(* Instances of Broker: two clients of different sessions, an official     *)
(* worker that also offers its custom environment, a plain official one,   *)
(* and one of the other session that offers more than it may.  A client    *)
(* may also ask for that session's environment by its full name.           *)
(***************************************************************************)
EXTENDS Broker, TLC

CONSTANTS c1, c2, w1, w2, w3, e1, custom, admin, test, adminCustom, testCustom

MCEnvs == {e1, custom, testCustom}
MCPrivateEnv == [s \in {admin, test} |-> IF s = admin THEN adminCustom ELSE testCustom]
MCSession == [p \in Clients \cup Workers |-> IF p \in {c1, w1, w2} THEN admin ELSE test]
MCWorkerEnvs == [w \in Workers |-> IF w = w2 THEN {e1} ELSE {e1, custom}]

=============================================================================
