----------------------------- MODULE MCDataPath ------------------------------
(* Instances of DataPath with two links and bursts of four packets.         *)
EXTENDS DataPath

MCCids == {Wifi, Lte}

\* a packets over Wi-Fi, the others over LTE
WifiShare(a) == [c \in Cids |-> IF c = Wifi THEN a ELSE 4 - a]

MCSplits == {WifiShare(a) : a \in {1, 2}}

MCMaxPackets == [m \in Modes |-> IF m = "split" THEN 6 ELSE 5]
MCMaxTsus    == [m \in Modes |-> IF m = "steer" THEN 2 ELSE 1]

=============================================================================
