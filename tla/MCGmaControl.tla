---------------------------- MODULE MCGmaControl ----------------------------
(* Instances of GmaControl: a client and its router over Wi-Fi and LTE.    *)
EXTENDS GmaControl

CONSTANTS client, router,
          ClientCsn, RouterCsn   \* their bounds

MCCids   == {Wifi, Lte}
MCPeers  == {client, router}
MCSplits == {AllTo(Lte, 128), [c \in Cids |-> IF c \in {Wifi, Lte} THEN 64 ELSE 0]}
MCMaxCsn == [n \in Peers |-> IF n = client THEN ClientCsn ELSE RouterCsn]

=============================================================================
