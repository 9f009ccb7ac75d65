--------------------------- MODULE MCTcpConnection ---------------------------
(* Instances of TcpConnection for TLC                                      *)
EXTENDS TcpConnection

\* One segment at a time, or all that there is
MCWindows == {1, 4}

AllFaults == {"loss", "reorder", "duplicate", "spurious"}
=============================================================================
