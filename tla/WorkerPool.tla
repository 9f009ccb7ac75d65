----------------------------- MODULE WorkerPool -----------------------------
(***************************************************************************)
(* What the server promises about workers, whatever clients and workers    *)
(* send: each worker is absent, idle or dedicated to one client; it is     *)
(* dedicated only when idle, to a client that has no worker, and it leaves *)
(* that client only by becoming absent or idle.                            *)
(***************************************************************************)
CONSTANTS Clients, Workers, Idle, Absent

VARIABLE holder     \* the state of each worker; a client if dedicated to it

IdleWorkers == {w \in Workers : holder[w] = Idle}

\* The pool after the workers in L have left it.
After(L) == [w \in Workers |-> IF w \in L THEN Absent ELSE holder[w]]

\* Workers leave: their hellos stopped, or their session ended.
Leave == \E L \in SUBSET Workers : holder' = After(L)

\* A worker announces itself; whatever it did before is over.
Join ==
    \E w \in Workers, L \in SUBSET IdleWorkers :
        holder' = [After(L) EXCEPT ![w] = Idle]

\* An idle worker is dedicated to a client that has none.
Serve ==
    \E w \in IdleWorkers, c \in Clients, L \in SUBSET IdleWorkers :
        /\ w \notin L
        /\ \A v \in Workers : holder[v] # c
        /\ holder' = [After(L) EXCEPT ![w] = c]

Init == holder = [w \in Workers |-> Absent]

Next == Leave \/ Join \/ Serve

Spec == Init /\ [][Next]_holder

=============================================================================
