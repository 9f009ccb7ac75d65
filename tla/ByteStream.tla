------------------------------ MODULE ByteStream -----------------------------
(***************************************************************************)
(* What a TCP connection promises to its applications: the reader takes    *)
(* what the writer wrote, in order and without a gap, so that a count      *)
(* stands for it; the stream ends for the reader once the writer has       *)
(* closed it and all of it has been read.  Nothing says that it must end.  *)
(***************************************************************************)
EXTENDS Naturals

CONSTANT Data   \* segments that the writer has at most, a number

VARIABLES written, read, closed, ended

Init == written = 0 /\ read = 0 /\ closed = FALSE /\ ended = FALSE

Write == /\ ~closed /\ written < Data
         /\ written' = written + 1
         /\ UNCHANGED <<read, closed, ended>>

Read == /\ ~ended
        /\ read' \in read + 1 .. written
        /\ UNCHANGED <<written, closed, ended>>

CloseStream == /\ closed' = TRUE
               /\ UNCHANGED <<written, read, ended>>

\* The last data may be read in the same step.
End == /\ closed /\ ~ended
       /\ read' = written
       /\ ended' = TRUE
       /\ UNCHANGED <<written, closed>>

Next == Write \/ Read \/ CloseStream \/ End

Spec == Init /\ [][Next]_<<written, read, closed, ended>>
=============================================================================
