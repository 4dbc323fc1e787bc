--------------------------- MODULE RemoteCommand ---------------------------
(***************************************************************************)
(* What a session channel promises to the programs at its two ends: the    *)
(* user's terminal or pipe on one side, the command on the other, are      *)
(* joined by three pipes.  "in" is read by the command, "out" and "err"    *)
(* are read by the user.  Bytes are numbered as the program wrote them.    *)
(***************************************************************************)
EXTENDS Integers, Sequences

Streams == {"in", "out", "err"}

VARIABLES
    written,   \* written[s]: the number of bytes written to the stream
    ended,     \* ended[s]: the writing program has closed the stream
    got,       \* got[s]: the bytes the reading program has received
    reader,    \* reader[s]: "reading", "eof" (it saw the end) or "gone"
    exited,    \* the command has exited
    status     \* the user has been told the exit status

vars == <<written, ended, got, reader, exited, status>>

Init ==
    /\ written = [s \in Streams |-> 0]
    /\ ended = [s \in Streams |-> FALSE]
    /\ got = [s \in Streams |-> <<>>]
    /\ reader = [s \in Streams |-> "reading"]
    /\ exited = FALSE
    /\ status = FALSE

(* The program writes, or a process that the command left behind does.     *)
Write(s) ==
    /\ ~ended[s] \/ (s # "in" /\ exited)
    /\ written' = [written EXCEPT ![s] = @ + 1]
    /\ UNCHANGED <<ended, got, reader, exited, status>>

End(s) ==
    /\ ended' = [ended EXCEPT ![s] = TRUE]
    /\ UNCHANGED <<written, got, reader, exited, status>>

(* The user has gone from one of its streams: the session may be cut.      *)
Cut == \E s \in {"out", "err"} : reader[s] = "gone"

(* Bytes written and not yet received arrive, in order; the readers in S   *)
(* see the end of their streams, for which they must have all of it.       *)
Receive(S) ==
    /\ \A s \in Streams :
         /\ \E n \in Len(got[s]) .. written[s] : got'[s] = [i \in 1..n |-> i]
         /\ reader[s] # "reading" => got'[s] = got[s]
    /\ \A s \in S :
         /\ reader[s] = "reading"
         /\ (ended[s] /\ Len(got'[s]) = written[s]) \/ Cut
    /\ reader' = [s \in Streams |-> IF s \in S THEN "eof" ELSE reader[s]]
    /\ UNCHANGED <<written, ended, exited, status>>

Leave(s) ==
    /\ reader' = [reader EXCEPT ![s] = "gone"]
    /\ UNCHANGED <<written, ended, got, exited, status>>

(* The command exits, or could not be started: it reads no more.           *)
Exit ==
    /\ ~exited
    /\ exited' \in BOOLEAN
    /\ ended' = [ended EXCEPT !["out"] = TRUE, !["err"] = TRUE]
    /\ reader' = [reader EXCEPT !["in"] = "gone"]
    /\ UNCHANGED <<written, got, status>>

Report ==
    /\ exited
    /\ status' = TRUE
    /\ UNCHANGED <<written, ended, got, reader, exited>>

Next ==
    \/ \E s \in Streams : Write(s) \/ End(s) \/ Leave(s)
    \/ \E S \in SUBSET Streams : Receive(S)
    \/ Exit \/ Report

Spec == Init /\ [][Next]_vars
=============================================================================
