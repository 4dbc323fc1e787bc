---------------------------- MODULE MCSshSession ----------------------------
(* A window of three bytes, so that the server runs out of it.             *)
EXTENDS SshSession

MCBytes == [s \in Streams |-> CASE s = "in" -> 1 [] s = "out" -> 2 [] s = "err" -> 1]
MCInput == [s \in Streams |-> IF s = "in" THEN 1 ELSE 0]
MCOutput == [s \in Streams |-> IF s = "out" THEN 5 ELSE 0]
=============================================================================
