------------------------ MODULE MCCommandExecutorGui ------------------------
(* CommandExecutorGui with values for TLC: a stdout buffer as large as the *)
(* pipe (100K against 64K in the code), and a smaller one for stderr (10K  *)
(* against 64K), on which the child writes more than the buffer holds.     *)
EXTENDS CommandExecutorGui

MCBufSize == [ch \in Channel |-> IF ch = "stdout" THEN 3 ELSE 1]
MCMaxOutput == [ch \in Channel |-> IF ch = "stdout" THEN 1 ELSE 2]
=============================================================================
