------------------------------ MODULE MCServer ------------------------------
(* At most two clients and two workers; the .cfg says what they send.       *)
EXTENDS Server, TLC

CONSTANTS c1, c2, w1, w2

MCClients == {c1, c2}
MCWorkers == {w1, w2}
OneClient == {c1}
OneWorker == {w1}
MCQueries == {"SELECT ", "SELECT"}

OrderlyCommands  == {"select_all", "select_where", "insert", "delete", "create", "quit"}
UpdateAndInsert  == {"update", "insert"}
ScriptedCommands == {"select_all", "quit"}      \* script_clienti.py

\* Clients and workers are interchangeable (for safety only).
ServerSymmetry == Permutations(MCClients) \cup Permutations(MCWorkers)
=============================================================================
