----------------------------- MODULE MCPgChannel -----------------------------
\* PgChannel with the values its configurations give to the constants.
EXTENDS PgChannel, TLC

\* All tasks are messages of one chat.
OneChat == [t \in 1..NumTasks |-> "chatA"]

\* The processes are alike.
WorkerSymmetry == Permutations(Workers)

=============================================================================
