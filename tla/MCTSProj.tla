------------------------------ MODULE MCTSProj ------------------------------
(* TSProj with every list of at most two commands as a batch: both markers, *)
(* nested and unmatched ones included, two writes and an unsupported command.*)
EXTENDS TSProj, TLC

\* Storages are interchangeable.
StorageSymmetry == Permutations(Storages)

MCCommands == {[op |-> "write", id |-> 1], [op |-> "write", id |-> 2],
               [op |-> "tx_start", id |-> 0], [op |-> "tx_end", id |-> 0],
               [op |-> "generic", id |-> 0]}

MCBatches == {<<>>} \cup {<<c>> : c \in MCCommands}
             \cup {<<c, d>> : c \in MCCommands, d \in MCCommands}
=============================================================================
