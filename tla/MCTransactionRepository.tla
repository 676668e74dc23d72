----------------------- MODULE MCTransactionRepository -----------------------
EXTENDS TransactionRepository, TLC
CONSTANTS q1, q2, l1, k1

MCRequests == {q1, q2}
MCKeyOf == [i \in MCRequests \cup {l1} |-> IF i = l1 THEN None ELSE k1]
MCBodyOf == [i \in MCRequests |-> "a"]
=============================================================================
