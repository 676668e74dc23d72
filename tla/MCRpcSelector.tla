--------------------------- MODULE MCRpcSelector ---------------------------
EXTENDS RpcSelector, TLC

Providers3(a, b, c) == 0 :> a @@ 1 :> b @@ 2 :> c

\* Turns and weights, paused providers as the last resort, a URL without client, a provider
\* of weight zero, and one selector for both calls.
MCSettings ==
    {[role |-> Providers3("healthy", "sick", "sick"), weighted |-> FALSE, shared |-> FALSE],
     [role |-> Providers3("sick", "disabled", "sick"), weighted |-> TRUE, shared |-> FALSE],
     [role |-> Providers3("sick", "broken", "healthy"), weighted |-> FALSE, shared |-> FALSE],
     [role |-> Providers3("healthy", "sick", "disabled"), weighted |-> FALSE, shared |-> TRUE]}
=============================================================================
