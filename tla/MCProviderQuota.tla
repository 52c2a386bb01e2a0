--------------------------- MODULE MCProviderQuota ---------------------------
(* The quota ledger with three calls, two of them for the same symbol.     *)
EXTENDS ProviderQuota, TLC

CONSTANTS c1, c2, c3, symA, symB

MCSymbolOf == [c \in Calls |-> IF c = c3 THEN symB ELSE symA]
MCLimit == [requests |-> 2, symbols |-> 1, inflight |-> 2]
MCOneAtATime == [requests |-> 3, symbols |-> 2, inflight |-> 1]

\* The two calls for symA are interchangeable.
SameSymbol == Permutations({c1, c2})
=============================================================================
