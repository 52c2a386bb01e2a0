-------------------------- MODULE MCWorkerProtocol --------------------------
EXTENDS WorkerProtocol, TLC

MCAttempts == [candidate : Candidates, ordinal : 1..MaxAttempts]

MCOrigins ==
    {"worker", "settlement", "cancelled", "worker_crash", "lease_expired"}

Symmetry == Permutations(Consumers)

PoolSymmetry == Permutations(Consumers) \cup Permutations(Workers)
=============================================================================
