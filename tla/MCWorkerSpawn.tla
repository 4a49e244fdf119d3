----------------------------- MODULE MCWorkerSpawn -----------------------------
EXTENDS WorkerSpawn

==============================================================================
