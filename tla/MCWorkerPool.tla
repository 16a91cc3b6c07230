--------------------------- MODULE MCWorkerPool ---------------------------
\* Three threads and two jobs: drains compete for the last job while others end.
EXTENDS WorkerPool
=============================================================================
