\* One worker counts removals while a thread calling writeQueueStats swaps
\* its counter; the queue must never count more removals than happened.
CONSTANTS
  Workers = {w1}
  Clients = {c1}
  MaxEntries = 2
  MaxReports = 2
SPECIFICATION Spec
INVARIANT RemovedNeverOvercounted
CHECK_DEADLOCK FALSE  \* the worker ends after finalize and the clients after MaxReports calls
