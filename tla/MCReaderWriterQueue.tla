------------------------ MODULE MCReaderWriterQueue ------------------------
(* One writer and one reader on a queue of 3 slots (the queue size of     *)
(* sample/testQueues.cpp:158).                                            *)
EXTENDS ReaderWriterQueue, TLC
=============================================================================
