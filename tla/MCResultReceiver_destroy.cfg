\* Two adder threads of testQueues.cpp each block on a ResultReceiver of
\* their own while a consumer delivers; the receiver must outlive the
\* consumer's setPopulated.
CONSTANTS
  Producers = {p1, p2}
  Spurious = FALSE
SPECIFICATION RRSpec
SYMMETRY ProducerSymmetry
INVARIANT ReceiverOutlivesSetter
