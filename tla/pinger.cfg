SPECIFICATION FairSpec
CONSTANT Nodes = {n1, n2, n3}
INVARIANT TypeOK
PROPERTIES
  SendsFinished
  SendsAnswers
  RoundEnds
\* The pinger stops for good in a round that counted more rows than it read.
CHECK_DEADLOCK FALSE
