SPECIFICATION FairSpec
CONSTANT Nodes = {n1, n2, n3}
PROPERTY PingsPeriodically
\* The pinger stops for good in a round that counted more rows than it read.
CHECK_DEADLOCK FALSE
