---------------------------- MODULE MCPublicAlert ----------------------------
EXTENDS PublicAlert

\* A task of gw-api for an operator, a loader that posts superevents and gw-clusterer.
MCOperator == {"operator"}
MCWriter   == {"loader", "clusterer"}
MCClient   == MCOperator \cup MCWriter
MCLevels   == <<90>>

Write1(by, preferred, map, new) ==
  [by |-> by, id |-> "S1", preferred |-> preferred, map |-> map, new |-> new]

\* The loader posts a superevent with a map, then with another one; gw-clusterer
\* writes its own of that id, which has no map yet.
MCWrites ==
  [ loader    |-> << Write1("gw-api", "G1", <<"m1">>, TRUE),
                     Write1("gw-api", "G1", <<"m2">>, TRUE) >>,
    clusterer |-> << Write1("gw-clusterer", "G2", NoBlob, FALSE) >> ]

Api == MCClient \ {"clusterer"}

MCDeployments ==
  { [backend |-> "mongo", cached |-> {}, compress |-> {}, publisher |-> FALSE],
    [backend |-> "s3", cached |-> Api, compress |-> Api, publisher |-> TRUE] }
===============================================================================
