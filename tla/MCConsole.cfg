CONSTANTS
  l1 = l1
  l2 = l2
  ca = ca
  cb = cb
  a = a
  b = b
  Launches = {l1, l2}
  Flagged = {l1}
  Contexts = {ca, cb}
  Clusters = {a, b}
  ClusterOf <- MCClusterOf
  Requests = {q1, q2}
  MaxKills = 1
  None = None
  Unreadable = Unreadable
SPECIFICATION FairSpec
INVARIANT SoleOwner
INVARIANT OneCluster
PROPERTY RecordsKept
PROPERTY ShutdownEnds
INVARIANT CredentialLifetime
