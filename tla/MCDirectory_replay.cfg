SPECIFICATION SafetySpec
CONSTANTS
  Sessions = {s1, s2}
  d1 = d1
  d2 = d2
  h1 = h1
  h2 = h2
  k1 = k1
  k2 = k2
  n1 = n1
  n2 = n2
  n3 = n3
  n4 = n4
  NoProof = NoProof
  Devices = {d1}
  Handles = {h1}
  NostrKeys = {k1, k2}
  Nonces = {n1, n2}
  Proofs <- MCReplay
  Skew = 1
  Lag = 1
  MaxTime = 4
  MaxCrashes = 1
  QueueDepth = 1
INVARIANTS
  TimelyProofOnce
