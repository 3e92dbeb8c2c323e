SPECIFICATION SceneSpec
CONSTANTS
  s1 = s1
  s2 = s2
  p1 = p1
  p2 = p2
  k1 = k1
  k2 = k2
  SceneServers = {s1, s2}
  Scenes = {k1, k2}
  Ports = {p1, p2}
  ListenPort <- ListenPorts
  SentScenes <- ScenesSent
  MaxFaults = 1
SYMMETRY SceneSymmetry
INVARIANTS SceneInv SentToConnected
PROPERTY RemovedByOwner
