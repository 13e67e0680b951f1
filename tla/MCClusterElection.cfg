CONSTANTS
  Node = {1, 2}
  Flaky = {1, 2}
SPECIFICATION ClusterSpec
INVARIANT OneCollector
PROPERTY ElectsOne
