CONSTANTS
  Tools = {"forwarder", "systrace", "logcat", "vulcanize", "usb"}
  p1 = p1
  p2 = p2
  d1 = d1
  d2 = d2
  g = g
  Proc = {p1, p2}
  Dev = {d1, d2}
  DevPort = {0, 1}
  Owner <- MCOwner
  Group <- MCGroup
  NoGroup = other
  PortFirst = 1
  PortLast = 2
  MaxResets = 1
  MaxJobs = 3
  Recorder = {1, 2}
  MaxLines = 3
  MaxStarts = 2
  Sought = 2
  Name = {"a", "b", "c", "base"}
  Base = "base"
  Component = {"base"}
  Root = {1, 2}
  Missing = Missing
  Trees <- MCTrees
  Twins <- MCTwins
  Asks <- MCAsks
  Outs <- MCOuts
  MaxDepth = 2
  MaxVulcan = 2
  Serial = {"s1", "s2"}
  Hubs <- MCHubs
  Places <- MCPlaces
  LastNum = 9
  NoSerial = "no"
  MaxChanges = 1
SYMMETRY MCSymmetry
SPECIFICATION Spec
INVARIANTS
  ForwardsAreKnown
  SessionIsComplete
  OneRecorder
  BundleIsWhole
  UsbIsTrue
PROPERTY MarkersWhileTracing
CHECK_DEADLOCK FALSE
