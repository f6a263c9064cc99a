SPECIFICATION Spec
CONSTANTS
  N_RX = 2
  ARP_ENTRIES = 2
  Hosts <- ThreeHosts
  Macs <- TwoMacs
  Kinds <- AllKinds
  MaxFrames = 3
  MaxPings = 2
INVARIANTS RingSound RepliesMatch
PROPERTIES PollsReturn
