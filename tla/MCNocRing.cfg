SPECIFICATION FairSpec
CONSTANTS
  Senders = {s1, s2}
  Packets <- MCPackets
  MaxPackets = 3
INVARIANTS PollFinds FreshGuarded
PROPERTIES DataAnnounced StopEnds
CHECK_DEADLOCK FALSE
