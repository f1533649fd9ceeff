SPECIFICATION FairSpec
CONSTANTS
  in1 = in1
  in2 = in2
  Addrs <- MCAddrs
  NoAddr = NoAddr
  Sent <- MCSent
  Slots = 1
  MaxSpent = 2
  MaxMsgs = 0
  MaxFds = 2
CHECK_DEADLOCK FALSE
PROPERTY Reclaims
