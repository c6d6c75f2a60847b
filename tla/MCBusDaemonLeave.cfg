SPECIFICATION FairSpec
CONSTANTS
  p1 = p1
  p2 = p2
  p3 = p3
  p4 = p4
  led = led
  Nil = Nil
  Peers = {p1, p2, p3}
  Leavers = {p1}
  Lines <- PingOnly
  Patterns = {led}
  Topics = {led}
  Matching <- OnePattern
  Fds = {5, 6, 7}
  Srv = 3
  MaxClients = 3
  MaxSubs = 1
  RecvCap = 1
  MaxLines = 1
CHECK_DEADLOCK FALSE
PROPERTIES PingAnswered
