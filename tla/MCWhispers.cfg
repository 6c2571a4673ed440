\* two shards with a client in the same room
CONSTANTS
  Shard = {"s1", "s2"}
  PerShard = 1
  Rooms = 1
  Protocols = {"anycable", "socketio", "uws"}
  MaxWhispers = 2
  MaxFaults = 2
SPECIFICATION Spec
INVARIANTS
  ReceivedWithinExpected
  PeersAreClients
