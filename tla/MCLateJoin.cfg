SPECIFICATION Spec
CONSTANTS
  Peer <- SendPeer
  TxId <- DestroyTx
  Data <- DestroyData
  Anchor <- PairAnchor
  Remote <- PairRemote
  Dest <- PairDest
  NodeOf <- PairNodeOf
  Target <- DestroyTarget
  Carries <- DestroyCarries
  Origin <- DestroyOrigin
  Kind <- DestroyKind
  Sends <- DestroySends
  Destroys <- PairDestroys
  Held = {41, 43}
  Fresh = {}
  Poller = {}
  MaxClock <- NoReleases
PROPERTIES LateJoinStaysBehind
CHECK_DEADLOCK FALSE
