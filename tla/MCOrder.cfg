SPECIFICATION Spec
CONSTANTS
  Peer <- OrderPeer
  TxId <- SendTx
  Data <- OrderData
  Anchor <- SendAnchor
  Remote = {}
  Dest <- OrderDest
  NodeOf <- NoRemote
  Target <- OrderTarget
  Carries <- OrderCarries
  Origin <- OrderOrigin
  Kind <- SendKind
  Sends <- OrderSends
  Destroys <- SendDestroys
  Held = {}
  Fresh = {}
  Poller = {}
  MaxClock <- NoReleases
INVARIANTS GlobalOrder
CHECK_DEADLOCK FALSE
