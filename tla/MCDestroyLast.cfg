SPECIFICATION Spec
CONSTANTS
  Peer <- SendPeer
  TxId <- DestroyTx
  Data <- DestroyData
  Anchor <- DestroyAnchor
  Remote <- DestroyRemote
  Dest <- DestroyDest
  NodeOf <- DestroyNodeOf
  Target <- DestroyTarget
  Carries <- DestroyCarries
  Origin <- DestroyOrigin
  Kind <- DestroyKind
  Sends <- DestroySends
  Destroys <- DestroyDestroys
  Held = {41}
  Fresh = {}
  Poller = {}
  MaxClock <- OneRelease
INVARIANTS DestroyIsLast
CHECK_DEADLOCK FALSE
