SPECIFICATION Spec
CONSTANTS
  Peer <- SendPeer
  TxId <- ResetTx
  Data <- ResetData
  Anchor <- ResetAnchor
  Remote = {}
  Dest <- ResetDest
  NodeOf <- NoRemote
  Target <- ResetTarget
  Carries <- ResetCarries
  Origin <- ResetOrigin
  Kind <- ResetKind
  Sends <- ResetSends
  Destroys <- ResetDestroys
  Held = {}
  Fresh = {32}
  Poller = {}
  MaxClock <- OneRelease
INVARIANTS ReadyIsReadable
CHECK_DEADLOCK FALSE
