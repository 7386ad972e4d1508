SPECIFICATION Spec
CONSTANTS
  Peer <- SendPeer
  TxId <- SendTx
  Data <- SendData
  Anchor <- SendAnchor
  Remote = {}
  Dest <- SendDest
  NodeOf <- NoRemote
  Target <- SendTarget
  Carries <- SendCarries
  Origin <- SendOrigin
  Kind <- SendKind
  Sends <- SendSends
  Destroys <- SendDestroys
  Held = {}
  Fresh = {}
  Poller = {2, 3}
  MaxClock <- NoReleases
INVARIANTS NoWarn CachedPointers NoLostWakeup InKeyOrder SameOrderEverywhere CausalDelivery ContinueIsExact DeliveredOK
CHECK_DEADLOCK FALSE
