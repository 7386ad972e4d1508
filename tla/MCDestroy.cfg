SPECIFICATION FairSpec
CONSTANTS
  Peer <- SendPeer
  TxId <- DestroyTx
  Data <- DestroyData
  Anchor <- DestroyAnchor
  Remote <- DestroyRemote
  Dest <- DestroyDest
  NodeOf <- DestroyNodeOf
  Target <- DestroyTarget
  Carries <- DestroyCarries
  Origin <- DestroyOrigin
  Kind <- ReleaseKind
  Sends <- DestroySends
  Destroys <- DestroyDestroys
  Held = {41}
  Fresh = {}
  Poller = {}
  MaxClock <- OwnerReleases
INVARIANTS IInv CInv NoWarn ValidUntilDestroyed
CHECK_DEADLOCK FALSE
PROPERTIES QueuesDrain
