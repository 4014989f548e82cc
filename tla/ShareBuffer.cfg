SPECIFICATION Spec
CONSTANTS
  SEGMENTS = 6
  BITMAP_BITS = 3
  login = login
  realData = realData
  pbuf1 = pbuf1
  pbuf2 = pbuf2
  StaticClients <- MCStatic
  PackClients <- MCPack
  LocalClients <- MCLocal
  Needs <- MCNeeds
INVARIANTS TypeOK WordOwnership LeftNbrNeverOverPromises SearchIsBestFit
PROPERTY PoolRefined
