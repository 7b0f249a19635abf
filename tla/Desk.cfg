SPECIFICATION Spec
CONSTANTS
  Orders = {o1}
  MaxUsers = 3
  MaxOnOutline = 4
  MaxKeys <- FewKeys
  Slots = {1, 2}
  MaxRequests <- FewRequests
  MaxTroubles <- FewTroubles
  None = None
  Absent = Absent
INVARIANTS
  TypeOK
  LinkResolvesToOwnKey
  KeepsConnection
  CeilingHolds
PROPERTIES
  EveryKeyIsManaged
  ImplementsOrderBook
CHECK_DEADLOCK FALSE
