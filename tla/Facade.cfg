SPECIFICATION FairSpec
CONSTANTS
  Listeners = {"l1", "l2"}
  Users = {u1, u2}
  Subscriptions = {"s1"}
  Statuses = {"CONNECTING", "DISCONNECTED"}
  MaxCalls = 2
  MaxReports = 2
INVARIANTS
  TypeOK
  ToldOfLast
  SubscriptionsAgree
PROPERTIES
  ImplementsContract
  CallsReturn
CHECK_DEADLOCK FALSE
