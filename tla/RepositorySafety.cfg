SPECIFICATION Spec
CONSTANTS
  q1 = q1
  q2 = q2
  l1 = l1
  k1 = k1
  Requests <- MCRequests
  Legacy = {l1}
  Keys = {k1}
  KeyOf <- MCKeyOf
  BodyOf <- MCBodyOf
  Workers = {w1}
  Nonces = {}
  Written = {"Sent", "Confirmed"}
  None = None
  MaxFaults = 1
INVARIANTS TypeOK MonitoredIsListed
PROPERTIES ImplementsStore
CHECK_DEADLOCK FALSE
