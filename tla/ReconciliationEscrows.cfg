\* One payment, a second lock of it, the coordinator and the reconciler.
SPECIFICATION ReconSpec
CONSTANTS
  Keys = {k1}
  Balances = {b1, b2}
  PaymentCallers = {c1}
  Passes = {p1}
  Actors = {c1, p1}
  NoKey = NoKey
  NoBalance = NoBalance
  MaxFaults = 1
INVARIANT ReconInv
 
CHECK_DEADLOCK FALSE
