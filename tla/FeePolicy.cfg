\* Every policy of the instance, valid or not, at every price.  A quote is the
\* last thing that happens, so the runs end.
SPECIFICATION Spec
CHECK_DEADLOCK FALSE
CONSTANTS
  None = None
  Refused = Refused
  Half <- MCHalf
  Precision = 512
  Scale = 2
  Values <- MCValues
  Limits <- MCLimits
  Prices <- MCPrices
INVARIANTS TypeOK SettlementConserved FeeWithinLimits FeeFollowsPolicy RefusedForCause
