SPECIFICATION Spec
CONSTANTS
  Symbols <- MCSymbols
  Plans <- MCPlans
  Overlap = TRUE
  Starts <- MCStarts
  Price <- MCPrice
  Stop <- MCStop
  Info <- MCInfo
  Correlated <- MCCorrelated
  Policy <- MCPolicy
  Powers <- MCPowers
  Markets <- MCMarkets
PROPERTY PendingCounted
CHECK_DEADLOCK FALSE
