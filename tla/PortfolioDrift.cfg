SPECIFICATION Spec
CONSTANTS
  Symbols <- MCSymbols
  Plans <- MCPlans
  Overlap = FALSE
  Starts <- MCStarts
  Price <- MCPrice
  Stop <- MCStop
  Info <- MCInfo
  Correlated <- MCCorrelated
  Policy <- MCPolicy
  Powers <- MCPowers
  Markets <- MCMarkets
INVARIANT UntouchedStays
CHECK_DEADLOCK FALSE
