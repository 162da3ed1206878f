SPECIFICATION FlightSpec
CONSTANTS
  r1 = r1  r2 = r2  r3 = r3  r4 = r4
  a = a  b = b
  Requests <- MCRequests
  Inputs <- MCInputs
  InputOf <- MCInputOf
  CoordinationPolicy = "UntilPrefixPublished"
  MaxFlightId = 4
  NoFlight = NoFlight
INVARIANTS FlightConsistent
PROPERTY ImplementsSingleFlight
