SPECIFICATION RegistrySpec
CONSTANTS
  Outputs = {"o1", "o2"}
  Seats = {"s1"}
  Required = {"compositor"}
  Places = {"p1", "p2"}
  Fractional = {"o2"}
  MaxChange = 2
INVARIANTS Informed RightOutput MirrorsOutputs
CHECK_DEADLOCK FALSE
