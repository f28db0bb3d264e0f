CONSTANTS
  Player = {p1}
  Counter = {c1, c2}
  Seconds = {1, 2}
SPECIFICATION Spec
INVARIANT CountdownStoppable
