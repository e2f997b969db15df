\* Every declaration with the room it needs, with one character less, and
\* with plenty; copies cut short anywhere.
CONSTANT Cases <- Asked
SPECIFICATION Spec
INVARIANTS
  NamesReadBack
  RoomIsEnough
CHECK_DEADLOCK FALSE
