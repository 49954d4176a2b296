SPECIFICATION Spec
CONSTANTS
  Workers = {w1, w2}
  Items = {i1, i2, i3}
  Cap = 1
  None = none
\* after a drop of the pool nothing happens any more
CHECK_DEADLOCK FALSE
INVARIANTS
  EachItemOnce
PROPERTY WorkCompletes
