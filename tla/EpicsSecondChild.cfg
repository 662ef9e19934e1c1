CONSTANTS
  Child = {c1, c2}
  NoChild = NoChild
  Base = Base
  Epic = Epic
  Trunk = Trunk
  MaxWork = 3
SPECIFICATION Spec
CHECK_DEADLOCK FALSE
INVARIANTS EpicCanBeFetched
