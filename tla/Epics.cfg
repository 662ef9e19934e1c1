CONSTANTS
  Child = {c1, c2}
  NoChild = NoChild
  Base = Base
  Epic = Epic
  Trunk = Trunk
  MaxWork = 3
SYMMETRY Symmetry
SPECIFICATION Spec
CHECK_DEADLOCK FALSE
INVARIANTS TypeOK SiblingsStayInEpic ChildHasMergedSiblings
