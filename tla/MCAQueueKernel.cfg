CONSTANTS
  Objects = {x, y}
  ObjCount = 2
  Nothing = Nothing
  Garbage = Garbage
  MaxSize = 5
SPECIFICATION Spec
INVARIANTS PagesFollowSize GetSeesFirst
PROPERTY ImplementsFIFO
