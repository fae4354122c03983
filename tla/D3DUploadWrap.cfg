\* One list that uploads more than one buffer holds.
CONSTANTS
  List = {c1}
  Size = 2
  PerList = 3
  MaxSubmits = 1
  MaxUnused = 1
SPECIFICATION Spec
INVARIANT UploadsIntact
