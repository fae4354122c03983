\* A list that draws, blits and draws again.
CONSTANTS
  Flags = {"graphics", "compute"}
  Uav = {"u1"}
  Raster = {"r1"}
  Compute = {"c1"}
  Specialised = {}
  Null = "none"
SPECIFICATION Spec
PROPERTY DrawsAreBound
