\* What lists record, and the slots of the views they record with: one part in each behaviour.
CONSTANTS
  Flags = {"graphics", "compute"}
  Uav = {"u1", "u2"}
  Raster = {r1, r2}
  Compute = {c1, c2}
  Specialised = {r1, c1}
  Null = "none"
  PassBuffer = {"b"}
  Colour = {"m", "c"}
  Depth = {"d"}
  Layers <- LayerCounts
  Usable <- UsableLayouts
  MaxTargets = 2
  VertexBuffer = {"b1", "b2"}
  VertexPipeline = {"p", "q", "r"}
  VertexStrides <- PipelineStrides
  Slots = 2
  Queries = 3
  BarrierImage = {"i1", "i2"}
  SwapImage = {"i2"}
  Queue = {"q1", "q2"}
  Layout = {"Undefined", "UnorderedAccess", "TransferSrc", "TransferDst", "BlitSrc", "BlitDst", "RenderTarget", "PresentSrc"}
  MaxPending = 2
  Creator = "creator"
  Collector = "collector"
  BlitImage = {"i"}
  RenderTarget = {"r1", "r2"}
  BlitViews = 2
  MaxReleases = 3
SPECIFICATION PartSpec
INVARIANTS
  PartsTypeOK
  SlotsInOrder
  CopiesLand
  ViewsShowWhatWasAsked
  PipelinesAgree
  BuildsFitTheirRoom
  ClearsAndSamplesAsAsked
PROPERTIES
  SlotTableSpec
  DrawsFindWhatWasSet
  PassesKeepTheStates
  BarriersAreInTime
