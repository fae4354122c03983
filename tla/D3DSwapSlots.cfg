\* Back buffers that are targets of blits, so each has a render target view.
CONSTANTS
  BufferCount = 2
  Blits = TRUE
  MaxSlots = 4
SPECIFICATION Spec
INVARIANT SlotsComeBack
