SPECIFICATION Spec
CONSTANTS
  Sources = {ym, psg}
  ym = ym
  psg = psg
  BufferSamples = 2
  MaxLead = 4
INVARIANTS TypeOK WholeBuffers WritesInBounds
PROPERTIES EmulatorProceeds CallbackReturns
