\* Shapes rasterised onto canvases of up to five by three pixels.
SPECIFICATION Spec
CONSTANTS
  Jobs <- MCJobs
  Image <- MCImage
INVARIANTS
  CoversItsShapes
  RampIsDistance
  RefusesTheEmptyShape
  ReadAsDrawn
