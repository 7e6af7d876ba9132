SPECIFICATION ShapeSpec
CONSTANTS
  ShapePictures = {"photo"}
  SamplePicture = "sample"
  ShapeSettings = {s1}
  FoundCounts = {0, 2}
  CacheLimit = 1
  MaxAdded = 1
  MaxSaved = 1
  MaxFiles = 2
PROPERTY
  ResultUntilNewImage
\* The page stops at its bounds.
CHECK_DEADLOCK FALSE
