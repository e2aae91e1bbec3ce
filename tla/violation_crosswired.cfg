SPECIFICATION Spec
CONSTANTS
  e1 = e1
  e2 = e2
  f1 = f1
  f2 = f2
  f3 = f3
  Events = {e1}
  Files = {f1, f2}
  Workers = {w1}
  None = None
  Folder <- OneFolder
  Kind <- Kinds
  Faces <- NumFaces
  ThumbFaces <- NumThumbFaces
  UseThumbnails = FALSE
  BatchSize = 2
  MaxRetries = 1
  MaxVersion = 1
  MaxRequests = 3
  MaxCrashes = 1
  MaxSaveFailures = 0
INVARIANT NoCrossWiring
