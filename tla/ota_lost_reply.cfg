SPECIFICATION Spec
CONSTANTS
  v1 = v1
  v2 = v2
  v3 = v3
  v4 = v4
  Partial = Partial
  Marker = Marker
  NoFile = NoFile
  Image <- FourImages
  Factory = v1
  Behaviour <- ImageBehaviour
  MaxFlashErrors = 0
  PowerCuts = FALSE
  NetOutages = FALSE
  LossyReplies = TRUE
INVARIANT
  GoodCopySurvives
CHECK_DEADLOCK FALSE
