SPECIFICATION Spec
CONSTANTS
  v1 = v1
  v2 = v2
  v3 = v3
  v4 = v4
  Partial = Partial
  Marker = Marker
  NoFile = NoFile
  Image <- FourImages
  Factory = v1
  Behaviour <- ImageBehaviour
  MaxFlashErrors = 1
  PowerCuts = TRUE
  NetOutages = TRUE
  LossyReplies = FALSE
INVARIANTS
  TypeOK
  GoodCopySurvives
  RestartIsSafe
  TrialIsBooted
PROPERTIES
  ImplementsTrial
  EveryTrialSettles
  ServesAgain
