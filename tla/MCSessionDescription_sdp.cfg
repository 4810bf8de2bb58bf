SPECIFICATION Spec
CONSTANTS
  VideoCodecs = {"H264", "VP8"}
  KeptCodec = "H264"
  MaxSections = 3
INVARIANTS
  TypeOK
  AnswersLineUp
  AcceptedMediaSurvive
  AnswersAreCompatible
CHECK_DEADLOCK TRUE
