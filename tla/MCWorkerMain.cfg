SPECIFICATION FairSpec
CONSTANTS
  Requests = {"t1", "v1", "v2"}
  Model <- MCModel
  HasImages = {"v1", "v2"}
  Streaming = {"v1"}
  Cancellable = {"v1"}
  TickMax = 2
  MaxWire = 2
INVARIANTS
    AnswersSound
    CancelSettles
PROPERTIES
  EndsWithGateway
