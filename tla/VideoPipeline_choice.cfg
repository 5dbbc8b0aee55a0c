SPECIFICATION Spec
CONSTANTS
  Devices <- Recorders
  Cameras = {0, 1, 2, 3, 4, 5, 6, 7}
INVARIANTS CopyIsVerified OneConsumer TranscodeFromHeader FallbacksBounded StreamsWhatWasAsked
