\* A device whose switch locks the speaker and the camera.
SPECIFICATION Spec
CONSTANTS
  SpeakerLocks = TRUE
  CameraLocks = TRUE
  Scenes <- TwoScenes
  NoScene = NoScene
  None = None
  MaxEvents = 6
INVARIANTS
  TypeOK
  LockedCameraIsOff
  WakeIsFinal
  SpeakerChoiceKept
  CameraChoiceKept
  CameraFollowsFlag
CHECK_DEADLOCK FALSE
