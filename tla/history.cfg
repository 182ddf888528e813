SPECIFICATION FairSpec
CONSTANTS
  None = None
  Texts = {t}
  Images = {i}
  Bodies = {mail, key}
  PrivateBodies = {mail}
  SecretBodies = {key}
  MaxEvents = 1
INVARIANTS
  TypeOK
  IndexObeysPolicy
  ErasedStaysErased
  ImagesMatchRecognition
PROPERTIES
  BacklogsAreWorkedOff
