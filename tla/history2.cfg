SPECIFICATION Spec
CONSTANTS
  None = None
  Texts = {t}
  Images = {i}
  Bodies = {mail, key}
  PrivateBodies = {mail}
  SecretBodies = {key}
  MaxEvents = 2
INVARIANTS
  TypeOK
  IndexObeysPolicy
  ErasedStaysErased
  ImagesMatchRecognition
