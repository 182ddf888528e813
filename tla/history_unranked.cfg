SPECIFICATION Spec
CONSTANTS
  None = None
  Texts = {t}
  Images = {i}
  Bodies = {mail, key}
  PrivateBodies = {mail}
  SecretBodies = {key}
  MaxEvents = 1
INVARIANTS
  ErasedTextIsUnranked
