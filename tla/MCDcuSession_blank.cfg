\* The reply is cleared before its value is taken.
CONSTANTS
  c1 = c1  c2 = c2  c3 = c3  c4 = c4  c5 = c5  c6 = c6
  Commands <- MCInstants
  Kind <- MCInstantsKind
  Objects <- MCInstantsObjects
  Perfil <- MCInstantsPerfil
  Macros = {}
  Automatic = {}
  MaxHandouts = 2
  ErrorFrames = FALSE
  OtherUsers = FALSE
  None = None
SPECIFICATION Spec
INVARIANTS ValuesFromAnswers
