\* Commands of all kinds but events, with errors and a shared connection.
CONSTANTS
  c1 = c1  c2 = c2  c3 = c3  c4 = c4  c5 = c5  c6 = c6
  Commands <- MCMixed
  Kind <- MCMixedKind
  Objects <- MCMixedObjects
  Perfil <- MCMixedPerfil
  Macros <- MCMixedMacros
  Automatic <- MCMixedAutomatic
  MaxHandouts = 3
  ErrorFrames = TRUE
  OtherUsers = TRUE
  None = None
SPECIFICATION Spec
INVARIANTS TypeOK OneSavePerHandout DeadSessionTakesOne
PROPERTIES OnlyErrorsRelease
