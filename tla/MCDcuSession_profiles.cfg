\* Profiles and events, from a concentrator that reports no error.
CONSTANTS
  c1 = c1  c2 = c2  c3 = c3  c4 = c4  c5 = c5  c6 = c6
  Commands <- MCProfiles
  Kind <- MCProfilesKind
  Objects <- MCProfilesObjects
  Perfil <- MCProfilesPerfil
  Macros = {}
  Automatic <- MCProfilesAutomatic
  MaxHandouts = 4
  ErrorFrames = FALSE
  OtherUsers = TRUE
  None = None
SPECIFICATION Spec
INVARIANTS SavedUnderOwnRow
PROPERTIES CommandKept
