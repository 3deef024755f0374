SPECIFICATION Spec
CONSTANTS
  home = home
  tmp = tmp
  etc = etc
  missing = missing
  secret = secret
  Hidden <- MCHidden
  Unreadable = Unreadable
  sub = sub
  X = X
  Y = Y
  one = one
  two = two
  Nil = Nil
  Dirs <- MCDirs
  Home = home
  Existing <- MCExisting
  Absolute <- MCAbsolute
  Relative <- MCRelative
  Under <- MCUnder
  Inherited <- MCInherited
  Commands <- MCCommands
  Names <- MCNames
  Values <- MCValues
  MaxEnvVars = 1
  MaxLength = 3
INVARIANT TypeOK
PROPERTIES NothingInvented TracksShell
