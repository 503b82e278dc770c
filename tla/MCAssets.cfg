SPECIFICATION Spec
CONSTANTS
  Audios = {a}
  Fonts = {f, g}
  Sessions = {s1, s2, s3}
  Previews = {p1, p2}
  Faces = {x, y}
  Handlers = {h1, h2}
  Dashboard = TRUE
  MaxVersion = 3
  None = None
  Items = {i}
  Root = root
  Filed = filed
  Categories = {root, filed}
  Starts <- MCStarts
  Admins = {h1, h2}
  Apps = {r}
  MaxEdits = 2
  Callers = {h1, h2}
  Proofs <- MCProofs
  LastAccount = 2
  IpLimit = 1
SYMMETRY Symmetry
CONSTRAINT Bounded
INVARIANTS
  FilesAreStored
  PublishedFontsShow
  EditsShow
  FirstSignIns
PROPERTIES
  FailureSpares
CHECK_DEADLOCK FALSE
