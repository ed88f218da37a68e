\* Two editors and an upload over two saved mappings and a built-in profile.
CONSTANTS
  m1 = m1
  m2 = m2
  n1 = n1
  n2 = n2
  date = date
  DATE = DATE
  d1 = d1
  d2 = d2
  e1 = e1
  e2 = e2
  NoName = NoName
  Idle = Idle
  NoEntry = NoEntry
  Refused = Refused
  Mapping = {m1, m2}
  Name = {n1, n2}
  Header = {date, DATE}
  Form <- MCForm
  cutting = cutting
  keeping = keeping
  File <- MCFile
  Dialect = {cutting, keeping}
  Seen <- MCSeen
  DialectOf <- MCDialectOf
  Unreadable = Unreadable
  Declaration = {d1, d2}
  Confirmable <- MCConfirmable
  b1 = b1
  BuiltIn = {b1}
  BuiltInHeader <- MCBuiltInHeader
  Editor = {e1, e2}
  u1 = u1
  Upload = {u1}
  MaxVersions = 3
SPECIFICATION Spec
INVARIANT TypeOK OneLineOfVersions
PROPERTY ConfirmedVersionStands ReadUnderItsMapping
SYMMETRY Symmetric
