\* Commands beside an application: one name, two document handles, three schemas of which one is refused.
SPECIFICATION CliSpec
CONSTANTS
  name = name
  h1 = h1
  h2 = h2
  fine = fine
  lone = lone
  fffd = fffd
  None = None
  key = key
  low = low
  malformed = malformed
  Names <- MCNames
  Ids <- MCIds
  IllFormed = {lone}
  Replacement = fffd
  date = date
  invalid = invalid
  mute = mute
  Instances = {date, invalid, mute}
  ToJSON <- MCToJSON
  Raw = Raw
  DocHandles = {h1, h2}
  NameOf <- MCNameOf
  Schemas <- MCSchemas
  Docs <- MCDocs
  Plain = {key}
  Opaque = {low}
  Texts = {fine, lone}
  Files <- MCFiles
  Malformed = malformed
INVARIANTS
  TypeOK
  RowsFitSchema
  MemoIsTrue
  NobodyBeneath
  DumpFits
PROPERTIES
  OnlyItsOwn
  KindIsForever
  RegisteredWithDocument
VIEW Situation
SYMMETRY Alike
