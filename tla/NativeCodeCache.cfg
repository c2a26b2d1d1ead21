SPECIFICATION CacheSpec
CONSTANTS
  a = a
  b = b
  w1 = w1
  w2 = w2
  w3 = w3
  w4 = w4
  c1 = c1
  c2 = c2
  Page = {p1, p2, p3}
  Code = {c1, c2}
  NoPage = NoPage
  NoCode = NoCode
  NoWords = NoWords
  Compiled = Compiled
  Replacement = Replacement
  StartPc <- MCStartPc
  Object <- MCObject
  Words <- MCWords
  CodeOf <- MCCodeOf
INVARIANTS
  EntriesAreExecutable
  ExecutesMemorysCode
  PagesAreEntries
