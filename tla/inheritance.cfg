SPECIFICATION InheritanceSpec
CONSTANTS
  None = None
  r1 = r1
  r2 = r2
  r3 = r3
  old = old
  other = other
  new = new
  p1 = p1
  p2 = p2
  p3 = p3
  g = g
  h = h
  f1 = f1
  f2 = f2
  f3 = f3
  f4 = f4
  d1 = d1
  d2 = d2
  BlankTokens = ""
  Repositories = {r1, r2, r3}
  Keys = {old, other, new}
  Paths = {p1, p2, p3}
  Symbols = {g, h}
  Mentions <- MCMentions
  FileBytes <- MCFileBytes
  IndexBytes = 1
  MaxCachedBytes = 2
  MaxTotalBytes = 8
  RelationFiles <- MCFiles
  RepositoryOf <- MCRepositoryOf
  PathOf <- MCPathOf
  PairOf <- MCPairOf
  OldText <- MCOldText
  NewTexts <- MCNewTexts
  Relations <- MCRelations
  Uncertain = {}
  TargetLines <- MCTargetLines
  CoveredLines <- MCCoveredLines
  Readiness = {"READY", "BRANCH_MISMATCH"}
  Universes <- MCUniverses
  ReadFaults <- MCReadFaults
INVARIANTS
  InheritanceIsExact
  PairsAreWhole
