CONSTANTS
  m1 = m1
  m2 = m2
  h1 = h1
  r1 = r1
  Mods <- MCMods
  Hosts <- MCHosts
  Readers <- MCReaders
  WaitTime = 2
  MaxEdits = 2
  MayEmpty = TRUE
SPECIFICATION FairSpec
PROPERTY FreshEventually
