SPECIFICATION ReassemblySpec
CONSTANTS
  Keys = {k1}
  NFrags = 3
  MaxAge = 4
  MaxGen = 3
INVARIANTS
  EntriesExpireOnTime
  NoMixedDatagram
  AllInTimeMeansWhole
