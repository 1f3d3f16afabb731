SPECIFICATION Spec
CONSTANTS
  Preferences <- MCPreferences
  RealLists <- MCRealLists
  StaticLists <- MCStaticLists
  Announcements <- MCAnnouncements
  Sizes = {4, 7, 12}
  MaxAllocs = 2
INVARIANTS
  TypeOK
  ListComplete
  StaysInBuffer
  OwnedIsListed
  ReadersAsAnnounced
PROPERTIES
  WideQuerySuffices
