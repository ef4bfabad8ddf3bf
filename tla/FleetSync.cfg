\* Two changes by hand or at the platform, around syncs that may overlap.
SPECIFICATION FairSpec
CONSTANTS
  s1 = s1  s2 = s2
  Site = {s1, s2}
  Bus = {b1, FleetWide}
  Order <- MCOrder
  Night = Night
  Runner = {Night, byHand}
  FleetWide = FleetWide
  Nobody = Nobody
  MaxEdits = 2
PROPERTIES
  SyncMirrors
  Converges
