\* Two processes load, change and save one file; two may die.
SPECIFICATION Spec
CONSTANTS
  Clients = {c1, c2}
  Inodes = {i1, i2, i3}
  NoInode = NoInode
  Blank = Blank
  MaxCrashes = 2
SYMMETRY Symm
PROPERTIES
  SaveLosesOnlyLaterWrites
  ImplementsAtomicFile
