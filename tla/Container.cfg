SPECIFICATION Spec
CONSTANTS
  Image <- AnyImage
  BlockSize = 4096
  MaxFileSystems = 3
  BlocksPerVolume = 30
  SmallContainer = 1000
  Tier2Base = 100
  ReservedOids = 20
  MapsPerBlock = 4
INVARIANTS CheckpointAccepted OmapsAccepted SnapshotsAccepted BlocksAccepted LabelsMatch NoFalseAlarm
PROPERTY Terminates
