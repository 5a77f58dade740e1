CONSTANT Instances <- MCInstances
SPECIFICATION Spec
INVARIANTS SyncIsSound RemoteIsBacked FsckIsEnough CloneIsSound
CHECK_DEADLOCK FALSE
