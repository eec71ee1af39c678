-------------------------------- MODULE MCShm --------------------------------
(* Small instances of ShmTransfer: the constants that a .cfg cannot write.   *)
EXTENDS ShmTransfer

BothMayDie == {"writer", "reader"}
NobodyDies == {}
LeftOvers == {0, 1, 2}
=============================================================================
