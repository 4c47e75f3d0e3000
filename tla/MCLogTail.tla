----------------------------- MODULE MCLogTail -----------------------------
(***************************************************************************)
(* LogTail for TLC: what logrotate does on a host, as sets of Env.         *)
(***************************************************************************)
EXTENDS LogTailInv, TLC

CONSTANTS i1, i2, i3

SomeNoise   == {2}
NoNoise     == {}
RenameOnly  == {"rename"}
AnyRotation == {"rename", "copytruncate", "late_write", "fast_rotation", "inode_reuse"}
MidRead     == {"rename", "mid_read"}
LateWrite   == {"rename", "late_write"}
Truncating  == {"copytruncate"}
Reuse       == {"rename", "inode_reuse"}

(* The inodes are alike. *)
InodeSymmetry == Permutations({i1, i2, i3})

=============================================================================
