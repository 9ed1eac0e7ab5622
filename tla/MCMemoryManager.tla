-------------------------- MODULE MCMemoryManager --------------------------
(***************************************************************************)
(* Small instances of MemoryManager: three pages that ranges of one and    *)
(* two pages cover up to the top, and four pages of two bytes with patches.*)
(***************************************************************************)
EXTENDS MemoryManager, TLC

CONSTANTS b1, b2, b3, b4

MCBufs    == {b1, b2, b3, b4}
MCPerms   == {{"R", "W"}, {"R", "X"}}
MCOnePerm == {{"R", "W"}}
MCPass    == {{}, {"R", "W", "X"}}
MCPatches == {<<1, 2>>, <<3, 1>>, <<2, 2>>}
BufSymmetry == Permutations(MCBufs)
=============================================================================
