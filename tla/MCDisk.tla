------------------------------ MODULE MCDisk ------------------------------
(* Drives of three sectors of two bytes, with every content to start from.  *)
EXTENDS Disk

MCValues == {0, 1}
SectorLengths == {1, 2}
============================================================================
