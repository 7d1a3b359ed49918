---------------------------- MODULE MCUserMemory ----------------------------
(* A page of ten bytes of two bits, headers of two bytes, blocks with a      *)
(* size (header included) below, at and above what one byte can hold.        *)
EXTENDS UserMemory

MCSizes == {1, 2, 3}
============================================================================
