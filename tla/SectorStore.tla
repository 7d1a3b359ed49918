---------------------------- MODULE SectorStore ----------------------------
(***************************************************************************)
(* What a user of the hard drive relies on: a store of sectors.  A request *)
(* names a sector; once it is served, a read delivers that sector and a    *)
(* write replaces bytes at the front of that sector and of no other.       *)
(***************************************************************************)
EXTENDS Integers

CONSTANTS
  Sector,       \* the sectors of the drive
  SECTOR_SIZE,  \* bytes of a sector
  Values        \* what a byte may hold

VARIABLES
  content,      \* content[s][i]: byte i of sector s
  request,      \* the sector the user asked for last
  answer        \* what the user read last

Offset == 0 .. SECTOR_SIZE - 1

Init ==
  /\ content \in [Sector -> [Offset -> Values]]
  /\ request \in Sector
  /\ answer \in [data : [Offset -> Values], sectorNumber : Sector]

Ask == request' \in Sector /\ UNCHANGED <<content, answer>>

Read ==
  /\ answer' = [data |-> content[request], sectorNumber |-> request]
  /\ UNCHANGED <<content, request>>

Write ==
  /\ \E len \in 1 .. SECTOR_SIZE : \E data \in [0 .. len - 1 -> Values] :
       content' = [content EXCEPT ![request] =
         [i \in Offset |-> IF i < len THEN data[i] ELSE @[i]]]
  /\ UNCHANGED <<request, answer>>

Spec == Init /\ [][Ask \/ Read \/ Write]_<<content, request, answer>>
============================================================================
