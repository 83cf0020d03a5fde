------------------------------ MODULE MCFloppy ------------------------------
(* Small instances of Floppy for TLC.                                      *)
EXTENDS Floppy

P(sd, tr, sc) == [side |-> sd, track |-> tr, sector |-> sc]
OneTrack == {P(0, 0, 1), P(0, 0, 2)}
TwoTracks == {P(sd, tr, 1) : sd \in {0, 1}, tr \in {0, 1}}
(* Every block of the image is different.                                  *)
Distinct == [p \in Positions |-> [i \in 0 .. SECTOR_SIZE - 1 |->
               16 * p.sector + 4 * p.side + 8 * p.track + i]]
(* Bound: the head stays within one track of track 0, where it wraps.      *)
NearTrackZero == disk_track \in {255, 0, 1}
=============================================================================
