-------------------------- MODULE MCSavestates ----------------------------
(* Small instances of the save states for TLC. *)
EXTENDS Savestates

CONSTANTS t1, w1, w2, w3

(* No state has been saved yet. *)
MCNoFiles == [s \in Slots |-> Absent]

(* The last slot has a state of another version, the others broken ones. *)
MCOldFiles == [s \in Slots |-> IF s = NumSlots - 1 THEN Foreign ELSE Torn]
=============================================================================
