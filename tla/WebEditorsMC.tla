---------------------------- MODULE WebEditorsMC ----------------------------
(***************************************************************************)
(* WebEditors with a ROOM_FLOORS that labels one of two rooms, and the     *)
(* settings HC00, HG1, Tout and C12: hundredths, tenths, whole numbers and *)
(* a check box.                                                            *)
(***************************************************************************)
EXTENDS WebEditors

MCRoomFloors == [z \in Zones |-> IF z = "z1" THEN "ground" ELSE NoLabel]

MCCatalogue ==
    [HC00 |-> Number(0, 1), HG1 |-> Number(500, 10), Tout |-> Number(0, 100), C12 |-> Box]
=============================================================================
