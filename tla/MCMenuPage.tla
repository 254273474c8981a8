------------------------------ MODULE MCMenuPage ------------------------------
(* The portal with two users, one of them an admin by the token and perhaps *)
(* by OpenFGA, the other a viewer by a role, a group with one item, and     *)
(* edits that create, move, configure and delete.                           *)
EXTENDS MenuPage, TLC

CONSTANTS root, guest, report, other, objectReport, roleAdmin, roleViewer

MCObjectOf == report :> objectReport @@ other :> objectReport
MCGroups0  == <<[parent |-> 0, visible |-> TRUE], [parent |-> 0, visible |-> TRUE]>>
MCItems0   == <<[name |-> report, group |-> 1, visible |-> TRUE]>>
MCConfigs0 == <<[item |-> 1, value |-> 1]>>
MCOldTuples == {<<roleViewer, objectReport>>, <<guest, roleViewer>>, <<root, roleAdmin>>}
MCGrants    == MCOldTuples \cup {<<guest, objectReport>>}

Call(op, id, name, group, visible, config) ==
    [op |-> op, id |-> id, name |-> name, group |-> group, parent |-> IF op = "updateGroup" THEN group ELSE 0, visible |-> visible,
     config |-> config, typed |-> TRUE]

MCCalls == {Call("createItem", 0, report, 2, TRUE, 1),
            Call("updateItem", 1, other, 2, TRUE, 0),
            Call("updateItem", 2, report, 0, FALSE, 2),
            Call("deleteItem", 1, other, 0, TRUE, 0),
            Call("createGroup", 0, other, 0, TRUE, 0),
            Call("updateGroup", 1, other, 2, FALSE, 0),
            Call("deleteGroup", 2, other, 0, TRUE, 0)}
=============================================================================
