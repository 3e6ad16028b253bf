----------------------------- MODULE MCTuyaImport -----------------------------
EXTENDS TuyaImport

CONSTANTS d1, c1

MCOptions == (d1 :> {[type |-> "plug", rest |-> "||||"]}) @@ (c1 :> {[type |-> "valve", rest |-> "||||"]})

Plain == [id |-> d1, key |-> [type |-> "plug", rest |-> ""]]
Keyed == [id |-> d1, key |-> [type |-> "plug", rest |-> "||||"]]
MCUploads == {<<Keyed>>, <<Plain>>}
=============================================================================
