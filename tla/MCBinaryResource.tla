-------------------------- MODULE MCBinaryResource --------------------------
(* The reader of binary resources: three generations, ids, cheap budgets.    *)
EXTENDS BinaryResource

Says(length, text, local, id) == [length |-> length, text |-> text, local |-> local, id |-> id]
MCTexts == {Says(0, "", "no", 0), Says(2, "invalid", "no", 0),
            Says(2, "local1", "id", 1)}

MCTypes == {Says(0, "", "no", 0), Says(2, "invalid", "no", 0)}

H(major, format, uids, named, script) == [major |-> major, format |-> format, uids |-> uids, named |-> named, script |-> script]
MCHeaders == {H(3, 3, FALSE, FALSE, FALSE), H(4, 6, TRUE, TRUE, FALSE)}

MCCost == [k \in {"strings", "externals", "internals", "id", "record", "property", "value", "order"} |-> 1]
=============================================================================
