--------------------------- MODULE MCNdExtraction ---------------------------
EXTENDS NdExtraction

MCTag == {"a", "b"}
MCInitially == [t \in MCTag |-> FALSE]
MCType == {"int", "ptr"}
Instrs ==
    [op : {"read"}, tag : MCTag] \cup [op : {"require"}, tag : MCTag, value : BOOLEAN]
        \cup {[op |-> "dyn", type |-> "ptr"], [op |-> "test"]}
Short == UNION {[1..n -> Instrs] : n \in 1..3}
MCPrograms == Short \cup {<<[op |-> "test"]>> \o p : p \in [1..4 -> Instrs]}
=============================================================================
