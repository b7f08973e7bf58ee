----------------------------- MODULE MCCopyPipe -----------------------------
(* A small instance of CopyPipe: batches of two rows and chunks of five bytes against tables of up *)
(* to three rows, so that batches come out even and odd and chunks fill up inside and between      *)
(* them; one and two columns, and none; names, types and values that can be mistaken.              *)
EXTENDS CopyPipe

Column(name, type) == [name |-> name, type |-> type]
Cells(type, values) == {None} \cup {[type |-> type, value |-> v] : v \in values}

\* Tables of one column.
Narrow(type, values) ==
    {[columns |-> <<Column("a", type)>>, rows |-> rows] :
        rows \in UNION {[1..n -> [1..1 -> Cells(type, values)]] : n \in 0..3}}

\* Tables of two columns, whose names may come in either order.
Wide ==
    {[columns |-> <<Column(names[1], "int4"), Column(names[2], "int4")>>,
      rows |-> [i \in 1..n |-> <<[type |-> "int4", value |-> i], other>>]] :
        names \in {<<"a", "b">>, <<"b", "a">>}, n \in {2, 3}, other \in Cells("int4", {7})}

MCTables ==
    Narrow("int4", {1, 2}) \cup Narrow("date", {1, 99}) \cup Wide
        \cup {[columns |-> <<>>, rows |-> << <<>> >>]}
MCAlike == {{"int4", "date"}}
MCUnreadable == {99}
=============================================================================
