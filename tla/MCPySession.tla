----------------------------- MODULE MCPySession -----------------------------
(* Small sessions for TLC: a generator, a list, a DataFrame, one files source. *)
EXTENDS PySession

CONSTANTS a, b, k, l, g1, l1, f1

MCTransfers == 1..2

D(keys) == [kind |-> "dict", keys |-> keys]
C(keys) == [kind |-> "dataclass", keys |-> keys]
M(keys) == [kind |-> "model", keys |-> keys]
T(keys) == [kind |-> "container", keys |-> keys]
Other(keys) == [kind |-> "other", keys |-> keys]

MCPaths == <<a, b>>

File(columns, batches) == [columns |-> columns, batches |-> batches]

\* The first output has a file of two batches and a file of none, the second one
\* file, with another column.
MCOutputs == <<[p \in {a, b} |-> File({k}, IF p = a THEN 2 ELSE 0)], [p \in {b} |-> File({k, l}, 1)]>>

Rows1 == [it \in Iterables |-> IF it = f1 THEN <<D({k})>> ELSE <<D({k}), D({k}), D({k, l})>>]
With(it, rows) == [given |-> Glob, disk |-> Output(1), table |-> [Rows1 EXCEPT ![it] = rows]]

\* Sessions that differ in their rows: too few, of the wrong kind at once or
\* later, of another kind that converts or becomes nulls, keys that come and go.
RowWorlds == {
    With(f1, <<>>),
    With(g1, <<>>),
    With(l1, <<Other({k})>>),
    With(g1, <<D({k, l}), D({l}), Other({k})>>),
    With(g1, <<C({k}), M({k, l}), Other({k})>>),
    With(l1, <<D({k}), M({k}), T({l})>>),
    With(g1, <<D({k}), T({}), T({k})>>),
    With(l1, <<M({k, l}), D({k})>>) }

\* Sessions that differ in their files: paths that are gone, torn, a directory.
FileWorlds == {
    [given |-> given0, disk |-> disk0, table |-> Rows1] :
        given0 \in {Glob, <<a, b>>, <<b, b>>},
        disk0 \in {Output(1), [Output(1) EXCEPT ![a] = Torn], [Output(1) EXCEPT ![b] = Dir]} }

MCWorlds ==
    RowWorlds \cup FileWorlds
    \cup {[given |-> Glob, disk |-> [p \in {a, b} |-> None], table |-> Rows1],
          [given |-> <<>>, disk |-> Output(1), table |-> Rows1]}
=============================================================================
