------------------------------ MODULE MCQuery ------------------------------
(***************************************************************************)
(* TLC instance of Query: a kite that is upgraded under its ID, a second   *)
(* one of the same name in a region whose name extends the first's, and a  *)
(* kite of another user.                                                   *)
(***************************************************************************)
EXTENDS Query

FieldValues(u, e, n, v, r, i) ==
    [username |-> u, environment |-> e, name |-> n, version |-> v, region |-> r,
     hostname |-> IF r = "" THEN "" ELSE "h", id |-> i]

MCKites == {
    FieldValues("u1", "e1", "n1", "1.0.0", "eu", "i1"),
    FieldValues("u1", "e1", "n1", "2.0.0", "eu", "i1"),
    FieldValues("u1", "e1", "n1", "2.0.0", "eu2", "i2"),
    FieldValues("u2", "e1", "n1", "1.0.0", "eu", "i3")}

MCSatisfying == [c \in {">= 2.0.0"} |-> {"2.0.0"}]
MCMalformed == {"latest"}
MCPrefixes == {<<"eu", "eu2">>}

(* Every shape of a query: by directory, complete, with a constraint, with a gap, without
   a user, by ID. *)
MCQueries == {
    FieldValues("u1", "", "", "", "", ""),
    FieldValues("u1", "e1", "n1", "", "", ""),
    FieldValues("u1", "e1", "n1", "2.0.0", "eu", "i1"),
    FieldValues("u1", "e1", "n1", ">= 2.0.0", "", ""),
    FieldValues("u1", "e1", "n1", ">= 2.0.0", "eu", ""),
    FieldValues("u1", "e1", "n1", ">= 2.0.0", "", "i2"),
    FieldValues("u1", "e1", "n1", "latest", "", ""),
    FieldValues("u1", "", "n1", "", "", ""),
    FieldValues("", "", "n1", "", "", ""),
    FieldValues("", "", "", "", "", "i2"),
    FieldValues("", "", "", "", "", "")}
=============================================================================
