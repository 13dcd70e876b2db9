----------------------------- MODULE MCLoadCheck -----------------------------
(* Instances of LoadCheck: one schema, where the name alone tells an object,
   and two schemas with a table of the same name.                           *)
EXTENDS LoadCheck, TLC

\* t and u, with and without their schema: "t" and "public.t" are one table.
MCOne == [r \in Refs |-> IF r \in {"t", "public.t"} THEN "public.t" ELSE "public.u"]
MCOneBare == [r \in Refs |-> IF r \in {"t", "public.t"} THEN "t" ELSE "u"]

\* a.t and b.t are two tables.
MCTwoBare == [r \in Refs |-> "t"]

MCSame  == [r \in Refs |-> r]
MCMakes == {{}} \union {{r} : r \in Refs}
=============================================================================
