------------------------------- MODULE MCKcfPool -------------------------------
(* Five centres: the corner that memset leaves in the table, two near each    *)
(* other, one far from them in a single coordinate and one far in both.       *)
EXTENDS KcfPool

MCPlaces == {<<0, 0>>, <<2, 2>>, <<3, 2>>, <<6, 2>>, <<6, 6>>}

\* Two targets far apart.
MCFarPlaces == {<<0, 0>>, <<2, 2>>, <<6, 6>>}
================================================================================
