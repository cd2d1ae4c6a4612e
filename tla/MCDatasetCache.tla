--------------------------- MODULE MCDatasetCache ---------------------------
(***************************************************************************)
(* Sizes for the model checker's repositories.                             *)
(***************************************************************************)
EXTENDS DatasetCache

CONSTANTS a, b, c, d

\* Any two of a, b and c fit in a cache of 4 bytes, but a and c; d never does.
SmallSizes == [r \in Repos |-> IF r = b THEN 1 ELSE IF r = a THEN 2 ELSE IF r = c THEN 3 ELSE 5]

=============================================================================
