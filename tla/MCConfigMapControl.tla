-------------------------- MODULE MCConfigMapControl --------------------------
(* A small instance of ConfigMapControl for TLC.                             *)
EXTENDS ConfigMapControl, TLC

CONSTANTS c1, c2, x, y

BothClients == {c1, c2}
BothContents == {x, y}

\* The clients are interchangeable, and so are the contents.
Symmetry == Permutations({c1, c2}) \cup Permutations({x, y})

==============================================================================
