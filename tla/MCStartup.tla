----------------------------- MODULE MCStartup -----------------------------
(***************************************************************************)
(* Startup on two files that share the text of one symbol in every content *)
(* and three embedders: two of them hash embedders, which have one name    *)
(* and two dimensions (HASH_EMBEDDING_DIM), and a model of another name    *)
(* with the dimension of the first.                                        *)
(***************************************************************************)
EXTENDS Startup, TLC

CONSTANTS hash256, hash512, bge

MCEmbedders == {hash256, hash512, bge}
MCDimOf == [e \in MCEmbedders |-> IF e = hash512 THEN 512 ELSE 256]
MCNameOf == [e \in MCEmbedders |-> IF e = bge THEN "bge" ELSE "hash"]

(* The whole file, which every edit changes, and one symbol it never does. *)
MCTextsOf == [v \in 1 .. MaxEdits |-> {v, 0}]

(* Neither the files nor the builds differ but by their names. *)
Symmetry == Permutations(Files) \cup Permutations(Builds)
=============================================================================
