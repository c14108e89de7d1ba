-------------------------- MODULE MCEmbeddingIndex --------------------------
(* Small instances of EmbeddingIndex for TLC.                              *)
EXTENDS EmbeddingIndex, TLC

Symmetry == Permutations(Docs) \union Permutations(Gens)
              \union Permutations(Hashes) \union Permutations(Workers)
              \union Permutations(Tokens)
=============================================================================
