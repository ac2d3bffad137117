--------------------------- MODULE MCTransportPacks ---------------------------
(* The instances of TransportPacks that TLC checks. *)
EXTENDS TransportPacks

small    == [size |-> 1, packed |-> 1]
medium   == [size |-> 2, packed |-> 1]
dense    == [size |-> 3, packed |-> 3]   \* compression does not help
sparse   == [size |-> 5, packed |-> 4]   \* it does, and the pack fills the cache
enormous == [size |-> 7, packed |-> 5]   \* it does, and the pack does not fit the cache

(* None of the packs of the sources below exceeds the cache. *)
ASSUME MCPacksFit == PacksFit

MCSources == {<<small, medium, sparse>>, <<medium, medium, small>>, <<small, dense, sparse>>,
              <<enormous, small, sparse>>, <<sparse, sparse>>}
=============================================================================
