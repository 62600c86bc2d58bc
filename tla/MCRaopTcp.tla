----------------------------- MODULE MCRaopTcp ------------------------------
(***************************************************************************)
(* Instances of RaopTcp for TLC: streams whose packets are of one length,  *)
(* fill packet[] to the last byte, cannot be completed in it, are too long *)
(* for it, or too short for the buffer.                                    *)
(***************************************************************************)
EXTENDS RaopTcp

LOCAL INSTANCE Folds

Stream(lengths) ==
  [n \in 0 .. MaxSent |->
     MapThenFoldSet(+, 4 * n, LAMBDA k : lengths[k], LAMBDA S : CHOOSE k \in S : TRUE, 1 .. n)]

MCStreams ==
  {Stream(l) : l \in {<<3, 3, 3, 3, 3, 3>>, <<2, 4, 2, 5, 2, 3>>, <<4, 2, 9, 2, 2, 2>>,
                      <<2, 5, 1, 2, 2, 2>>, <<3, 2, 6, 2, 2, 2>>}}
=============================================================================
