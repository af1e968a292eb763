------------------------------ MODULE MCCodecs ------------------------------
(* A few strings of each length up to the bounds. *)
EXTENDS Codecs

MCStrings == {<<>>, <<1>>, <<2>>, <<1, 2>>, <<1, 2, 1>>}
=============================================================================
