--------------------------- MODULE MCJsonDecoder ---------------------------
(* Instances of JsonDecoder for TLC: the whole model (the empty key), one    *)
(* part of it, and one list asked for by its dotted name.                    *)
EXTENDS JsonDecoder

AnyKey == {<< >>, <<"tools">>, <<"move", ":", "axes">>}

=============================================================================
