----------------------------- MODULE MCDecoder -----------------------------
(* Frames of up to two columns for TLC.                                    *)
EXTENDS Decoder

\* Non-empty text values of one and two bytes.
MCValues == {<<49>>, <<50, 51>>}

\* The same, plus the empty string.
MCValuesWithEmpty == {<<>>, <<49>>, <<50, 51>>}
=============================================================================
