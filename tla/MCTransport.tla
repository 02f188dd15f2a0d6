----------------------------- MODULE MCTransport -----------------------------
(* Transport on a line of up to four bytes, in chunks of one or two.        *)
EXTENDS Transport

MCByte == {"a", "b"}
MCChunks == {<<"a">>, <<"b">>, <<"a", "b">>}
==============================================================================
