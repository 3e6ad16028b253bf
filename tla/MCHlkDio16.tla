----------------------------- MODULE MCHlkDio16 -----------------------------
(* Small instances of HlkDio16 for TLC.                                    *)
EXTENDS HlkDio16

AllReplies == {<<"ack">>, <<"out">>, <<"ack", "out">>}
=============================================================================
