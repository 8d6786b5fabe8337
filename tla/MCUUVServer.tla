----------------------------- MODULE MCUUVServer -----------------------------
(* Small instances of UUVServer for TLC.                                   *)
EXTENDS UUVServer

MCNamed == {1, 3}
MCOneState == {1}
MCSpeeds == {2, 4}

==============================================================================
