-------------------------- MODULE MCConnectConfig --------------------------
(* Small instances of ConnectConfig for TLC. *)
EXTENDS ConnectConfig

(* A u64 has 131072 values, so that a day of seconds fits and two do not;  *)
(* 8192 hours wrap to 0, and 131072 is not a u64.                          *)
Numbers == {0, 1, 2, 500, 1500, 8192, 131072}
AnyTimeout == [number : Numbers, unit : {"ms", "s", "m", "h", "d", "y"}] \cup {None}
AnyBuild == {"debug", "release"}
=============================================================================
