-------------------------- MODULE MCRefreshIndex --------------------------
(* Small instances of RefreshIndex for TLC.                                *)
EXTENDS RefreshIndex

CONSTANTS s1, s2, j1, j2

Cursor == <<s1, s2>>
============================================================================
