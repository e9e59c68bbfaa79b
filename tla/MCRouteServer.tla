---------------------------- MODULE MCRouteServer ----------------------------
(* A small instance of RouteServer for TLC.                                *)
EXTENDS RouteServer
=============================================================================
