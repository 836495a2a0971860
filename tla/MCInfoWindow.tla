---------------------------- MODULE MCInfoWindow ----------------------------
(* One or two information windows of one drive: see the configurations     *)
(* InfoWindow*.cfg.                                                        *)
EXTENDS InfoWindow
=============================================================================
