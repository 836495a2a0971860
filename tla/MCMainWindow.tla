---------------------------- MODULE MCMainWindow ----------------------------
(* The main window with one disk, one device added by hand, and a  *)
(* file: see the configurations MainWindow*.cfg.                           *)
EXTENDS MainWindow
=============================================================================
