---------------------------- MODULE MCExportJob ----------------------------
(* Instances of ExportJob for TLC.                                          *)
EXTENDS ExportJob
=============================================================================
