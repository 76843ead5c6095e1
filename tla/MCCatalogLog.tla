----------------------------- MODULE MCCatalogLog ------------------------------
(* Instance of CatalogLog for TLC. *)
EXTENDS CatalogLog
================================================================================
