----------------------------- MODULE MCGeoBasic -----------------------------
(***************************************************************************)
(* GeoBasic on the networks of MCNetworks.                                 *)
(***************************************************************************)
EXTENDS GeoBasic, MCNetworks
=============================================================================
