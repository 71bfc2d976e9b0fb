---------------------------- MODULE MCGeoRouting ----------------------------
(***************************************************************************)
(* GeoRouting on the networks of MCNetworks, with two packets that cross.  *)
(***************************************************************************)
EXTENDS GeoRouting, MCNetworks
=============================================================================
