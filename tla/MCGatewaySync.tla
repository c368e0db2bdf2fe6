--------------------------- MODULE MCGatewaySync ----------------------------
(* The instance of the run Gateway: model values only, no symmetry.        *)
EXTENDS GatewaySync
=============================================================================
