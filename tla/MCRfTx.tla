-------------------------------- MODULE MCRfTx --------------------------------
(***************************************************************************)
(* RfTx on small instances; the .cfg files give the values.  d1 is a paired *)
(* device, d2 one without an entry in keepalivelist, temp the on-board      *)
(* thermometer, gw the gateway's own id, w1 and w2 threads that submit.     *)
(* Without overlap the id of d2 ends in D2, with overlap that of gw.        *)
(***************************************************************************)
EXTENDS RfTx

CONSTANTS temp, d1, d2, gw, on, w1, w2
=============================================================================
