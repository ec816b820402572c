--------------------------- MODULE MCStoreSync ---------------------------
(***************************************************************************)
(* Instances of StoreSync for TLC: devices that were each set up by a      *)
(* `wkp init' of their own, and devices that start from one commit.        *)
(***************************************************************************)
EXTENDS StoreSync

Laptops == <<"d1", "d2">>
=============================================================================
