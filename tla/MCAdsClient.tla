---------------------------- MODULE MCAdsClient ----------------------------
(* AdsClient for TLC: requests, PLC reads and ids are model values. *)
EXTENDS AdsClient
=============================================================================
