----------------------------- MODULE AdsStructs -----------------------------
(* The three structures that every PLC shares with the server. *)
EXTENDS Naturals

TO == "ST_ADS_TO_BC"
FROM == "ST_ADS_FROM_BC"
RETAIN == "ST_RETAIN_DATA"
Structs == {TO, FROM, RETAIN}

\* serde_json keeps the keys of an object in lexical order.
KeyOrder == <<FROM, TO, RETAIN>>
KeyBefore(s, t) ==
    \E i, j \in DOMAIN KeyOrder : i < j /\ KeyOrder[i] = s /\ KeyOrder[j] = t
=============================================================================
