------------------------- MODULE MCReadThroughCache -------------------------
(* Two keys, of which a prefix covers one, and room for one entry. *)
EXTENDS ReadThroughCache

CONSTANTS K1, K2

OneKeyOrAll == {{K1}, {K1, K2}}
=============================================================================
