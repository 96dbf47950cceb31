--------------------------- MODULE MCWalletSession ---------------------------
(* Two extensions, two overlapping disconnects. *)
EXTENDS WalletSession

CONSTANTS phantom, solflare, d1, d2

===============================================================================
