----------------------------- MODULE MCUserStats -----------------------------
(* Two wallets, two submissions at once, counters of less than two bits. *)
EXTENDS UserStats, TLC

CONSTANTS u1, u2, p1, p2

StatsSymmetry == Permutations(User) \cup Permutations(Page)

===============================================================================
