----------------------------- MODULE LendingBank -----------------------------
(***************************************************************************)
(* What the lending program promises, without its indices, snapshots,      *)
(* totals, prices and slots: a bank that holds a reserve of each token,    *)
(* owes its depositors exactly what they put in, and charges interest to   *)
(* all debtors of a market at once, whoever has touched his position.      *)
(***************************************************************************)
EXTENDS Integers

CONSTANTS User, Market, Amount

VARIABLES
    reserve,   \* [Market -> Nat], tokens the bank holds
    purse,     \* [User -> [Market -> Nat]], tokens users hold
    deposit,   \* [User -> [Market -> Nat]], what the bank keeps for them
    owed       \* [User -> [Market -> Nat]], what they owe now, interest included

vars == <<reserve, purse, deposit, owed>>

Nothing == [u \in User |-> [m \in Market |-> 0]]

Init ==
    /\ reserve = [m \in Market |-> 0]
    /\ purse = Nothing
    /\ deposit = Nothing
    /\ owed = Nothing

Add(f, u, m, a) == [f EXCEPT ![u][m] = @ + a]

\* a tokens of m pass from u to the bank; negative, from the bank to u.
Pay(u, m, a) ==
    /\ purse[u][m] >= a
    /\ reserve[m] + a >= 0
    /\ purse' = Add(purse, u, m, -a)
    /\ reserve' = [reserve EXCEPT ![m] = @ + a]

Grant(u, m, a) ==
    /\ purse' = Add(purse, u, m, a)
    /\ UNCHANGED <<reserve, deposit, owed>>

Deposit(u, m, a) ==
    /\ Pay(u, m, a)
    /\ deposit' = Add(deposit, u, m, a)
    /\ UNCHANGED owed

Redeem(u, m, a) ==
    /\ deposit[u][m] >= a
    /\ Pay(u, m, -a)
    /\ deposit' = Add(deposit, u, m, -a)
    /\ UNCHANGED owed

Lend(u, m, a) ==
    /\ Pay(u, m, -a)
    /\ owed' = Add(owed, u, m, a)
    /\ UNCHANGED deposit

Settle(u, m, a) ==
    /\ owed[u][m] >= a
    /\ Pay(u, m, a)
    /\ owed' = Add(owed, u, m, -a)
    /\ UNCHANGED deposit

\* l pays for u in d, and takes from u's deposit in c.
Seize(l, u, d, c, paid, taken) ==
    /\ l # u /\ d # c
    /\ owed[u][d] >= paid /\ purse[l][d] >= paid
    /\ deposit[u][c] >= taken /\ reserve[c] >= taken
    /\ purse' = Add(Add(purse, l, d, -paid), l, c, taken)
    /\ reserve' = [reserve EXCEPT ![d] = @ + paid, ![c] = @ - taken]
    /\ deposit' = Add(deposit, u, c, -taken)
    /\ owed' = Add(owed, u, d, -paid)

\* Debts grow, and only debts.
Interest ==
    /\ owed' \in [User -> [Market -> Amount]]
    /\ \A u \in User, m \in Market :
          /\ owed'[u][m] >= owed[u][m]
          /\ owed[u][m] = 0 => owed'[u][m] = 0
    /\ UNCHANGED <<reserve, purse, deposit>>

Next ==
    \/ Interest
    \/ \E u \in User, m \in Market, a \in Amount :
          \/ Grant(u, m, a)
          \/ Deposit(u, m, a)
          \/ Redeem(u, m, a)
          \/ Lend(u, m, a)
          \/ Settle(u, m, a)
    \/ \E l, u \in User, d, c \in Market, paid, taken \in Amount :
          Seize(l, u, d, c, paid, taken)

Spec == Init /\ [][Next]_vars

===============================================================================
