------------------------------- MODULE MCClient -------------------------------
(***************************************************************************)
(* Instances of Client over the three-market instance of MCShadowLend,     *)
(* from a state in which u1 has collateral in A and u2 lends B and C.      *)
(***************************************************************************)
EXTENDS Client, MCShadowLend

CONSTANTS t1, t2, none

MarketsInOrder == <<A, B, C>>

\* u1 has opened its positions in B and C too: it supplied and withdrew there.
Supplied == u1 :> (A :> 60 @@ B :> 0 @@ C :> 0) @@ u2 :> (A :> 0 @@ B :> 2 @@ C :> 1)
InWallets == u1 :> (A :> 0 @@ B :> 1 @@ C :> 1) @@ u2 :> (A :> 0 @@ B :> 1 @@ C :> 0)
Opened == (User \X Market) \ {<<u2, A>>}
ClientQuotes == A :> {} @@ B :> {Thirty} @@ C :> {}
ClientAmounts == A :> {30} @@ B :> {1} @@ C :> {1}
Pairs == {<<B, A>>, <<C, A>>}

Prepared ==
    /\ created = Market
    /\ index = [m \in Market |-> RateScale]
    /\ lastSlot = [m \in Market |-> 0]
    /\ totalSupplied = [m \in Market |-> Held(Supplied, m)]
    /\ totalBorrowed = [m \in Market |-> 0]
    /\ claimAmount = [m \in Market |-> 0]
    /\ claimCount = [m \in Market |-> Cardinality(User)]
    /\ receipts = User \X Market
    /\ minted = [m \in Market |-> Held(Supplied, m) + Held(InWallets, m)]
    /\ opened = Opened
    /\ supplied = Supplied
    /\ borrowed = [u \in User |-> [m \in Market |-> 0]]
    /\ snapshot = [u \in User |-> [m \in Market |-> RateScale]]
    /\ ata = User \X Market
    /\ wallet = InWallets
    /\ vault = [m \in Market |-> Held(Supplied, m)]
    /\ slot = 0
    /\ price = StartPrice
    /\ publishedAt = [m \in Market |-> 0]
    /\ submission = [t \in Tab |-> Idle(UserOf[t])]

PreparedSpec == Prepared /\ [][ClientNext]_clientVars

\* One submission of u1 at a time, and one liquidation by u2.
OneEach == t1 :> u1 @@ t2 :> u2
Split == t1 :> {"supply", "repay", "withdraw", "borrow"} @@ t2 :> {"liquidate"}

\* Two submissions of u1: the collateral in A is worth 45, the debts would be of
\* 40 in B and 20 in C.
BothOfU1 == t1 :> u1 @@ t2 :> u1
OverlapAmounts == A :> {} @@ B :> {2} @@ C :> {1}
Borrows == t1 :> {"borrow"} @@ t2 :> {"borrow"}

===============================================================================
