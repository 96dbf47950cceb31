---------------------------- MODULE MCShadowLend ----------------------------
(***************************************************************************)
(* Finite instances of ShadowLend: two users, two or three markets, and    *)
(* integers narrow enough that their limits are met.  Slots are few and    *)
(* long: rates are per slot.                                               *)
(***************************************************************************)
EXTENDS ShadowLend, TLC

CONSTANTS
    u1, u2, A, B, C,
    Granted            \* what each user holds once setup is over

UserSymmetry == Permutations(User)

\* With UsdDecimals = 2 and MintDecimals = 0 the shift of a price is its exponent
\* plus two, so these are 1, 20 and 30 dollar units a token.
One == [price |-> 1, expo |-> -2]
Twenty == [price |-> 2, expo |-> -1]
Thirty == [price |-> 3, expo |-> -1]

NoRate == [m \in Market |-> 0]
Doubling == [m \in Market |-> RateScale]
Singles == [m \in Market |-> {1}]
AllAtOne == [m \in Market |-> One]
OnlyOne == [m \in Market |-> {One}]
Quiet == [m \in Market |-> {}]

AllPairs == Market \X Market
CrossPairs == {p \in AllPairs : p[1] # p[2]}

\* Setup is over: every market is open and every user has claimed in each, the
\* admin changing the claim amount in between.
Funded ==
    /\ created = Market
    /\ index = [m \in Market |-> RateScale]
    /\ lastSlot = [m \in Market |-> 0]
    /\ totalSupplied = [m \in Market |-> 0]
    /\ totalBorrowed = [m \in Market |-> 0]
    /\ claimAmount = [m \in Market |-> 0]
    /\ claimCount = [m \in Market |-> Cardinality(User)]
    /\ receipts = User \X Market
    /\ minted = [m \in Market |-> Held(Granted, m)]
    /\ opened = {}
    /\ supplied = [u \in User |-> [m \in Market |-> 0]]
    /\ borrowed = [u \in User |-> [m \in Market |-> 0]]
    /\ snapshot = [u \in User |-> [m \in Market |-> 0]]
    /\ ata = User \X Market
    /\ wallet = Granted
    /\ vault = [m \in Market |-> 0]
    /\ slot = 0
    /\ price = StartPrice
    /\ publishedAt = [m \in Market |-> 0]

FundedSpec == Funded /\ [][Trade]_vars

\* Two markets at one price, LTV 3/4, debts that double with each slot.
PairLtv == [m \in Market |-> 3]
PairAmounts == [m \in Market |-> {1, 2}]
PairGrant == u1 :> (A :> 2 @@ B :> 1) @@ u2 :> (A :> 1 @@ B :> 2)

\* u1 has collateral in A and C and may come to owe B, where u2 lends; u2 has
\* nothing else.  LTV 3/4 and a bonus of 5%, as in production: both of 20.
\* Liquidations are of debts in B and C.
TrioLtv == [m \in Market |-> 15]
TrioGrant == u1 :> (A :> 60 @@ B :> 2 @@ C :> 1) @@ u2 :> (A :> 0 @@ B :> 4 @@ C :> 0)
TrioAmounts == A :> {30} @@ B :> {2} @@ C :> {1}
TrioPrice == A :> One @@ B :> Twenty @@ C :> Twenty
TrioQuotes == A :> {One} @@ B :> {Thirty} @@ C :> {Twenty}
TrioPairs == {<<B, A>>, <<B, C>>, <<C, B>>}
TrioRate == A :> 0 @@ B :> 1 @@ C :> 0

=============================================================================
