-------------------------------- MODULE Client --------------------------------
(***************************************************************************)
(* The browser client's transactions (app/sl-client.js) over the lending   *)
(* program.  The client reads the accounts a health check needs one by     *)
(* one, and only then asks the wallet to sign; the program sees what was   *)
(* listed then, whatever has happened since.                               *)
(*                                                                         *)
(* A submission is one run of modifyPosition or liquidate.  The page lets  *)
(* a user start another one while the first is under way: openModal takes  *)
(* the loading mark off the button.                                        *)
(***************************************************************************)
EXTENDS ShadowLend, SequencesExt

CONSTANTS
    Tab,         \* submissions that may be under way at once
    UserOf,      \* [Tab -> User], the wallet that signs them
    CallOf,      \* [Tab -> SUBSET Call], what each is used for
    Borrower,    \* whom liquidations may be tried on
    MarketList,  \* MARKETS, the order in which positions are read
    ReadsFail,   \* may the read of a position fail
    NoMarket     \* where no second market is involved

ASSUME ClientAssumption ==
    /\ UserOf \in [Tab -> User]
    /\ Borrower \subseteq User
    /\ MarketList \in Seq(Market) /\ IsInjective(MarketList)
    /\ ReadsFail \in BOOLEAN
    /\ NoMarket \notin Market

VARIABLE submission   \* [Tab -> Submission]

clientVars == <<vars, submission>>

Call == {"supply", "repay", "withdraw", "borrow", "liquidate"}

\* at "idle": none; "reading": unread positions are still to be read;
\* "signing": sent to the wallet, the chain or on its way.
Submission ==
    [at : {"idle", "reading", "signing"}, call : Call, market : Market,
     collateral : Market \cup {NoMarket}, amount : U64, of : User,
     unread : Seq(Market), listed : SUBSET Market]

Idle(u) ==
    [at |-> "idle", call |-> "supply", market |-> MarketList[1], collateral |-> NoMarket,
     amount |-> 0, of |-> u, unread |-> <<>>, listed |-> {}]

ClientTypeOK ==
    /\ TypeOK
    /\ DOMAIN submission = Tab
    /\ \A t \in Tab : submission[t] \in Submission

\* Where a submission stands that has these positions left to read.
Stage(unread) == IF unread = <<>> THEN "signing" ELSE "reading"

Put(t, s) == submission' = [submission EXCEPT ![t] = s]

\* modifyPosition: supply and repay send no positions; borrow and withdraw
\* those of every other market.
Submit(t, call, m, a) ==
    LET u == UserOf[t]
        others == IF call \in {"borrow", "withdraw"} THEN RemoveFirst(MarketList, m) ELSE <<>>
    IN  /\ submission[t].at = "idle"
        /\ call \in CallOf[t]
        /\ a > 0
        /\ Put(t, [Idle(u) EXCEPT !.at = Stage(others), !.call = call, !.market = m,
                                  !.amount = a, !.unread = others])
        /\ UNCHANGED vars

\* liquidate: those of the borrower, but for the two markets it names.
SubmitLiquidation(t, u, d, c, a) ==
    LET others == RemoveFirst(RemoveFirst(MarketList, d), c)
    IN  /\ submission[t].at = "idle"
        /\ "liquidate" \in CallOf[t]
        /\ Put(t, [Idle(u) EXCEPT !.at = Stage(others), !.call = "liquidate", !.market = d,
                                  !.collateral = c, !.amount = a, !.unread = others])
        /\ UNCHANGED vars

\* fault: collateral alone does not count as activity
ListsDebtsOnly(u, m) == <<u, m>> \in opened /\ borrowed[u][m] > 0

\* Is u's position in m worth listing?  It is when it holds anything.
ListsSuppliesOnly(u, m) ==  \* fault: debts alone do not count as activity
    <<u, m>> \in opened /\ supplied[u][m] > 0
Lists(u, m) == <<u, m>> \in opened /\ Active(u, m)

\* One turn of the loop of collectCrossAccounts, or of liquidate's: a failed
\* read is taken for an account that does not exist.
ReadPosition(t) ==
    LET s == submission[t]
        m == Head(s.unread)
    IN  /\ s.at = "reading"
        /\ \E found \in {Lists(s.of, m)} \cup (IF ReadsFail THEN {FALSE} ELSE {}) :
              Put(t, [s EXCEPT !.at = Stage(Tail(s.unread)),
                               !.unread = Tail(@),
                               !.listed = IF found THEN @ \cup {m} ELSE @])
        /\ UNCHANGED vars

\* The instruction executes, on the accounts as they are now.
Instruction(s, u) ==
    \/ s.call = "supply" /\ Supply(u, s.market, s.amount)
    \/ s.call = "repay" /\ Repay(u, s.market, s.amount)
    \/ s.call = "withdraw" /\ Withdraw(u, s.market, s.amount, s.listed)
    \/ s.call = "borrow" /\ Borrow(u, s.market, s.amount, s.listed)
    \/ s.call = "liquidate"
         /\ Liquidate(u, s.of, s.market, s.collateral, s.amount, s.listed)

Execute(t) ==
    /\ submission[t].at = "signing"
    /\ Instruction(submission[t], UserOf[t])
    /\ Put(t, Idle(UserOf[t]))

\* A read of a price fails, the user declines, the program refuses, the
\* transaction is dropped: nothing has changed.
Abandon(t) ==
    /\ submission[t].at # "idle"
    /\ Put(t, Idle(UserOf[t]))
    /\ UNCHANGED vars

\* Market setup and faucet claims, which list no positions, the clock and the
\* feeds.
Around == (Faucet \/ World) /\ UNCHANGED submission

ClientInit == Init /\ submission = [t \in Tab |-> Idle(UserOf[t])]

ClientNext ==
    \/ \E t \in Tab :
          \/ \E call \in Call \ {"liquidate"}, m \in Market :
                \E a \in Amounts[m] : Submit(t, call, m, a)
          \/ \E u \in Borrower, p \in LiquidationPairs :
                \E a \in Amounts[p[1]] : SubmitLiquidation(t, u, p[1], p[2], a)
          \/ ReadPosition(t)
          \/ Execute(t)
          \/ Abandon(t)
    \/ Around

ClientSpec == ClientInit /\ [][ClientNext]_clientVars

-----------------------------------------------------------------------------
(* Properties.                                                             *)

\* Markets of the borrower's collateral that the liquidation under way at t has
\* passed by: he has something there that it neither lists nor is yet to read.
Overlooked(t) ==
    LET s == submission[t]
    IN  IF s.at = "idle" \/ s.call # "liquidate" THEN {}
        ELSE {m \in Market : supplied[s.of][m] > 0}
                \ ({s.market, s.collateral} \cup s.listed \cup Range(s.unread))

\* A liquidation of the page that overlooks nothing seizes only from one who is
\* really under water, although it read his positions some steps ago and he
\* has supplied, borrowed, repaid or withdrawn since.
ReadSeizureJustified ==
    [][\A t \in Tab :
         submission[t].call = "liquidate" /\ Execute(t) /\ Overlooked(t) = {}
           => RealDebtUsd(submission[t].of) > RealCollateralUsd(submission[t].of)]_clientVars

\* Nothing is overlooked but what the borrower supplies after the read of that
\* position, in the very step in which he does.
OverlookedByDeposit ==
    [][\A t \in Tab :
         \A m \in Overlooked(t)' \ Overlooked(t) :
            supplied'[submission[t].of][m] > supplied[submission[t].of][m]]_clientVars

===============================================================================
