------------------------------- MODULE UserStats -------------------------------
(***************************************************************************)
(* The program's per-wallet action counters (init_user_stats and           *)
(* record_action, programs/shadow-lend/src/lib.rs) and the page that       *)
(* mirrors confirmed transactions onto them (submitTransaction in          *)
(* app/index.html, recordAction and ensureStatsInited in                   *)
(* app/sl-client.js).                                                      *)
(*                                                                         *)
(* The mirror is a chain of calls, each of which waits and may fail, and   *)
(* each of which acts for the wallet in use when it is made.  The lending  *)
(* instructions are reduced to whether they were confirmed.                *)
(***************************************************************************)
EXTENDS Integers, FiniteSets

CONSTANTS
    User,
    Page,       \* submissions that may be under way at once, in any tab
    U64Max,     \* u64::MAX
    None,       \* no wallet
    MaxAction   \* bound of the confirmed transactions of each wallet and kind

ASSUME StatsAssumption ==
    /\ U64Max \in Nat
    /\ MaxAction \in Nat
    /\ None \notin User
    /\ IsFiniteSet(User)
    /\ IsFiniteSet(Page)

\* ActionKind; the page knows withdraw besides, and does not mirror it.
Kind == {"supply", "borrow", "repay", "liquidation"}
Action == {"supply", "borrow", "repay", "withdraw"}

VARIABLES
    opened,          \* UserStats accounts that exist
    proofsSubmitted, \* UserStats.proofs_submitted
    count,           \* UserStats.supplies, borrows, repays and liquidations
    confirmed,       \* how many transactions of each wallet the chain has confirmed
    wallet,          \* the wallet in use
    submission       \* each submission: the call it waits for, what it does, and
                     \* the wallet that signs or is read

statsVars == <<opened, proofsSubmitted, count>>
vars == <<statsVars, confirmed, wallet, submission>>

Submission ==
    [at : {"idle", "transaction", "history", "stats", "init", "record"},
     action : Action, signer : User \cup {None}]
Idle == [at |-> "idle", action |-> "supply", signer |-> None]

TypeOK ==
    /\ opened \subseteq User
    /\ proofsSubmitted \in [User -> 0..U64Max]
    /\ count \in [User -> [Kind -> 0..U64Max]]
    /\ confirmed \in [User -> [Action -> 0..MaxAction]]
    /\ wallet \in User \cup {None}
    /\ submission \in [Page -> Submission]

Init ==
    /\ opened = {}
    /\ proofsSubmitted = [u \in User |-> 0]
    /\ count = [u \in User |-> [k \in Kind |-> 0]]
    /\ confirmed = [u \in User |-> [k \in Action |-> 0]]
    /\ wallet = None
    /\ submission = [p \in Page |-> Idle]

-----------------------------------------------------------------------------
(* The program.                                                            *)

InitUserStats(u) ==
    /\ u \notin opened
    /\ opened' = opened \cup {u}
    /\ proofsSubmitted' = [proofsSubmitted EXCEPT ![u] = 0]
    /\ count' = [count EXCEPT ![u] = [k \in Kind |-> 0]]

\* fault: one arm of the match is missing
CountActionButRepay(u, k) ==
    /\ proofsSubmitted[u] + 1 <= U64Max
    /\ proofsSubmitted' = [proofsSubmitted EXCEPT ![u] = @ + 1]
    /\ count' = [count EXCEPT ![u][k] = IF k = "repay" THEN @ ELSE @ + 1]

\* Two checked additions; when either overflows neither counts.
CountAction(u, k) ==
    /\ proofsSubmitted[u] + 1 <= U64Max
    /\ count[u][k] + 1 <= U64Max
    /\ proofsSubmitted' = [proofsSubmitted EXCEPT ![u] = @ + 1]
    /\ count' = [count EXCEPT ![u][k] = @ + 1]

RecordAction(u, k) ==
    /\ u \in opened
    /\ CountAction(u, k)
    /\ UNCHANGED opened

-----------------------------------------------------------------------------
(* The page.                                                               *)

Put(p, s) == submission' = [submission EXCEPT ![p] = s]

\* The next call is made with the wallet of the moment; without one it throws.
CallWith(p, to) ==
    Put(p, IF wallet = None THEN Idle
           ELSE [submission[p] EXCEPT !.at = to, !.signer = wallet])

Submit(p, k) ==
    /\ submission[p] = Idle
    /\ wallet # None
    /\ Put(p, [at |-> "transaction", action |-> k, signer |-> wallet])
    /\ UNCHANGED <<statsVars, confirmed, wallet>>

Confirm(p) ==
    LET s == submission[p]
    IN  /\ s.at = "transaction"
        /\ confirmed[s.signer][s.action] < MaxAction
        /\ confirmed' = [confirmed EXCEPT ![s.signer][s.action] = @ + 1]
        /\ Put(p, [s EXCEPT !.at = "history"])
        /\ UNCHANGED <<statsVars, wallet>>

AppendedAny(p) ==  \* fault: withdrawals are mirrored too
    /\ submission[p].at = "history"
    /\ CallWith(p, "stats")
    /\ UNCHANGED <<statsVars, confirmed, wallet>>

\* appendHistory has stored the entry, and recordAction asks for the account;
\* withdrawals are not mirrored.
Appended(p) ==
    /\ submission[p].at = "history"
    /\ IF submission[p].action = "withdraw" THEN Put(p, Idle) ELSE CallWith(p, "stats")
    /\ UNCHANGED <<statsVars, confirmed, wallet>>

\* ensureStatsInited: an account that is not found, or a read that fails, has
\* it created first.
StatsRead(p) ==
    /\ submission[p].at = "stats"
    /\ \/ submission[p].signer \in opened /\ CallWith(p, "record")
       \/ CallWith(p, "init")
    /\ UNCHANGED <<statsVars, confirmed, wallet>>

Inited(p) ==
    /\ submission[p].at = "init"
    /\ InitUserStats(submission[p].signer)
    /\ CallWith(p, "record")
    /\ UNCHANGED <<confirmed, wallet>>

Recorded(p) ==
    /\ submission[p].at = "record"
    /\ RecordAction(submission[p].signer, submission[p].action)
    /\ Put(p, Idle)
    /\ UNCHANGED <<confirmed, wallet>>

\* fault: the mirror is not skipped when the transaction failed
FailOn(p) ==
    /\ submission[p] # Idle
    /\ Put(p, IF submission[p].at = "transaction"
              THEN [submission[p] EXCEPT !.at = "history"] ELSE Idle)
    /\ UNCHANGED <<statsVars, confirmed, wallet>>

\* Any call may throw; what follows is skipped, and so is the mirror when the
\* transaction or appendHistory failed.
Fail(p) ==
    /\ submission[p] # Idle
    /\ Put(p, Idle)
    /\ UNCHANGED <<statsVars, confirmed, wallet>>

\* The user connects another wallet, or none.
SwitchWallet ==
    /\ wallet' \in User \cup {None}
    /\ UNCHANGED <<statsVars, confirmed, submission>>

Next ==
    \/ \E p \in Page :
          \/ \E k \in Action : Submit(p, k)
          \/ Confirm(p)
          \/ Appended(p)
          \/ StatsRead(p)
          \/ Inited(p)
          \/ Recorded(p)
          \/ Fail(p)
    \/ SwitchWallet

Spec == Init /\ [][Next]_vars

-----------------------------------------------------------------------------
(* Properties.                                                             *)

\* Every proof counts under exactly one kind, also where a counter is full.
ProofsAddUp ==
    \A u \in User :
        proofsSubmitted[u] =
            count[u]["supply"] + count[u]["borrow"] + count[u]["repay"]
              + count[u]["liquidation"]

\* One element for each unit of f[u][k], over all wallets u.
UnitsOf(f, k) == {r \in User \X (1..(U64Max + MaxAction)) : r[2] <= f[r[1]][k]}

\* The counters of all wallets together never claim more supplies, borrows or
\* repayments than the chain has confirmed, whatever fails, is created twice or
\* is interrupted by a change of wallet; and never a liquidation.
NothingInvented ==
    /\ \A k \in Kind \cap Action :
          Cardinality(UnitsOf(count, k)) <= Cardinality(UnitsOf(confirmed, k))
    /\ UnitsOf(count, "liquidation") = {}

\* Mirrors under way that may still count k.
Pending(k) ==
    {p \in Page : /\ submission[p].at \in {"history", "stats", "init", "record"}
                  /\ submission[p].action = k}

\* Even when every mirror under way comes through.
NeverAhead ==
    \A k \in Kind \cap Action :
        Cardinality(UnitsOf(count, k)) + Cardinality(Pending(k))
            <= Cardinality(UnitsOf(confirmed, k))

\* The calls of the mirror are signed, and withdrawals have none.
CallsSigned ==
    \A p \in Page :
        /\ submission[p].at # "idle" => submission[p].signer \in User
        /\ submission[p].at \in {"stats", "init", "record"} =>
              submission[p].action # "withdraw"

NoLiquidation == \A u \in User : count[u]["liquidation"] = 0

\* Inductive.
StatsInv == TypeOK /\ ProofsAddUp /\ CallsSigned /\ NoLiquidation /\ NeverAhead

===============================================================================
