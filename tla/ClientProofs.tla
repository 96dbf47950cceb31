----------------------------- MODULE ClientProofs -----------------------------
(***************************************************************************)
(* Whatever submissions overlap, whatever they listed and however old it   *)
(* is when the program sees it: the browser client runs the program, and   *)
(* the ledger, the debts and the bank hold behind it.  When a user has one *)
(* submission at a time, what he has listed is also enough for the         *)
(* program's health check, although it was read before; and a liquidation  *)
(* misses none of its borrower's collateral but what he supplies then.     *)
(***************************************************************************)
EXTENDS Client, HealthProofs, SequenceTheorems

\* What is under way can be sent: inputs of the types the program takes, and
\* for a liquidation a pair the page offers.
Sendable(s) ==
    /\ s.market \in Market
    /\ s.amount \in U64
    /\ s.call = "liquidate" =>
          s.of \in User /\ <<s.market, s.collateral>> \in LiquidationPairs

SubmissionInv ==
    /\ submission = [t \in Tab |-> submission[t]]
    /\ \A t \in Tab : submission[t].at # "idle" => Sendable(submission[t])

\* What one submission becomes, the others are not.
LEMMA PutKeeps ==
    ASSUME SubmissionInv, NEW t \in Tab, NEW s, Put(t, s), s.at # "idle" => Sendable(s)
    PROVE  SubmissionInv'
<1>1. /\ submission = [x \in Tab |-> submission[x]]
      /\ submission' = [submission EXCEPT ![t] = s]
    BY DEF SubmissionInv, Put
<1>2. submission' = [x \in Tab |-> IF x = t THEN s ELSE submission[x]]
    BY <1>1
<1>3. \A x \in Tab : submission'[x] = IF x = t THEN s ELSE submission[x]
    BY <1>2
<1>4. submission' = [x \in Tab |-> submission'[x]]
    BY <1>2
<1> QED
    BY <1>3, <1>4 DEF SubmissionInv, Sendable

LEMMA ModifyIsProgramStep ==
    ASSUME NEW u \in User, NEW m \in Market, NEW a \in U64, NEW rest,
           \/ Supply(u, m, a) \/ Repay(u, m, a)
           \/ Withdraw(u, m, a, rest) \/ Borrow(u, m, a, rest)
    PROVE  ProgramStep
BY DEF ProgramStep, UncheckedStep

LEMMA LiquidateIsProgramStep ==
    ASSUME NEW l \in User, NEW u \in User, NEW d \in Market, NEW c \in Market,
           NEW a \in U64, NEW rest, <<d, c>> \in LiquidationPairs,
           Liquidate(l, u, d, c, a, rest)
    PROVE  ProgramStep
BY DEF ProgramStep, UncheckedStep

LEMMA ClientStep ==
    ASSUME SubmissionInv, [ClientNext]_clientVars
    PROVE  [ProgramStep]_vars /\ SubmissionInv'
<1>1. /\ \A m \in Market : Amounts[m] \subseteq U64 /\ Quotes[m] \subseteq Quote
      /\ ClaimAmounts \subseteq U64
      /\ LiquidationPairs \subseteq Market \X Market
      /\ Borrower \subseteq User /\ \A t \in Tab : UserOf[t] \in User
    BY InputAssumption, MarketAssumption, ClientAssumption
<1>2. ASSUME NEW t \in Tab, NEW call \in Call \ {"liquidate"}, NEW m \in Market,
             NEW a \in Amounts[m], Submit(t, call, m, a)
      PROVE  UNCHANGED vars /\ SubmissionInv'
  <2>1. PICK at, unread :
           Put(t, [Idle(UserOf[t]) EXCEPT !.at = at, !.call = call, !.market = m,
                                          !.amount = a, !.unread = unread])
      BY <1>2 DEF Submit
  <2> DEFINE s == [Idle(UserOf[t]) EXCEPT !.at = at, !.call = call, !.market = m,
                                          !.amount = a, !.unread = unread]
  <2>2. s.market = m /\ s.amount = a /\ s.call = call
      BY DEF Idle
  <2>3. call # "liquidate" /\ a \in U64
      BY <1>1
  <2>4. Sendable(s)
      BY <2>2, <2>3 DEF Sendable
  <2> QED
      BY <1>2, <2>1, <2>4, PutKeeps DEF Submit
<1>3. ASSUME NEW t \in Tab, NEW u \in Borrower, NEW p \in LiquidationPairs,
             NEW a \in Amounts[p[1]], SubmitLiquidation(t, u, p[1], p[2], a)
      PROVE  UNCHANGED vars /\ SubmissionInv'
  <2>1. PICK at, unread :
           Put(t, [Idle(u) EXCEPT !.at = at, !.call = "liquidate", !.market = p[1],
                                  !.collateral = p[2], !.amount = a, !.unread = unread])
      BY <1>3 DEF SubmitLiquidation
  <2> DEFINE s == [Idle(u) EXCEPT !.at = at, !.call = "liquidate", !.market = p[1],
                                  !.collateral = p[2], !.amount = a, !.unread = unread]
  <2>2. s.market = p[1] /\ s.collateral = p[2] /\ s.amount = a /\ s.of = u
      BY DEF Idle
  <2>3. p[1] \in Market /\ <<p[1], p[2]>> = p /\ a \in U64 /\ u \in User
      BY <1>1
  <2>4. Sendable(s)
      BY <2>2, <2>3 DEF Sendable
  <2> QED
      BY <1>3, <2>1, <2>4, PutKeeps DEF SubmitLiquidation
<1>4. ASSUME NEW t \in Tab, ReadPosition(t)
      PROVE  UNCHANGED vars /\ SubmissionInv'
  <2> DEFINE old == submission[t]
  <2>1. PICK at, unread, listed :
           Put(t, [old EXCEPT !.at = at, !.unread = unread, !.listed = listed])
      BY <1>4 DEF ReadPosition
  <2> DEFINE s == [old EXCEPT !.at = at, !.unread = unread, !.listed = listed]
  <2>2. Sendable(old)
      BY <1>4 DEF ReadPosition, SubmissionInv
  <2>3. /\ s.market = old.market /\ s.amount = old.amount /\ s.call = old.call
        /\ s.of = old.of /\ s.collateral = old.collateral
      OBVIOUS
  <2>4. Sendable(s)
      BY <2>2, <2>3 DEF Sendable
  <2> QED
      BY <1>4, <2>1, <2>4, PutKeeps DEF ReadPosition
<1>5. ASSUME NEW t \in Tab, Execute(t)
      PROVE  ProgramStep /\ SubmissionInv'
  <2> DEFINE s == submission[t]
             u == UserOf[t]
  <2>1. Sendable(s) /\ Instruction(s, u) /\ u \in User
      BY <1>1, <1>5 DEF Execute, SubmissionInv
  <2>2. s.market \in Market /\ s.amount \in U64
      BY <2>1 DEF Sendable
  <2>3. \/ Supply(u, s.market, s.amount)
        \/ Repay(u, s.market, s.amount)
        \/ Withdraw(u, s.market, s.amount, s.listed)
        \/ Borrow(u, s.market, s.amount, s.listed)
        => ProgramStep
      BY <2>1, <2>2, ModifyIsProgramStep
  <2>4. /\ s.call = "liquidate"
        /\ Liquidate(u, s.of, s.market, s.collateral, s.amount, s.listed)
        => ProgramStep
    <3> SUFFICES ASSUME s.call = "liquidate",
                        Liquidate(u, s.of, s.market, s.collateral, s.amount, s.listed)
                 PROVE  ProgramStep
        OBVIOUS
    <3>1. s.of \in User /\ <<s.market, s.collateral>> \in LiquidationPairs
        BY <2>1 DEF Sendable
    <3>2. s.collateral \in Market
        BY <1>1, <3>1
    <3> QED
        BY <2>1, <2>2, <3>1, <3>2, LiquidateIsProgramStep
  <2>5. ProgramStep
      BY <2>1, <2>3, <2>4 DEF Instruction
  <2>6. Put(t, Idle(u)) /\ Idle(u).at = "idle"
      BY <1>5 DEF Execute, Idle
  <2> QED
      BY <2>5, <2>6, PutKeeps
<1>6. ASSUME NEW t \in Tab, Abandon(t)
      PROVE  UNCHANGED vars /\ SubmissionInv'
  <2>1. Put(t, Idle(UserOf[t])) /\ Idle(UserOf[t]).at = "idle"
      BY <1>6 DEF Abandon, Idle
  <2> QED
      BY <1>6, <2>1, PutKeeps DEF Abandon
<1>7. CASE Around
  <2>1. (Faucet \/ World) /\ submission' = submission
      BY <1>7 DEF Around
  <2>2. ProgramStep
      BY <1>1, <2>1 DEF Faucet, World, ProgramStep, UncheckedStep
  <2> QED
      BY <2>1, <2>2 DEF SubmissionInv, Sendable
<1>8. CASE UNCHANGED clientVars
    BY <1>8 DEF clientVars, SubmissionInv, Sendable
<1> QED
    BY <1>2, <1>3, <1>4, <1>5, <1>6, <1>7, <1>8 DEF ClientNext

LEMMA ClientStarts == ClientInit => Init /\ SubmissionInv
<1> SUFFICES ASSUME ClientInit PROVE Init /\ SubmissionInv
    OBVIOUS
<1>1. Init /\ submission = [t \in Tab |-> Idle(UserOf[t])]
    BY DEF ClientInit
<1>2. \A t \in Tab : submission[t].at = "idle"
    BY <1>1 DEF Idle
<1>3. submission = [t \in Tab |-> submission[t]]
    BY <1>1
<1> QED
    BY <1>1, <1>2, <1>3 DEF SubmissionInv

\* The client, with all its submissions, is a caller of the program.
LEMMA ClientIsProgram == ClientSpec => Program
<1>1. SubmissionInv /\ [ClientNext]_clientVars => [ProgramStep]_vars /\ SubmissionInv'
    BY ClientStep
<1> QED
    BY <1>1, ClientStarts, PTL DEF ClientSpec, Program

\* No number of overlapping submissions, failed reads, refusals and stale
\* listings breaks the ledger: what the client passes for the health check can
\* cost the check its meaning, but no token and no account its value.
THEOREM ClientKeepsLedger == ClientSpec => []LedgerInv
BY ClientIsProgram, ProgramKeepsLedger, PTL

\* Nor the debts, while their products fit: they move by tokens alone.
THEOREM ClientMovesDebtsByTokens == ClientSpec /\ []ProductsFit => DebtIsTokens
BY ClientIsProgram, ProgramMovesDebtsByTokens, PTL

\* Nor do submissions that overlap carry a market's loans above its debts.
THEOREM ClientKeepsDebtLedger == ClientSpec /\ []ProductsFit => []DebtLedger
BY ClientIsProgram, ProgramKeepsDebtLedger, PTL

\* When the page offers collateral of another market than the debt's only, a
\* liquidation through it takes no more than the debt's worth and the bonus.
THEOREM ClientSeizuresArePriced == CrossMarketOnly => (ClientSpec => SeizurePriced)
BY ClientIsProgram, ProgramPricesSeizures, PTL

\* And behind the client, as behind the program alone, is the bank.
THEOREM ClientIsBank ==
    CrossMarketOnly => (ClientSpec /\ []ProductsFit => ImplementsBank)
BY ClientIsProgram, ProgramIsBank, PTL

-----------------------------------------------------------------------------
(* Reading position by position.                                           *)

\* Removing a market from a list without repetitions removes that one alone.
LEMMA RemovedOnly ==
    ASSUME NEW S, NEW s \in Seq(S), IsInjective(s), NEW m
    PROVE  /\ RemoveFirst(s, m) \in Seq(S \ {m}) /\ IsInjective(RemoveFirst(s, m))
           /\ \A k \in Range(s) : k # m => k \in Range(RemoveFirst(s, m))
<1> DEFINE n == Len(s)
<1>1. /\ n \in Nat /\ DOMAIN s = 1..n /\ \A i \in 1..n : s[i] \in S
      /\ \A i, j \in 1..n : s[i] = s[j] => i = j
    BY LenProperties, ElementOfSeq DEF IsInjective
<1>2. ASSUME NEW r \in Seq(S), \A j \in 1..Len(r) : r[j] # m
      PROVE  r \in Seq(S \ {m})
  <2>1. Len(r) \in Nat /\ r \in [1..Len(r) -> S]
      BY LenProperties
  <2>2. r \in [1..Len(r) -> S \ {m}]
      BY <1>2, <2>1
  <2> QED
      BY <2>1, <2>2, SeqDef
<1>3. CASE ~\E i \in 1..n : s[i] = m
  <2>1. RemoveFirst(s, m) = s
      BY <1>3 DEF RemoveFirst
  <2> QED
      BY <1>2, <1>3, <2>1
<1>4. ASSUME NEW i \in 1..n, s[i] = m
      PROVE  /\ RemoveFirst(s, m) \in Seq(S \ {m}) /\ IsInjective(RemoveFirst(s, m))
             /\ \A k \in Range(s) : k # m => k \in Range(RemoveFirst(s, m))
  <2> DEFINE a == SubSeq(s, 1, i - 1)
             b == SubSeq(s, i + 1, n)
             r == RemoveFirst(s, m)
  <2>1. SelectInSeq(s, LAMBDA v : v = m) = i
    <3>1. {j \in 1..n : s[j] = m} = {i}
        BY <1>1, <1>4
    <3>2. Min({i}) = i
        BY DEF Min
    <3> QED
        BY <3>1, <3>2 DEF SelectInSeq
  <2>2. r = a \o b
      BY <1>4, <2>1 DEF RemoveFirst, RemoveAt
  <2>3. /\ a \in Seq(S) /\ Len(a) = i - 1
        /\ \A j \in 1..i - 1 : a[j] = s[j]
    <3>1. /\ 1 \in Int /\ i - 1 \in Int /\ (1 <= i - 1 \/ i - 1 = 0)
          /\ \A j \in 1..i - 1 : s[j] \in S
        BY <1>1
    <3>2. /\ a \in Seq(S)
          /\ Len(a) = IF 1 <= i - 1 THEN i - 1 - 1 + 1 ELSE 0
          /\ \A j \in 1..i - 1 - 1 + 1 : a[j] = s[1 + j - 1]
        BY <3>1, SubSeqProperties
    <3> HIDE DEF a
    <3> QED
        BY <3>1, <3>2
  <2>4. /\ b \in Seq(S) /\ Len(b) = n - i
        /\ \A j \in 1..n - i : b[j] = s[i + j]
    <3>1. /\ i + 1 \in Int /\ n \in Int /\ (i + 1 <= n \/ n = i)
          /\ \A j \in (i + 1)..n : s[j] \in S
      <4>1. n \in Nat /\ i \in 1..n /\ \A j \in 1..n : s[j] \in S
          BY <1>1
      <4> HIDE DEF n
      <4>2. \A j \in (i + 1)..n : j \in 1..n
          BY <4>1
      <4> QED
          BY <4>1, <4>2
    <3>2. /\ b \in Seq(S)
          /\ Len(b) = IF i + 1 <= n THEN n - (i + 1) + 1 ELSE 0
          /\ \A j \in 1..n - (i + 1) + 1 : b[j] = s[i + 1 + j - 1]
        BY <3>1, SubSeqProperties
    <3>3. n \in Nat /\ i \in 1..n
        BY <1>1
    <3> HIDE DEF b, n
    <3>4. \A j \in 1..n - i : j \in 1..n - (i + 1) + 1 /\ i + 1 + j - 1 = i + j
        BY <3>3
    <3>5. Len(b) = n - i
        BY <3>1, <3>2, <3>3
    <3> QED
        BY <3>2, <3>4, <3>5
  <2>5. /\ r \in Seq(S) /\ Len(r) = n - 1
        /\ \A j \in 1..n - 1 : r[j] = IF j < i THEN s[j] ELSE s[j + 1]
    <3>1. n \in Nat /\ i \in 1..n
        BY <1>1
    <3>2. a \in Seq(S) /\ b \in Seq(S)
        BY <2>3, <2>4
    <3> HIDE DEF a, b, r, n
    <3>3. /\ a \o b \in Seq(S) /\ Len(a \o b) = Len(a) + Len(b)
          /\ \A j \in 1..Len(a) + Len(b) :
                (a \o b)[j] = IF j <= Len(a) THEN a[j] ELSE b[j - Len(a)]
        BY <3>2, ConcatProperties
    <3>4. Len(a) + Len(b) = n - 1
        BY <2>3, <2>4, <3>1
    <3>5. ASSUME NEW j \in 1..n - 1
          PROVE  r[j] = IF j < i THEN s[j] ELSE s[j + 1]
      <4>1. r[j] = IF j <= i - 1 THEN a[j] ELSE b[j - (i - 1)]
          BY <2>3, <2>2, <3>3, <3>4
      <4>2. CASE j < i
          BY <2>3, <3>1, <4>1, <4>2
      <4>3. CASE ~(j < i)
        <5>1. j - (i - 1) \in 1..n - i /\ i + (j - (i - 1)) = j + 1
            BY <3>1, <4>3
        <5> QED
            BY <2>4, <3>1, <4>1, <4>3, <5>1
      <4> QED
          BY <4>2, <4>3
    <3> QED
        BY <2>2, <3>3, <3>4, <3>5
  <2>6. DOMAIN r = 1..n - 1
      BY <2>5, LenProperties
  <2> HIDE DEF r, n
  <2>7. n \in Nat /\ i \in 1..n
      BY <1>1
  <2>8. \A j \in 1..n - 1 : r[j] # m
    <3> SUFFICES ASSUME NEW j \in 1..n - 1, r[j] = m
                 PROVE  FALSE
        OBVIOUS
    <3>1. j \in 1..n /\ j + 1 \in 1..n
        BY <2>7
    <3> QED
        BY <1>1, <1>4, <2>5, <2>7, <3>1
  <2>9. IsInjective(r)
    <3> SUFFICES ASSUME NEW j \in 1..n - 1, NEW k \in 1..n - 1, r[j] = r[k]
                 PROVE  j = k
        BY <2>6 DEF IsInjective
    <3>1. j \in 1..n /\ j + 1 \in 1..n /\ k \in 1..n /\ k + 1 \in 1..n
        BY <2>7
    <3> QED
        BY <1>1, <2>5, <2>7, <3>1
  <2>10. \A k \in Range(s) : k # m => k \in Range(r)
    <3> SUFFICES ASSUME NEW j \in 1..n, s[j] # m
                 PROVE  \E k \in 1..n - 1 : r[k] = s[j]
        BY <1>1, <2>6 DEF Range
    <3>1. CASE j < i
      <4>1. j \in 1..n - 1
          BY <2>7, <3>1
      <4> QED
          BY <2>5, <3>1, <4>1
    <3>2. CASE j > i
      <4>1. j - 1 \in 1..n - 1 /\ ~(j - 1 < i) /\ (j - 1) + 1 = j
          BY <2>7, <3>2
      <4> QED
          BY <2>5, <4>1
    <3>3. j # i
        BY <1>4
    <3> QED
        BY <2>7, <3>1, <3>2, <3>3
  <2>11. r \in Seq(S \ {m})
      BY <1>2, <2>5, <2>8
  <2> QED
      BY <2>9, <2>10, <2>11 DEF r
<1> QED
    BY <1>3, <1>4

LEMMA SkippedOnly ==
    ASSUME NEW m \in Market
    PROVE  /\ RemoveFirst(MarketList, m) \in Seq(Market)
           /\ \A k \in Range(MarketList) : k # m => k \in Range(RemoveFirst(MarketList, m))
<1>1. /\ RemoveFirst(MarketList, m) \in Seq(Market \ {m})
      /\ \A k \in Range(MarketList) : k # m => k \in Range(RemoveFirst(MarketList, m))
    BY ClientAssumption, RemovedOnly
<1>2. RemoveFirst(MarketList, m) \in Seq(Market)
    BY <1>1, SeqMonotonic
<1> QED
    BY <1>1, <1>2

LEMMA HeadThenTail ==
    ASSUME NEW S, NEW s \in Seq(S), s # <<>>
    PROVE  /\ Head(s) \in S /\ Tail(s) \in Seq(S)
           /\ \A k \in Range(s) : k = Head(s) \/ k \in Range(Tail(s))
<1>1. /\ Len(s) \in Nat /\ Len(s) > 0 /\ Head(s) = s[1]
    BY LenProperties, EmptySeq
<1>2. /\ Head(s) \in S /\ Tail(s) \in Seq(S) /\ Len(Tail(s)) = Len(s) - 1
      /\ \A i \in 1..Len(Tail(s)) : Tail(s)[i] = s[i + 1]
    BY HeadTailProperties
<1>3. /\ Range(s) = {s[i] : i \in 1..Len(s)}
      /\ Range(Tail(s)) = {Tail(s)[i] : i \in 1..Len(Tail(s))}
    BY <1>2, RangeEquality
<1>4. ASSUME NEW j \in 1..Len(s)
      PROVE  s[j] = Head(s) \/ s[j] \in Range(Tail(s))
  <2>1. CASE j = 1
      BY <1>1, <2>1
  <2>2. CASE j # 1
    <3>1. j - 1 \in 1..Len(Tail(s)) /\ (j - 1) + 1 = j
        BY <1>1, <1>2, <2>2
    <3>2. Tail(s)[j - 1] = s[j]
        BY <1>2, <3>1
    <3> QED
        BY <1>3, <3>1, <3>2
  <2> QED
      BY <2>1, <2>2
<1> QED
    BY <1>2, <1>3, <1>4

LEMMA NothingUnread == Range(<<>>) = {}
BY DEF Range

-----------------------------------------------------------------------------
(* What a submission has listed when the wallet signs it.                  *)

\* A user starts no second submission before the first has come to its end.
OneSubmissionEach == \A t1, t2 \in Tab : UserOf[t1] = UserOf[t2] => t1 = t2

\* The client reads in every market.
ReadsEveryMarket == Market \subseteq Range(MarketList) /\ ~ReadsFail

Checked(s) == s.at # "idle" /\ s.call \in {"withdraw", "borrow"}

\* Where u has borrowed.
OwesIn(u) == {m \in Market : borrowed[u][m] # 0}

\* A record with the fields that a read writes.
Readable(s) == {"at", "unread", "listed"} \subseteq DOMAIN s

\* No debt of u is missed: its market is listed, the submission's own, or still
\* to be read.
MissesNone(s, u, debts) ==
    /\ Readable(s) /\ s.at = Stage(s.unread) /\ s.of = u
    /\ s.unread \in Seq(Market) /\ s.listed \subseteq Market
    /\ debts \subseteq s.listed \cup {s.market} \cup Range(s.unread)

ListingInv ==
    \A t \in Tab :
        Checked(submission[t]) => MissesNone(submission[t], UserOf[t], OwesIn(UserOf[t]))

\* Nobody comes to owe in a market by what others do.
LEMMA OthersOpenNoDebt ==
    ASSUME TypeOK, NEW s, Sendable(s), NEW u \in User, Instruction(s, u), NEW v \in User, v # u,
           NEW k \in Market, borrowed'[v][k] # 0
    PROVE  borrowed[v][k] # 0
<1>1. /\ borrowed \in [User -> [Market -> U64]]
      /\ \A w \in User, m \in Market : borrowed[w][m] = 0 => Debt(w, m) = 0
    BY DebtType DEF TypeOK
<1>2. ASSUME NEW sup, NEW bor, SetPosition(u, s.market, sup, bor)
      PROVE  borrowed'[v][k] = borrowed[v][k]
    BY <1>1, <1>2 DEF SetPosition
<1>3. CASE s.call # "liquidate"
    BY <1>2, <1>3 DEF Instruction, Supply, Repay, Withdraw, Borrow
<1>4. CASE s.call = "liquidate"
  <2> DEFINE w == s.of
             d == s.market
             c == s.collateral
             repaid == Payable(w, d, s.amount)
  <2>1. /\ w \in User /\ d \in Market /\ c \in Market
        /\ Liquidate(u, w, d, c, s.amount, s.listed)
    <3>1. <<d, c>> \in LiquidationPairs /\ w \in User
        BY <1>4 DEF Sendable
    <3> QED
        BY <1>4, <3>1, MarketAssumption DEF Instruction
  <2>2. /\ Debt(w, d) > 0
        /\ borrowed' = [borrowed EXCEPT ![w] =
                           WriteBack(@, d, SatSub(Debt(w, d), repaid), c, Debt(w, c))]
      BY <2>1 DEF Liquidate
  <2> HIDE DEF w, d, c, repaid
  <2>3. CASE v # w
      BY <1>1, <2>1, <2>2, <2>3
  <2>4. CASE v = w
    <3>1. borrowed'[v] = [borrowed[v] EXCEPT ![d] = SatSub(Debt(v, d), repaid), ![c] = Debt(v, c)]
        BY <1>1, <2>2, <2>4 DEF WriteBack
    <3>2. CASE k = c
        BY <1>1, <2>1, <3>1, <3>2
    <3>3. CASE k = d
      <4>1. borrowed[v][d] # 0
          BY <1>1, <2>1, <2>2, <2>4
      <4> QED
          BY <3>3, <4>1
    <3>4. CASE k # c /\ k # d
        BY <1>1, <3>1, <3>4
    <3> QED
        BY <3>2, <3>3, <3>4
  <2> QED
      BY <2>3, <2>4
<1> QED
    BY <1>3, <1>4

\* One submission changes; the users of the others come to owe nothing new.
LEMMA PutKeepsListing ==
    ASSUME SubmissionInv, ListingInv, NEW t \in Tab, NEW s, Put(t, s),
           \A x \in Tab : x # t => OwesIn(UserOf[x])' \subseteq OwesIn(UserOf[x]),
           Checked(s) => MissesNone(s, UserOf[t], OwesIn(UserOf[t])')
    PROVE  ListingInv'
<1>1. \A x \in Tab : submission'[x] = IF x = t THEN s ELSE submission[x]
    BY DEF SubmissionInv, Put
<1> SUFFICES ASSUME NEW x \in Tab, Checked(submission'[x])
             PROVE  MissesNone(submission'[x], UserOf[x], OwesIn(UserOf[x])')
    BY DEF ListingInv
<1>2. CASE x = t
    BY <1>1, <1>2
<1>3. CASE x # t
  <2>1. /\ submission'[x] = submission[x]
        /\ MissesNone(submission[x], UserOf[x], OwesIn(UserOf[x]))
      BY <1>1, <1>3 DEF ListingInv
  <2> QED
      BY <1>3, <2>1 DEF MissesNone
<1> QED
    BY <1>2, <1>3

LEMMA SubmitLists ==
    ASSUME ReadsEveryMarket, SubmissionInv, ListingInv, NEW t \in Tab,
           NEW call \in Call \ {"liquidate"}, NEW m \in Market, NEW a, Submit(t, call, m, a)
    PROVE  ListingInv'
<1> DEFINE u == UserOf[t]
           others == IF call \in {"borrow", "withdraw"} THEN RemoveFirst(MarketList, m) ELSE <<>>
           s == [Idle(u) EXCEPT !.at = Stage(others), !.call = call, !.market = m,
                                !.amount = a, !.unread = others]
<1>1. Put(t, s) /\ UNCHANGED vars
    BY DEF Submit
<1>2. \A x \in Tab : OwesIn(UserOf[x])' = OwesIn(UserOf[x])
    BY <1>1 DEF OwesIn, vars, positionVars
<1>3. /\ s.at = Stage(others) /\ s.call = call /\ s.of = u /\ s.market = m
      /\ s.unread = others /\ s.listed = {} /\ Readable(s)
    BY DEF Idle, Readable
<1>4. ASSUME call \in {"withdraw", "borrow"}
      PROVE  MissesNone(s, u, OwesIn(u))
  <2>1. /\ others \in Seq(Market)
        /\ \A k \in Range(MarketList) : k # m => k \in Range(others)
      BY <1>4, SkippedOnly
  <2> HIDE DEF s, others
  <2>2. OwesIn(u) \subseteq {m} \cup Range(others)
      BY <2>1 DEF OwesIn, ReadsEveryMarket
  <2> QED
      BY <1>3, <2>1, <2>2 DEF MissesNone
<1> HIDE DEF s, others
<1>5. Checked(s) => MissesNone(s, u, OwesIn(u)')
    BY <1>2, <1>3, <1>4 DEF Checked
<1> QED
    BY <1>1, <1>2, <1>5, PutKeepsListing

LEMMA ReadLists ==
    ASSUME ReadsEveryMarket, LedgerInv, SubmissionInv, ListingInv, NEW t \in Tab, ReadPosition(t)
    PROVE  ListingInv'
<1> DEFINE old == submission[t]
           u == UserOf[t]
           m == Head(old.unread)
           rest == Tail(old.unread)
<1>1. PICK found \in {Lists(old.of, m)} :
         Put(t, [old EXCEPT !.at = Stage(rest), !.unread = rest,
                            !.listed = IF found THEN @ \cup {m} ELSE @])
    BY DEF ReadPosition, ReadsEveryMarket
<1> DEFINE s == [old EXCEPT !.at = Stage(rest), !.unread = rest,
                            !.listed = IF found THEN @ \cup {m} ELSE @]
<1>2. UNCHANGED vars /\ old.at = "reading"
    BY DEF ReadPosition
<1>3. \A x \in Tab : OwesIn(UserOf[x])' = OwesIn(UserOf[x])
    BY <1>2 DEF OwesIn, vars, positionVars
<1>4. ASSUME Checked(s)
      PROVE  MissesNone(s, u, OwesIn(u))
  <2>1. s.call = old.call
      OBVIOUS
  <2>2. MissesNone(old, u, OwesIn(u))
      BY <1>2, <1>4, <2>1 DEF Checked, ListingInv
  <2>3. old.unread \in Seq(Market) /\ old.unread # <<>>
      BY <1>2, <2>2 DEF MissesNone, Stage
  <2>4. /\ m \in Market /\ rest \in Seq(Market)
        /\ \A k \in Range(old.unread) : k = m \/ k \in Range(rest)
      BY <2>3, HeadThenTail
  <2>5. ~found => m \notin OwesIn(u)
    <3>1. u \in User /\ old.of = u
        BY <2>2, ClientAssumption DEF MissesNone
    <3>2. borrowed[u][m] \in Nat
      <4>1. borrowed[u][m] \in U64
          BY <2>4, <3>1 DEF LedgerInv, TypeOK
      <4> QED
          BY <4>1, Scales
    <3>3. borrowed[u][m] # 0 => <<u, m>> \in opened /\ Active(u, m)
        BY <2>4, <3>1, <3>2 DEF LedgerInv, MarketsFirst, Active
    <3> HIDE DEF m
    <3> QED
        BY <3>1, <3>3 DEF Lists, OwesIn
  <2>6. /\ Readable(s) /\ s.at = Stage(rest) /\ s.unread = rest
        /\ s.of = old.of /\ s.market = old.market
        /\ s.listed = IF found THEN old.listed \cup {m} ELSE old.listed
    <3>1. Readable(old)
        BY <2>2 DEF MissesNone
    <3> HIDE DEF old, m, rest
    <3> QED
        BY <3>1 DEF Readable
  <2> HIDE DEF s, old, m, rest
  <2> QED
      BY <2>2, <2>4, <2>5, <2>6 DEF MissesNone
<1> HIDE DEF s
<1>5. Checked(s) => MissesNone(s, u, OwesIn(u)')
    BY <1>3, <1>4
<1> QED
    BY <1>1, <1>3, <1>5, PutKeepsListing DEF s

LEMMA ExecuteLists ==
    ASSUME OneSubmissionEach, LedgerInv, SubmissionInv, ListingInv, NEW t \in Tab, Execute(t)
    PROVE  ListedStep /\ ListingInv'
<1> DEFINE s == submission[t]
           u == UserOf[t]
<1>1. /\ TypeOK /\ u \in User /\ \A x \in Tab : UserOf[x] \in User
      /\ s.at = "signing" /\ Sendable(s) /\ Instruction(s, u)
      /\ Put(t, Idle(u)) /\ Idle(u).at = "idle"
    BY ClientAssumption DEF LedgerInv, Execute, SubmissionInv, Idle
<1>2. s.market \in Market /\ s.amount \in U64
    BY <1>1 DEF Sendable
<1>3. ListedStep
  <2>1. CASE s.call \in {"supply", "repay"}
      BY <1>1, <1>2, <2>1 DEF Instruction, ListedStep, UncheckedStep
  <2>2. CASE s.call \in {"withdraw", "borrow"}
    <3>1. MissesNone(s, u, OwesIn(u))
        BY <1>1, <2>2 DEF Checked, ListingInv
    <3>2. s.unread = <<>>
        BY <1>1, <3>1 DEF MissesNone, Stage
    <3> HIDE DEF s, u
    <3>3. OwesIn(u) \subseteq s.listed \cup {s.market} /\ s.listed \subseteq Market
        BY <3>1, <3>2, NothingUnread DEF MissesNone
    <3>4. ListsDebts(u, s.listed \cup {s.market})
        BY <1>2, <3>3 DEF ListsDebts, OwesIn
    <3>5. \/ Withdraw(u, s.market, s.amount, s.listed)
          \/ Borrow(u, s.market, s.amount, s.listed)
        BY <1>1, <2>2 DEF Instruction
    <3> QED
        BY <1>1, <1>2, <3>4, <3>5 DEF ListedStep
  <2>3. CASE s.call = "liquidate"
    <3>1. s.of \in User /\ <<s.market, s.collateral>> \in LiquidationPairs
        BY <1>1, <2>3 DEF Sendable
    <3>2. s.collateral \in Market
        BY <3>1, MarketAssumption
    <3>3. Liquidate(u, s.of, s.market, s.collateral, s.amount, s.listed)
        BY <1>1, <2>3 DEF Instruction
    <3> HIDE DEF s, u
    <3> QED
        BY <1>1, <1>2, <3>1, <3>2, <3>3 DEF ListedStep
  <2> QED
      BY <1>1, <2>1, <2>2, <2>3 DEF Instruction
<1>4. ASSUME NEW x \in Tab, x # t
      PROVE  OwesIn(UserOf[x])' \subseteq OwesIn(UserOf[x])
  <2>1. UserOf[x] # u /\ UserOf[x] \in User
      BY <1>1, <1>4 DEF OneSubmissionEach
  <2>2. \A k \in Market : borrowed'[UserOf[x]][k] # 0 => borrowed[UserOf[x]][k] # 0
      BY <1>1, <2>1, OthersOpenNoDebt
  <2> QED
      BY <2>2 DEF OwesIn
<1>5. ListingInv'
    BY <1>1, <1>4, PutKeepsListing DEF Checked
<1> QED
    BY <1>3, <1>5

LEMMA ClientListedStep ==
    ASSUME OneSubmissionEach, ReadsEveryMarket, LedgerInv, SubmissionInv, ListingInv,
           [ClientNext]_clientVars
    PROVE  [ListedStep]_vars /\ ListingInv'
<1>1. ClaimAmounts \subseteq U64 /\ \A m \in Market : Quotes[m] \subseteq Quote
    BY InputAssumption
<1>2. ASSUME NEW t \in Tab, NEW call \in Call \ {"liquidate"}, NEW m \in Market,
             NEW a \in Amounts[m], Submit(t, call, m, a)
      PROVE  UNCHANGED vars /\ ListingInv'
    BY <1>2, SubmitLists DEF Submit
<1>3. ASSUME NEW t \in Tab, UNCHANGED vars, NEW s, Put(t, s), ~Checked(s)
      PROVE  ListingInv'
  <2>1. \A x \in Tab : OwesIn(UserOf[x])' \subseteq OwesIn(UserOf[x])
      BY <1>3 DEF OwesIn, vars, positionVars
  <2> QED
      BY <1>3, <2>1, PutKeepsListing
<1>4. ASSUME NEW t \in Tab, NEW u \in Borrower, NEW p \in LiquidationPairs,
             NEW a \in Amounts[p[1]], SubmitLiquidation(t, u, p[1], p[2], a)
      PROVE  UNCHANGED vars /\ ListingInv'
  <2>1. PICK at, unread :
           Put(t, [Idle(u) EXCEPT !.at = at, !.call = "liquidate", !.market = p[1],
                                  !.collateral = p[2], !.amount = a, !.unread = unread])
      BY <1>4 DEF SubmitLiquidation
  <2> DEFINE s == [Idle(u) EXCEPT !.at = at, !.call = "liquidate", !.market = p[1],
                                  !.collateral = p[2], !.amount = a, !.unread = unread]
  <2>2. s.call = "liquidate"
      BY DEF Idle
  <2> HIDE DEF s
  <2>3. ~Checked(s)
      BY <2>2 DEF Checked
  <2> QED
      BY <1>3, <1>4, <2>1, <2>3 DEF SubmitLiquidation, s
<1>5. ASSUME NEW t \in Tab, ReadPosition(t)
      PROVE  UNCHANGED vars /\ ListingInv'
    BY <1>5, ReadLists DEF ReadPosition
<1>6. ASSUME NEW t \in Tab, Execute(t)
      PROVE  ListedStep /\ ListingInv'
    BY <1>6, ExecuteLists
<1>7. ASSUME NEW t \in Tab, Abandon(t)
      PROVE  UNCHANGED vars /\ ListingInv'
  <2>1. UNCHANGED vars /\ Put(t, Idle(UserOf[t])) /\ ~Checked(Idle(UserOf[t]))
      BY <1>7 DEF Abandon, Idle, Checked
  <2> QED
      BY <1>3, <2>1
<1>8. CASE Around
  <2>1. (Faucet \/ World) /\ submission' = submission
      BY <1>8 DEF Around
  <2>2. UncheckedStep
      BY <1>1, <2>1 DEF Faucet, World, UncheckedStep
  <2>3. borrowed' = borrowed
      BY <2>1 DEF Faucet, InitializeMarket, SetClaimAmount, ClaimFaucet,
                  World, AdvanceSlot, PublishPrice, positionVars
  <2>4. \A x \in Tab : OwesIn(UserOf[x])' = OwesIn(UserOf[x])
      BY <2>3 DEF OwesIn
  <2> QED
      BY <2>1, <2>2, <2>4 DEF ListedStep, ListingInv
<1>9. CASE UNCHANGED clientVars
  <2>1. UNCHANGED vars /\ submission' = submission
      BY <1>9 DEF clientVars
  <2>2. \A x \in Tab : OwesIn(UserOf[x])' = OwesIn(UserOf[x])
      BY <2>1 DEF OwesIn, vars, positionVars
  <2> QED
      BY <2>1, <2>2 DEF ListingInv
<1> QED
    BY <1>2, <1>4, <1>5, <1>6, <1>7, <1>8, <1>9 DEF ClientNext

LEMMA ClientListsAll ==
    OneSubmissionEach /\ ReadsEveryMarket => (ClientSpec => [][ListedStep]_vars)
<1> SUFFICES ASSUME OneSubmissionEach, ReadsEveryMarket
             PROVE  ClientSpec => [][ListedStep]_vars
    OBVIOUS
<1>1. ClientInit => ListingInv
  <2> SUFFICES ASSUME ClientInit PROVE ListingInv
      OBVIOUS
  <2>1. \A t \in Tab : submission[t].at = "idle"
      BY DEF ClientInit, Idle
  <2> QED
      BY <2>1 DEF ListingInv, Checked
<1>2. SubmissionInv /\ [ClientNext]_clientVars => SubmissionInv'
    BY ClientStep
<1>3. LedgerInv /\ SubmissionInv /\ ListingInv /\ [ClientNext]_clientVars
        => [ListedStep]_vars /\ ListingInv'
    BY ClientListedStep
<1> QED
    BY <1>1, <1>2, <1>3, ClientStarts, ClientKeepsLedger, PTL DEF ClientSpec

\* A user with one submission at a time stays covered through the client: what
\* is read first may be old when the last position is read, the wallet asks and
\* the transaction arrives, but in the meantime nobody else can have opened a
\* debt of his, and what others repay or seize is not his risk.
THEOREM ClientStoredRisksAreCovered ==
    OneSubmissionEach /\ ReadsEveryMarket => (ClientSpec => StoredRiskIsCovered)
BY ClientListsAll, ClientIsProgram, ListedRisksAreCovered, PTL

\* Nor, at any interest, does what he really owes grow out of his collateral by
\* more than the debts he did not touch have grown.
THEOREM ClientGrownRisksAreCovered ==
    OneSubmissionEach /\ ReadsEveryMarket => (ClientSpec => GrownRiskIsCovered)
BY ClientListsAll, ClientIsProgram, ListedRisksGrow, PTL

\* No liquidation through the client, however stale its listing, sinks its
\* borrower, under the hypotheses of LiquidationsHelp.
THEOREM ClientLiquidationsHelp ==
    CrossMarketOnly /\ BonusBelowOne => (ClientSpec /\ []ValuesFit => LiquidationHelps)
BY ClientIsProgram, ProgramHelps, PTL

-----------------------------------------------------------------------------
(* What a liquidation has listed when the wallet signs it.                 *)

Liquidating(s) == s.at # "idle" /\ s.call = "liquidate"

\* It reads, and lists, other positions than the two it names.
ReadsOthers(s) ==
    LET others == Market \ {s.market, s.collateral}
    IN  /\ Readable(s) /\ s.at = Stage(s.unread)
        /\ s.unread \in Seq(others) /\ s.listed \subseteq others

ReadingInv == \A t \in Tab : Liquidating(submission[t]) => ReadsOthers(submission[t])

LEMMA PutKeepsReading ==
    ASSUME SubmissionInv, ReadingInv, NEW t \in Tab, NEW s, Put(t, s),
           Liquidating(s) => ReadsOthers(s)
    PROVE  ReadingInv'
<1>1. \A x \in Tab : submission'[x] = IF x = t THEN s ELSE submission[x]
    BY DEF SubmissionInv, Put
<1> QED
    BY <1>1 DEF ReadingInv

LEMMA SubmitReads ==
    ASSUME NEW t \in Tab, NEW u \in Borrower, NEW d \in Market, NEW c \in Market, NEW a,
           SubmitLiquidation(t, u, d, c, a)
    PROVE  \E s : /\ Put(t, s) /\ UNCHANGED vars /\ ReadsOthers(s)
                  /\ s.of = u /\ s.market = d /\ s.collateral = c
                  /\ \A k \in Range(MarketList) : k \notin {d, c} => k \in Range(s.unread)
<1> DEFINE first == RemoveFirst(MarketList, d)
           others == RemoveFirst(first, c)
           s == [Idle(u) EXCEPT !.at = Stage(others), !.call = "liquidate", !.market = d,
                                !.collateral = c, !.amount = a, !.unread = others]
<1>1. Put(t, s) /\ UNCHANGED vars
    BY DEF SubmitLiquidation
<1>2. /\ s.at = Stage(others) /\ s.of = u /\ s.market = d /\ s.collateral = c
      /\ s.unread = others /\ s.listed = {} /\ Readable(s)
    BY DEF Idle, Readable
<1>3. /\ first \in Seq(Market \ {d}) /\ IsInjective(first)
      /\ \A k \in Range(MarketList) : k # d => k \in Range(first)
    BY ClientAssumption, RemovedOnly
<1> HIDE DEF s, first
<1>4. /\ others \in Seq((Market \ {d}) \ {c})
      /\ \A k \in Range(first) : k # c => k \in Range(others)
    BY <1>3, RemovedOnly
<1>5. (Market \ {d}) \ {c} = Market \ {d, c}
    OBVIOUS
<1> HIDE DEF others
<1>6. ReadsOthers(s)
    BY <1>2, <1>4, <1>5 DEF ReadsOthers
<1>7. \A k \in Range(MarketList) : k \notin {d, c} => k \in Range(s.unread)
    BY <1>2, <1>3, <1>4
<1> QED
    BY <1>1, <1>2, <1>6, <1>7

LEMMA ReadReads ==
    ASSUME ReadingInv, NEW t \in Tab, ReadPosition(t), Liquidating(submission[t])
    PROVE  LET old == submission[t]
               k == Head(old.unread)
           IN  \E s : /\ Put(t, s) /\ UNCHANGED vars /\ Liquidating(s) /\ ReadsOthers(s)
                      /\ s.of = old.of /\ s.market = old.market /\ s.collateral = old.collateral
                      /\ \A m \in Range(old.unread) : m = k \/ m \in Range(s.unread)
                      /\ old.listed \subseteq s.listed
                      /\ ~ReadsFail /\ Lists(old.of, k) => k \in s.listed
<1> DEFINE old == submission[t]
           k == Head(old.unread)
           rest == Tail(old.unread)
           others == Market \ {old.market, old.collateral}
<1>1. PICK found \in {Lists(old.of, k)} \cup (IF ReadsFail THEN {FALSE} ELSE {}) :
         Put(t, [old EXCEPT !.at = Stage(rest), !.unread = rest,
                            !.listed = IF found THEN @ \cup {k} ELSE @])
    BY DEF ReadPosition
<1> DEFINE s == [old EXCEPT !.at = Stage(rest), !.unread = rest,
                            !.listed = IF found THEN @ \cup {k} ELSE @]
<1>2. UNCHANGED vars /\ old.at = "reading" /\ old.call = "liquidate"
    BY DEF ReadPosition, Liquidating
<1>3. /\ Readable(old) /\ old.at = Stage(old.unread)
      /\ old.unread \in Seq(others) /\ old.listed \subseteq others
    BY DEF ReadingInv, ReadsOthers
<1>4. old.unread # <<>>
    BY <1>2, <1>3 DEF Stage
<1>5. /\ k \in others /\ rest \in Seq(others)
      /\ \A m \in Range(old.unread) : m = k \/ m \in Range(rest)
    BY <1>3, <1>4, HeadThenTail
<1>6. /\ Readable(s) /\ s.at = Stage(rest) /\ s.unread = rest /\ s.call = old.call
      /\ s.of = old.of /\ s.market = old.market /\ s.collateral = old.collateral
      /\ s.listed = IF found THEN old.listed \cup {k} ELSE old.listed
  <2>1. Readable(old)
      BY <1>3
  <2> HIDE DEF old, k, rest
  <2> QED
      BY <2>1 DEF Readable
<1>7. Put(t, s)
    BY <1>1
<1> HIDE DEF s, k, rest
<1>8. Liquidating(s) /\ ReadsOthers(s)
    BY <1>2, <1>3, <1>5, <1>6 DEF Liquidating, ReadsOthers, Stage
<1>9. ~ReadsFail /\ Lists(old.of, k) => k \in s.listed
    BY <1>1, <1>6
<1> QED
    BY <1>2, <1>5, <1>6, <1>7, <1>8, <1>9 DEF k

LEMMA ReadingStarts == ClientInit => ReadingInv
<1> SUFFICES ASSUME ClientInit PROVE ReadingInv
    OBVIOUS
<1>1. \A t \in Tab : submission[t].at = "idle"
    BY DEF ClientInit, Idle
<1> QED
    BY <1>1 DEF ReadingInv, Liquidating

LEMMA ReadingStep ==
    ASSUME SubmissionInv, ReadingInv, [ClientNext]_clientVars
    PROVE  ReadingInv'
<1>1. ASSUME NEW t \in Tab, NEW s, Put(t, s), ~Liquidating(s)
      PROVE  ReadingInv'
    BY <1>1, PutKeepsReading
<1>2. ASSUME NEW t \in Tab, NEW call \in Call \ {"liquidate"}, NEW m \in Market,
             NEW a \in Amounts[m], Submit(t, call, m, a)
      PROVE  ReadingInv'
  <2>1. PICK at, unread :
           Put(t, [Idle(UserOf[t]) EXCEPT !.at = at, !.call = call, !.market = m,
                                          !.amount = a, !.unread = unread])
      BY <1>2 DEF Submit
  <2> DEFINE s == [Idle(UserOf[t]) EXCEPT !.at = at, !.call = call, !.market = m,
                                          !.amount = a, !.unread = unread]
  <2>2. s.call = call
      BY DEF Idle
  <2>3. Put(t, s)
      BY <2>1
  <2> HIDE DEF s
  <2> QED
      BY <1>1, <1>2, <2>2, <2>3 DEF Liquidating
<1>3. ASSUME NEW t \in Tab, NEW u \in Borrower, NEW p \in LiquidationPairs,
             NEW a \in Amounts[p[1]], SubmitLiquidation(t, u, p[1], p[2], a)
      PROVE  ReadingInv'
  <2>1. p[1] \in Market /\ p[2] \in Market
      BY MarketAssumption
  <2>2. PICK s : Put(t, s) /\ ReadsOthers(s)
      BY <1>3, <2>1, SubmitReads
  <2> QED
      BY <2>2, PutKeepsReading
<1>4. ASSUME NEW t \in Tab, ReadPosition(t)
      PROVE  ReadingInv'
  <2>1. CASE Liquidating(submission[t])
    <3>1. PICK s : Put(t, s) /\ ReadsOthers(s)
        BY <1>4, <2>1, ReadReads
    <3> QED
        BY <3>1, PutKeepsReading
  <2>2. CASE ~Liquidating(submission[t])
    <3>1. PICK at, unread, listed :
             Put(t, [submission[t] EXCEPT !.at = at, !.unread = unread, !.listed = listed])
        BY <1>4 DEF ReadPosition
    <3> DEFINE s == [submission[t] EXCEPT !.at = at, !.unread = unread, !.listed = listed]
    <3>2. s.call = submission[t].call
        OBVIOUS
    <3>3. submission[t].call # "liquidate"
        BY <1>4, <2>2 DEF ReadPosition, Liquidating
    <3>4. Put(t, s)
        BY <3>1
    <3> HIDE DEF s
    <3> QED
        BY <1>1, <3>2, <3>3, <3>4 DEF Liquidating
  <2> QED
      BY <2>1, <2>2
<1>5. ASSUME NEW t \in Tab, Execute(t) \/ Abandon(t)
      PROVE  ReadingInv'
  <2>1. Put(t, Idle(UserOf[t])) /\ ~Liquidating(Idle(UserOf[t]))
      BY <1>5 DEF Execute, Abandon, Idle, Liquidating
  <2> QED
      BY <1>1, <2>1
<1>6. ASSUME submission' = submission
      PROVE  ReadingInv'
    BY <1>6 DEF ReadingInv
<1> QED
    BY <1>2, <1>3, <1>4, <1>5, <1>6 DEF ClientNext, Around, clientVars

\* What a liquidation that overlooks nothing has listed when it executes.
LEMMA ExecuteJustified ==
    ASSUME CrossMarketOnly, LedgerInv, ProductsFit, SubmissionInv, ReadingInv, NEW t \in Tab,
           submission[t].call = "liquidate", Execute(t), Overlooked(t) = {}
    PROVE  RealDebtUsd(submission[t].of) > RealCollateralUsd(submission[t].of)
<1> DEFINE s == submission[t]
           u == s.of
           d == s.market
           c == s.collateral
           S == {d, c} \cup s.listed
<1>1. s.at = "signing" /\ Instruction(s, UserOf[t]) /\ Sendable(s) /\ ReadsOthers(s)
    BY DEF Execute, SubmissionInv, ReadingInv, Liquidating
<1>2. u \in User /\ <<d, c>> \in LiquidationPairs
    BY <1>1 DEF Sendable
<1>3. d \in Market /\ c \in Market /\ d # c
    BY <1>2, MarketAssumption DEF CrossMarketOnly
<1>4. s.listed \in SUBSET (Market \ {d, c}) /\ s.unread = <<>>
    BY <1>1 DEF ReadsOthers, Stage
<1>5. Liquidate(UserOf[t], u, d, c, s.amount, s.listed)
    BY <1>1 DEF Instruction
<1>6. Underwater(u, d, c, s.listed)
    BY <1>5 DEF Liquidate
<1>7. TypeOK /\ DebtDated
    BY DEF LedgerInv
<1>8. \A m \in Market \ S : supplied[u][m] = 0
  <2>1. \A m \in Market : supplied[u][m] \in Nat
    <3>1. \A m \in Market : supplied[u][m] \in U64
        BY <1>2, <1>7 DEF TypeOK
    <3> QED
        BY <3>1, Scales
  <2>2. \A m \in Market : supplied[u][m] > 0 => m \in S
      BY <1>1, <1>4, NothingUnread DEF Overlooked
  <2> HIDE DEF s, u, S
  <2> QED
      BY <2>1, <2>2
<1> HIDE DEF s, u, d, c
<1>9. ListsSupplies(u, S)
    BY <1>3, <1>4, <1>8 DEF ListsSupplies, CollateralWithin
<1> QED
    BY <1>2, <1>3, <1>4, <1>6, <1>7, <1>9, UnderwaterIsReal DEF s, u

\* The listing of the page was read some steps before the program sees it.
\* When it overlooks nothing the borrower has supplied meanwhile, the
\* liquidation seizes only from one who really owes more than his collateral
\* allows, whatever else he and others have done.
THEOREM ClientSeizuresAreJustified ==
    CrossMarketOnly => (ClientSpec /\ []ProductsFit => ReadSeizureJustified)
<1> SUFFICES ASSUME CrossMarketOnly
             PROVE  ClientSpec /\ []ProductsFit => ReadSeizureJustified
    OBVIOUS
<1> DEFINE Justified ==
      \A t \in Tab :
         submission[t].call = "liquidate" /\ Execute(t) /\ Overlooked(t) = {}
           => RealDebtUsd(submission[t].of) > RealCollateralUsd(submission[t].of)
<1>1. ClientInit => ReadingInv
    BY ReadingStarts
<1>2. SubmissionInv /\ [ClientNext]_clientVars => SubmissionInv'
    BY ClientStep
<1>3. SubmissionInv /\ ReadingInv /\ [ClientNext]_clientVars => ReadingInv'
    BY ReadingStep
<1>4. LedgerInv /\ ProductsFit /\ SubmissionInv /\ ReadingInv => Justified
    BY ExecuteJustified
<1> QED
    BY <1>1, <1>2, <1>3, <1>4, ClientStarts, ClientKeepsLedger, PTL
    DEF ClientSpec, ReadSeizureJustified

\* A position comes to be overlooked by its owner's supply alone.
LEMMA OverlooksStep ==
    ASSUME ReadsEveryMarket, LedgerInv, SubmissionInv, ReadingInv,
           [ClientNext]_clientVars, NEW t \in Tab, NEW m \in Overlooked(t)' \ Overlooked(t)
    PROVE  supplied'[submission[t].of][m] > supplied[submission[t].of][m]
<1> DEFINE s == submission[t]
           u == s.of
<1>1. TypeOK /\ MarketsFirst /\ m \in Market
    BY DEF LedgerInv, Overlooked
<1>2. /\ Liquidating(submission'[t]) /\ supplied'[submission'[t].of][m] > 0
      /\ m \notin {submission'[t].market, submission'[t].collateral}
      /\ m \notin submission'[t].listed /\ m \notin Range(submission'[t].unread)
    BY DEF Overlooked, Liquidating
<1>3. ASSUME NEW v \in User
      PROVE  supplied[v][m] \in Nat
  <2>1. supplied[v][m] \in U64
      BY <1>1, <1>3 DEF TypeOK
  <2> QED
      BY <2>1, Scales
<1>4. CASE submission'[t] = s
  <2>1. u \in User
      BY <1>2, <1>4 DEF SubmissionInv, Sendable, Liquidating
  <2>2. ~(supplied[u][m] > 0)
      BY <1>1, <1>2, <1>4 DEF Overlooked, Liquidating
  <2>3. supplied[u][m] \in Nat
      BY <1>3, <2>1
  <2>4. supplied'[u][m] > 0
      BY <1>2, <1>4
  <2> HIDE DEF u
  <2>5. supplied[u][m] = 0
      BY <2>2, <2>3
  <2> QED
      BY <2>4, <2>5 DEF u
<1>5. ASSUME NEW x \in Tab, NEW r, Put(x, r)
      PROVE  submission'[t] = IF x = t THEN r ELSE submission[t]
    BY <1>5 DEF SubmissionInv, Put
<1>6. ASSUME NEW x \in Tab, NEW r, Put(x, r), ~Liquidating(r)
      PROVE  submission'[t] = s
    BY <1>2, <1>5, <1>6
<1>7. ASSUME NEW x \in Tab, NEW call \in Call \ {"liquidate"}, NEW k \in Market,
             NEW a \in Amounts[k], Submit(x, call, k, a)
      PROVE  submission'[t] = s
  <2>1. PICK at, unread :
           Put(x, [Idle(UserOf[x]) EXCEPT !.at = at, !.call = call, !.market = k,
                                          !.amount = a, !.unread = unread])
      BY <1>7 DEF Submit
  <2> DEFINE r == [Idle(UserOf[x]) EXCEPT !.at = at, !.call = call, !.market = k,
                                          !.amount = a, !.unread = unread]
  <2>2. r.call = call
      BY DEF Idle
  <2>3. Put(x, r)
      BY <2>1
  <2> HIDE DEF r
  <2> QED
      BY <1>6, <1>7, <2>2, <2>3 DEF Liquidating
<1>8. ASSUME NEW x \in Tab, NEW v \in Borrower, NEW p \in LiquidationPairs,
             NEW a \in Amounts[p[1]], SubmitLiquidation(x, v, p[1], p[2], a)
      PROVE  submission'[t] = s
  <2>1. p[1] \in Market /\ p[2] \in Market
      BY MarketAssumption
  <2>2. PICK r : /\ Put(x, r) /\ r.market = p[1] /\ r.collateral = p[2]
                 /\ \A k \in Range(MarketList) : k \notin {p[1], p[2]} => k \in Range(r.unread)
      BY <1>8, <2>1, SubmitReads
  <2>3. x # t
      BY <1>1, <1>2, <1>5, <2>2 DEF ReadsEveryMarket
  <2> QED
      BY <1>5, <2>2, <2>3
<1>9. ASSUME NEW x \in Tab, Execute(x) \/ Abandon(x)
      PROVE  submission'[t] = s
  <2>1. Put(x, Idle(UserOf[x])) /\ ~Liquidating(Idle(UserOf[x]))
      BY <1>9 DEF Execute, Abandon, Idle, Liquidating
  <2> QED
      BY <1>6, <2>1
<1>10. ASSUME NEW x \in Tab, ReadPosition(x), x # t
       PROVE  submission'[t] = s
  <2>1. PICK r : Put(x, r)
      BY <1>10 DEF ReadPosition
  <2> QED
      BY <1>5, <1>10, <2>1
<1>11. ASSUME ReadPosition(t), ~Liquidating(s)
       PROVE  FALSE
  <2>1. PICK at, unread, listed :
           Put(t, [s EXCEPT !.at = at, !.unread = unread, !.listed = listed])
      BY <1>11 DEF ReadPosition
  <2> DEFINE r == [s EXCEPT !.at = at, !.unread = unread, !.listed = listed]
  <2>2. r.call = s.call /\ s.call # "liquidate" /\ Put(t, r)
      BY <1>11, <2>1 DEF ReadPosition, Liquidating
  <2> HIDE DEF r
  <2> QED
      BY <1>2, <1>5, <2>2 DEF Liquidating
<1>12. ASSUME ReadPosition(t), Liquidating(s)
       PROVE  FALSE
  <2>1. PICK r : /\ Put(t, r) /\ UNCHANGED vars
                 /\ r.of = s.of /\ r.market = s.market /\ r.collateral = s.collateral
                 /\ \A k \in Range(s.unread) : k = Head(s.unread) \/ k \in Range(r.unread)
                 /\ s.listed \subseteq r.listed
                 /\ ~ReadsFail /\ Lists(s.of, Head(s.unread)) => Head(s.unread) \in r.listed
      BY <1>12, ReadReads
  <2>2. submission'[t] = r /\ supplied' = supplied /\ u \in User
      BY <1>5, <1>12, <2>1 DEF vars, positionVars, SubmissionInv, Sendable, Liquidating
  <2>3. supplied[u][m] > 0 /\ m \notin {s.market, s.collateral} /\ m \notin s.listed
      BY <1>2, <2>1, <2>2
  <2>4. m \in Range(s.unread)
      BY <1>1, <1>12, <2>3 DEF Overlooked, Liquidating
  <2>5. m = Head(s.unread)
      BY <1>2, <2>1, <2>2, <2>4
  <2>6. <<u, m>> \in opened /\ Active(u, m)
    <3>1. supplied[u][m] # 0
        BY <2>3
    <3> QED
        BY <1>1, <2>2, <2>3, <3>1 DEF MarketsFirst, Active
  <2> QED
      BY <1>2, <2>1, <2>2, <2>5, <2>6 DEF Lists, ReadsEveryMarket
<1>13. ASSUME submission' = submission
       PROVE  submission'[t] = s
    BY <1>13
<1> QED
    BY <1>4, <1>7, <1>8, <1>9, <1>10, <1>11, <1>12, <1>13 DEF ClientNext, Around, clientVars

\* While a liquidation is read and signed, only what its borrower supplies
\* escapes it: nothing that was there, and nothing anybody else does, makes
\* the listing fall short of his collateral.
THEOREM OnlyDepositsAreOverlooked ==
    ReadsEveryMarket => (ClientSpec => OverlookedByDeposit)
<1> SUFFICES ASSUME ReadsEveryMarket
             PROVE  ClientSpec => OverlookedByDeposit
    OBVIOUS
<1> DEFINE Rising ==
      \A t \in Tab :
         \A m \in Overlooked(t)' \ Overlooked(t) :
            supplied'[submission[t].of][m] > supplied[submission[t].of][m]
<1>1. ClientInit => ReadingInv
    BY ReadingStarts
<1>2. SubmissionInv /\ [ClientNext]_clientVars => SubmissionInv'
    BY ClientStep
<1>3. SubmissionInv /\ ReadingInv /\ [ClientNext]_clientVars => ReadingInv'
    BY ReadingStep
<1>4. LedgerInv /\ SubmissionInv /\ ReadingInv /\ [ClientNext]_clientVars => Rising
    BY OverlooksStep
<1> QED
    BY <1>1, <1>2, <1>3, <1>4, ClientStarts, ClientKeepsLedger, PTL
    DEF ClientSpec, OverlookedByDeposit

===============================================================================
