---------------------------- MODULE UserStatsProofs ----------------------------
(***************************************************************************)
(* The counters of UserStats never run ahead of the chain, for any numbers *)
(* of wallets, submissions and transactions, and counters of any width.    *)
(***************************************************************************)
EXTENDS UserStats, FiniteSetTheorems, TLAPS

-----------------------------------------------------------------------------
(* Counting.                                                               *)

LEMMA UnitsFinite ==
    ASSUME NEW f, NEW k
    PROVE  IsFiniteSet(UnitsOf(f, k)) /\ Cardinality(UnitsOf(f, k)) \in Nat
<1>1. IsFiniteSet(1..(U64Max + MaxAction))
    BY StatsAssumption, FS_Interval
<1>2. IsFiniteSet(User \X (1..(U64Max + MaxAction)))
    BY <1>1, StatsAssumption, FS_Product
<1>3. UnitsOf(f, k) \in SUBSET (User \X (1..(U64Max + MaxAction)))
    BY DEF UnitsOf
<1>4. IsFiniteSet(UnitsOf(f, k))
    BY <1>2, <1>3, FS_Subset
<1> QED
    BY <1>4, FS_CardinalityType

LEMMA PendingFinite ==
    ASSUME NEW k
    PROVE  /\ IsFiniteSet(Pending(k)) /\ Cardinality(Pending(k)) \in Nat
           /\ IsFiniteSet(Pending(k)') /\ Cardinality(Pending(k)') \in Nat
<1>1. Pending(k) \in SUBSET Page /\ Pending(k)' \in SUBSET Page
    BY DEF Pending
<1>2. IsFiniteSet(Pending(k)) /\ IsFiniteSet(Pending(k)')
    BY <1>1, StatsAssumption, FS_Subset
<1> QED
    BY <1>2, FS_CardinalityType

\* Counters that nowhere grow hold no more units.
LEMMA UnitsMonotone ==
    ASSUME NEW k,
           NEW f, \A u \in User : f[u][k] \in Nat,
           NEW g, \A u \in User : g[u][k] \in Nat /\ g[u][k] <= f[u][k]
    PROVE  Cardinality(UnitsOf(g, k)) <= Cardinality(UnitsOf(f, k))
<1>1. ASSUME NEW r \in UnitsOf(g, k)
      PROVE  r \in UnitsOf(f, k)
  <2>1. /\ r \in User \X (1..(U64Max + MaxAction))
        /\ r[1] \in User /\ r[2] \in Nat /\ r[2] <= g[r[1]][k]
      BY <1>1, StatsAssumption DEF UnitsOf
  <2>2. r[2] <= f[r[1]][k]
      BY <2>1
  <2> QED
      BY <2>1, <2>2 DEF UnitsOf
<1>2. UnitsOf(g, k) \in SUBSET UnitsOf(f, k)
    BY <1>1
<1> QED
    BY <1>2, UnitsFinite, FS_Subset

\* One wallet's counter goes up by one: one unit more.
LEMMA UnitsUp ==
    ASSUME NEW k, NEW u \in User,
           NEW f, \A v \in User : f[v][k] \in Nat,
           NEW g, \A v \in User \ {u} : g[v][k] = f[v][k],
           g[u][k] = f[u][k] + 1, g[u][k] <= U64Max + MaxAction
    PROVE  Cardinality(UnitsOf(g, k)) = Cardinality(UnitsOf(f, k)) + 1
<1> DEFINE new == <<u, f[u][k] + 1>>
<1>1. new \in User \X (1..(U64Max + MaxAction))
  <2>1. f[u][k] + 1 \in 1..(U64Max + MaxAction)
      BY StatsAssumption
  <2> QED
      BY <2>1
<1>2. new \notin UnitsOf(f, k)
    BY DEF UnitsOf
<1>3. ASSUME NEW r \in User \X (1..(U64Max + MaxAction))
      PROVE  r[2] <= g[r[1]][k] <=> (r[2] <= f[r[1]][k] \/ r = new)
  <2>1. PICK v \in User, n \in 1..(U64Max + MaxAction) : r = <<v, n>>
      OBVIOUS
  <2>2. n \in Nat
      BY StatsAssumption
  <2>3. CASE v = u
      BY <2>1, <2>2, <2>3
  <2>4. CASE v # u
      BY <2>1, <2>2, <2>4
  <2> QED
      BY <2>3, <2>4
<1>4. UnitsOf(g, k) = UnitsOf(f, k) \cup {new}
    BY <1>1, <1>3 DEF UnitsOf
<1> QED
    BY <1>2, <1>4, UnitsFinite, FS_AddElement

-----------------------------------------------------------------------------
(* Steps that confirm and count nothing, but for a counter set to zero.    *)

Mirroring == {"history", "stats", "init", "record"}

LEMMA NoGain ==
    ASSUME StatsInv, TypeOK', confirmed' = confirmed,
           \A u \in User, k \in Kind : count'[u][k] <= count[u][k],
           \A k \in Kind : Pending(k)' \subseteq Pending(k)
    PROVE  NeverAhead'
<1> SUFFICES ASSUME NEW k \in Kind \cap Action
             PROVE  Cardinality(UnitsOf(count', k)) + Cardinality(Pending(k)')
                      <= Cardinality(UnitsOf(confirmed', k))
    BY DEF NeverAhead, UnitsOf, Pending
<1>1. \A u \in User : count[u][k] \in Nat /\ count'[u][k] \in Nat /\ count'[u][k] <= count[u][k]
    BY StatsAssumption DEF StatsInv, TypeOK
<1>2. Cardinality(UnitsOf(count', k)) <= Cardinality(UnitsOf(count, k))
    BY <1>1, UnitsMonotone
<1>3. Cardinality(Pending(k)') <= Cardinality(Pending(k))
    BY PendingFinite, FS_Subset
<1>4. Cardinality(UnitsOf(count, k)) + Cardinality(Pending(k)) <= Cardinality(UnitsOf(confirmed, k))
    BY DEF StatsInv, NeverAhead
<1>5. /\ Cardinality(UnitsOf(count', k)) \in Nat /\ Cardinality(UnitsOf(count, k)) \in Nat
      /\ Cardinality(UnitsOf(confirmed, k)) \in Nat
    BY UnitsFinite
<1> QED
    BY <1>2, <1>3, <1>4, <1>5, PendingFinite

\* A submission that ends, or moves on within the mirror, is no new mirror.
LEMMA PutFacts ==
    ASSUME StatsInv, NEW p \in Page, NEW s \in Submission, Put(p, s),
           s.at \in Mirroring => /\ submission[p].at \in Mirroring
                                 /\ s.action = submission[p].action,
           s.at # "idle" => s.signer \in User,
           s.at \in {"stats", "init", "record"} => s.action # "withdraw"
    PROVE  /\ submission' \in [Page -> Submission]
           /\ CallsSigned'
           /\ \A k \in Kind : Pending(k)' \subseteq Pending(k)
<1>1. /\ submission \in [Page -> Submission]
      /\ submission' = [submission EXCEPT ![p] = s]
      /\ submission'[p] = s
      /\ \A q \in Page \ {p} : submission'[q] = submission[q]
    BY DEF StatsInv, TypeOK, Put
<1>2. submission' \in [Page -> Submission]
    BY <1>1
<1>3. CallsSigned'
    BY <1>1 DEF StatsInv, CallsSigned
<1>4. ASSUME NEW k \in Kind, NEW q \in Pending(k)'
      PROVE  q \in Pending(k)
  <2>1. q \in Page /\ submission'[q].at \in Mirroring /\ submission'[q].action = k
      BY DEF Pending, Mirroring
  <2>2. CASE q = p
      BY <1>1, <2>1, <2>2 DEF Pending, Mirroring
  <2>3. CASE q # p
      BY <1>1, <2>1, <2>3 DEF Pending, Mirroring
  <2> QED
      BY <2>2, <2>3
<1> QED
    BY <1>2, <1>3, <1>4

\* The same for a call made with the wallet of the moment.
LEMMA CallFacts ==
    ASSUME StatsInv, NEW p \in Page, NEW to \in {"stats", "init", "record"}, CallWith(p, to),
           submission[p].at \in Mirroring, submission[p].action # "withdraw"
    PROVE  /\ submission' \in [Page -> Submission]
           /\ CallsSigned'
           /\ \A k \in Kind : Pending(k)' \subseteq Pending(k)
<1>1. CASE wallet = None
  <2>1. Put(p, Idle) /\ Idle \in Submission /\ Idle.at = "idle"
      BY <1>1 DEF CallWith, Idle, Submission, Action
  <2> QED
      BY <2>1, PutFacts DEF Mirroring
<1>2. CASE wallet # None
  <2> DEFINE s == [submission[p] EXCEPT !.at = to, !.signer = wallet]
  <2>1. Put(p, s)
      BY <1>2 DEF CallWith
  <2>2. wallet \in User /\ submission[p] \in Submission
      BY <1>2 DEF StatsInv, TypeOK
  <2>3. s \in Submission /\ s.at = to /\ s.action = submission[p].action /\ s.signer = wallet
      BY <2>2 DEF Submission
  <2> HIDE DEF s
  <2> QED
      BY <2>1, <2>2, <2>3, PutFacts DEF Mirroring
<1> QED
    BY <1>1, <1>2

-----------------------------------------------------------------------------
(* The steps, one by one.                                                  *)

\* Submissions change, counters and transactions do not.
LEMMA OnlySubmissions ==
    ASSUME StatsInv, UNCHANGED <<statsVars, confirmed>>, wallet' \in User \cup {None},
           submission' \in [Page -> Submission], CallsSigned',
           \A k \in Kind : Pending(k)' \subseteq Pending(k)
    PROVE  StatsInv'
<1>1. TypeOK'
    BY DEF StatsInv, TypeOK, statsVars
<1>2. ProofsAddUp' /\ NoLiquidation'
    BY DEF StatsInv, ProofsAddUp, NoLiquidation, statsVars
<1>3. \A u \in User, k \in Kind : count'[u][k] <= count[u][k]
    BY StatsAssumption DEF StatsInv, TypeOK, statsVars
<1>4. NeverAhead'
    BY <1>1, <1>3, NoGain
<1> QED
    BY <1>1, <1>2, <1>4 DEF StatsInv

LEMMA SubmitPreserves ==
    ASSUME StatsInv, NEW p \in Page, NEW k \in Action, Submit(p, k)
    PROVE  StatsInv'
<1> DEFINE s == [at |-> "transaction", action |-> k, signer |-> wallet]
<1>1. wallet \in User /\ wallet' = wallet
    BY DEF Submit, StatsInv, TypeOK
<1>2. s \in Submission /\ s.at = "transaction" /\ s.signer = wallet
    BY <1>1 DEF Submission
<1>3. Put(p, s) /\ UNCHANGED <<statsVars, confirmed>>
    BY DEF Submit
<1> HIDE DEF s
<1>4. /\ submission' \in [Page -> Submission] /\ CallsSigned'
      /\ \A j \in Kind : Pending(j)' \subseteq Pending(j)
    BY <1>1, <1>2, <1>3, PutFacts DEF Mirroring
<1> QED
    BY <1>1, <1>3, <1>4, OnlySubmissions

LEMMA AppendedPreserves ==
    ASSUME StatsInv, NEW p \in Page, Appended(p)
    PROVE  StatsInv'
<1>1. /\ submission[p].at = "history" /\ UNCHANGED <<statsVars, confirmed>>
      /\ wallet' \in User \cup {None}
    BY DEF Appended, StatsInv, TypeOK
<1>2. /\ submission' \in [Page -> Submission] /\ CallsSigned'
      /\ \A k \in Kind : Pending(k)' \subseteq Pending(k)
  <2>1. CASE submission[p].action = "withdraw"
    <3>1. Put(p, Idle) /\ Idle \in Submission /\ Idle.at = "idle"
        BY <2>1 DEF Appended, Idle, Submission, Action
    <3> QED
        BY <3>1, PutFacts DEF Mirroring
  <2>2. CASE submission[p].action # "withdraw"
      BY <1>1, <2>2, CallFacts DEF Appended, Mirroring
  <2> QED
      BY <2>1, <2>2
<1> QED
    BY <1>1, <1>2, OnlySubmissions

LEMMA StatsReadPreserves ==
    ASSUME StatsInv, NEW p \in Page, StatsRead(p)
    PROVE  StatsInv'
<1>1. /\ submission[p].at = "stats" /\ UNCHANGED <<statsVars, confirmed>>
      /\ wallet' \in User \cup {None}
      /\ CallWith(p, "record") \/ CallWith(p, "init")
    BY DEF StatsRead, StatsInv, TypeOK
<1>2. submission[p].action # "withdraw"
    BY <1>1 DEF StatsInv, CallsSigned
<1>3. /\ submission' \in [Page -> Submission] /\ CallsSigned'
      /\ \A k \in Kind : Pending(k)' \subseteq Pending(k)
    BY <1>1, <1>2, CallFacts DEF Mirroring
<1> QED
    BY <1>1, <1>3, OnlySubmissions

LEMMA FailPreserves ==
    ASSUME StatsInv, NEW p \in Page, Fail(p)
    PROVE  StatsInv'
<1>1. /\ Put(p, Idle) /\ UNCHANGED <<statsVars, confirmed>>
      /\ wallet' \in User \cup {None}
    BY DEF Fail, StatsInv, TypeOK
<1>2. Idle \in Submission /\ Idle.at = "idle"
    BY DEF Idle, Submission, Action
<1>3. /\ submission' \in [Page -> Submission] /\ CallsSigned'
      /\ \A k \in Kind : Pending(k)' \subseteq Pending(k)
    BY <1>1, <1>2, PutFacts DEF Mirroring
<1> QED
    BY <1>1, <1>3, OnlySubmissions

LEMMA SwitchWalletPreserves ==
    ASSUME StatsInv, SwitchWallet \/ UNCHANGED vars
    PROVE  StatsInv'
<1>1. /\ UNCHANGED <<statsVars, confirmed>> /\ submission' = submission
      /\ wallet' \in User \cup {None}
    BY DEF SwitchWallet, vars, StatsInv, TypeOK
<1>2. submission' \in [Page -> Submission]
    BY <1>1 DEF StatsInv, TypeOK
<1>3. CallsSigned'
    BY <1>1 DEF StatsInv, CallsSigned
<1>4. \A k \in Kind : Pending(k)' \subseteq Pending(k)
    BY <1>1 DEF Pending
<1> QED
    BY <1>1, <1>2, <1>3, <1>4, OnlySubmissions

\* An account that did not exist is created with zeros, and so counts nothing.
LEMMA InitedPreserves ==
    ASSUME StatsInv, NEW p \in Page, Inited(p)
    PROVE  StatsInv'
<1> DEFINE u == submission[p].signer
<1>1. /\ submission[p].at = "init" /\ u \in User /\ submission[p].action # "withdraw"
      /\ confirmed' = confirmed /\ wallet' = wallet
      /\ InitUserStats(u) /\ CallWith(p, "record")
    BY DEF Inited, StatsInv, CallsSigned
<1>2. /\ submission' \in [Page -> Submission] /\ CallsSigned'
      /\ \A k \in Kind : Pending(k)' \subseteq Pending(k)
    BY <1>1, CallFacts DEF Mirroring
<1> DEFINE none == [k \in Kind |-> 0]
<1> HIDE DEF u
<1>3. /\ opened' = opened \cup {u}
      /\ proofsSubmitted' = [proofsSubmitted EXCEPT ![u] = 0]
      /\ count' = [count EXCEPT ![u] = none]
    BY <1>1 DEF InitUserStats
<1>4. none \in [Kind -> 0..U64Max] /\ \A k \in Kind : none[k] = 0
    BY StatsAssumption
<1> HIDE DEF none
<1>5. /\ count' \in [User -> [Kind -> 0..U64Max]]
      /\ proofsSubmitted' \in [User -> 0..U64Max]
      /\ count'[u] = none /\ proofsSubmitted'[u] = 0
      /\ \A v \in User \ {u} :
            count'[v] = count[v] /\ proofsSubmitted'[v] = proofsSubmitted[v]
    BY <1>1, <1>3, <1>4, StatsAssumption DEF StatsInv, TypeOK
<1>6. TypeOK'
    BY <1>1, <1>2, <1>3, <1>5 DEF StatsInv, TypeOK
<1>7. ProofsAddUp'
  <2>1. none["supply"] = 0 /\ none["borrow"] = 0 /\ none["repay"] = 0 /\ none["liquidation"] = 0
      BY <1>4 DEF Kind
  <2> SUFFICES ASSUME NEW v \in User
               PROVE  proofsSubmitted'[v] =
                        count'[v]["supply"] + count'[v]["borrow"] + count'[v]["repay"]
                          + count'[v]["liquidation"]
      BY DEF ProofsAddUp
  <2>2. CASE v = u
      BY <1>5, <2>1, <2>2
  <2>3. CASE v # u
      BY <1>5, <2>3 DEF StatsInv, ProofsAddUp
  <2> QED
      BY <2>2, <2>3
<1>8. NoLiquidation'
    BY <1>4, <1>5 DEF StatsInv, NoLiquidation, Kind
<1>9. \A v \in User, k \in Kind : count'[v][k] <= count[v][k]
  <2> SUFFICES ASSUME NEW v \in User, NEW k \in Kind
               PROVE  count'[v][k] <= count[v][k]
      OBVIOUS
  <2>1. count[v][k] \in Nat
      BY StatsAssumption DEF StatsInv, TypeOK
  <2>2. CASE v = u
      BY <1>4, <1>5, <2>1, <2>2
  <2>3. CASE v # u
      BY <1>5, <2>1, <2>3
  <2> QED
      BY <2>2, <2>3
<1>10. NeverAhead'
    BY <1>1, <1>2, <1>6, <1>9, NoGain
<1> QED
    BY <1>2, <1>6, <1>7, <1>8, <1>10 DEF StatsInv

\* A confirmed transaction counts once more, and its mirror is under way.
LEMMA ConfirmPreserves ==
    ASSUME StatsInv, NEW p \in Page, Confirm(p)
    PROVE  StatsInv'
<1> DEFINE u == submission[p].signer
           a == submission[p].action
           s == [submission[p] EXCEPT !.at = "history"]
<1>1. /\ submission \in [Page -> Submission] /\ submission[p] \in Submission
      /\ submission[p].at = "transaction" /\ u \in User /\ a \in Action
      /\ confirmed \in [User -> [Action -> 0..MaxAction]]
      /\ confirmed[u][a] < MaxAction
      /\ confirmed' = [confirmed EXCEPT ![u][a] = confirmed[u][a] + 1]
      /\ submission' = [submission EXCEPT ![p] = s]
      /\ UNCHANGED <<statsVars, wallet>>
    BY DEF Confirm, Put, StatsInv, TypeOK, CallsSigned, Submission
<1>2. s \in Submission /\ s.at = "history" /\ s.action = a /\ s.signer = u
    BY <1>1 DEF Submission
<1> HIDE DEF s
<1>3. submission' \in [Page -> Submission] /\ submission'[p] = s
      /\ \A q \in Page \ {p} : submission'[q] = submission[q]
    BY <1>1, <1>2
<1>4. confirmed[u][a] + 1 \in 0..MaxAction
    BY <1>1, StatsAssumption
<1>5. /\ confirmed' \in [User -> [Action -> 0..MaxAction]]
      /\ confirmed'[u][a] = confirmed[u][a] + 1
      /\ \A v \in User, k \in Action : v # u \/ k # a => confirmed'[v][k] = confirmed[v][k]
    BY <1>1, <1>4
<1>6. TypeOK'
    BY <1>1, <1>3, <1>5 DEF StatsInv, TypeOK, statsVars
<1>7. ProofsAddUp' /\ NoLiquidation'
    BY <1>1 DEF StatsInv, ProofsAddUp, NoLiquidation, statsVars
<1>8. CallsSigned'
    BY <1>1, <1>2, <1>3 DEF StatsInv, CallsSigned
<1>9. ASSUME NEW k \in Kind \cap Action
      PROVE  Cardinality(UnitsOf(count', k)) + Cardinality(Pending(k)')
               <= Cardinality(UnitsOf(confirmed', k))
  <2>1. UnitsOf(count', k) = UnitsOf(count, k)
      BY <1>1 DEF statsVars
  <2>2. Cardinality(UnitsOf(count, k)) + Cardinality(Pending(k)) <= Cardinality(UnitsOf(confirmed, k))
      BY DEF StatsInv, NeverAhead
  <2>3. \A v \in User :
            /\ confirmed[v][k] \in Nat
            /\ confirmed'[v][k] \in Nat /\ confirmed'[v][k] <= U64Max + MaxAction
    <3>1. k \in Action /\ confirmed \in [User -> [Action -> 0..MaxAction]] /\ confirmed' \in [User -> [Action -> 0..MaxAction]]
        BY <1>1, <1>5
    <3>2. \A v \in User : confirmed[v][k] \in 0..MaxAction /\ confirmed'[v][k] \in 0..MaxAction
        BY <3>1
    <3> QED
        BY <3>2, StatsAssumption
  <2>4. CASE k = a
    <3>1. Pending(k)' = Pending(k) \cup {p} /\ p \notin Pending(k)
        BY <1>1, <1>2, <1>3, <2>4 DEF Pending
    <3>2. Cardinality(Pending(k)') = Cardinality(Pending(k)) + 1
        BY <3>1, PendingFinite, FS_AddElement
    <3>3. /\ u \in User
          /\ \A v \in User \ {u} : confirmed'[v][k] = confirmed[v][k]
          /\ confirmed'[u][k] = confirmed[u][k] + 1
        BY <1>1, <1>5, <2>4
    <3> HIDE DEF u
    <3>4. Cardinality(UnitsOf(confirmed', k)) = Cardinality(UnitsOf(confirmed, k)) + 1
        BY <2>3, <3>3, UnitsUp
    <3> QED
        BY <2>1, <2>2, <3>2, <3>4, UnitsFinite, PendingFinite
  <2>5. CASE k # a
    <3>1. Pending(k)' = Pending(k)
        BY <1>1, <1>2, <1>3, <2>5 DEF Pending
    <3>2. UnitsOf(confirmed', k) = UnitsOf(confirmed, k)
        BY <1>5, <2>5 DEF UnitsOf
    <3> QED
        BY <2>1, <2>2, <3>1, <3>2
  <2> QED
      BY <2>4, <2>5
<1>10. NeverAhead'
    BY <1>9 DEF NeverAhead, UnitsOf, Pending
<1> QED
    BY <1>6, <1>7, <1>8, <1>10 DEF StatsInv

\* The mirror comes through: one action is counted, and it is no more under way.
LEMMA RecordedPreserves ==
    ASSUME StatsInv, NEW p \in Page, Recorded(p)
    PROVE  StatsInv'
<1> DEFINE u == submission[p].signer
           a == submission[p].action
<1>1. /\ submission \in [Page -> Submission] /\ submission[p].at = "record"
      /\ u \in User /\ a \in Action /\ a # "withdraw"
      /\ count \in [User -> [Kind -> 0..U64Max]] /\ proofsSubmitted \in [User -> 0..U64Max]
      /\ proofsSubmitted[u] + 1 <= U64Max /\ count[u][a] + 1 <= U64Max
      /\ proofsSubmitted' = [proofsSubmitted EXCEPT ![u] = proofsSubmitted[u] + 1]
      /\ count' = [count EXCEPT ![u][a] = count[u][a] + 1]
      /\ UNCHANGED <<opened, confirmed, wallet>>
      /\ Put(p, Idle)
    BY DEF Recorded, RecordAction, CountAction, StatsInv, TypeOK, CallsSigned, Submission
<1>2. a \in Kind /\ a \in {"supply", "borrow", "repay"}
    BY <1>1 DEF Kind, Action
<1>3. Idle \in Submission /\ Idle.at = "idle"
    BY DEF Idle, Submission, Action
<1>4. /\ submission' \in [Page -> Submission] /\ CallsSigned'
      /\ \A k \in Kind : Pending(k)' \subseteq Pending(k)
    BY <1>1, <1>3, PutFacts DEF Mirroring
<1>5. count[u][a] + 1 \in 0..U64Max /\ proofsSubmitted[u] + 1 \in 0..U64Max
    BY <1>1, <1>2, StatsAssumption
<1>6. /\ count' \in [User -> [Kind -> 0..U64Max]]
      /\ count'[u][a] = count[u][a] + 1
      /\ \A v \in User, k \in Kind : v # u \/ k # a => count'[v][k] = count[v][k]
    BY <1>1, <1>2, <1>5
<1>7. /\ proofsSubmitted' \in [User -> 0..U64Max]
      /\ proofsSubmitted'[u] = proofsSubmitted[u] + 1
      /\ \A v \in User \ {u} : proofsSubmitted'[v] = proofsSubmitted[v]
    BY <1>1, <1>5
<1>8. TypeOK'
    BY <1>1, <1>4, <1>6, <1>7 DEF StatsInv, TypeOK
<1>9. ProofsAddUp'
  <2> SUFFICES ASSUME NEW v \in User
               PROVE  proofsSubmitted'[v] =
                        count'[v]["supply"] + count'[v]["borrow"] + count'[v]["repay"]
                          + count'[v]["liquidation"]
      BY DEF ProofsAddUp
  <2>1. proofsSubmitted[v] = count[v]["supply"] + count[v]["borrow"] + count[v]["repay"]
                               + count[v]["liquidation"]
      BY DEF StatsInv, ProofsAddUp
  <2>2. \A k \in Kind : count[v][k] \in Nat
      BY <1>1, StatsAssumption
  <2>3. CASE v # u
      BY <1>6, <1>7, <2>1, <2>3 DEF Kind
  <2>4. CASE v = u /\ a = "supply"
      BY <1>6, <1>7, <2>1, <2>2, <2>4 DEF Kind
  <2>5. CASE v = u /\ a = "borrow"
      BY <1>6, <1>7, <2>1, <2>2, <2>5 DEF Kind
  <2>6. CASE v = u /\ a = "repay"
      BY <1>6, <1>7, <2>1, <2>2, <2>6 DEF Kind
  <2> QED
      BY <1>2, <2>3, <2>4, <2>5, <2>6
<1>10. NoLiquidation'
    BY <1>2, <1>6 DEF StatsInv, NoLiquidation, Kind
<1>11. ASSUME NEW k \in Kind \cap Action
       PROVE  Cardinality(UnitsOf(count', k)) + Cardinality(Pending(k)')
                <= Cardinality(UnitsOf(confirmed', k))
  <2>1. Cardinality(UnitsOf(count, k)) + Cardinality(Pending(k)) <= Cardinality(UnitsOf(confirmed, k))
      BY DEF StatsInv, NeverAhead
  <2>2. UnitsOf(confirmed', k) = UnitsOf(confirmed, k)
      BY <1>1
  <2>3. \A v \in User :
            /\ count[v][k] \in Nat
            /\ count'[v][k] \in Nat /\ count'[v][k] <= U64Max + MaxAction
    <3>1. k \in Kind /\ count \in [User -> [Kind -> 0..U64Max]] /\ count' \in [User -> [Kind -> 0..U64Max]]
        BY <1>1, <1>6
    <3>2. \A v \in User : count[v][k] \in 0..U64Max /\ count'[v][k] \in 0..U64Max
        BY <3>1
    <3> QED
        BY <3>2, StatsAssumption
  <2>4. CASE k = a
    <3>1. p \in Pending(k) /\ Pending(k)' = Pending(k) \ {p}
        BY <1>1, <1>3, <2>4 DEF Pending, Put
    <3>2. Cardinality(Pending(k)') = Cardinality(Pending(k)) - 1
        BY <3>1, PendingFinite, FS_RemoveElement
    <3>3. /\ u \in User
          /\ \A v \in User \ {u} : count'[v][k] = count[v][k]
          /\ count'[u][k] = count[u][k] + 1
        BY <1>1, <1>6, <2>4
    <3> HIDE DEF u
    <3>4. Cardinality(UnitsOf(count', k)) = Cardinality(UnitsOf(count, k)) + 1
        BY <2>3, <3>3, UnitsUp
    <3> QED
        BY <2>1, <2>2, <3>2, <3>4, UnitsFinite, PendingFinite
  <2>5. CASE k # a
    <3>1. Cardinality(Pending(k)') <= Cardinality(Pending(k))
        BY <1>4, PendingFinite, FS_Subset
    <3>2. UnitsOf(count', k) = UnitsOf(count, k)
        BY <1>6, <2>5 DEF UnitsOf
    <3> QED
        BY <2>1, <2>2, <3>1, <3>2, UnitsFinite, PendingFinite
  <2> QED
      BY <2>4, <2>5
<1>12. NeverAhead'
    BY <1>11 DEF NeverAhead, UnitsOf, Pending
<1> QED
    BY <1>4, <1>8, <1>9, <1>10, <1>12 DEF StatsInv

-----------------------------------------------------------------------------
(* The theorems.                                                           *)

LEMMA InitStats == Init => StatsInv
<1> SUFFICES ASSUME Init
             PROVE  StatsInv
    OBVIOUS
<1>1. TypeOK
    BY StatsAssumption DEF Init, TypeOK, Idle, Submission, Action
<1>2. ProofsAddUp /\ NoLiquidation
    BY DEF Init, ProofsAddUp, NoLiquidation, Kind
<1>3. CallsSigned
    BY DEF Init, CallsSigned, Idle
<1>4. ASSUME NEW k \in Kind \cap Action
      PROVE  Cardinality(UnitsOf(count, k)) + Cardinality(Pending(k)) <= Cardinality(UnitsOf(confirmed, k))
  <2>1. Pending(k) = {}
      BY DEF Init, Pending, Idle
  <2>2. \A u \in User : count[u][k] = 0 /\ confirmed[u][k] = 0
      BY DEF Init
  <2>3. UnitsOf(count, k) = UnitsOf(confirmed, k)
      BY <2>2 DEF UnitsOf
  <2> QED
      BY <2>1, <2>3, FS_EmptySet, UnitsFinite
<1> QED
    BY <1>1, <1>2, <1>3, <1>4 DEF StatsInv, NeverAhead

\* The inductive invariant of the counters: types, the sum, and that even with
\* all mirrors under way no counter passes what the chain has confirmed.
THEOREM StatsInvariant == Spec => []StatsInv
<1>1. StatsInv /\ [Next]_vars => StatsInv'
  <2> SUFFICES ASSUME StatsInv, [Next]_vars
               PROVE  StatsInv'
      OBVIOUS
  <2>1. ASSUME NEW p \in Page, NEW k \in Action, Submit(p, k)
        PROVE  StatsInv'
      BY <2>1, SubmitPreserves
  <2>2. ASSUME NEW p \in Page,
               Confirm(p) \/ Appended(p) \/ StatsRead(p) \/ Inited(p) \/ Recorded(p) \/ Fail(p)
        PROVE  StatsInv'
      BY <2>2, ConfirmPreserves, AppendedPreserves, StatsReadPreserves, InitedPreserves,
         RecordedPreserves, FailPreserves
  <2>3. CASE SwitchWallet \/ UNCHANGED vars
      BY <2>3, SwitchWalletPreserves
  <2> QED
      BY <2>1, <2>2, <2>3 DEF Next
<1> QED
    BY <1>1, InitStats, PTL DEF Spec

\* proofs_submitted is the sum of the kinds, in every reachable state.
THEOREM ProofsAlwaysAddUp == Spec => []ProofsAddUp
<1>1. StatsInv => ProofsAddUp
    BY DEF StatsInv
<1> QED
    BY <1>1, StatsInvariant, PTL

\* No counter claims an action that the chain has not confirmed.
THEOREM NothingEverInvented == Spec => []NothingInvented
<1>1. StatsInv => NothingInvented
  <2> SUFFICES ASSUME StatsInv
               PROVE  NothingInvented
      OBVIOUS
  <2>1. \A k \in Kind \cap Action :
            Cardinality(UnitsOf(count, k)) <= Cardinality(UnitsOf(confirmed, k))
      BY UnitsFinite, PendingFinite DEF StatsInv, NeverAhead
  <2>2. UnitsOf(count, "liquidation") = {}
      BY StatsAssumption DEF StatsInv, NoLiquidation, UnitsOf
  <2> QED
      BY <2>1, <2>2 DEF NothingInvented
<1> QED
    BY <1>1, StatsInvariant, PTL

===============================================================================
