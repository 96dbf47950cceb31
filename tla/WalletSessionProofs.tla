------------------------- MODULE WalletSessionProofs -------------------------
(***************************************************************************)
(* The session invariants of WalletSession, for any number of extensions   *)
(* and of overlapping disconnects.                                         *)
(***************************************************************************)
EXTENDS WalletSession, TLAPS

\* An answer of an extension or of the IDL fetch keeps the program on the
\* wallet in use, whoever else is waiting.
LEMMA ConnectPreserves ==
    ASSUME SessionInv, NEW n \in Name, Connect(n)
    PROVE  SessionInv'
<1> USE NoneAssumption DEF SessionInv, TypeOK, Maybe, ProgramFitsWallet, PageShowsWallet, SettingUp
<1>1. CASE connecting # None
  BY <1>1 DEF Connect
<1>2. CASE connecting = None /\ n \in live
  BY <1>2 DEF Connect, Connected, SetWallet
<1>3. CASE connecting = None /\ n \notin live
  BY <1>3 DEF Connect
<1> QED
  BY <1>1, <1>2, <1>3

LEMMA ExtensionAnswersPreserves ==
    ASSUME SessionInv, ExtensionAnswers
    PROVE  SessionInv'
<1> USE NoneAssumption DEF SessionInv, TypeOK, Maybe, ProgramFitsWallet, PageShowsWallet, SettingUp
<1>1. CASE Approve
  BY <1>1 DEF Approve, Connected, SetWallet
<1>2. CASE OpaqueError
  BY <1>2 DEF OpaqueError, pageVars
<1>3. CASE Refuse
  BY <1>3 DEF Refuse, Release, pageVars
<1> QED
  BY <1>1, <1>2, <1>3 DEF ExtensionAnswers

LEMMA EagerPreserves ==
    ASSUME SessionInv, Boot \/ EagerAnswers \/ EagerIdl
    PROVE  SessionInv'
<1> USE NoneAssumption DEF SessionInv, TypeOK, Maybe, ProgramFitsWallet, PageShowsWallet, SettingUp
<1>1. CASE Boot
  BY <1>1 DEF Boot, pageVars
<1>2. CASE EagerTrusted
  BY <1>2 DEF EagerTrusted, SetWallet
<1>3. CASE EagerRefused
  BY <1>3 DEF EagerRefused, pageVars
<1>4. CASE EagerKeyless
  BY <1>4 DEF EagerKeyless, pageVars
<1>5. CASE EagerIdl
  BY <1>5 DEF EagerIdl, IdlAnswers
<1> QED
  BY <1>1, <1>2, <1>3, <1>4, <1>5 DEF EagerAnswers

LEMMA DisconnectPreserves ==
    ASSUME SessionInv, NEW d \in Drop, Disconnect(d) \/ Disconnected(d)
    PROVE  SessionInv'
<1> USE NoneAssumption DEF SessionInv, TypeOK, Maybe, ProgramFitsWallet, PageShowsWallet, SettingUp
<1>1. CASE Disconnect(d) /\ wallet # None
  BY <1>1 DEF Disconnect
<1>2. CASE Disconnect(d) /\ wallet = None
  BY <1>2 DEF Disconnect, Forget
<1>3. CASE Disconnected(d)
  BY <1>3 DEF Disconnected, Forget
<1> QED
  BY <1>1, <1>2, <1>3

\* SessionInv is inductive.
LEMMA SessionStep ==
    ASSUME SessionInv, [Next]_vars
    PROVE  SessionInv'
<1>1. ASSUME NEW n \in Name, Connect(n)
      PROVE  SessionInv'
  BY <1>1, ConnectPreserves
<1>2. ASSUME NEW n \in Name, Revoke(n)
      PROVE  SessionInv'
  BY <1>2 DEF Revoke, clientVars, pageVars, SessionInv, TypeOK, ProgramFitsWallet,
              PageShowsWallet, SettingUp
<1>3. ASSUME NEW d \in Drop, Disconnect(d) \/ Disconnected(d)
      PROVE  SessionInv'
  BY <1>3, DisconnectPreserves
<1>4. CASE ExtensionAnswers
  BY <1>4, ExtensionAnswersPreserves
<1>5. CASE ConnectIdl
  BY <1>5, NoneAssumption
     DEF ConnectIdl, IdlAnswers, Release, SessionInv, TypeOK, Maybe, ProgramFitsWallet,
         PageShowsWallet, SettingUp
<1>6. CASE Boot \/ EagerAnswers \/ EagerIdl
  BY <1>6, EagerPreserves
<1>7. CASE OpenPicker \/ ClosePicker
  BY <1>7 DEF OpenPicker, ClosePicker, clientVars, SessionInv, TypeOK, ProgramFitsWallet,
              PageShowsWallet, SettingUp
<1>8. CASE BackgroundRead
  BY <1>8 DEF BackgroundRead, pageVars, SessionInv, TypeOK, ProgramFitsWallet,
              PageShowsWallet, SettingUp
<1>9. CASE Reload
  BY <1>9 DEF Reload, SessionInv, TypeOK, Maybe, ProgramFitsWallet, PageShowsWallet, SettingUp
<1>10. CASE UNCHANGED vars
  BY <1>10 DEF vars, clientVars, pageVars, SessionInv, TypeOK, ProgramFitsWallet,
               PageShowsWallet, SettingUp
<1> QED
  BY <1>1, <1>2, <1>3, <1>4, <1>5, <1>6, <1>7, <1>8, <1>9, <1>10 DEF Next

\* However connects, silent reconnects, disconnects and reloads overlap, the
\* session keeps its invariant.
THEOREM SessionInvariant == Spec => []SessionInv
<1>1. Init => SessionInv
  BY NoneAssumption DEF Init, SessionInv, TypeOK, Maybe, ProgramFitsWallet, PageShowsWallet
<1>2. SessionInv /\ [Next]_vars => SessionInv'
  BY SessionStep
<1> QED
  BY <1>1, <1>2, PTL DEF Spec

\* A signing program is never one of another wallet than the one in use.
THEOREM ProgramAlwaysFits == Spec => []ProgramFitsWallet
<1>1. SessionInv => ProgramFitsWallet
  BY DEF SessionInv
<1> QED
  BY <1>1, SessionInvariant, PTL

\* Page and client agree on the wallet whenever none is being set up.
THEOREM PageAlwaysAgrees == Spec => []PageShowsWallet
<1>1. SessionInv => PageShowsWallet
  BY DEF SessionInv
<1> QED
  BY <1>1, SessionInvariant, PTL

===============================================================================
