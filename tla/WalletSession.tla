---------------------------- MODULE WalletSession ----------------------------
(***************************************************************************)
(* The wallet session of the browser client (app/sl-client.js) and the     *)
(* page's copy of it (app/index.html): connect, the silent reconnect at    *)
(* page load and disconnect, which all wait for a wallet extension and for *)
(* the IDL, and may overlap.                                               *)
(*                                                                         *)
(* A step is what runs between two waits for something outside the page:   *)
(* an answer of an extension, a fetch, a click.  A promise that is settled *)
(* already costs no step.  Each extension holds one account, so a wallet   *)
(* and the key it signs with are both named by the extension.              *)
(***************************************************************************)

CONSTANTS
    Name,     \* wallet extensions installed
    Drop,     \* disconnects that may be under way at once
    None      \* null

ASSUME NoneAssumption == None \notin Name

VARIABLES
    trusted,     \* extensions that have approved this site
    live,        \* extensions whose adapter.isConnected
    remembered,  \* localStorage "sl-wallet"
    idl,         \* is the IDL loaded
    wallet,      \* the client's wallet
    program,     \* the wallet the signing program was built for
    connecting,  \* the wallet whose connect() is under way
    connectAt,   \* where doConnect waits
    eager,       \* the wallet tryEagerConnect tries
    eagerAt,     \* where it waits
    dropping,    \* the wallet each disconnect() under way waits for
    picker,      \* is the page's wallet picker open
    pageWallet   \* the page's state.wallet

clientVars == <<idl, wallet, program, connecting, connectAt, eager, eagerAt, dropping>>
pageVars == <<picker, pageWallet>>
vars == <<trusted, live, remembered, clientVars, pageVars>>

Maybe == Name \cup {None}

TypeOK ==
    /\ trusted \subseteq Name
    /\ live \subseteq Name
    /\ remembered \in Maybe
    /\ idl \in BOOLEAN
    /\ wallet \in Maybe
    /\ program \in Maybe
    /\ connecting \in Maybe
    /\ connectAt \in {"idle", "adapter", "retry", "idl"}
    /\ eager \in Maybe
    /\ eagerAt \in {"boot", "adapter", "idl", "done"}
    /\ dropping \in [Drop -> Maybe]
    /\ picker \in BOOLEAN
    /\ pageWallet \in Maybe

Init ==
    /\ trusted = {}
    /\ remembered = None
    /\ live = {}
    /\ idl = FALSE
    /\ wallet = None
    /\ program = None
    /\ connecting = None
    /\ connectAt = "idle"
    /\ eager = None
    /\ eagerAt = "boot"
    /\ dropping = [d \in Drop |-> None]
    /\ picker = FALSE
    /\ pageWallet = None

-----------------------------------------------------------------------------
(* Establishing a session, for connect and tryEagerConnect alike.          *)

\* The extension has given n's key: the wallet is set; unless the IDL is there
\* the caller waits for it before it builds the program.
SetWallet(n) ==
    /\ wallet' = n
    /\ program' = IF idl THEN n ELSE program

\* A fetch of the IDL succeeds or fails; another one may have succeeded since.
\* buildProgram takes the wallet of the moment.
IdlAnswers ==
    /\ idl' \in {idl, TRUE}
    /\ program' = IF idl' THEN wallet ELSE None
    /\ pageWallet' = wallet
    /\ UNCHANGED wallet

-----------------------------------------------------------------------------
(* connect                                                                 *)

Connected(n) ==
    /\ SetWallet(n)
    /\ live' = live \cup {n}
    /\ IF idl
       THEN /\ connecting' = None
            /\ connectAt' = "idle"
            /\ remembered' = n
            /\ pageWallet' = n
       ELSE /\ connecting' = n
            /\ connectAt' = "idl"
            /\ UNCHANGED <<remembered, pageWallet>>

\* connectWith: the picker closes; a second connect joins the first, whatever
\* wallet it names.
Connect(n) ==
    /\ picker
    /\ picker' = FALSE
    /\ IF connecting # None
       THEN UNCHANGED <<live, remembered, wallet, program, connecting, connectAt, pageWallet>>
       ELSE IF n \in live
       THEN Connected(n)
       ELSE /\ connecting' = n
            /\ connectAt' = "adapter"
            /\ UNCHANGED <<live, remembered, wallet, program, pageWallet>>
    /\ UNCHANGED <<trusted, idl, eager, eagerAt, dropping>>

Approve ==
    /\ connectAt \in {"adapter", "retry"}
    /\ trusted' = trusted \cup {connecting}
    /\ Connected(connecting)
    /\ UNCHANGED <<idl, eager, eagerAt, dropping, picker>>

\* An opaque error is retried once.
OpaqueError ==
    /\ connectAt = "adapter"
    /\ connectAt' = "retry"
    /\ UNCHANGED <<trusted, live, remembered, idl, wallet, program, connecting,
                   eager, eagerAt, dropping, pageVars>>

\* The promise is settled, one way or the other: finally.
ReleaseForgotten ==  \* fault: no finally
    /\ UNCHANGED connecting
    /\ connectAt' = "idle"
Release ==
    /\ connecting' = None
    /\ connectAt' = "idle"

\* Any other error, or any error at the second try.
Refuse ==
    /\ connectAt \in {"adapter", "retry"}
    /\ Release
    /\ UNCHANGED <<trusted, live, remembered, idl, wallet, program, eager, eagerAt,
                   dropping, pageVars>>

ConnectIdl ==
    /\ connectAt = "idl"
    /\ IdlAnswers
    /\ remembered' = connecting
    /\ Release
    /\ UNCHANGED <<trusted, live, eager, eagerAt, dropping, picker>>

-----------------------------------------------------------------------------
(* tryEagerConnect, once per page load, after the markets were read.       *)

Boot ==
    /\ eagerAt = "boot"
    /\ idl' \in {idl, TRUE}
    /\ eager' = remembered
    /\ eagerAt' = IF remembered = None THEN "done" ELSE "adapter"
    /\ UNCHANGED <<trusted, live, remembered, wallet, program, connecting, connectAt,
                   dropping, pageVars>>

EagerTrusted ==
    /\ eagerAt = "adapter"
    /\ eager \in trusted
    /\ SetWallet(eager)
    /\ live' = live \cup {eager}
    /\ eagerAt' = IF idl THEN "done" ELSE "idl"
    /\ pageWallet' = IF idl THEN eager ELSE pageWallet
    /\ UNCHANGED <<trusted, remembered, idl, connecting, connectAt, eager, dropping, picker>>

\* Not trusted any more, or any other error: the pointer is dropped.
EagerRefused ==
    /\ eagerAt = "adapter"
    /\ eagerAt' = "done"
    /\ remembered' = None
    /\ UNCHANGED <<trusted, live, idl, wallet, program, connecting, connectAt, eager,
                   dropping, pageVars>>

\* The extension is not there yet, or answers without a key: nothing happens.
EagerKeyless ==
    /\ eagerAt = "adapter"
    /\ eagerAt' = "done"
    /\ UNCHANGED <<trusted, live, remembered, idl, wallet, program, connecting,
                   connectAt, eager, dropping, pageVars>>

EagerIdl ==
    /\ eagerAt = "idl"
    /\ IdlAnswers
    /\ eagerAt' = "done"
    /\ UNCHANGED <<trusted, live, remembered, connecting, connectAt, eager, dropping, picker>>

-----------------------------------------------------------------------------
(* disconnect                                                              *)

ForgetAllButProgram ==  \* fault: the program outlives the session
    /\ wallet' = None
    /\ UNCHANGED program
    /\ remembered' = None
    /\ pageWallet' = None
ForgetAllButPage ==  \* fault: the page goes on showing the wallet
    /\ wallet' = None
    /\ program' = None
    /\ remembered' = None
    /\ UNCHANGED pageWallet
Forget ==
    /\ wallet' = None
    /\ program' = None
    /\ remembered' = None
    /\ pageWallet' = None

\* The connect button while the page shows a wallet.
Disconnect(d) ==
    /\ pageWallet # None
    /\ dropping[d] = None
    /\ IF wallet # None
       THEN /\ dropping' = [dropping EXCEPT ![d] = wallet]
            /\ UNCHANGED <<wallet, program, remembered, pageWallet>>
       ELSE /\ Forget
            /\ UNCHANGED dropping
    /\ UNCHANGED <<trusted, live, idl, connecting, connectAt, eager, eagerAt, picker>>

Disconnected(d) ==
    /\ dropping[d] # None
    /\ Forget
    /\ live' \in {live, live \ {dropping[d]}}  \* its errors are swallowed
    /\ dropping' = [dropping EXCEPT ![d] = None]
    /\ UNCHANGED <<trusted, idl, connecting, connectAt, eager, eagerAt, picker>>

-----------------------------------------------------------------------------
(* The rest of the page, and what happens around it.                       *)

\* The connect button while the page shows none; a click beside the list.
OpenPicker ==
    /\ pageWallet = None
    /\ picker' = TRUE
    /\ UNCHANGED <<trusted, live, remembered, clientVars, pageWallet>>

ClosePicker ==
    /\ picker' = FALSE
    /\ UNCHANGED <<trusted, live, remembered, clientVars, pageWallet>>

\* Without a program, the page's periodic reads fetch the IDL again.
BackgroundRead ==
    /\ program = None
    /\ idl' = TRUE
    /\ UNCHANGED <<trusted, live, remembered, wallet, program, connecting, connectAt,
                   eager, eagerAt, dropping, pageVars>>

\* The user withdraws the site's permission in the extension.
Revoke(n) ==
    /\ trusted' = trusted \ {n}
    /\ live' = live \ {n}
    /\ UNCHANGED <<remembered, clientVars, pageVars>>

\* Only localStorage and the extensions' permissions survive.
Reload ==
    /\ live' = {}
    /\ idl' = FALSE
    /\ wallet' = None
    /\ program' = None
    /\ connecting' = None
    /\ connectAt' = "idle"
    /\ eager' = None
    /\ eagerAt' = "boot"
    /\ dropping' = [d \in Drop |-> None]
    /\ picker' = FALSE
    /\ pageWallet' = None
    /\ UNCHANGED <<trusted, remembered>>

-----------------------------------------------------------------------------

ExtensionAnswers == Approve \/ OpaqueError \/ Refuse
EagerAnswers == EagerTrusted \/ EagerRefused \/ EagerKeyless

Next ==
    \/ \E n \in Name : Connect(n) \/ Revoke(n)
    \/ \E d \in Drop : Disconnect(d) \/ Disconnected(d)
    \/ ExtensionAnswers \/ ConnectIdl
    \/ Boot \/ EagerAnswers \/ EagerIdl
    \/ OpenPicker \/ ClosePicker
    \/ BackgroundRead
    \/ Reload

\* Extensions and fetches answer in the end; users do what they like.
Fairness ==
    /\ WF_vars(ExtensionAnswers)
    /\ WF_vars(ConnectIdl)
    /\ WF_vars(Boot)
    /\ WF_vars(EagerAnswers)
    /\ WF_vars(EagerIdl)
    /\ \A d \in Drop : WF_vars(Disconnected(d))

Spec == Init /\ [][Next]_vars /\ Fairness

-----------------------------------------------------------------------------
(* Properties.                                                             *)

\* Somebody is between setting the wallet and building the program.
SettingUp == connectAt = "idl" \/ eagerAt = "idl"

\* However connects, reconnects and disconnects overlap, the program signs for
\* the wallet in use or for none at all.
ProgramFitsWallet == program # None => idl /\ program = wallet

\* The page shows the wallet the client uses, except while one is set up.
PageShowsWallet == pageWallet = wallet \/ SettingUp

\* Inductive.
SessionInv ==
    /\ TypeOK
    /\ connecting = None <=> connectAt = "idle"
    /\ ProgramFitsWallet
    /\ PageShowsWallet

\* A connect ends, so that the guard against a second one never keeps the user
\* out for good.
ConnectSettles == connecting # None ~> connecting = None

===============================================================================
