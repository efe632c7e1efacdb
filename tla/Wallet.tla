------------------------------- MODULE Wallet -------------------------------
(***************************************************************************)
(* The page's connection to a wallet (use-wallet.ts): a store that says    *)
(* which account is connected, and the wallet kit, which has one selected  *)
(* wallet and asks that one for addresses and signatures.  A tab keeps the *)
(* name of its last wallet in its session storage; a page that loads asks  *)
(* that wallet again by itself (checkConnection), while its user may       *)
(* already be choosing one (connect).  Both wait for the wallet's answer.  *)
(*                                                                         *)
(* An account is named by the wallet that gave its address.                *)
(***************************************************************************)
EXTENDS Integers

CONSTANTS
  Wallets,  \* the supported wallets
  Freighter \* the wallet the kit selects by itself

ASSUME WalletAssumption ==
  Freighter \in Wallets /\ Wallets \cap {"nobody", "due", "over"} = {}

VARIABLES
  kit,        \* the kit's selected wallet
  account,    \* publicKey of the store, Nobody when it is not connected
  isLoading,
  session,    \* walletId in the session storage
  modal,      \* the kit's dialog is open
  asked,      \* wallets connect waits for
  reconnect,  \* checkConnection: still to come, waiting for a wallet, over
  overlapped  \* history: both waited at the same time since the page loaded

walletVars == <<kit, account, isLoading, session, modal, asked, reconnect, overlapped>>

Nobody == "nobody"
WalletOrNobody == Wallets \cup {Nobody}

WalletTypeOK ==
  /\ kit \in Wallets /\ account \in WalletOrNobody /\ session \in WalletOrNobody
  /\ isLoading \in BOOLEAN /\ modal \in BOOLEAN /\ overlapped \in BOOLEAN
  /\ asked \subseteq Wallets
  /\ reconnect \in Wallets \cup {"due", "over"}

Fresh ==
  /\ kit' = Freighter /\ account' = Nobody /\ isLoading' = FALSE
  /\ modal' = FALSE /\ asked' = {} /\ reconnect' = "due"

WalletInit ==
  /\ kit = Freighter /\ account = Nobody /\ isLoading = FALSE /\ session = Nobody
  /\ modal = FALSE /\ asked = {} /\ reconnect = "due" /\ overlapped = FALSE

-----------------------------------------------------------------------------
(* The tab loads a page anew: of all this only the session stays.          *)
Reload == Fresh /\ UNCHANGED session

(* checkConnection, a tenth of a second after the page has loaded.         *)
CheckConnection ==
  /\ reconnect = "due"
  /\ IF session # Nobody /\ account = Nobody
     THEN kit' = session /\ reconnect' = session
     ELSE kit' = kit /\ reconnect' = "over"
  /\ UNCHANGED <<account, isLoading, session, modal, asked>>

Reconnected ==
  /\ reconnect \in Wallets
  /\ account' = reconnect
  /\ reconnect' = "over"
  /\ UNCHANGED <<kit, isLoading, session, modal, asked>>

ReconnectFails ==
  /\ reconnect \in Wallets
  /\ session' = Nobody
  /\ reconnect' = "over"
  /\ UNCHANGED <<kit, account, isLoading, modal, asked>>

-----------------------------------------------------------------------------
(* connect, from a button shown while nobody is connected.                 *)
MayConnect_Again == TRUE                           \* mutant
MayConnect == ~ isLoading

Connect ==
  /\ account = Nobody /\ ~ modal
  /\ MayConnect
  /\ isLoading' = TRUE
  /\ modal' = TRUE
  /\ UNCHANGED <<kit, account, session, asked, reconnect>>

WalletSelected(w) ==
  /\ modal
  /\ modal' = FALSE
  /\ kit' = w
  /\ asked' = asked \cup {w}
  /\ UNCHANGED <<account, isLoading, session, reconnect>>

(* A dialog closed without a choice ends the attempt, but leaves a         *)
(* connected store as it is.                                               *)
ModalClosed ==
  /\ modal
  /\ modal' = FALSE
  /\ isLoading' = (isLoading /\ account # Nobody)
  /\ UNCHANGED <<kit, account, session, asked, reconnect>>

AddressReceived(w) ==
  /\ asked' = asked \ {w}
  /\ account' = w /\ session' = w
  /\ isLoading' = FALSE
  /\ UNCHANGED <<kit, modal, reconnect>>

ConnectFails(w) ==
  /\ asked' = asked \ {w}
  /\ account' = Nobody /\ session' = Nobody
  /\ isLoading' = FALSE
  /\ UNCHANGED <<kit, modal, reconnect>>

(* disconnect, from the header's button.                                   *)
Disconnect ==
  /\ account # Nobody /\ ~ isLoading
  /\ account' = Nobody /\ session' = Nobody /\ isLoading' = FALSE
  /\ UNCHANGED <<kit, modal, asked, reconnect>>

-----------------------------------------------------------------------------
Answered == \E w \in asked : AddressReceived(w) \/ ConnectFails(w)
ReconnectAnswered == Reconnected \/ ReconnectFails
ModalLeft == ModalClosed \/ \E w \in Wallets : WalletSelected(w)

Recorded ==
  overlapped' =
    /\ reconnect' # "due"
    /\ overlapped \/ (reconnect' \in Wallets /\ (modal' \/ asked' # {}))

WalletStep ==
  /\ \/ Reload \/ CheckConnection \/ ReconnectAnswered
     \/ Connect \/ ModalLeft \/ Answered \/ Disconnect
  /\ Recorded

(* The user leaves the dialog and the wallet answers.                      *)
WalletFairness == WF_walletVars(ModalLeft /\ Recorded) /\ WF_walletVars(Answered /\ Recorded)

WalletSpec == WalletInit /\ [][WalletStep]_walletVars /\ WalletFairness

-----------------------------------------------------------------------------
(* A settled page signs with the wallet whose account it shows: signing    *)
(* asks the kit's wallet for the signature of the store's account, so the  *)
(* two have to agree (signTransaction L146-185).  It holds as long as no   *)
(* choice overlapped the automatic reconnection, which the guard of        *)
(* connect does not know of.                                               *)
OneWalletConnected ==
  account # Nobody /\ asked = {} /\ ~ overlapped => kit = account

=============================================================================
