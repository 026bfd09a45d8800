------------------------------ MODULE Wallets ------------------------------
(***************************************************************************)
(* WalletManager and POST /api/wallets.                                    *)
(*                                                                         *)
(* Requests run in worker threads: looking for the address, inserting the  *)
(* wallet and writing its audit row are three moments.  An address stands  *)
(* for a blockchain and an address on it.  Names, purposes and owners,     *)
(* which no rule reads, are left out, and rename_wallet with them.         *)
(***************************************************************************)
EXTENDS Integers, Sequences, FiniteSetsExt, SessionCopies

CONSTANTS Wallet, Addresses, NoWallet,
          Kinds,          \* [type, watchOnly] of the wallets that are added
          MaxChanges      \* bound on the audit rows about addresses

ASSUME WalletsAssumption ==
    /\ NoWallet \notin Wallet
    /\ MaxChanges \in Nat

WalletTypes == {"MOTHER_WALLET", "BOT_WALLET", "RECEIVING_WALLET", "RESERVE_WALLET"}

ASSUME KindsAssumption == Kinds \subseteq [type : WalletTypes, watchOnly : BOOLEAN]

WalletRow == [type : WalletTypes, watchOnly : BOOLEAN, address : Addresses,
              active : BOOLEAN]

ASSUME WalletRowAssumption == NoWallet \notin WalletRow /\ NoCopy \notin WalletRow

VARIABLES wallets,       \* rows of wallets, NoWallet where there is none
          added,         \* audit rows WALLET_ADDED
          addressLog,    \* audit rows WALLET_ADDRESS_CHANGED: new addresses
          requests,      \* calls of add_wallet
          walletCopies   \* the wallets each session holds

wvars == <<wallets, added, addressLog, requests, walletCopies>>

OnFile == {w \in Wallet : wallets[w] # NoWallet}
Seen == {<<w, wallets[w].address>> : w \in OnFile}
AtAddress(a) == {w \in OnFile : wallets[w].address = a}

\* What a thread is at.  "saw" are the wallets and addresses there when it looked.
Request == [at : {"idle", "adding", "added"},
            wallet : Wallet \cup {NoWallet},
            row : WalletRow \cup {NoWallet},
            saw : SUBSET (Wallet \X Addresses)]
IdleRequest == [at |-> "idle", wallet |-> NoWallet, row |-> NoWallet, saw |-> {}]

WalletsInit ==
    /\ wallets = [w \in Wallet |-> NoWallet]
    /\ added = {}
    /\ addressLog = [w \in Wallet |-> <<>>]
    /\ requests = [s \in Sessions |-> IdleRequest]
    /\ walletCopies = NoCopies(Wallet)

(***************************************************************************)
(* add_wallet.                                                             *)
(***************************************************************************)
ActiveAt(a) == {w \in AtAddress(a) : wallets[w].active}

\* The wallets that make the address taken: scalar_one_or_none finds one, or
\* raises when there are two.
Taking(a) == AtAddress(a)

\* A taken address is refused without a trace.  The route registers
\* watch-only wallets; the engine takes any kind.
LookForAddress(s, w, kind, a) ==
    /\ requests[s].at = "idle"
    /\ w \notin OnFile /\ \A q \in Sessions : requests[q].wallet # w
    /\ Taking(a) = {}
    /\ requests' = [requests EXCEPT ![s] =
          [at |-> "adding", wallet |-> w, saw |-> Seen,
           row |-> [type |-> kind.type, watchOnly |-> kind.watchOnly, address |-> a,
                    active |-> TRUE]]]
    /\ UNCHANGED <<wallets, added, addressLog, walletCopies>>

InsertWallet(s) ==
    LET r == requests[s] IN
    /\ r.at = "adding"
    /\ r.wallet \notin OnFile
    /\ wallets' = [wallets EXCEPT ![r.wallet] = r.row]
    /\ walletCopies' = Keep(walletCopies, s, r.wallet, r.row)
    /\ requests' = [requests EXCEPT ![s].at = "added"]
    /\ UNCHANGED <<added, addressLog>>

RecordAdded(s) ==
    /\ requests[s].at = "added"
    /\ added' = added \cup {requests[s].wallet}
    /\ requests' = [requests EXCEPT ![s] = IdleRequest]
    /\ UNCHANGED <<wallets, addressLog, walletCopies>>

(***************************************************************************)
(* Changes of a wallet the session holds.                                  *)
(***************************************************************************)
LoadWallet(s, w) ==
    /\ w \in OnFile
    /\ ~Holds(walletCopies, s, w)
    /\ walletCopies' = Keep(walletCopies, s, w, wallets[w])
    /\ UNCHANGED <<wallets, added, addressLog, requests>>

CommitWallet(s, w, now) ==
    /\ wallets' = Write(wallets, walletCopies, s, w, now)
    /\ walletCopies' = Keep(walletCopies, s, w, now)
    /\ UNCHANGED <<added, requests>>

\* With an audit row that no rule reads.
SetActive(s, w, active) ==
    /\ Holds(walletCopies, s, w)
    /\ CommitWallet(s, w, [walletCopies[s][w] EXCEPT !.active = active])
    /\ UNCHANGED addressLog

Authorized(row, extra) == row.type = "RECEIVING_WALLET" => extra

NamedOld(old, new) == old
Named(old, new) == new

\* One commit with its audit row.  Nobody looks whether another wallet has the
\* new address.
UpdateAddress(s, w, a, extra) ==
    /\ Holds(walletCopies, s, w)
    /\ Authorized(walletCopies[s][w], extra)
    /\ MapThenSumSet(LAMBDA v : Len(addressLog[v]), Wallet) < MaxChanges
    /\ CommitWallet(s, w, [walletCopies[s][w] EXCEPT !.address = a])
    /\ addressLog' = [addressLog EXCEPT ![w] =
                        Append(@, Named(walletCopies[s][w].address, a))]

\* An exception, a rollback, the end of the request or of the process.
ForgetWallets(s) ==
    /\ requests' = [requests EXCEPT ![s] = IdleRequest]
    /\ walletCopies' = Forget(walletCopies, s)
    /\ UNCHANGED <<wallets, added, addressLog>>

WalletsNext ==
    \E s \in Sessions :
        \/ \E w \in Wallet, kind \in Kinds, a \in Addresses : LookForAddress(s, w, kind, a)
        \/ InsertWallet(s) \/ RecordAdded(s)
        \/ ForgetWallets(s)
        \/ \E w \in Wallet :
              \/ LoadWallet(s, w)
              \/ \E active \in BOOLEAN : SetActive(s, w, active)
              \/ \E a \in Addresses, extra \in BOOLEAN : UpdateAddress(s, w, a, extra)

WalletsSpec == WalletsInit /\ [][WalletsNext]_wvars

(***************************************************************************)
(* Properties.                                                             *)
(***************************************************************************)
WalletsTypeOK ==
    /\ wallets \in [Wallet -> WalletRow \cup {NoWallet}]
    /\ added \subseteq OnFile
    /\ addressLog \in [Wallet -> Seq(Addresses)]
    /\ requests \in [Sessions -> Request]
    /\ walletCopies \in [Sessions -> [Wallet -> WalletRow \cup {NoCopy}]]

\* A wallet is registered at an address another one has only if that other
\* came to it after the request had looked (DuplicateWalletError,
\* engines/wallet_manager.py:45-51, test_wallet_manager.py:24-32): by another
\* request that was not yet committed, or by a changed address.
DuplicateOnlyByRace ==
    [][\A w \in OnFile' \ OnFile, v \in OnFile :
         wallets[v].address = wallets'[w].address
            => \E s \in Sessions :
                  /\ requests[s].wallet = w
                  /\ <<v, wallets[v].address>> \notin requests[s].saw]_wvars

\* The last audit row about a wallet's address names the one it has, unless a
\* session that held an older row wrote the one or the other: an update to the
\* address the session believes to be there is logged and changes nothing.
AddressOnRecord ==
    [][\A w \in OnFile :
         LET Agrees(row, log) == log # <<>> => log[Len(log)] = row.address
         IN /\ wallets'[w].address # wallets[w].address
                 => addressLog'[w] # addressLog[w]
            /\ Agrees(wallets[w], addressLog[w])
                 /\ ~Agrees(wallets'[w], addressLog'[w])
               => \E s \in Sessions :
                     /\ walletCopies[s][w] \notin {NoCopy, wallets[w]}
                     /\ walletCopies'[s][w].address = addressLog'[w][Len(addressLog'[w])]]_wvars
=============================================================================
