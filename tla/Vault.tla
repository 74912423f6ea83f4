------------------------------- MODULE Vault --------------------------------
(***************************************************************************)
(* Wallet keys: the wallet_keys table, the vault of the orchestrator with  *)
(* its cache of key metadata, the import tool that writes the table beside *)
(* it, and the wallet handed out for a transaction.                        *)
(*                                                                         *)
(* A ciphertext is the secret it holds and the deployment salt its key was *)
(* derived with; it opens under the same salt only.                        *)
(***************************************************************************)
EXTENDS Integers

CONSTANTS
  KeyIds,        \* key_id
  Secret,        \* the private key an operator gives the vault for a key_id
  ImportSecret,  \* the one the import tool is given for it
  AddressOf,     \* computeAddress
  NoAddress,     \* the empty string
  NoRow,         \* no row, no cache entry, no ciphertext
  Chain,         \* the chain wallets are selected on; 0 is no chain
  MaxVaultCalls, MaxVaultRestarts  \* bounds on calls and restarts

ASSUME VaultBounds ==
  /\ Chain \in Nat \ {0} /\ MaxVaultCalls \in Nat /\ MaxVaultRestarts \in Nat
  /\ \A k \in KeyIds : {Secret[k], ImportSecret[k]} \subseteq DOMAIN AddressOf

\* The constructor: the configured salt, or the fallback outside production.
Salts == {"deploy", "fallback"}
WalletAddresses == {AddressOf[s] : s \in DOMAIN AddressOf} \cup {NoAddress}
Metas == [address : WalletAddresses, chain : {0, Chain}, active : BOOLEAN]
Ciphers == [secret : DOMAIN AddressOf, salt : Salts]
WalletRows == [address : WalletAddresses, chain : {0, Chain}, active : BOOLEAN,
               cipher : Ciphers \cup {NoRow}]
Imports == [id : KeyIds, address : WalletAddresses, cipher : Ciphers]

ASSUME RowAssumption == NoRow \notin Metas \cup Ciphers \cup WalletRows \cup Imports

VARIABLES
  walletKeys,    \* the table
  metaCache,     \* KeyVaultService.metaCache
  vaultSalt,     \* the salt of the running service: "deploy" or "fallback"
  call,          \* the operator's call under way
  own,           \* key ids the operator registered through the vault
  calls, restarts,
  importing,     \* the run of wallet-key-import.mjs under way
  imported,      \* key ids it was run for
  picked         \* the selection under way, and what it handed out

vaultVars == <<walletKeys, metaCache, vaultSalt, call, own, calls, restarts, importing,
               imported, picked>>

NoVaultCall == [name |-> "none", id |-> NoRow, new |-> NoRow, step |-> "none", row |-> NoRow]
NoPick == [pc |-> "idle", id |-> NoRow, address |-> NoAddress, signer |-> NoAddress]

VaultInit ==
  /\ walletKeys = [k \in KeyIds |-> NoRow]
  /\ metaCache = [k \in KeyIds |-> NoRow]
  /\ vaultSalt \in Salts
  /\ call = NoVaultCall /\ own = {} /\ calls = 0 /\ restarts = 0
  /\ importing = NoRow /\ imported = {}
  /\ picked = NoPick

Meta(row) == [address |-> row.address, chain |-> row.chain, active |-> row.active]
Row(meta, cipher) ==
  [address |-> meta.address, chain |-> meta.chain, active |-> meta.active, cipher |-> cipher]

-----------------------------------------------------------------------------
(***************************************************************************)
(* Calls of the vault; each store access is a step of its own.             *)
(***************************************************************************)
Begin(c) == call = NoVaultCall /\ calls < MaxVaultCalls /\ calls' = calls + 1 /\ call' = c
Done == call' = NoVaultCall

\* registerWalletKey: a known id is refused; the store is written through
\* with empty ciphertext columns, then the cache.
Register(k) == [NoVaultCall EXCEPT !.name = "register", !.id = k, !.step = "store"]
RegisterWalletKey(k) ==
  /\ metaCache[k] = NoRow
  /\ Begin(Register(k))
  /\ UNCHANGED <<walletKeys, metaCache, vaultSalt, own, restarts, importing, imported, picked>>

\* saveKeyMeta is an upsert.
SaveKeyMeta ==
  LET meta == [address |-> AddressOf[Secret[call.id]], chain |-> Chain, active |-> TRUE] IN
  /\ call.name = "register" /\ call.step = "store"
  /\ walletKeys' = [walletKeys EXCEPT ![call.id] = Row(meta, NoRow)]
  /\ call' = [call EXCEPT !.step = "cache", !.row = meta]
  /\ UNCHANGED <<metaCache, vaultSalt, own, calls, restarts, importing, imported, picked>>

CacheRegistered ==
  /\ call.name = "register" /\ call.step = "cache"
  /\ metaCache' = [metaCache EXCEPT ![call.id] = call.row]
  /\ own' = own \cup {call.id}
  /\ Done
  /\ UNCHANGED <<walletKeys, vaultSalt, calls, restarts, importing, imported, picked>>

\* encryptPrivateKey: the audit entry comes first, its failure fails the
\* call.  The operator encrypts keys he has registered.
EncryptPrivateKey(k) ==
  /\ k \in own
  /\ Begin([NoVaultCall EXCEPT !.name = "encrypt", !.id = k, !.step = "find"])
  /\ UNCHANGED <<walletKeys, metaCache, vaultSalt, own, restarts, importing, imported, picked>>

FindForUpdate ==
  /\ call.step = "find" /\ call.name \in {"encrypt", "deactivate", "rotate"}
  /\ call' = [call EXCEPT !.step = "save", !.row = walletKeys[call.id]]
  /\ UNCHANGED <<walletKeys, metaCache, vaultSalt, own, calls, restarts, importing, imported, picked>>

\* saveEncryptedKey: the row that was read is saved whole with the new
\* ciphertext; without one, a row that belongs to no chain.
SaveEncryptedKey ==
  LET cipher == [secret |-> Secret[call.id], salt |-> vaultSalt]
      meta == IF call.row = NoRow
              THEN [address |-> NoAddress, chain |-> 0, active |-> TRUE] ELSE Meta(call.row)
  IN
  /\ call.name = "encrypt" /\ call.step = "save"
  /\ walletKeys' = [walletKeys EXCEPT ![call.id] = Row(meta, cipher)]
  /\ Done
  /\ UNCHANGED <<metaCache, vaultSalt, own, calls, restarts, importing, imported, picked>>

\* deactivateWalletKey, and the first half of rotateWalletKey: the cache at
\* once, then the store.
Deactivate(c) ==
  /\ metaCache[c.id] # NoRow
  /\ Begin(c)
  /\ metaCache' = [metaCache EXCEPT ![c.id].active = FALSE]
  /\ UNCHANGED <<walletKeys, vaultSalt, own, restarts, importing, imported, picked>>
DeactivateWalletKey(k) == Deactivate([NoVaultCall EXCEPT !.name = "deactivate", !.id = k, !.step = "find"])
RotateWalletKey(old, new) ==
  Deactivate([NoVaultCall EXCEPT !.name = "rotate", !.id = old, !.new = new, !.step = "find"])

\* setActive; a rotation goes on to register the new key, if it is unknown.
SetActive ==
  /\ call.name \in {"deactivate", "rotate"} /\ call.step = "save"
  /\ walletKeys' = [walletKeys EXCEPT ![call.id] =
                      IF call.row = NoRow THEN @ ELSE [call.row EXCEPT !.active = FALSE]]
  /\ IF call.name = "rotate" /\ metaCache[call.new] = NoRow
     THEN call' = Register(call.new) ELSE Done
  /\ UNCHANGED <<metaCache, vaultSalt, own, calls, restarts, importing, imported, picked>>

\* A failing store or audit call ends the operator's call where it stands.
CallFails ==
  /\ call # NoVaultCall /\ Done
  /\ UNCHANGED <<walletKeys, metaCache, vaultSalt, own, calls, restarts, importing, imported, picked>>

-----------------------------------------------------------------------------
\* Restart and onModuleInit: the cache is what the table holds, or empty when
\* it cannot be read; in production there is no fallback salt.
VaultRestart ==
  /\ restarts < MaxVaultRestarts /\ restarts' = restarts + 1
  /\ call' = NoVaultCall /\ picked' = NoPick
  /\ vaultSalt' \in Salts
  /\ metaCache' \in {[k \in KeyIds |-> NoRow],
                     [k \in KeyIds |-> IF walletKeys[k] = NoRow THEN NoRow ELSE Meta(walletKeys[k])]}
  /\ UNCHANGED <<walletKeys, own, calls, importing, imported>>

-----------------------------------------------------------------------------
(***************************************************************************)
(* wallet-key-import.mjs: address from the key, encrypted as the vault     *)
(* does under the deployment salt, refused for a key_id that exists.       *)
(***************************************************************************)
ImportCipher(k) == [secret |-> ImportSecret[k], salt |-> "deploy"]
ImportKey(k) ==
  /\ importing = NoRow /\ k \notin imported
  /\ importing' = [id |-> k, address |-> AddressOf[ImportSecret[k]],
                   cipher |-> ImportCipher(k)]
  /\ imported' = imported \cup {k}
  /\ UNCHANGED <<walletKeys, metaCache, vaultSalt, call, own, calls, restarts, picked>>

BugMayInsert(k) == TRUE
\* SELECT before the INSERT, and the primary key behind it.
MayInsert(k) == walletKeys[k] = NoRow

InsertWalletKey ==
  /\ importing # NoRow
  /\ walletKeys' =
       IF MayInsert(importing.id)
       THEN [walletKeys EXCEPT ![importing.id] =
               [address |-> importing.address, chain |-> Chain, active |-> TRUE,
                cipher |-> importing.cipher]]
       ELSE walletKeys
  /\ importing' = NoRow
  /\ UNCHANGED <<metaCache, vaultSalt, call, own, calls, restarts, imported, picked>>

-----------------------------------------------------------------------------
(***************************************************************************)
(* selectWallet: the key by its cached metadata, its ciphertext from the   *)
(* table at that moment.                                                   *)
(***************************************************************************)
\* getWalletKeysByChain.
Available == {k \in KeyIds : metaCache[k] # NoRow /\ metaCache[k].chain = Chain /\ metaCache[k].active}

SelectKey ==
  /\ picked.pc # "reading"
  /\ \E k \in Available :
       picked' = [NoPick EXCEPT !.pc = "reading", !.id = k, !.address = metaCache[k].address]
  /\ UNCHANGED <<walletKeys, metaCache, vaultSalt, call, own, calls, restarts, importing, imported>>

\* getEncryptedKey and decryptPrivateKey.
Opens(row) == row # NoRow /\ row.cipher # NoRow /\ row.cipher.salt = vaultSalt

DecryptSelected ==
  LET row == walletKeys[picked.id] IN
  /\ picked.pc = "reading"
  /\ IF Opens(row)
     THEN picked' = [picked EXCEPT !.pc = "handed", !.signer = AddressOf[row.cipher.secret]]
     ELSE picked' = NoPick
  /\ UNCHANGED <<walletKeys, metaCache, vaultSalt, call, own, calls, restarts, importing, imported>>

VaultNext ==
  \/ \E k \in KeyIds :
       \/ RegisterWalletKey(k) \/ EncryptPrivateKey(k) \/ DeactivateWalletKey(k) \/ ImportKey(k)
       \/ \E new \in KeyIds \ {k} : RotateWalletKey(k, new)
  \/ SaveKeyMeta \/ CacheRegistered \/ FindForUpdate \/ SaveEncryptedKey \/ SetActive
  \/ CallFails \/ VaultRestart \/ InsertWalletKey \/ SelectKey \/ DecryptSelected

VaultSpec == VaultInit /\ [][VaultNext]_vaultVars

-----------------------------------------------------------------------------
\* A wallet handed out for a transaction signs for the address the caller is
\* told, whose allowances and balances it goes by: the cached metadata and the
\* ciphertext of a key never come from two different keys, although the import
\* tool writes the table behind the cache, calls fail half way and the service
\* restarts.
SignerMatchesAddress == picked.pc = "handed" => picked.signer = picked.address
=============================================================================
