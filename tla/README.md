# TLA+ models of gdk's signer and PSBT code

This directory holds TLA+ models of the C++ sources under `src/src/`, with
TLC configurations that check them. The sources are `signer.cpp` (class
`green::signer`), `ga_psbt.cpp` (class `green::Psbt`), `session_impl.hpp` (the
session interface both call) and `utils.hpp`.

## The system and how its parts interact

| Part | Source | What it does | Model |
|---|---|---|---|
| Signer xpub cache | signer.cpp 258-372 | `get_bip32_xpub`, `has_bip32_xpub`, `cache_ext_key`, `cache_bip32_xpub`: a path → xpub map shared by every thread that uses the signer, guarded by `m_mutex` | `KeyCache` |
| Signer construction | signer.cpp 20-131, 157-256 | credentials and hardware-device JSON normalised into `m_credentials` and `m_device`; the master key from a seed | `SignerDevice` (`is_compatible_with` and `get_credentials` only read and are not modelled) |
| Signer blinding key | signer.cpp 389-428 | the Liquid master blinding key: set, read, and per-script keys derived from it | `SignerDevice` (loaded from a seed and set; reads and per-script derivation are not modelled) |
| Signing | signer.cpp 375-387 | ECDSA over a derived private key | not modelled: pure cryptography |
| Psbt codec | ga_psbt.cpp 156-216 | parse base64, check PSBT vs PSET, upgrade to version 2; serialise with a downgrade to the original version | `PsbtObject` |
| Psbt details | ga_psbt.cpp 251-531 | `to_json`/`get_details`: inputs and outputs to JSON, fee sum and assertion, error elevation, multisig change heuristic, `is_partial` | `PsbtDetails`; its effect on the object in `PsbtObject` |
| Psbt build | ga_psbt.cpp 533-642 | `from_json`: a PSBT built from details JSON, input by input and output by output | `PsbtObject` (composed with `PsbtDetails`) |
| Keypath and script helpers | ga_psbt.cpp 98-149 | `add_keypath(s)`, `add_input_scripts`: keypaths for the Green and user keys on the UTXO's chain, redeem and witness scripts by address type | `PsbtObject` (keys by role and chain, scripts by kind) |
| Session interface | session_impl.hpp | abstract class, declarations only: scriptpubkey data, unblinding, raw transactions, UTXO paths | its answers are the input and output kinds and the UTXO fields (`addr`, `internal`) the PSBT models choose from |
| Utilities | utils.hpp | hex, bytes, random | not modelled: no state |

How the parts interact:
- The session owns one signer, and its threads call the signer concurrently.
- `Psbt::to_json` and `Psbt::from_json` call back into the session for wallet
  data: wallet-script lookup, unblinding, UTXO fetch and keypaths. The session
  in turn asks the signer for xpubs.
- A `Psbt` object itself is used by one thread at a time.

## Modules

### `KeyCache` (signer.cpp)

Several `Threads` share one signer. The state is:
- `masterKey`: `m_master_key` exists, which holds iff the credentials had a seed.
- `cache`: `m_cached_bip32_xpubs`.
- Per thread: `pc`, the call's `path`, its locals `local` (`parent_path`,
  `child_path`, `parent_key`), what it returned (`ret`) and how it ended
  (`outcome`).
- `owner`: the thread holding `m_mutex`, or `NoThread`.

Each region of code that holds `m_mutex` is one atomic step. A step that
takes the lock is enabled only while `owner` is `NoThread` (`Free`): these are
`Search`, the inserts of `MasterStep`, `ParentStep` and `ChildStep`,
`Encache`, and `Call` without a master key (`has_bip32_xpub`).
`std::mutex` is not recursive, so this holds for a thread that holds the lock
itself. A call's end releases a lock it still holds, as its `unique_lock`
goes out of scope (`Finish`). In the code every lock region ends within its
step, so `owner` stays `NoThread`. The mutant `SearchKeepsLock` keeps the
search's lock to the end of the call. Its thread then waits on itself at
`cache_bip32_xpub`, and `CallReturns` fails.

| Action | Source | Step |
|---|---|---|
| `Search` | 270-292 | the search loop |
| `MasterStep` | 293-296 | encache the master key |
| `ParentStep` | 297-302 | derive the parent from the master key and encache it |
| `ChildStep` | 303-312 | derive the child path from the root key and encache it under the full path |
| `Encache` | 348-355 | the session loading an xpub through `cache_bip32_xpub` |
| `Call` | 264-269, 315-334 | a thread entering `get_bip32_xpub`, recording in `guarded` what a preceding `has_bip32_xpub` answered |

A failed `GDK_RUNTIME_ASSERT` ends the call with an outcome other than "ok":
`no_master_key`, `cache_conflict` or `derive_failed`.

Data abstraction:
- BIP-32 derivation is deterministic, so an xpub is identified with its path:
  `XpubOf(p) = p`.
- Public derivation of a suffix is concatenation (`DerivePub`).
- Public derivation through a hardened element fails (`DeriveFails`).

Every entry is inserted by `std::map::emplace` and is the xpub of its path,
so an abstract insert-only cache would hold by those two definitions alone;
the project checks the cache's contents (`XpubsCorrect`) instead.

### `SignerDevice` (signer.cpp)

A session holds a few signers (`Slots`), all on one network (`liquid`).

A JSON input is a record of the fields the code branches on:
- credentials: username, password, a mnemonic that is words, a hex seed or
  neither, a bip39_passphrase that is absent, empty or set, core_descriptors and
  slip132_extended_pubkeys;
- the device: device_type, whether it has a name, supports_liquid and
  supports_low_r, each of which may also be absent or null. The other
  capability flags are defaulted in the same way.

`Construct` is the whole constructor:
- `get_credentials_json` (`GetCredentialsJson`);
- `get_device_json` (`GetDeviceJson`: defaults with `overwrite_null`, the
  green-backend override, the variant checks);
- the Liquid-support check;
- the master key and SLIP-77 key from a seed.

A slot ends `built` or `throws`. `SetMasterBlindingKey` is
`set_master_blinding_key`, where a 32-byte key is zero-padded at the front. A
64-byte key is a pair of halves. The reads of a built signer
(`get_credentials`, `is_compatible_with`) are not modelled: with keys as
halves and credentials as their form, a property over them could only
restate the copy of the key's last half or the erase of
`master_blinding_key`.

### `PsbtObject` (ga_psbt.cpp)

The life of one `Psbt` object, and of a second one built from what the first
produced. The state is:
- `obj`: the object, abstracted to `m_original_version` (`orig`), the internal
  version (`ver`, always 2), the transaction's nVersion (`txver`), and the
  inputs and outputs of `PsbtDetails` with, per input, whether it holds a UTXO
  and which scripts it carries (`scripts`), and per input and output its
  keypaths (`keys`, a set of `[role, internal]`: which key, on which chain).
  Each also carries the session's record of its UTXO, `address_type`
  (`addr`) and `is_internal` (`internal`);
- `origin`: the base64 or details JSON it was constructed from;
- `wire` and `det`: the last `to_base64` and `to_json` outputs, with
  `wireOf` and `detOf` the object as it was when each was produced;
- `copy` and `copyFrom`: the second object, parsed from `wire` or built
  from `det`;
- `last`: whether the last call returned or threw.

| Action | Source | Step |
|---|---|---|
| `Unconstructed` | 535 | a `Psbt` is constructed once, first (`GDK_RUNTIME_ASSERT(!m_psbt)`) |
| `Parse(w)` | 156-174 | `Psbt(base64, is_liquid)`: a PSBT/PSET mismatch throws; the original version is read, then the PSBT is upgraded to 2 |
| `Build(d, fails)` | 176-180, 533-642 | `Psbt(session, details)`: `from_json` (`FromJson`), or a throw from the session's UTXO fetch |
| `ToBase64` | 200-216 | serialises a clone downgraded to the original version |
| `ToJson(f)` | 524-530, 330-389, 251-298 | walks the inputs, fetching and attaching each missing UTXO (`Attach`); input `f`'s fetch fails; then the throws of `get_details` |
| `Reparse`, `Rebuild` | 156-180 | the second object, from `wire` or from `det` |

`to_json`'s per-input and per-output conversion is `PsbtDetails`'
(`PD == INSTANCE PsbtDetails`), so both modules share one translation of
`inputs_to_json` and `outputs_to_json`. `Details` is what `from_json` reads
back of it:
- each input's wallet flag, asset, amount and `skip_signing`, with blinders for
  wallet inputs that have no error;
- each output's fee flag, wallet flag, asset and amount, with blinders only for
  wallet outputs that unblinded (`output_data.update(unblinded)`);
- the UTXO's `address_type` and `is_internal`; for a singlesig session an
  output's `is_internal` is renamed `is_change` (`OutputChain`, 469-476), so
  `from_json` reads it as false.

`FromJson` throws on a top-level error. On Liquid it also throws on an input
or a non-fee output without blinders (`j_rbytesref`). Otherwise it builds the
PSBT (`FromJsonWith`) with `orig = nVersion < 2 ? 0 : 2` and every UTXO
attached. Wallet inputs and outputs get their keypaths (`AddKeypaths`: Green
and user key for multisig, user key for singlesig, on the chain
`j_bool_or_false(utxo, "is_internal")` names), and wallet inputs their scripts
(`InputScripts`: a redeem script for p2sh_p2wpkh, witness and redeem scripts for
csv and p2wsh). The round trip compares `Content`, the PSBT without the
session's record of its UTXOs.

### `UtxoMatch` (ga_psbt.cpp 311-350)

How `inputs_to_json` decides that an input is the wallet's: its
`txhash:vout` is looked up in the caller's `utxos`. These are either a flat
array (`TakeMatchingUtxo`) or the standard object `{asset: [utxo, ...]}`,
walked in key order and stopped at the first list that matches
(`MatchByAsset`). The matched UTXO replaces the input's JSON. `utxos` is taken
by value, and `take_matching_utxo` moves from a const reference, which
copies. So every input is matched against the same, unchanged list
(`InputsMatch`), although the comment says the UTXO is moved into `dst` and
the loop skips empty, moved-from entries.

This is a pure algorithm, checked against references over every utxos
argument of either form with lists of up to 2 UTXOs, over 2 txids, 2 vouts
and the run's assets, and over every list of up to 2 inputs:
- `WalletIffListed` (inputs with distinct outpoints, as in a valid
  transaction): an input matches exactly when its outpoint is among the
  listed UTXOs, and its JSON is the first of them in visiting order
  (`Visited`);
- `UtxoTakenOnce` (any inputs): no listed UTXO becomes the JSON of more
  inputs than it is listed times, as the comment's move would ensure.

`MCPsbtDetails` wraps each as a state invariant, since TLC evaluates the
constant part once.

### `PsbtDetails` (ga_psbt.cpp)

One `to_json` call is one step. Nothing in it is shared or awaited, so only its
input matters. `Init` ranges over every PSBT of bounded shape:
- Every input is a kind, an asset, an amount and a `skip_signing` flag. The
  kind is what `inputs_to_json`'s branches tell apart: wallet, wallet with an
  error, explicit non-wallet, non-wallet without `has_amount`, or missing a
  proof field.
- Every output is a kind (fee, external, wallet, fails to unblind, bad blinding
  status, missing field), an asset and an amount.
- Bitcoin outputs are always external or wallet. Version-2 PSBT parsing
  requires an amount and a script, so the asserts at 419-420 cannot fail after
  a successful parse.

`ToJson` computes what the code computes from these:
- it throws, from a missing PSET field, a bad blinding status or the fee
  assertion, or
- it returns the fee, the top-level error and each output's `is_change`
  ("unset" where the code writes nothing).

## Runs

| Run | cfg | Expect | What it shows |
|---|---|---|---|
| key_cache | MCKeyCache.cfg | pass | `XpubsCorrect`: every cached or returned xpub is the one for its path, in every interleaving of two threads' gets and loads. `NoSpuriousFailure`: a get on a signer with a master key, or after `has_bip32_xpub` said yes, never fails by a cache conflict, even when another thread or a load inserts the same parent or full path first. `CallReturns`: under weak fairness per thread, every `get_bip32_xpub` call returns or throws; no thread waits on `m_mutex` while it holds it itself. |
| psbt_details | MCPsbtDetails.cfg | pass | `BalancedPsetAccepted`: a balanced, fully valued Liquid PSET passes the fee assertion, even with non-wallet and non-policy inputs, and its fee is its fee outputs. `WalletIffListed`: an input of a valid transaction is a wallet input exactly when its outpoint is among the caller's UTXOs, in either format, and then carries the first one listed. |
| psbt_object | MCPsbtObject.cfg | pass | `MultisigBtcDetailsRoundTrip`: for a multisig session on Bitcoin, `from_json` of `to_json`'s details of a wallet-built PSBT rebuilds it, keypaths and scripts included. |
| signer_device | MCSignerDevice.cfg | pass | `DeviceWellFormed`: every accepted signer, built from any input JSON on either network, is a consistent variant. Hardware devices are named, green-backend descriptors are canonical, Liquid signers support Liquid, and seed signers are canonical software signers. |
| signer_canonical | MCSignerDeviceCanonical.cfg | violation | A caller's `software` or `watch-only` device JSON is kept with its own (defaulted) flags. The spec says these descriptors are canonical. |
| signer_cred_forms | MCSignerDeviceCredForms.cfg | violation | Credentials carrying two forms are accepted, and the first form in code order silently wins. The spec requires exactly one. |
| psbt_spec_fee | MCPsbtDetailsSpecFee.cfg | violation | Spec 8.3's fee invariant, over wallet inputs and outputs only, is not what the code computes. The code sums every input and output. |
| psbt_change_comment | MCPsbtDetailsChange.cfg | violation | `ChangeMarked`: the change heuristic's comment marks a wallet output as change when an asset has several wallet outputs; an output that fails to unblind is a wallet output but is skipped before it is counted, so none is marked. |
| utxo_taken_once | MCPsbtDetailsUtxo.cfg | violation | `UtxoTakenOnce`: `take_matching_utxo` copies instead of moving, so two inputs on one outpoint both take the one listed UTXO, against its comment. |
| psbt_details_roundtrip | MCPsbtObjectRoundTrip.cfg | violation | Spec 8.2's details round trip for a singlesig session on Bitcoin: the rebuilt change output gets its keypath on the external chain. |
| psbt_liquid_roundtrip | MCPsbtObjectLiquidRoundTrip.cfg | violation | Spec 8.2's details round trip for a multisig session on Liquid: `from_json` throws on `to_json`'s details of a wallet-built PSET with an external output. |
| psbt_partial_commit | MCPsbtObjectPartial.cfg | violation | Spec 7's "no partial commits" does not hold for `to_json`: a call that throws leaves the UTXOs it fetched attached. |

Bounds for the key cache:
- 2 threads, child numbers {0, 1, H} with H hardened, and 5 requestable paths.
- The paths are the root, a hardened prefix `<<H>>` with one and two
  non-hardened children, and a non-hardened-only path `<<0>>`: a get takes
  each of its routes (cached, from a cached parent, parent derived, master,
  public from the master).
- The session can load the root and `<<H>>`.
- With these, two threads race on the same parent and on the same full path. A
  get also finds a prefix that another thread or a load has just inserted, on
  signers with and without a master key.

The signer_device run builds one signer from each of the 6 × 2 × 4 × 4 device
records and 144 credential records of the abstraction, on both networks, and
then sets a full and a half blinding key. That covers every branch of
`get_credentials_json` and `get_device_json`.

The key cache run has no symmetry reduction, which is unsound for liveness;
with the 5 paths TLC checks the safety and liveness properties together in
about half a minute.

The `PsbtDetails` runs enumerate all PSBTs of up to 2 inputs and 2 or 3
outputs, over two assets. The amounts are {1, 2}, or {1} when there are 3
outputs. That is enough for:
- a balanced PSET with a non-wallet input;
- a non-policy input;
- two wallet outputs of one asset, one of which may fail to unblind (the
  change run, one wallet input of 2 paying two outputs of 1);
- an external output beside a wallet output.

The `PsbtObject` runs parse every PSBT of up to 2 inputs (wallet, explicit
non-wallet, or missing a proof, with or without a UTXO) and 2 outputs (fee,
external, wallet). The PSBTs are on both containers, at versions 0 and 2 and
nVersion 1 and 2. The runs also build from every wallet details JSON of that
size, balanced with one fee output on Liquid, with or without a top-level
error, for both singlesig and multisig sessions. Each wallet UTXO is on either
chain, with either address type of its session kind (p2sh_p2wpkh or p2wpkh;
csv or p2wsh). One asset and one amount suffice, because these properties are about
versions, UTXOs and blinders, not sums. The model has inputs whose UTXO is
missing, a fetch failing at either input, and PSETs with external outputs.

Fairness: only `key_cache` assumes any, `WF_vars(Progress(t))` for each
thread `t`. `Progress(t)` is the thread's locked steps inside
`get_bip32_xpub`. None of them waits on anything except `m_mutex`, and every
holder releases it at the end of its step. So a thread that can take its next
step keeps being able to, until it takes it. `Call` and `Encache` are not
fair: a caller need not call, and the session need not load. The other
properties are safety properties.
`CHECK_DEADLOCK FALSE` is used for `PsbtDetails` and `PsbtObject`, where one
call, or one object's life, really ends. The mutant `ParentStepFresh` makes a
thread insert a parent only if it is still absent. That thread then waits for
an insertion that never comes, and `CallReturns` fails.

## Findings

- **Spec 8.3 and the code's fee sum disagree.** `get_details` sums the policy
  asset over all inputs without an error and all non-fee outputs. The spec
  states the sum over wallet inputs and wallet outputs. A PSET paying 1 from a
  wallet input to an external address, with no fee output, is accepted by the
  code, while the spec's equation fails.
- **The change heuristic does not count a wallet output that fails to
  unblind.** `is_wallet_output` (ga_psbt.cpp 454) holds for it, but the
  `continue` at 463 skips it before change detection. A Liquid multisig PSET
  with one wallet input and two wallet outputs of the policy asset, the
  second failing to unblind, has no output marked change, while the comment
  at 512-514 marks one when there are multiple wallet outputs of an asset.
- **A matched UTXO is copied, not moved.** `take_matching_utxo` says it
  moves the match into `dst` and skips empty entries, but it iterates a const
  reference, so `std::move` copies and nothing is ever empty. Two inputs
  spending one outpoint both take the same UTXO. A valid transaction never
  does this, so it matters only for a malformed PSBT.

- **Software and watch-only descriptors are not canonical.**
  `get_device_json` (signer.cpp 119-130) replaces only a green-backend
  descriptor. A caller's software or watch-only JSON keeps its own flags
  and has only missing ones defaulted: `{device_type: "software"}` with no
  flags builds a software signer with `supports_low_r` false and
  `supports_liquid` none, and no master key. TLC may print this or another
  such JSON (for example one giving `supports_liquid` "lite", on Liquid).
- **Several credential forms are accepted.** `get_credentials_json` takes the
  first form present, in the order username, mnemonic, descriptors, and drops
  the rest without an error. Spec 4.2 requires exactly one.

- **The details round trip fails on Liquid** (psbt_liquid_roundtrip: two
  csv wallet inputs, an external output and a fee output). `outputs_to_json` gives
  blinders only to wallet outputs that unblind (ga_psbt.cpp 459-466).
  `from_json` reads `amountblinder` and `assetblinder` from every non-fee
  Liquid output (617-620) and throws without them. Spec 8.2 says
  `from_details(to_details(P)) ≡ P` for a wallet-built `P`.
- **The details round trip loses the chain of singlesig change.** For a
  singlesig session `outputs_to_json` renames a wallet output's `is_internal`
  to `is_change` (472). `add_keypaths` reads `is_internal` with
  `j_bool_or_false` (116), so the rebuilt PSBT derives change keypaths on the
  external chain. Nothing throws (psbt_details_roundtrip: one p2sh_p2wpkh
  wallet input and one change output). For a multisig session on Bitcoin the round
  trip holds, keypaths and scripts included.
- **`to_json` commits partially.** The const method attaches each fetched UTXO
  to `m_psbt` (356) as it walks the inputs. When a later fetch, a missing
  proof, an output or the fee assertion throws, the object keeps the UTXOs
  already attached. Spec 7 says the engine does no partial commits.

## Not modelled

- **Not modelled at all**:
  - signing and blinding-key derivation, which are pure cryptography;
  - the bytes of keys, scripts, proofs and commitments: keypaths are modelled
    by role and chain and scripts by kind. The recovery key of a 2of3
    subaccount is never given a keypath (a FIXME in `add_keypaths`), and the
    model adds the keys the code adds;
  - outpoints inside `PsbtDetails`: its inputs are the kinds the match in
    `UtxoMatch` gives them, checked on their own;
  - which input's message the top-level `error` carries: the code keeps the
    last erroring input's (265), but the wallet UTXO's error text comes from
    the session, outside this repository, and spec 7 names one input error
    text, so the model cannot tell the messages apart faithfully;
  - `get_credentials` and `is_compatible_with`, reads of a built signer;
  - `Psbt::swap`, `extract` and `set_input_finalization_data`: a member-wise
    exchange, a wally call, and the copy of a signed input's final scripts
    into the PSBT, which no property reads;
  - session_impl.hpp: declarations only, with no implementation in this
    repository; utils.hpp: byte, hex and random helpers without state;
  - logging;
  - the JSON layout.
