------------------------------ MODULE UtxoMatch ------------------------------
(***************************************************************************)
(* How Psbt::inputs_to_json (src/src/ga_psbt.cpp) decides that an input    *)
(* belongs to the wallet: its txid:vout is looked up in the caller's       *)
(* utxos, either a flat array (deprecated) or the standard JSON object     *)
(* { asset: [utxo, ...] }, whose items nlohmann::json walks in key order.  *)
(* The matched UTXO's JSON replaces the input's own JSON (dst).            *)
(*                                                                         *)
(* A pure algorithm: the operators below are checked against a reference  *)
(* (the set and the order of the listed UTXOs) over every utxos argument  *)
(* and every sequence of input outpoints of the bounded shapes.           *)
(* PsbtDetails starts from its result: an input's kind says whether it    *)
(* matched.                                                               *)
(***************************************************************************)
EXTENDS Sequences, SequencesExt, FiniteSets

CONSTANTS
    Assets,     \* asset ids, the keys of the standard utxos object
    TxHashes,   \* txids (strings)
    Vouts,      \* output indices (pt_idx)
    MaxList     \* most UTXOs in one list, most inputs in one PSBT

\* An input's outpoint: its txhash and psbt_input.index.
Outpoint == [txhash : TxHashes, vout : Vouts]

\* A wallet UTXO JSON, abstracted to what the match reads and its asset.
Utxo == [txhash : TxHashes, vout : Vouts, asset : Assets]

\* dst when nothing matched: the input's own tx.input_to_json(i).
InputJson == [txhash |-> "input"]

OutpointOf(u) == [txhash |-> u.txhash, vout |-> u.vout]

NoMatch == [found |-> FALSE, utxo |-> InputJson]

\* take_matching_utxo: the first UTXO of the list whose pt_idx and txhash
\* are the input's.  u is a const reference, so std::move(u) copies it
\* into dst and the list is left as it was.
RECURSIVE TakeMatchingUtxo(_, _)
TakeMatchingUtxo(us, op) ==
    IF us = <<>> THEN NoMatch
    ELSE IF Head(us).vout = op.vout /\ Head(us).txhash = op.txhash
         THEN [found |-> TRUE, utxo |-> Head(us)]
         ELSE TakeMatchingUtxo(Tail(us), op)

\* Mutant: the loop over the assets has no break, so belongs_to_wallet is
\* the last list's answer while dst keeps the last match.
RECURSIVE MatchByAssetNoBreak(_, _)
MatchByAssetNoBreak(items, op) ==
    IF items = <<>> THEN NoMatch
    ELSE LET r == TakeMatchingUtxo(Head(items).utxos, op)
             rest == MatchByAssetNoBreak(Tail(items), op)
         IN [found |-> IF Tail(items) = <<>> THEN r.found ELSE rest.found,
             utxo |-> IF rest.utxo # InputJson THEN rest.utxo ELSE r.utxo]

\* The standard format: each asset's list in key order, stopping at the
\* first list with a match.
RECURSIVE MatchByAsset(_, _)
MatchByAsset(items, op) ==
    IF items = <<>> THEN NoMatch
    ELSE LET r == TakeMatchingUtxo(Head(items).utxos, op) IN
         IF r.found THEN r ELSE MatchByAsset(Tail(items), op)

\* belongs_to_wallet and dst for one input, by the form of utxos.
MatchInput(utxos, op) ==
    IF utxos.flat THEN TakeMatchingUtxo(utxos.list, op)
    ELSE MatchByAsset(utxos.items, op)

\* The loop over the inputs: every input is matched against the same,
\* never modified, utxos.
InputsMatch(utxos, ops) == [i \in DOMAIN ops |-> MatchInput(utxos, ops[i])]

-----------------------------------------------------------------------------
(* Bounded inputs                                                          *)

Lists(S) == UNION {[1..n -> S] : n \in 0..MaxList}

\* A flat array, or an object: distinct asset keys, in key order, each
\* holding a non-empty list of UTXOs of that asset.
UtxoArgs ==
    {[flat |-> TRUE, list |-> l] : l \in Lists(Utxo)}
    \cup
    {[flat |-> FALSE, items |-> s] :
        s \in {s \in UNION {[1..n -> [asset : Assets, utxos : Lists(Utxo)]]
                             : n \in 0..Cardinality(Assets)} :
                 /\ IsInjective([k \in DOMAIN s |-> s[k].asset])
                 /\ \A k \in DOMAIN s : /\ s[k].utxos # <<>>
                                         /\ \A j \in DOMAIN s[k].utxos :
                                               s[k].utxos[j].asset = s[k].asset}}

\* The listed UTXOs in the order the code visits them.
Visited(utxos) ==
    IF utxos.flat THEN utxos.list
    ELSE FlattenSeq([k \in DOMAIN utxos.items |-> utxos.items[k].utxos])

-----------------------------------------------------------------------------

\* Spec 4.5.1 (inputs_to_json): an input of a valid transaction (no two
\* inputs spend one outpoint) belongs to the wallet exactly when its
\* outpoint is among the caller's UTXOs, under whichever asset key and in
\* either format; its JSON is then the first such UTXO the walk visits.
\* A break missing from the asset loop, or a match on one field only,
\* breaks it.
WalletIffListed ==
    \A utxos \in UtxoArgs, ops \in {o \in Lists(Outpoint) \ {<<>>} : IsInjective(o)} :
        LET m == InputsMatch(utxos, ops) IN
        \A i \in DOMAIN ops :
            LET hits == SelectSeq(Visited(utxos), LAMBDA u : OutpointOf(u) = ops[i]) IN
            /\ m[i].found <=> hits # <<>>
            /\ m[i].utxo = IF hits = <<>> THEN InputJson ELSE Head(hits)

\* The comment of take_matching_utxo (ga_psbt.cpp 310, "move it into
\* dst") and its !u.empty() test (316) describe a UTXO that, once taken
\* by an input, is no longer there for a later input: no listed UTXO
\* becomes the JSON of more inputs than it is listed times.
UtxoTakenOnce ==
    \A utxos \in UtxoArgs, ops \in Lists(Outpoint) :
        LET m == InputsMatch(utxos, ops) IN
        \A u \in Utxo :
            Cardinality({i \in DOMAIN ops : m[i].found /\ m[i].utxo = u})
                <= Cardinality({k \in DOMAIN Visited(utxos) : Visited(utxos)[k] = u})

=============================================================================
