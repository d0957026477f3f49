------------------------------ MODULE PsbtObject ------------------------------
(***************************************************************************)
(* The life of one green::Psbt object (src/src/ga_psbt.cpp): built by     *)
(* parsing base64 (Psbt(base64, is_liquid)) or from a details JSON        *)
(* (Psbt(session, details, is_liquid) -> from_json), then serialised      *)
(* (to_base64) and read as details (to_json), which fetches and attaches  *)
(* missing input UTXOs to the object as it goes.  A second object, the    *)
(* copy, is built from what the first produced: its base64 or its details *)
(* JSON, for the two round trips of the spec.                             *)
(*                                                                         *)
(* The PSBT is abstracted as in PsbtDetails (inputs and outputs by kind,  *)
(* asset and amount), plus what these operations touch: its original and  *)
(* internal PSBT version, the unsigned transaction's nVersion, and        *)
(* whether each input carries a UTXO, the roles and chains of the         *)
(* keypaths of each input and output and the scripts of each input.       *)
(* An input or output also carries the session's record of its UTXO      *)
(* (address_type and is_internal), keyed in the code by its outpoint or   *)
(* script.  to_json's view of the PSBT is PsbtDetails itself,             *)
(* instantiated on the object's inputs and outputs.                       *)
(***************************************************************************)
EXTENDS Integers, Sequences, SequencesExt, FiniteSets

CONSTANTS
    Assets, Policy, Amounts, MaxIn, MaxOut, Networks, Electrums,
    InputKinds, OutputKinds, NoError, WalletErr, UnblindErr,
    TxVersions,   \* nVersion values of the unsigned transaction
    Wires,           \* base64 PSBTs callers parse (state "wire")
    WalletDetails(_, _) \* details JSONs the wallet builds PSBTs from (network, singlesig)

VARIABLES
    liquid,   \* m_is_liquid (the network)
    electrum, \* the session is singlesig
    origin,   \* what the Psbt was constructed from: a wire or a details JSON
    obj,      \* the Psbt: m_original_version, m_psbt
    wire,     \* the last to_base64 output
    det,      \* the last to_json output
    wireOf,   \* obj as it was when wire was produced
    detOf,    \* obj as it was when det was produced
    copy,     \* the second Psbt, built from wire or det
    copyFrom, \* "none", "wire" or "details"
    last      \* how the last call ended: "none", "ok" or "throws"

vars == <<liquid, electrum, origin, obj, wire, det, wireOf, detOf, copy, copyFrom, last>>

\* get_details' per-input and per-output steps, which read only the
\* network and the element they convert.
PD == INSTANCE PsbtDetails WITH ins <- <<>>, outs <- <<>>, status <- "parsed",
                                result <- <<>>

NoPsbt == [state |-> "none"]
NoWire == [state |-> "none"]
NoDet == [state |-> "none"]

-----------------------------------------------------------------------------
(* Parse and serialise                                                     *)

\* Psbt(base64, is_liquid): a PSBT/PSET mismatch throws; the original
\* version is recorded, then the PSBT is upgraded to version 2.
ParseWire(w) ==
    IF w.elements # liquid THEN [ok |-> FALSE, psbt |-> NoPsbt]
    ELSE [ok |-> TRUE, psbt |-> [state |-> "live", orig |-> w.version, ver |-> 2,
                                 txver |-> w.txver, ins |-> w.ins, outs |-> w.outs]]

\* to_base64: a clone downgraded to the original version is serialised.
Serialise(p) ==
    [state |-> "wire", elements |-> liquid, version |-> p.orig, txver |-> p.txver,
     ins |-> p.ins, outs |-> p.outs]

-----------------------------------------------------------------------------
(* to_json                                                                 *)

\* The first input at which inputs_to_json throws, given the input whose
\* get_raw_transaction_details fails (f, or 0 for none); Len + 1 if none.
ThrowPoint(p, f) ==
    LET bad == {k \in DOMAIN p.ins :
                  \/ k = f
                  \/ PD!InputThrows(p.ins[k])}
    IN IF bad = {} THEN Len(p.ins) + 1 ELSE CHOOSE k \in bad : \A j \in bad : k <= j

\* wally_psbt_set_input_utxo: inputs up to the throw point get their UTXO,
\* the throwing input too unless its fetch was what failed.
Attach(p, f) ==
    LET tp == ThrowPoint(p, f) IN
    [p EXCEPT !.ins = [k \in DOMAIN p.ins |->
        [p.ins[k] EXCEPT !.utxo = @ \/ k < tp \/ (k = tp /\ k # f)]]]

\* Mutant: is_internal renamed to is_change for multisig sessions too.
OutputChainRenamed(o) == FALSE

\* outputs_to_json: the chain (is_internal) a wallet output's details carry.
OutputChain(o) == IF electrum THEN FALSE ELSE o.internal

\* The details JSON: what from_json reads back of each input and output.
\* Wallet inputs and unblinded wallet outputs carry the session's blinders;
\* outputs_to_json writes none for other outputs.  addr and internal are
\* the session's address_type and is_internal for the UTXO.
Details(p) ==
    LET ij == [k \in DOMAIN p.ins |-> PD!InputToJson(p.ins[k])]
        oj == [k \in DOMAIN p.outs |-> PD!OutputToJson(p.outs[k])]
    IN
    [state |-> "details", txver |-> p.txver,
     error |-> IF PD!UseError(ij) THEN PD!LastError(ij) ELSE NoError,
     ins |-> [k \in DOMAIN ij |-> [wallet |-> ij[k].wallet, asset |-> ij[k].asset,
                                   amount |-> ij[k].satoshi, skip |-> ij[k].skip,
                                   blinders |-> ij[k].wallet /\ ij[k].error = NoError,
                                   addr |-> p.ins[k].addr, internal |-> p.ins[k].internal]],
     outs |-> [k \in DOMAIN oj |-> [fee |-> oj[k].noScript, wallet |-> oj[k].wallet,
                                    asset |-> oj[k].asset, amount |-> oj[k].satoshi,
                                    blinders |-> oj[k].wallet /\ oj[k].counted,
                                    internal |-> OutputChain(p.outs[k])]]]

\* get_details throws after the inputs: an output or the fee assertion.
DetailsThrow(p) ==
    \/ \E k \in DOMAIN p.outs : PD!OutputThrows(p.outs[k])
    \/ ~PD!FeeCheck([k \in DOMAIN p.ins |-> PD!InputToJson(p.ins[k])],
                    [k \in DOMAIN p.outs |-> PD!OutputToJson(p.outs[k])])

-----------------------------------------------------------------------------
(* from_json                                                               *)

\* add_keypath: one keypath, a key of the given role derived on the UTXO's
\* chain (get_full_path(subaccount, pointer, is_internal)).
AddKeypath(role, j) == [role |-> role, internal |-> j.internal]

\* add_keypaths: multisig adds the Green key and the user key, singlesig
\* the user key only; is_internal is read with j_bool_or_false, so a JSON
\* without it derives on the external chain.  The recovery key is never
\* added (a FIXME).
AddKeypaths(j) ==
    {AddKeypath(r, j) : r \in IF electrum THEN {"user"} ELSE {"green", "user"}}

\* add_input_scripts: p2sh_p2wpkh gets a redeem script, csv and p2wsh a
\* witness script and a redeem script, other address types none.
InputScripts(j) ==
    CASE j.addr = "p2sh_p2wpkh"       -> {"redeem"}
      [] j.addr \in {"csv", "p2wsh"}  -> {"redeem", "witness"}
      [] OTHER                        -> {}

\* from_json with the original version it records: no top-level error;
\* wallet inputs get their keypaths and scripts, wallet outputs their
\* keypaths; on Liquid every input needs its asset, amount and blinders,
\* every non-fee output its blinders.
FromJsonWith(d, orig) ==
    IF \/ d.error # NoError
       \/ liquid /\ \E k \in DOMAIN d.ins : ~d.ins[k].blinders
       \/ liquid /\ \E k \in DOMAIN d.outs : ~d.outs[k].fee /\ ~d.outs[k].blinders
    THEN [ok |-> FALSE, psbt |-> NoPsbt]
    ELSE [ok |-> TRUE, psbt |->
           [state |-> "live", orig |-> orig, ver |-> 2, txver |-> d.txver,
            ins |-> [k \in DOMAIN d.ins |->
                      LET j == d.ins[k] IN
                      [kind |-> IF j.wallet THEN "wallet" ELSE "explicit",
                       asset |-> j.asset, amount |-> j.amount, skip |-> j.skip,
                       utxo |-> TRUE, addr |-> j.addr, internal |-> j.internal,
                       keys |-> IF j.wallet THEN AddKeypaths(j) ELSE {},
                       scripts |-> IF j.wallet THEN InputScripts(j) ELSE {}]],
            outs |-> [k \in DOMAIN d.outs |->
                      LET j == d.outs[k] IN
                      [kind |-> IF j.fee THEN "fee" ELSE IF j.wallet THEN "wallet" ELSE "external",
                       asset |-> j.asset, amount |-> j.amount, internal |-> j.internal,
                       keys |-> IF j.wallet THEN AddKeypaths(j) ELSE {}]]]]

\* Mutant: m_original_version set to the transaction's nVersion.
FromJsonRawVersion(d) == FromJsonWith(d, d.txver)

\* from_json: m_original_version is 0 for an nVersion below 2, else 2.
FromJson(d) == FromJsonWith(d, IF d.txver < 2 THEN 0 ELSE 2)

-----------------------------------------------------------------------------

Init ==
    /\ liquid \in {n = "liquid" : n \in Networks}
    /\ electrum \in Electrums
    /\ origin = NoPsbt /\ obj = NoPsbt /\ wire = NoWire /\ det = NoDet /\ wireOf = NoPsbt /\ detOf = NoPsbt
    /\ copy = NoPsbt /\ copyFrom = "none" /\ last = "none"

\* The object is constructed once, first.
Unconstructed == obj = NoPsbt /\ last = "none"

\* Psbt(base64, is_liquid).
Parse(w) ==
    LET r == ParseWire(w) IN
    /\ origin' = w
    /\ obj' = r.psbt
    /\ last' = IF r.ok THEN "ok" ELSE "throws"
    /\ UNCHANGED <<liquid, electrum, wire, det, wireOf, detOf, copy, copyFrom>>

\* Psbt(session, details, is_liquid): a throw leaves no object.  fails:
\* the session's get_raw_transaction_details throws for an input's UTXO.
Build(d, fails) ==
    LET r == FromJson(d) IN
    /\ origin' = d
    /\ obj' = IF fails THEN NoPsbt ELSE r.psbt
    /\ last' = IF r.ok /\ ~fails THEN "ok" ELSE "throws"
    /\ UNCHANGED <<liquid, electrum, wire, det, wireOf, detOf, copy, copyFrom>>

\* to_base64(include_redundant).
ToBase64 ==
    /\ obj # NoPsbt /\ copyFrom = "none"
    /\ wire' = Serialise(obj)
    /\ wireOf' = obj
    /\ last' = "ok"
    /\ UNCHANGED <<liquid, electrum, origin, obj, det, detOf, copy, copyFrom>>

\* to_json(session, utxos); f is the input whose raw transaction the
\* session fails to fetch (0: every fetch succeeds).
ToJson(f) ==
    LET p == Attach(obj, f)
        throws == ThrowPoint(obj, f) <= Len(obj.ins) \/ DetailsThrow(obj)
    IN
    /\ obj # NoPsbt /\ copyFrom = "none"
    /\ f = 0 \/ (f \in DOMAIN obj.ins /\ ~obj.ins[f].utxo)
    /\ obj' = p
    /\ det' = IF throws THEN det ELSE Details(p)
    /\ detOf' = IF throws THEN detOf ELSE p
    /\ last' = IF throws THEN "throws" ELSE "ok"
    /\ UNCHANGED <<liquid, electrum, origin, wire, wireOf, copy, copyFrom>>

\* A second Psbt parsed from the base64 the first produced.
Reparse ==
    LET r == ParseWire(wire) IN
    /\ wire # NoWire /\ copyFrom = "none"
    /\ copy' = r.psbt /\ copyFrom' = "wire"
    /\ last' = IF r.ok THEN "ok" ELSE "throws"
    /\ UNCHANGED <<liquid, electrum, origin, obj, wire, det, wireOf, detOf>>

\* A second Psbt built from the details the first produced.
Rebuild ==
    LET r == FromJson(det) IN
    /\ det # NoDet /\ copyFrom = "none"
    /\ copy' = r.psbt /\ copyFrom' = "details"
    /\ last' = IF r.ok THEN "ok" ELSE "throws"
    /\ UNCHANGED <<liquid, electrum, origin, obj, wire, det, wireOf, detOf>>

Next ==
    \/ Unconstructed /\ \E w \in Wires : Parse(w)
    \/ Unconstructed /\ \E d \in WalletDetails(liquid, electrum), fails \in BOOLEAN : Build(d, fails)
    \/ ToBase64
    \/ \E f \in 0..MaxIn : ToJson(f)
    \/ Reparse
    \/ Rebuild

Spec == Init /\ [][Next]_vars

-----------------------------------------------------------------------------
(* Properties                                                              *)

TypeOK ==
    /\ liquid \in BOOLEAN /\ electrum \in BOOLEAN
    /\ last \in {"none", "ok", "throws"}
    /\ copyFrom \in {"none", "wire", "details"}
    /\ obj.state \in {"none", "live"} /\ copy.state \in {"none", "live"}
    /\ obj.state = "live" =>
         /\ obj.ver = 2 /\ obj.orig \in {0, 2} /\ obj.txver \in TxVersions
         /\ Len(obj.ins) \in 1..MaxIn /\ Len(obj.outs) \in 1..MaxOut
         /\ \A k \in DOMAIN obj.ins : obj.ins[k].utxo \in BOOLEAN
                                     /\ obj.ins[k].scripts \subseteq {"redeem", "witness"}
         /\ \A k \in DOMAIN obj.outs : obj.outs[k].keys \subseteq
                                        [role : {"green", "user"}, internal : BOOLEAN]
    /\ wire.state \in {"none", "wire"} /\ det.state \in {"none", "details"}

\* Spec 7 (propagation policy): the engine does no partial commits, so a
\* call on the Psbt that throws leaves it as it was.  to_json attaches
\* fetched UTXOs input by input before a later input, output or the fee
\* assertion throws.
NoPartialCommit == [][last' = "throws" /\ obj # NoPsbt => obj' = obj]_vars

\* What a PSBT holds, without the session's facts about its UTXOs.
Content(p) ==
    [p EXCEPT !.ins = [k \in DOMAIN p.ins |->
                         [f \in DOMAIN p.ins[k] \ {"addr", "internal"} |-> p.ins[k][f]]],
              !.outs = [k \in DOMAIN p.outs |->
                         [f \in DOMAIN p.outs[k] \ {"internal"} |-> p.outs[k][f]]]]

\* Spec 8.2 (details round trip): from_json of to_json's details of a
\* wallet-built Psbt succeeds and builds the same PSBT.
DetailsRoundTrip ==
    origin.state = "details" /\ copyFrom = "details" =>
        copy # NoPsbt /\ Content(copy) = Content(detOf)

\* Spec 8.2 for a multisig session on Bitcoin, where from_json reads no
\* blinders and outputs_to_json keeps is_internal: the details round trip
\* of a wallet-built PSBT rebuilds the same keypaths and scripts.
MultisigBtcDetailsRoundTrip == ~liquid /\ ~electrum => DetailsRoundTrip

=============================================================================
