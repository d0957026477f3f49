------------------------------ MODULE PsbtDetails ------------------------------
(***************************************************************************)
(* Psbt::get_details / Psbt::to_json (src/src/ga_psbt.cpp): the parse     *)
(* pipeline that turns a version-2 PSBT/PSET into the wallet's details     *)
(* JSON.  inputs_to_json walks the inputs, matching each against the       *)
(* wallet's UTXOs; outputs_to_json walks the outputs, classifying each     *)
(* through the session and collecting the data for the multisig change     *)
(* heuristic; get_details then sums the policy asset, checks the sum       *)
(* against the explicit fee output (Liquid) and elevates input errors.     *)
(*                                                                         *)
(* The call is sequential and touches no shared state (a Psbt is not       *)
(* thread-safe and callers serialise it), so one call is one step.  The    *)
(* PSBT it is called on is chosen in Init from every PSBT of the bounded   *)
(* shapes below.  Bytes, scripts and JSON layout are abstracted away: an   *)
(* input or output is its kind (what the code's branches distinguish), its *)
(* asset and its amount.                                                   *)
(***************************************************************************)
EXTENDS Integers, Sequences, SequencesExt, FiniteSets, FiniteSetsExt

CONSTANTS
    Assets,      \* asset ids
    Policy,      \* the network's policy asset ("btc" when not Liquid)
    Amounts,     \* satoshi values
    MaxIn,       \* most inputs in a PSBT
    MaxOut,      \* most outputs in a PSBT
    Networks,    \* subset of {"liquid", "bitcoin"} to explore
    Electrums,   \* subset of BOOLEAN: singlesig (electrum) and/or multisig
    InputKinds,  \* subset of AllInputKinds to explore
    OutputKinds, \* subset of AllOutputKinds to explore
    NoError, WalletErr, UnblindErr  \* error strings (model values)

(* What an input looks like to inputs_to_json:                            *)
(*   "wallet"        a UTXO in the utxos argument matches txid:vout        *)
(*   "wallet_error"  it matches, and the wallet's UTXO JSON has an error   *)
(*   "explicit"      no match; PSET input has_amount and the explicit      *)
(*                   asset, value proof and asset proof fields             *)
(*   "no_amount"     no match; PSET input without has_amount               *)
(*   "missing_proof" no match; has_amount but a proof field is missing     *)
AllInputKinds == {"wallet", "wallet_error", "explicit", "no_amount", "missing_proof"}
WalletKinds == {"wallet", "wallet_error"}

(* What an output looks like to outputs_to_json:                          *)
(*   "fee"           Liquid: blinding status NONE and no script            *)
(*   "external"      scriptpubkey_data(script) is empty                    *)
(*   "wallet"        scriptpubkey_data non-empty (and unblinds on Liquid)  *)
(*   "unblind_fails" wallet script whose unblind_output returns an error   *)
(*   "bad_blinding"  Liquid: status NONE with a script, or partly blinded  *)
(*   "missing_field" Liquid: FULL, but one of the eight fields is missing  *)
AllOutputKinds == {"fee", "external", "wallet", "unblind_fails", "bad_blinding",
                   "missing_field"}

ASSUME Policy \in Assets /\ InputKinds \subseteq AllInputKinds
ASSUME OutputKinds \subseteq AllOutputKinds

InputRec == [kind : InputKinds, asset : Assets, amount : Amounts, skip : BOOLEAN]
OutputRec == [kind : OutputKinds, asset : Assets, amount : Amounts]

VARIABLES
    liquid,      \* m_is_liquid
    electrum,    \* net_params.is_electrum(): singlesig
    ins,         \* the PSBT's inputs
    outs,        \* the PSBT's outputs
    status,      \* "parsed", then "done" or "throws"
    result       \* the details JSON returned

vars == <<liquid, electrum, ins, outs, status, result>>

-----------------------------------------------------------------------------
(* inputs_to_json                                                          *)

\* j_assetref(m_is_liquid, json) == policy_asset: always true off Liquid.
IsPolicy(a) == ~liquid \/ a = Policy

\* The JSON of one input.  set_pset_field throws when a field is missing.
InputToJson(in) ==
    LET wallet == in.kind \in WalletKinds IN
    [wallet  |-> wallet,
     asset   |-> IF liquid THEN in.asset ELSE Policy,
     satoshi |-> IF liquid /\ in.kind = "no_amount" THEN 0 ELSE in.amount,
     error   |-> IF in.kind = "wallet_error" THEN WalletErr
                 ELSE IF liquid /\ in.kind = "no_amount" THEN UnblindErr
                 ELSE NoError,
     skip    |-> IF wallet THEN in.skip ELSE TRUE]

InputThrows(in) == liquid /\ in.kind = "missing_proof"

\* wallet_assets: the assets of wallet inputs.
WalletAssets(js) == {js[i].asset : i \in {i \in DOMAIN js : js[i].wallet}}

-----------------------------------------------------------------------------
(* outputs_to_json                                                         *)

\* Liquid: a missing out_asset or FULL field throws user_error, a bad
\* blinding status fails GDK_RUNTIME_ASSERT.
OutputThrows(o) == liquid /\ o.kind \in {"bad_blinding", "missing_field"}

\* An unblinded Liquid output without a script is the fee: `continue`.
IsFeeOutput(o) == liquid /\ o.kind = "fee"

\* The JSON of one output; "counted" marks the outputs that reach the
\* change-detection block (not the fee, not a failed unblind).
OutputToJson(o) ==
    [asset   |-> IF liquid THEN o.asset ELSE Policy,
     satoshi |-> o.amount,
     noScript |-> IsFeeOutput(o),
     wallet  |-> o.kind = "wallet",
     counted |-> o.kind \in {"wallet", "external"}]

\* asset_outputs[a]: indices of counted wallet outputs of asset a, in order.
AssetOutputs(js, a) ==
    SelectSeq([i \in 1..Len(js) |-> i],
              LAMBDA i : js[i].counted /\ js[i].wallet /\ js[i].asset = a)

\* spent_assets: assets of counted non-wallet outputs.
SpentAssets(js) == {js[i].asset : i \in {i \in DOMAIN js : js[i].counted /\ ~js[i].wallet}}

\* The multisig heuristic: for each asset the wallet funded and received,
\* the first such wallet output is change iff the asset was also sent
\* elsewhere or there are several wallet outputs of it.  Other outputs
\* keep whatever the session data said ("unset" here).
ChangeFlags(js, wa) ==
    [i \in 1..Len(js) |->
        IF electrum THEN "unset"
        ELSE LET a == js[i].asset
                 ao == AssetOutputs(js, a)
             IN IF a \in wa /\ ao # <<>> /\ ao[1] = i
                THEN IF a \in SpentAssets(js) \/ Len(ao) > 1 THEN "true" ELSE "false"
                ELSE "unset"]

-----------------------------------------------------------------------------
(* get_details                                                             *)

SumOver(S, f(_)) == MapThenSumSet(f, S)

\* Mutant: the explicit fee output is also subtracted from sum.
SumWithFee(ij, oj) ==
    SumOver({i \in DOMAIN ij : ij[i].error = NoError /\ IsPolicy(ij[i].asset)},
            LAMBDA i : ij[i].satoshi)
    - SumOver({i \in DOMAIN oj : IsPolicy(oj[i].asset)}, LAMBDA i : oj[i].satoshi)

\* sum: policy-asset inputs without error, minus policy-asset outputs that
\* are not the explicit fee.
Sum(ij, oj) ==
    SumOver({i \in DOMAIN ij : ij[i].error = NoError /\ IsPolicy(ij[i].asset)},
            LAMBDA i : ij[i].satoshi)
    - SumOver({i \in DOMAIN oj : IsPolicy(oj[i].asset) /\ ~oj[i].noScript},
              LAMBDA i : oj[i].satoshi)

ExplicitFee(oj) ==
    SumOver({i \in DOMAIN oj : IsPolicy(oj[i].asset) /\ oj[i].noScript},
            LAMBDA i : oj[i].satoshi)

\* Mutant: error = input instead of the input's error string.
LastErrorInput(ij) ==
    LET e == {i \in DOMAIN ij : ij[i].error # NoError} IN
    IF e = {} THEN NoError ELSE ij[Max(e)]

\* error: the error of the last input that has one.
LastError(ij) ==
    LET e == {i \in DOMAIN ij : ij[i].error # NoError} IN
    IF e = {} THEN NoError ELSE ij[Max(e)].error

\* use_error: some input with an error is not skipped while signing.
UseError(ij) == \E i \in DOMAIN ij : ij[i].error # NoError /\ ~ij[i].skip

\* The fee check: GDK_RUNTIME_ASSERT(!liquid || sum == explicit_fee || error).
FeeCheck(ij, oj) ==
    ~liquid \/ Sum(ij, oj) = ExplicitFee(oj) \/ LastError(ij) # NoError

-----------------------------------------------------------------------------

PsbtIns == UNION {[1..n -> InputRec] : n \in 1..MaxIn}
PsbtOuts == UNION {[1..n -> OutputRec] : n \in 1..MaxOut}

\* Psbt(base64, is_liquid): any PSBT of the bounded shapes; off Liquid every
\* output has an amount and a script (the assertions of outputs_to_json).
Init ==
    /\ liquid \in {n = "liquid" : n \in Networks}
    /\ electrum \in Electrums
    /\ ins \in PsbtIns
    /\ outs \in PsbtOuts
    /\ ~liquid => \A i \in DOMAIN outs : outs[i].kind \in {"external", "wallet"}
    /\ status = "parsed"
    /\ result = [fee |-> 0, error |-> NoError, isChange |-> <<>>]

\* to_json(session, utxos): get_details, then is_partial.
ToJson ==
    LET ij == [i \in DOMAIN ins |-> InputToJson(ins[i])]
        oj == [i \in DOMAIN outs |-> OutputToJson(outs[i])]
    IN
    /\ status = "parsed"
    /\ IF \/ \E i \in DOMAIN ins : InputThrows(ins[i])
          \/ \E i \in DOMAIN outs : OutputThrows(outs[i])
          \/ ~FeeCheck(ij, oj)
       THEN /\ status' = "throws"
            /\ UNCHANGED result
       ELSE /\ status' = "done"
            /\ result' =
                 [fee |-> IF liquid THEN ExplicitFee(oj) ELSE Sum(ij, oj),
                  error |-> IF UseError(ij) THEN LastError(ij) ELSE NoError,
                  isChange |-> ChangeFlags(oj, WalletAssets(ij))]
    /\ UNCHANGED <<liquid, electrum, ins, outs>>

Next == ToJson

Spec == Init /\ [][Next]_vars

-----------------------------------------------------------------------------
(* Properties.  They are stated over the PSBT itself (kinds, assets and    *)
(* amounts), not over the JSON the code builds.                           *)

TypeOK ==
    /\ liquid \in BOOLEAN /\ electrum \in BOOLEAN
    /\ ins \in PsbtIns /\ outs \in PsbtOuts
    /\ status \in {"parsed", "done", "throws"}
    /\ result.error \in {NoError, WalletErr, UnblindErr}
    /\ result.isChange \in Seq({"true", "false", "unset"})

PolicyIn(k) == SumOver({i \in DOMAIN ins : ins[i].kind \in k /\ ins[i].asset = Policy},
                       LAMBDA i : ins[i].amount)
PolicyOut(k) == SumOver({i \in DOMAIN outs : outs[i].kind \in k /\ outs[i].asset = Policy},
                        LAMBDA i : outs[i].amount)

\* The PSET's policy asset balances: inputs = outputs + fee outputs.
PolicyBalanced ==
    PolicyIn(AllInputKinds) = PolicyOut(AllOutputKinds \ {"fee"}) + PolicyOut({"fee"})

\* Every input's value is known to the wallet (a wallet UTXO or an
\* explicit PSET value) and every output is well formed.
FullyValued ==
    /\ \A i \in DOMAIN ins : ins[i].kind \in {"wallet", "explicit"}
    /\ \A i \in DOMAIN outs : outs[i].kind \in {"fee", "external", "wallet"}

\* A balanced, fully valued Liquid PSET is accepted by get_details, and its
\* fee is the sum of its fee outputs: the running sum over the JSON of
\* wallet and non-wallet inputs and of non-fee outputs must match the
\* explicit fee, or the GDK_RUNTIME_ASSERT rejects a valid transaction.
BalancedPsetAccepted ==
    liquid /\ PolicyBalanced /\ FullyValued /\ status # "parsed"
        => status = "done" /\ result.fee = PolicyOut({"fee"})

\* Spec 8.3: on Liquid either an input error is present or the wallet's
\* policy-asset inputs equal its policy-asset outputs plus the fee output.
SpecFeeInvariant ==
    liquid /\ status = "done" /\ result.error = NoError
        => PolicyIn(WalletKinds) = PolicyOut({"wallet"}) + PolicyOut({"fee"})

\* The comment of the multisig change heuristic (ga_psbt.cpp 512-514):
\* when the wallet funded an asset and either sent it elsewhere and to
\* itself, or has multiple wallet outputs of it, a wallet output of that
\* asset is marked as change.  A wallet output is one whose script the
\* session knows (is_wallet_output, 454), whether or not it unblinds; the
\* `continue` at 463 leaves an output that fails to unblind out of the
\* count.
WalletOutsOf(a) ==
    {i \in DOMAIN outs : outs[i].kind \in {"wallet", "unblind_fails"}
                        /\ OutputToJson(outs[i]).asset = a}
Funded == {InputToJson(ins[i]).asset : i \in {i \in DOMAIN ins : ins[i].kind \in WalletKinds}}
SentOut(a) == \E i \in DOMAIN outs : outs[i].kind = "external" /\ OutputToJson(outs[i]).asset = a

ChangeMarked ==
    ~electrum /\ status = "done" =>
        \A a \in Funded :
            (WalletOutsOf(a) # {} /\ SentOut(a)) \/ Cardinality(WalletOutsOf(a)) >= 2
                => \E i \in WalletOutsOf(a) : result.isChange[i] = "true"

=============================================================================
