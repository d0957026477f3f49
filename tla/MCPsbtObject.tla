---------------------------- MODULE MCPsbtObject ----------------------------
(* Model-checking instances of PsbtObject: the base64 PSBTs a caller may  *)
(* parse and the details JSONs a wallet may build from, over one asset    *)
(* and one amount, up to 2 inputs and 2 outputs.                          *)
EXTENDS PsbtObject

MCTxVersions == {1, 2}
MCInputKinds == {"wallet", "explicit", "missing_proof"}
MCOutputKinds == {"fee", "external", "wallet"}

\* Inputs and outputs of a base64 PSBT, with or without a UTXO per input.
WireIns == UNION {[1..n -> [kind : InputKinds, asset : Assets, amount : Amounts,
                            skip : {FALSE}, utxo : BOOLEAN, addr : {"none"},
                            internal : {FALSE}, keys : {{}}, scripts : {{}}]] : n \in 1..MaxIn}
WireOuts == UNION {[1..n -> [kind : OutputKinds, asset : Assets, amount : Amounts,
                             internal : {FALSE}, keys : {{}}]] : n \in 1..MaxOut}

\* A PSET is always version 2; a Bitcoin PSBT has no fee output.
MCWires ==
    {w \in [state : {"wire"}, elements : BOOLEAN, version : {0, 2}, txver : TxVersions,
            ins : WireIns, outs : WireOuts] :
        /\ w.elements => w.version = 2
        /\ ~w.elements => \A k \in DOMAIN w.outs : w.outs[k].kind # "fee"}

\* Details of a transaction the wallet created: wallet inputs and outputs
\* that carry their blinders, possibly a top-level error.  A wallet UTXO
\* is on either chain; a singlesig one is p2sh_p2wpkh or p2wpkh, a
\* multisig one csv or p2wsh.
AddrTypes(e) == IF e THEN {"p2sh_p2wpkh", "p2wpkh"} ELSE {"csv", "p2wsh"}
DetailIns(e) == UNION {[1..n -> [wallet : {TRUE}, asset : Assets, amount : Amounts,
                                 skip : BOOLEAN, blinders : {TRUE}, addr : AddrTypes(e),
                                 internal : BOOLEAN]] : n \in 1..MaxIn}
DetailOuts == UNION {[1..n -> {o \in [fee : BOOLEAN, wallet : BOOLEAN, asset : Assets,
                                      amount : Amounts, blinders : {TRUE},
                                      internal : BOOLEAN] :
                                  /\ o.fee => ~o.wallet
                                  /\ o.internal => o.wallet}] : n \in 1..MaxOut}

AmountOf(s) == MapThenSumSet(LAMBDA k : s[k].amount, DOMAIN s)

\* On Liquid: balanced, with exactly one fee output; on Bitcoin: no fee output.
WalletDetailsBy ==
    [l \in BOOLEAN, e \in BOOLEAN |->
    {d \in [state : {"details"}, txver : TxVersions, error : {NoError, WalletErr},
            ins : DetailIns(e), outs : DetailOuts] :
        IF l THEN /\ AmountOf(d.ins) = AmountOf(d.outs)
                  /\ Cardinality({k \in DOMAIN d.outs : d.outs[k].fee}) = 1
        ELSE \A k \in DOMAIN d.outs : ~d.outs[k].fee}]

\* Computed once: TLC evaluates a constant definition at start-up.
MCWalletDetails(l, e) == WalletDetailsBy[l, e]

MCBothNetworks == {"liquid", "bitcoin"}
MCBitcoin == {"bitcoin"}
MCLiquid == {"liquid"}
=============================================================================
