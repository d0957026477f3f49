---------------------------- MODULE MCPsbtDetails ----------------------------
(* Model-checking instances of PsbtDetails: each cfg picks the network,   *)
(* the wallet type and the input and output kinds its question needs.    *)
EXTENDS PsbtDetails

\* Liquid only, every input kind that does not throw, the outputs a
\* wallet-built PSET has: spec 8.3's fee invariant.
FeeNetworks == {"liquid"}
FeeElectrums == {FALSE}
FeeInputKinds == {"wallet", "wallet_error", "explicit", "no_amount"}
FeeOutputKinds == {"fee", "external", "wallet"}

\* Both networks, multisig, every input kind that does not throw and the
\* outputs of a wallet-built PSET plus one that fails to unblind: the fee
\* assertion's and the change heuristic's questions together.
DetailsNetworks == {"liquid", "bitcoin"}
DetailsInputKinds == {"wallet", "wallet_error", "explicit", "no_amount"}
DetailsOutputKinds == {"fee", "external", "wallet", "unblind_fails"}

\* Liquid multisig, wallet inputs, wallet outputs that do or do not
\* unblind: the change heuristic against its comment.
ChangeNetworks == {"liquid"}
ChangeInputKinds == {"wallet"}
ChangeOutputKinds == {"fee", "wallet", "unblind_fails"}

\* The outpoint match that gives an input its wallet kind, over two txids,
\* two vouts, lists of up to two UTXOs and PSBTs of up to two inputs.
UM == INSTANCE UtxoMatch WITH TxHashes <- {"h1", "h2"}, Vouts <- {0, 1}, MaxList <- 2

\* Spec 4.5.1: once to_json has walked the inputs of a valid transaction,
\* an input was taken as a wallet input exactly when its outpoint is
\* listed, and then carries the first listed UTXO (UtxoMatch; TLC
\* evaluates the constant part once).
WalletIffListed == status # "parsed" => UM!WalletIffListed

\* The comment at ga_psbt.cpp 310: once to_json has walked the inputs, no
\* listed UTXO was moved into more inputs than it is listed times.
UtxoTakenOnce == status # "parsed" => UM!UtxoTakenOnce
=============================================================================
