\* One Psbt on either network, parsed from any bounded base64 PSBT or built
\* from any bounded wallet details, then serialised, read and copied.
CONSTANTS
    Assets = {P}
    Amounts = {1}
    MaxIn = 2
    MaxOut = 2
    Networks <- MCBothNetworks
    Electrums = {FALSE, TRUE}
    InputKinds <- MCInputKinds
    OutputKinds <- MCOutputKinds
    TxVersions <- MCTxVersions
    Wires <- MCWires
    WalletDetails <- MCWalletDetails
CONSTANTS
    Policy = P
    NoError = NoError
    WalletErr = WalletErr
    UnblindErr = UnblindErr
SPECIFICATION Spec
CHECK_DEADLOCK FALSE
INVARIANT TypeOK MultisigBtcDetailsRoundTrip
