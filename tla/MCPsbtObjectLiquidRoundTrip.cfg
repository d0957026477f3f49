\* Multisig on Liquid: a wallet-built Psbt read as details and built again.
CONSTANTS
    Assets = {P}
    Amounts = {1}
    MaxIn = 2
    MaxOut = 2
    Networks <- MCLiquid
    Electrums = {FALSE}
    InputKinds <- MCInputKinds
    OutputKinds <- MCOutputKinds
    TxVersions <- MCTxVersions
    Wires <- MCWires
    WalletDetails <- MCWalletDetails
CONSTANTS
    Policy = P
    NoError = NoError
    WalletErr = WalletErr
    UnblindErr = UnblindErr
SPECIFICATION Spec
CHECK_DEADLOCK FALSE
INVARIANT DetailsRoundTrip
