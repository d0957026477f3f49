\* A to_json that throws, on either network: what it leaves on the Psbt.
CONSTANTS
    Assets = {P}
    Amounts = {1}
    MaxIn = 2
    MaxOut = 2
    Networks <- MCBothNetworks
    Electrums = {FALSE}
    InputKinds <- MCInputKinds
    OutputKinds <- MCOutputKinds
    TxVersions <- MCTxVersions
    Wires <- MCWires
    WalletDetails <- MCWalletDetails
CONSTANTS
    Policy = P
    NoError = NoError
    WalletErr = WalletErr
    UnblindErr = UnblindErr
SPECIFICATION Spec
CHECK_DEADLOCK FALSE
PROPERTY NoPartialCommit
