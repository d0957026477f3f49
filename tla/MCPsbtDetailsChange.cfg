\* The multisig change heuristic against its comment, on Liquid PSETs
\* whose wallet outputs may fail to unblind.
CONSTANTS
    Assets = {P}
    Amounts = {1, 2}
    MaxIn = 1
    MaxOut = 2
    Networks <- ChangeNetworks
    Electrums <- FeeElectrums
    InputKinds <- ChangeInputKinds
    OutputKinds <- ChangeOutputKinds
CONSTANTS
    Policy = P
    NoError = NoError
    WalletErr = WalletErr
    UnblindErr = UnblindErr
SPECIFICATION Spec
CHECK_DEADLOCK FALSE
INVARIANT ChangeMarked
