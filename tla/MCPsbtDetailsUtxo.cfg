\* Matching inputs against the caller's UTXOs, against the "move it into
\* dst" comment of take_matching_utxo.
CONSTANTS
    Assets = {P, A}
    Amounts = {1}
    MaxIn = 1
    MaxOut = 1
    Networks <- FeeNetworks
    Electrums <- FeeElectrums
    InputKinds <- ChangeInputKinds
    OutputKinds <- ChangeOutputKinds
CONSTANTS
    Policy = P
    NoError = NoError
    WalletErr = WalletErr
    UnblindErr = UnblindErr
SPECIFICATION Spec
CHECK_DEADLOCK FALSE
INVARIANT UtxoTakenOnce
