\* One get_details call on every multisig PSBT/PSET of up to 2 inputs and
\* 3 outputs, on either network.
CONSTANTS
    Assets = {P, A}
    Amounts = {1}
    MaxIn = 2
    MaxOut = 3
    Networks <- DetailsNetworks
    Electrums <- FeeElectrums
    InputKinds <- DetailsInputKinds
    OutputKinds <- DetailsOutputKinds
CONSTANTS
    Policy = P
    NoError = NoError
    WalletErr = WalletErr
    UnblindErr = UnblindErr
SPECIFICATION Spec
CHECK_DEADLOCK FALSE
INVARIANT TypeOK BalancedPsetAccepted WalletIffListed
