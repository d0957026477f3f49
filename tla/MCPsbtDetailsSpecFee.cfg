\* Spec 8.3's fee invariant against the code's sums.
CONSTANTS
    Assets = {P, A}
    Amounts = {1, 2}
    MaxIn = 2
    MaxOut = 2
    Networks <- FeeNetworks
    Electrums <- FeeElectrums
    InputKinds <- FeeInputKinds
    OutputKinds <- FeeOutputKinds
CONSTANTS
    Policy = P
    NoError = NoError
    WalletErr = WalletErr
    UnblindErr = UnblindErr
SPECIFICATION Spec
CHECK_DEADLOCK FALSE
INVARIANT SpecFeeInvariant
