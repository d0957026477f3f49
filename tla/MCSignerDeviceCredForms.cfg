\* One signer, built from every hw_device and credentials JSON on either
\* network, then given full- and half-size blinding keys.
CONSTANTS
    Slots = {s1}
    Networks = {TRUE, FALSE}
    DeviceInputs <- AllDevices
    CredInputs <- AllCreds
    KeyHexes <- MCKeyHexes
    Zero <- MCZero
    SeedHalves <- MCSeedHalves
SPECIFICATION Spec
CHECK_DEADLOCK FALSE
INVARIANT ExactlyOneCredentialForm
