---------------------------- MODULE MCSignerDevice ----------------------------
(* Model-checking instances of SignerDevice.                              *)
EXTENDS SignerDevice

MCZero == "zero"
MCSeedHalves == <<"seed_hi", "seed_lo">>
\* A full-size and a half-size blinding_key_hex.
MCKeyHexes == {<<"hi2", "lo2">>, <<"lo3">>}

\* Every hw_device and credentials JSON of the abstraction.
AllDevices == DeviceRec
AllCreds == CredRec

=============================================================================
