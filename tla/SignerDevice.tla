----------------------------- MODULE SignerDevice -----------------------------
(***************************************************************************)
(* Signer construction and the master blinding key (src/src/signer.cpp).  *)
(*                                                                         *)
(* A session builds signers from (network, hw_device JSON, credentials     *)
(* JSON): get_credentials_json sanitises the credentials, get_device_json  *)
(* merges the device descriptor with defaults, and the constructor rejects *)
(* Liquid on a device without Liquid support and loads the master key and  *)
(* SLIP-77 blinding key from a seed.  set_master_blinding_key later        *)
(* replaces the blinding key.                                              *)
(*                                                                         *)
(* Data abstraction.  A JSON input is a record of the fields the code      *)
(* branches on: a field is "absent", "null" or a value; a mnemonic is      *)
(* "words" (contains a space), "hex" (129 characters ending in 'X') or     *)
(* "bad".  Of the capability flags, supports_low_r and supports_liquid     *)
(* stand for all: the others are defaulted and overridden the same way.   *)
(* A 64-byte blinding key is a pair of 32-byte halves.                     *)
(***************************************************************************)
EXTENDS Naturals, Sequences, SequencesExt, FiniteSets

CONSTANTS
    Slots,        \* signers the session holds at once
    Networks,     \* subset of BOOLEAN: is_liquid
    DeviceInputs, \* hw_device["device"] JSONs callers pass (DeviceRec)
    CredInputs,   \* credentials JSONs callers pass (CredRec)
    KeyHexes,     \* blinding_key_hex arguments of set_master_blinding_key
    Zero,         \* 32 zero bytes
    SeedHalves    \* the two halves of the SLIP-77 key derived from a seed

DeviceTypes == {"hardware", "software", "watch-only", "green-backend"}
Unset == {"absent", "null"}

DeviceRec == [type : Unset \cup DeviceTypes \cup {"bogus"}, name : BOOLEAN,
              liquid : Unset \cup {"none", "lite"}, lowR : Unset \cup {"true", "false"}]
CredRec == [username : BOOLEAN, password : BOOLEAN,
            mnemonic : {"absent", "words", "hex", "bad"},
            passphrase : {"absent", "empty", "set"},
            descriptors : BOOLEAN, slip132 : BOOLEAN]

\* Sanitised credentials (m_credentials): which form, and whether a
\* non-empty bip39_passphrase is kept.
CredForms == {"none", "username", "mnemonic", "seed", "core_descriptors", "slip132"}

ASSUME DeviceInputs \subseteq DeviceRec /\ CredInputs \subseteq CredRec

VARIABLES
    liquid,    \* net_params.is_liquid(), shared by the session's signers
    signer     \* each slot: not built, build threw, or the signer's state

vars == <<liquid, signer>>

-----------------------------------------------------------------------------
(* get_credentials_json                                                    *)

Creds(form, pp) == [ok |-> TRUE, form |-> form, passphrase |-> pp]
CredsThrow == [ok |-> FALSE, form |-> "none", passphrase |-> FALSE]

NoCredIn == [username |-> FALSE, password |-> FALSE, mnemonic |-> "absent",
             passphrase |-> "absent", descriptors |-> FALSE, slip132 |-> FALSE]

\* The descriptor watch-only forms, reached when no earlier form matched.
DescriptorCreds(c) ==
    IF c.descriptors THEN IF c.slip132 THEN CredsThrow ELSE Creds("core_descriptors", FALSE)
    ELSE IF c.slip132 THEN Creds("slip132", FALSE)
    ELSE CredsThrow

GetCredentialsJson(c) ==
    IF c = NoCredIn THEN Creds("none", FALSE)
    ELSE IF c.username
    THEN IF c.password THEN Creds("username", FALSE) ELSE CredsThrow
    ELSE IF c.mnemonic = "words"
    THEN IF c.password /\ c.passphrase # "absent" THEN CredsThrow
         ELSE Creds("mnemonic", c.passphrase = "set")
    ELSE IF c.mnemonic = "hex"
    THEN IF c.passphrase # "absent" THEN CredsThrow ELSE Creds("seed", FALSE)
    ELSE DescriptorCreds(c)

HasSeed(cr) == cr.form \in {"mnemonic", "seed"}

-----------------------------------------------------------------------------
(* get_device_json                                                         *)

Canonical(t) == [type |-> t, name |-> FALSE, liquid |-> "lite", lowR |-> "true"]
GREEN_DEVICE_JSON == Canonical("green-backend")
WATCH_ONLY_DEVICE_JSON == Canonical("watch-only")
SOFTWARE_DEVICE_JSON == Canonical("software")

EmptyDevice == [type |-> "absent", name |-> FALSE, liquid |-> "absent", lowR |-> "absent"]

\* Mutant: json_add_if_missing without overwrite_null.
AddIfMissingKeepNull(v, d) == IF v = "absent" THEN d ELSE v

\* json_add_if_missing(ret, key, default, overwrite_null = true).
AddIfMissing(v, d) == IF v \in Unset THEN d ELSE v

WithDefaults(d) ==
    [d EXCEPT !.lowR = AddIfMissing(@, "false"),
              !.liquid = AddIfMissing(@, "none"),
              !.type = AddIfMissing(@, "hardware")]

Dev(d) == [ok |-> TRUE, dev |-> d]
DevThrow == [ok |-> FALSE, dev |-> EmptyDevice]

\* Mutant: a green-backend descriptor is not replaced by the canonical one.
CheckDeviceNoGreen(d) ==
    CASE d.type = "hardware" -> IF d.name THEN Dev(d) ELSE DevThrow
      [] d.type \in {"software", "watch-only", "green-backend"} -> Dev(d)
      [] OTHER -> DevThrow

\* The variant checks on the merged descriptor.
CheckDevice(d) ==
    CASE d.type = "hardware" -> IF d.name THEN Dev(d) ELSE DevThrow
      [] d.type = "green-backend" -> Dev(GREEN_DEVICE_JSON)
      [] d.type \in {"software", "watch-only"} -> Dev(d)
      [] OTHER -> DevThrow

\* hw is hw_device.value("device", {}): an empty hw_device is EmptyDevice.
GetDeviceJson(hw, cr) ==
    IF hw # EmptyDevice
    THEN IF cr.form # "none" THEN DevThrow ELSE CheckDevice(WithDefaults(hw))
    ELSE IF cr.form \in {"username", "slip132", "core_descriptors"}
    THEN CheckDevice(WithDefaults(WATCH_ONLY_DEVICE_JSON))
    ELSE IF HasSeed(cr) THEN CheckDevice(WithDefaults(SOFTWARE_DEVICE_JSON))
    ELSE DevThrow

-----------------------------------------------------------------------------
(* The blinding key                                                        *)

NoKey == <<>>
SeedKey == SeedHalves

\* set_master_blinding_key: a 32-byte key is zero-padded at the front.
PadKey(hex) == IF Len(hex) = 1 THEN <<Zero, hex[1]>> ELSE hex

-----------------------------------------------------------------------------

NotBuilt == [state |-> "none"]
Threw == [state |-> "throws"]

Init ==
    /\ liquid \in Networks
    /\ signer = [s \in Slots |-> NotBuilt]

\* signer::signer(net_params, hw_device, credentials).
Construct(s, hw, c) ==
    LET cr == GetCredentialsJson(c)
        dv == GetDeviceJson(hw, cr)
    IN
    /\ signer[s] = NotBuilt
    /\ signer' = [signer EXCEPT ![s] =
         IF ~cr.ok \/ ~dv.ok \/ (liquid /\ dv.dev.liquid = "none") THEN Threw
         ELSE [state |-> "built", hw |-> hw, cin |-> c,
               creds |-> [form |-> cr.form, passphrase |-> cr.passphrase],
               device |-> dv.dev, masterKey |-> HasSeed(cr),
               blinding |-> IF liquid /\ HasSeed(cr) THEN SeedKey ELSE NoKey]]
    /\ UNCHANGED liquid

\* set_master_blinding_key(hex): an empty hex is ignored; a size other
\* than 32 or 64 bytes fails GDK_RUNTIME_ASSERT before anything changes.
SetMasterBlindingKey(s, hex) ==
    /\ signer[s].state = "built"
    /\ hex # <<>> /\ Len(hex) \in {1, 2}
    /\ signer' = [signer EXCEPT ![s].blinding = PadKey(hex)]
    /\ UNCHANGED liquid

Next ==
    \/ \E s \in Slots, hw \in DeviceInputs, c \in CredInputs : Construct(s, hw, c)
    \/ \E s \in Slots, hex \in KeyHexes : SetMasterBlindingKey(s, hex)

Spec == Init /\ [][Next]_vars

-----------------------------------------------------------------------------
(* Properties                                                              *)

Built(s) == signer[s].state = "built"

TypeOK ==
    /\ liquid \in BOOLEAN
    /\ \A s \in Slots :
          \/ signer[s] \in {NotBuilt, Threw}
          \/ /\ Built(s)
             /\ signer[s].creds \in [form : CredForms, passphrase : BOOLEAN]
             /\ signer[s].device \in [type : DeviceTypes, name : BOOLEAN,
                                      liquid : {"none", "lite"}, lowR : {"true", "false"}]
             /\ signer[s].masterKey \in BOOLEAN

\* Every signer the constructor lets through is of a consistent variant: a
\* hardware device is named, a green-backend signer has the canonical
\* descriptor whatever the caller's JSON said, a Liquid signer's device
\* supports Liquid, and a signer with a master key has the canonical
\* software descriptor (credentials and a device never mix).
DeviceWellFormed ==
    \A s \in Slots : Built(s) =>
        LET d == signer[s].device IN
        /\ d.type = "hardware" => d.name
        /\ d.type = "green-backend" => d = GREEN_DEVICE_JSON
        /\ liquid => d.liquid # "none"
        /\ signer[s].masterKey => d = SOFTWARE_DEVICE_JSON

\* Spec 4.1: watch-only and software descriptors have fixed canonical
\* values.  get_device_json keeps a caller's "software" or "watch-only"
\* device JSON, only defaulting missing flags.
CanonicalDescriptors ==
    \A s \in Slots : Built(s) /\ signer[s].device.type \in {"software", "watch-only"} =>
        signer[s].device = Canonical(signer[s].device.type)

\* Spec 4.2: without a device, exactly one credential form is given:
\* a mnemonic or hex seed, a username, core descriptors or SLIP-132 keys.
CredFormsGiven(c) ==
    {f \in {"username", "mnemonic", "core_descriptors", "slip132"} :
        \/ f = "username" /\ c.username
        \/ f = "mnemonic" /\ c.mnemonic \in {"words", "hex"}
        \/ f = "core_descriptors" /\ c.descriptors
        \/ f = "slip132" /\ c.slip132}

ExactlyOneCredentialForm ==
    \A s \in Slots : Built(s) /\ signer[s].hw = EmptyDevice => Cardinality(CredFormsGiven(signer[s].cin)) = 1

=============================================================================
