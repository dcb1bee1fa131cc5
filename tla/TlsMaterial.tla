---------------------------- MODULE TlsMaterial ----------------------------
(***************************************************************************)
(* The server's TLS certificate and private key across its restarts        *)
(* (get_tls_material in aperturec-server/src/server.rs, Material in        *)
(* aperturec-channel/src/tls.rs).  A generated pair is written to two      *)
(* files, one after the other, and a later start reads them back and       *)
(* generates another pair unless they still serve.  A start may also be    *)
(* configured with the operator's own files, which are used unchecked.     *)
(*                                                                         *)
(* A generated pair is known by its number, which stands for the key pair  *)
(* and for the certificate signed with it.  The process may stop at any    *)
(* point, in the middle of a file too.                                     *)
(***************************************************************************)
EXTENDS Integers, Sequences

CONSTANTS
  ExternalAddresses,  \* external_addresses of the configuration
  EarlierAddresses,   \* those of an earlier run, which may have left its files
  Ips,                \* the addresses that parse as an IpAddr
  MaxPairs,           \* bound: generated pairs
  MaxFaults           \* bound: stops of the server and lost connections

ASSUME MaterialAssumption == MaxPairs \in Nat \ {0} /\ MaxFaults \in Nat

VARIABLES
  cert_pem,      \* the certificate's file: Absent, Torn or a pair's number
  key_pem,       \* the private key's file
  tls_material,  \* the certificate and the key the server holds
  subjects,      \* the subject alternative names of each generated certificate
  starting,      \* how far the server's start has come
  faults         \* stops of the server and lost connections so far

materialVars == <<cert_pem, key_pem, tls_material, subjects, starting, faults>>

Absent == 0
Torn == -1
Files == {Absent, Torn} \union 1 .. MaxPairs
NoMaterial == [certificate |-> Absent, pkey |-> Absent]

\* The operator's own pairs, of which a configuration may mix the files.
OwnPairs == MaxPairs + 1 .. MaxPairs + 2

MaterialTypeOK ==
  /\ cert_pem \in Files /\ key_pem \in Files
  /\ tls_material \in [certificate : 0 .. MaxPairs + 2, pkey : 0 .. MaxPairs + 2]
  /\ subjects \in Seq(SUBSET (ExternalAddresses \union EarlierAddresses \union {"localhost"})) /\ Len(subjects) <= MaxPairs
  /\ starting \in {"down", "write_cert", "write_key", "up"}
  /\ faults \in 0 .. MaxFaults

\* The files of an earlier run are there or not.
MaterialInit ==
  /\ \/ cert_pem = Absent /\ key_pem = Absent /\ subjects = <<>>
     \/ cert_pem = 1 /\ key_pem = 1 /\ subjects = <<EarlierAddresses \union {"localhost"}>>
  /\ tls_material = NoMaterial
  /\ starting = "down" /\ faults = 0

\* cert_sans: a DNS name reads back as it was written.  An address is stored
\* as its raw bytes, which read as text are not the address.
CertSans(cert) == subjects[cert] \ Ips

\* Mutant: the names are compared, the key is not.
is_valid_for_sans_NamesOnly(cert, pkey, sans) == sans \subseteq CertSans(cert)

is_valid_for_sans(cert, pkey, sans) == cert = pkey /\ sans \subseteq CertSans(cert)

\* from_pem_files followed by the check of the names.
SavedServes ==
  /\ cert_pem > 0 /\ key_pem > 0
  /\ is_valid_for_sans(cert_pem, key_pem, ExternalAddresses)

\* TlsConfiguration::Provided: the files are read, and nothing is checked.
UseProvided ==
  /\ starting = "down"
  /\ tls_material' \in [certificate : OwnPairs, pkey : OwnPairs]
  /\ starting' = "up"
  /\ UNCHANGED <<cert_pem, key_pem, subjects, faults>>

\* The saved pair is used as it is.
UseSaved ==
  /\ starting = "down" /\ SavedServes
  /\ tls_material' = [certificate |-> cert_pem, pkey |-> key_pem]
  /\ starting' = "up"
  /\ UNCHANGED <<cert_pem, key_pem, subjects, faults>>

ec_self_signed ==
  /\ starting = "down" /\ ~SavedServes
  /\ Len(subjects) < MaxPairs
  /\ subjects' = Append(subjects, ExternalAddresses \union {"localhost"})
  /\ tls_material' = [certificate |-> Len(subjects'), pkey |-> Len(subjects')]
  /\ starting' = "write_cert"
  /\ UNCHANGED <<cert_pem, key_pem, faults>>

WriteCert ==
  /\ starting = "write_cert"
  /\ cert_pem' = tls_material.certificate
  /\ starting' = "write_key"
  /\ UNCHANGED <<key_pem, tls_material, subjects, faults>>

WriteKey ==
  /\ starting = "write_key"
  /\ key_pem' = tls_material.pkey
  /\ starting' = "up"
  /\ UNCHANGED <<cert_pem, tls_material, subjects, faults>>

\* The process ends, or a write fails and new returns its error: the file
\* being written may be left torn.
Stop ==
  /\ starting # "down" /\ faults < MaxFaults
  /\ cert_pem' \in IF starting = "write_cert" THEN {cert_pem, Torn} ELSE {cert_pem}
  /\ key_pem' \in IF starting = "write_key" THEN {key_pem, Torn} ELSE {key_pem}
  /\ starting' = "down" /\ tls_material' = NoMaterial
  /\ faults' = faults + 1
  /\ UNCHANGED subjects

get_tls_material == UseProvided \/ UseSaved \/ ec_self_signed \/ WriteCert \/ WriteKey
=============================================================================
