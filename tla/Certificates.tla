----------------------------- MODULE Certificates -----------------------------
(***************************************************************************)
(* The certificate store of the simulator (internal/ocppclient/            *)
(* simulator_security_extensions.go): certificates the central system      *)
(* installs, lists and deletes, and the station's own chain.               *)
(*                                                                         *)
(* A certificate is installed as a sequence of PEM blocks, listed by its   *)
(* hash and deleted by its hash, in which the letters may be of either     *)
(* case.  Every request is one critical section.  The central system keeps *)
(* accounts of what it has installed, by the answers it gets.              *)
(* Definitions marked "faulty variant" are no part of the specification.   *)
(***************************************************************************)
EXTENDS SequencesExt

CONSTANTS
    Certificate,  \* the certificates in play, each with a hash of its own
    NoUse         \* neither installed nor deleted

ASSUME NoUseAssumption == NoUse \notin {"CentralSystemRootCertificate", "ManufacturerRootCertificate"}

VARIABLES
    installedCertificates,    \* simulator.installedCertificates, by hash key
    stationCertificateChain,  \* simulator.stationCertificateChain
    accounts                  \* the use the central system installed each one for

certificateVars == <<installedCertificates, stationCertificateChain, accounts>>

CertificateUse == {"CentralSystemRootCertificate", "ManufacturerRootCertificate"}
LetterCase == {"lower", "upper"}

\* A PEM block: a certificate, a block of type CERTIFICATE that does not parse, or
\* one of another type.
Block == Certificate \cup {"malformed", "other"}
Chain == BoundedSeq(Block, 2)

\* certificateHash: the numbers are spelled with letters of one case.
Hash == [of : Certificate, letters : LetterCase]
CertificateHash(certificate) == [of |-> certificate, letters |-> "upper"]

\* Faulty variant: the letters are compared as they are.
HashKeyAsSpelled(hash) == hash
\* certificateHashKey
HashKey(hash) == CertificateHash(hash.of)

\* parseFirstCertificate: the first block of the type decides.  The certificate is
\* a set of one, or empty where that block does not parse or there is none.
FirstOfType(chain) ==
    {chain[i] : i \in {n \in DOMAIN chain :
                         chain[n] # "other" /\ \A m \in 1 .. (n - 1) : chain[m] = "other"}}
FirstCertificate(chain) == FirstOfType(chain) \cap Certificate

CertificateInit ==
    /\ installedCertificates = [key \in Hash |-> NoUse]
    /\ stationCertificateChain = <<>>
    /\ accounts = [certificate \in Certificate |-> NoUse]

\* OnCertificateSigned
CertificateSigned(chain) ==
    /\ FirstCertificate(chain) # {}
    /\ stationCertificateChain' = chain
    /\ UNCHANGED <<installedCertificates, accounts>>

\* OnInstallCertificate, when it is accepted: one certificate has one use.
InstallCertificate(chain, use) ==
    \E certificate \in FirstCertificate(chain) :
        /\ installedCertificates' =
              [installedCertificates EXCEPT ![HashKey(CertificateHash(certificate))] = use]
        /\ accounts' = [accounts EXCEPT ![certificate] = use]
        /\ UNCHANGED stationCertificateChain

\* OnGetInstalledCertificateIds
InstalledCertificateIds(use) ==
    {CertificateHash(key.of) : key \in {k \in Hash : installedCertificates[k] = use}}

\* OnDeleteCertificate: Accepted, or NotFound, when the central system too takes
\* the certificate to be gone.
DeleteCertificate(hash) ==
    /\ installedCertificates' = [installedCertificates EXCEPT ![HashKey(hash)] = NoUse]
    /\ accounts' = [accounts EXCEPT ![hash.of] = NoUse]
    /\ UNCHANGED stationCertificateChain

CertificateNext ==
    \/ \E chain \in Chain : CertificateSigned(chain)
    \/ \E chain \in Chain, use \in CertificateUse : InstallCertificate(chain, use)
    \/ \E hash \in Hash : DeleteCertificate(hash)

CertificateSpec == CertificateInit /\ [][CertificateNext]_certificateVars

-----------------------------------------------------------------------------
\* What the station lists for a use is what the central system installed for it
\* last and has not deleted since, however it spelled the hash; a certificate
\* installed again for the other use is listed once.
ListingMatchesAccounts ==
    \A use \in CertificateUse :
        InstalledCertificateIds(use) =
            {CertificateHash(c) : c \in {d \in Certificate : accounts[d] = use}}

\* The inductive invariant behind it: a certificate has one key, whatever spelling
\* it was deleted or installed by, and nothing is stored under another.
CertificateInv ==
    /\ installedCertificates \in [Hash -> CertificateUse \cup {NoUse}]
    /\ accounts \in [Certificate -> CertificateUse \cup {NoUse}]
    /\ \A c \in Certificate : installedCertificates[CertificateHash(c)] = accounts[c]
    /\ \A key \in Hash : key # CertificateHash(key.of) => installedCertificates[key] = NoUse
=============================================================================
