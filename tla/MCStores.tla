------------------------------- MODULE MCStores -------------------------------
(* The stores of the simulator that share its mutex and nothing else: the     *)
(* requests about them come in any order.                                     *)
EXTENDS LocalAuthList, Certificates

CONSTANTS alice, bob, cert1, cert2

MCTags == {alice, bob}
MCCertificates == {cert1, cert2}
MCInfos == {"Accepted"}

StoresInit == ListInit /\ CertificateInit

StoresNext ==
    \/ ListNext /\ UNCHANGED certificateVars
    \/ CertificateNext /\ UNCHANGED listVars

StoresSpec == StoresInit /\ [][StoresNext]_<<listVars, certificateVars>>
=============================================================================
