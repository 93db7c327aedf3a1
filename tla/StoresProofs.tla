----------------------------- MODULE StoresProofs -----------------------------
(* Proofs about LocalAuthList, for any tags, contents and number of versions,  *)
(* and about Certificates, for any certificates.                               *)
EXTENDS LocalAuthList, Certificates, TLAPS

-----------------------------------------------------------------------------
\* The updates the central system makes of its versions are updates.
LEMMA FullUpdateType ==
    ASSUME contents \in [Version -> Content], NEW v \in Version
    PROVE  FullUpdate(v) \in Update
BY DEF FullUpdate, Update, Content

LEMMA DifferentialUpdateType ==
    ASSUME contents \in [Version -> Content], NEW v \in Version
    PROVE  DifferentialUpdate(v) \in Update
BY DEF DifferentialUpdate, Update, Content

\* An update that is accepted leaves a list.
LEMMA UpdatedType ==
    ASSUME localAuthList \in Content, NEW m \in Update
    PROVE  Updated(m) \in Content
BY DEF Updated, Content, Update

\* A full update brings about its version, whatever the list was.
LEMMA FullUpdateBringsAbout ==
    ASSUME contents \in [Version -> Content], NEW v \in Version
    PROVE  Updated(FullUpdate(v)) = contents[v]
<1>1. contents[v] \in Content
  OBVIOUS
<1>2. contents[v] = [tag \in IdTag |-> contents[v][tag]]
  BY <1>1 DEF Content
<1>3. \A tag \in IdTag : Updated(FullUpdate(v))[tag] = contents[v][tag]
  BY DEF Updated, FullUpdate
<1>4. Updated(FullUpdate(v)) = [tag \in IdTag |-> Updated(FullUpdate(v))[tag]]
  BY DEF Updated
<1> QED
  BY <1>2, <1>3, <1>4

\* A differential update brings about its version, from the version before it.
LEMMA DifferentialUpdateBringsAbout ==
    ASSUME contents \in [Version -> Content], NEW v \in Version, v - 1 \in Version,
           localAuthList = contents[v - 1]
    PROVE  Updated(DifferentialUpdate(v)) = contents[v]
<1>1. contents[v] \in Content
  OBVIOUS
<1>2. contents[v] = [tag \in IdTag |-> contents[v][tag]]
  BY <1>1 DEF Content
<1>3. \A tag \in IdTag : Updated(DifferentialUpdate(v))[tag] = contents[v][tag]
  BY DEF Updated, DifferentialUpdate
<1>4. Updated(DifferentialUpdate(v)) = [tag \in IdTag |-> Updated(DifferentialUpdate(v))[tag]]
  BY DEF Updated
<1> QED
  BY <1>2, <1>3, <1>4

-----------------------------------------------------------------------------
\* The invariant holds initially.
LEMMA InitEstablishesListInv == ListInit => ListInv
<1> SUFFICES ASSUME ListInit PROVE ListInv
  OBVIOUS
<1>1. 0 \in Version
  BY MaxVersionAssumption DEF Version
<1>2. Empty \in Content
  BY DEF Empty, Content
<1>3. ListTypeOK
  BY <1>1, <1>2 DEF ListInit, ListTypeOK
<1> QED
  BY <1>1, <1>3 DEF ListInit, ListInv, VersionNamesContent

\* The station's answer to an update that was sent, or to a malformed one.
LEMMA SendLocalListKeepsListInv ==
    ASSUME ListInv, NEW m \in Update, m \in requests \/ m.repeats, SendLocalList(m)
    PROVE  ListInv'
<1> USE DEF ListInv, ListTypeOK
<1>1. CASE ~Accepts(m)
  BY <1>1 DEF SendLocalList, stationVars, VersionNamesContent, FullUpdate, DifferentialUpdate
<1>2. CASE Accepts(m)
  <2>1. /\ m \in requests /\ m.version \in Version /\ m.version > localAuthListVersion
        /\ localAuthList' = Updated(m) /\ localAuthListVersion' = m.version
        /\ replies' = replies \cup {m.version}
        /\ UNCHANGED <<contents, latest, requests, known>>
    BY <1>2 DEF Accepts, SendLocalList, Update
  <2>2. m.version \in 1 .. latest /\ latest \in Nat /\ localAuthListVersion \in Nat /\ known \in Nat
    BY <2>1, MaxVersionAssumption DEF Version
  <2>3. Updated(m) = contents[m.version]
    <3>1. CASE m = FullUpdate(m.version)
      BY <2>1, <3>1, FullUpdateBringsAbout
    <3>2. CASE m = DifferentialUpdate(m.version) /\ m.version <= known + 1
      <4>1. localAuthListVersion = m.version - 1
        BY <2>1, <2>2, <3>2 DEF VersionNamesContent
      <4>2. Updated(DifferentialUpdate(m.version)) = contents[m.version]
        BY <2>1, <4>1, DifferentialUpdateBringsAbout DEF VersionNamesContent
      <4> QED
        BY <3>2, <4>2
    <3> QED
      BY <2>1, <3>1, <3>2
  <2>4. ListTypeOK'
    BY <2>1, UpdatedType
  <2>5. VersionNamesContent'
    BY <2>1, <2>2, <2>3 DEF VersionNamesContent
  <2>6. \A v \in replies' : v <= localAuthListVersion'
    BY <2>1, <2>2, MaxVersionAssumption DEF Version
  <2> QED
    BY <2>1, <2>2, <2>4, <2>5, <2>6 DEF FullUpdate, DifferentialUpdate
<1> QED
  BY <1>1, <1>2

\* A new version changes no version an update was made of.
LEMMA ReviseKeepsListInv ==
    ASSUME ListInv, NEW content \in Content, Revise(content)
    PROVE  ListInv'
<1> USE DEF ListInv, ListTypeOK
<1>1. /\ latest \in Nat /\ latest + 1 \in Version /\ latest' = latest + 1
      /\ localAuthListVersion \in Nat /\ known \in Nat
      /\ UNCHANGED <<localAuthList, localAuthListVersion, requests, replies, known>>
  BY MaxVersionAssumption DEF Revise, Version, stationVars
<1>2. /\ contents' \in [Version -> Content]
      /\ \A v \in Version : v <= latest => contents'[v] = contents[v]
  BY <1>1 DEF Revise
<1>3. ListTypeOK'
  BY <1>1, <1>2
<1>4. VersionNamesContent'
  BY <1>1, <1>2 DEF VersionNamesContent
<1>5. contents'[0] = Empty
  BY <1>1, <1>2, MaxVersionAssumption DEF Version
<1>6. ASSUME NEW m \in requests'
      PROVE  /\ m.version \in 1 .. latest' /\ ~m.repeats
             /\ \/ m = FullUpdate(m.version)'
                \/ m = DifferentialUpdate(m.version)' /\ m.version <= known' + 1
  <2>1. m \in requests /\ m.version \in 1 .. latest /\ m.version \in Version
    BY <1>1 DEF Update
  <2>2. m.version - 1 \in Version /\ m.version - 1 <= latest
    BY <1>1, <2>1, MaxVersionAssumption DEF Version
  <2>3. contents'[m.version] = contents[m.version] /\ contents'[m.version - 1] = contents[m.version - 1]
    BY <1>1, <1>2, <2>1, <2>2
  <2>4. FullUpdate(m.version)' = FullUpdate(m.version)
    BY <2>1, <2>3 DEF FullUpdate
  <2>5. DifferentialUpdate(m.version)' = DifferentialUpdate(m.version)
    BY <2>1, <2>3 DEF DifferentialUpdate
  <2> QED
    BY <1>1, <2>1, <2>4, <2>5
<1> QED
  BY <1>1, <1>3, <1>4, <1>5, <1>6

\* The updates sent are of versions there are, the differential ones from what
\* the central system knows.
LEMMA SendKeepsListInv ==
    ASSUME ListInv, SendDifferential \/ \E v \in Version : SendFull(v)
    PROVE  ListInv'
<1> USE DEF ListInv, ListTypeOK
<1>1. PICK m : /\ requests' = requests \cup {m} /\ m \in Update
               /\ m.version \in 1 .. latest /\ ~m.repeats
               /\ \/ m = FullUpdate(m.version)
                  \/ m = DifferentialUpdate(m.version) /\ m.version <= known + 1
               /\ UNCHANGED <<localAuthList, localAuthListVersion, contents, latest, replies, known>>
  <2>1. CASE SendDifferential
    <3>1. known + 1 \in Version /\ known + 1 \in 1 .. latest /\ known \in Nat
      BY <2>1, MaxVersionAssumption DEF SendDifferential, Version
    <3>2. DifferentialUpdate(known + 1) \in Update
      BY <3>1, DifferentialUpdateType
    <3> WITNESS DifferentialUpdate(known + 1)
    <3> QED
      BY <2>1, <3>1, <3>2 DEF SendDifferential, Send, DifferentialUpdate, stationVars
  <2>2. ASSUME NEW v \in Version, SendFull(v)
        PROVE  \E m : /\ requests' = requests \cup {m} /\ m \in Update
                      /\ m.version \in 1 .. latest /\ ~m.repeats
                      /\ \/ m = FullUpdate(m.version)
                         \/ m = DifferentialUpdate(m.version) /\ m.version <= known + 1
                      /\ UNCHANGED <<localAuthList, localAuthListVersion, contents, latest, replies, known>>
    <3>1. FullUpdate(v) \in Update
      BY FullUpdateType
    <3> WITNESS FullUpdate(v)
    <3> QED
      BY <2>2, <3>1 DEF SendFull, Send, FullUpdate, stationVars
  <2> QED
    BY <2>1, <2>2
<1> QED
  BY <1>1 DEF VersionNamesContent, FullUpdate, DifferentialUpdate

\* What the central system learns was so, and versions only grow.
LEMMA LearnKeepsListInv ==
    ASSUME ListInv, NEW v \in Version, Learn(v)
    PROVE  ListInv'
<1> USE DEF ListInv, ListTypeOK
<1>1. /\ v <= localAuthListVersion /\ v \in Nat /\ known \in Nat
      /\ known' = IF v > known THEN v ELSE known
      /\ UNCHANGED <<localAuthList, localAuthListVersion, contents, latest, requests, replies>>
  BY MaxVersionAssumption DEF Learn, Version, stationVars
<1>2. known' \in Version /\ known <= known' /\ known' <= localAuthListVersion
  BY <1>1 DEF VersionNamesContent
<1>3. ASSUME NEW m \in requests'
      PROVE  /\ m.version \in 1 .. latest' /\ ~m.repeats
             /\ \/ m = FullUpdate(m.version)'
                \/ m = DifferentialUpdate(m.version)' /\ m.version <= known' + 1
  <2>1. m \in requests /\ m.version \in 1 .. latest /\ m.version \in Nat /\ known' \in Nat
    BY <1>1
  <2> QED
    BY <1>1, <1>2, <2>1 DEF FullUpdate, DifferentialUpdate
<1> QED
  BY <1>1, <1>2, <1>3 DEF VersionNamesContent

\* The station tells the version it has.
LEMMA GetLocalListVersionKeepsListInv ==
    ASSUME ListInv, GetLocalListVersion
    PROVE  ListInv'
BY MaxVersionAssumption DEF ListInv, ListTypeOK, GetLocalListVersion, VersionNamesContent, stationVars,
    FullUpdate, DifferentialUpdate, Version

-----------------------------------------------------------------------------
\* Every step keeps the invariant.
LEMMA ListInvIsInductive == ListInv /\ [ListNext]_listVars => ListInv'
<1> SUFFICES ASSUME ListInv, [ListNext]_listVars PROVE ListInv'
  OBVIOUS
<1>1. ASSUME NEW m \in requests, SendLocalList(m) PROVE ListInv'
  <2>1. m \in Update
    BY DEF ListInv, ListTypeOK
  <2> QED
    BY <1>1, <2>1, SendLocalListKeepsListInv
<1>2. ASSUME NEW m \in Repeating, SendLocalList(m) PROVE ListInv'
  BY <1>2, SendLocalListKeepsListInv DEF Repeating
<1>3. CASE UNCHANGED listVars
  BY <1>3 DEF listVars, stationVars, ListInv, ListTypeOK, VersionNamesContent, FullUpdate,
      DifferentialUpdate
<1> QED
  BY <1>1, <1>2, <1>3, GetLocalListVersionKeepsListInv, ReviseKeepsListInv, SendKeepsListInv,
     LearnKeepsListInv DEF ListNext

\* The station's version names its content, whatever is late, repeated, overtaken,
\* lost or malformed, for any tags, contents and number of versions: OnSendLocalList
\* with its version check makes differential updates safe to repeat.
THEOREM VersionsAreSafe == ListSpec => []VersionNamesContent
<1>1. ListInv => VersionNamesContent
  BY DEF ListInv
<1> QED
  BY <1>1, InitEstablishesListInv, ListInvIsInductive, PTL DEF ListSpec

-----------------------------------------------------------------------------
\* A key is the hash as certificateHash spells it; it is found again from any
\* spelling, and two certificates never share one.
LEMMA OneKeyEach ==
    /\ \A c \in Certificate : CertificateHash(c) \in Hash /\ CertificateHash(c).of = c
    /\ \A hash \in Hash : hash.of \in Certificate /\ HashKey(hash) = CertificateHash(hash.of)
    /\ \A c, d \in Certificate : CertificateHash(c) = CertificateHash(d) => c = d
BY DEF CertificateHash, Hash, HashKey, LetterCase

\* Storing a use under the key of a certificate, and in the accounts, or taking it
\* back in both, keeps them together.
LEMMA StoringKeepsCertificateInv ==
    ASSUME CertificateInv, NEW c \in Certificate, NEW use \in CertificateUse \cup {NoUse},
           installedCertificates' = [installedCertificates EXCEPT ![CertificateHash(c)] = use],
           accounts' = [accounts EXCEPT ![c] = use]
    PROVE  CertificateInv'
<1>1. /\ installedCertificates' \in [Hash -> CertificateUse \cup {NoUse}]
      /\ accounts' \in [Certificate -> CertificateUse \cup {NoUse}]
  BY DEF CertificateInv
<1>2. ASSUME NEW d \in Certificate
      PROVE  installedCertificates'[CertificateHash(d)] = accounts'[d]
  BY OneKeyEach DEF CertificateInv
<1>3. ASSUME NEW key \in Hash, key # CertificateHash(key.of)
      PROVE  installedCertificates'[key] = NoUse
  BY <1>3, OneKeyEach DEF CertificateInv
<1> QED
  BY <1>1, <1>2, <1>3 DEF CertificateInv

LEMMA CertificateInvIsInductive ==
    CertificateInv /\ [CertificateNext]_certificateVars => CertificateInv'
<1> SUFFICES ASSUME CertificateInv, [CertificateNext]_certificateVars PROVE CertificateInv'
  OBVIOUS
<1>1. ASSUME NEW chain \in Chain, CertificateSigned(chain) PROVE CertificateInv'
  BY <1>1 DEF CertificateSigned, CertificateInv
<1>2. ASSUME NEW chain \in Chain, NEW use \in CertificateUse, InstallCertificate(chain, use)
      PROVE  CertificateInv'
  <2>1. PICK c \in Certificate :
          /\ installedCertificates' = [installedCertificates EXCEPT ![HashKey(CertificateHash(c))] = use]
          /\ accounts' = [accounts EXCEPT ![c] = use]
    BY <1>2 DEF InstallCertificate, FirstCertificate
  <2>2. HashKey(CertificateHash(c)) = CertificateHash(c)
    BY OneKeyEach
  <2> QED
    BY <2>1, <2>2, StoringKeepsCertificateInv
<1>3. ASSUME NEW hash \in Hash, DeleteCertificate(hash) PROVE CertificateInv'
  <2>1. hash.of \in Certificate /\ HashKey(hash) = CertificateHash(hash.of)
    BY OneKeyEach
  <2> QED
    BY <1>3, <2>1, StoringKeepsCertificateInv DEF DeleteCertificate
<1>4. CASE UNCHANGED certificateVars
  BY <1>4 DEF certificateVars, CertificateInv
<1> QED
  BY <1>1, <1>2, <1>3, <1>4 DEF CertificateNext

\* Where the two agree key by key, the listings agree.
LEMMA ListingFollows ==
    ASSUME CertificateInv
    PROVE  ListingMatchesAccounts
<1> SUFFICES ASSUME NEW use \in CertificateUse
             PROVE  InstalledCertificateIds(use) =
                      {CertificateHash(c) : c \in {d \in Certificate : accounts[d] = use}}
  BY DEF ListingMatchesAccounts
<1>1. use # NoUse
  BY NoUseAssumption DEF CertificateUse
<1>2. ASSUME NEW key \in Hash, installedCertificates[key] = use
      PROVE  key.of \in Certificate /\ accounts[key.of] = use
  <2>1. key = CertificateHash(key.of) /\ key.of \in Certificate
    BY <1>1, <1>2, OneKeyEach DEF CertificateInv
  <2> QED
    BY <1>2, <2>1 DEF CertificateInv
<1>3. ASSUME NEW c \in Certificate, accounts[c] = use
      PROVE  /\ CertificateHash(c) \in Hash /\ CertificateHash(c).of = c
             /\ installedCertificates[CertificateHash(c)] = use
  BY <1>3, OneKeyEach DEF CertificateInv
<1> QED
  BY <1>2, <1>3 DEF InstalledCertificateIds

\* What the station lists is what the central system installed last and has not
\* deleted since, for any certificates: the key does not depend on the spelling of
\* the hash, so no deletion misses and no certificate is listed twice.
THEOREM ListingsAreExact == CertificateSpec => []ListingMatchesAccounts
<1>1. CertificateInit => CertificateInv
  BY OneKeyEach DEF CertificateInit, CertificateInv
<1> QED
  BY <1>1, CertificateInvIsInductive, ListingFollows, PTL DEF CertificateSpec
=============================================================================
