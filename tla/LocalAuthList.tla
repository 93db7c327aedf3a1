----------------------------- MODULE LocalAuthList -----------------------------
(***************************************************************************)
(* The local authorization list of the simulator (internal/ocppclient/     *)
(* simulator_optional_profiles.go) and a central system that keeps it up   *)
(* to date.                                                                *)
(*                                                                         *)
(* The list carries a version, chosen by the central system.  An update    *)
(* replaces the list or changes some entries of it; it is handled in one   *)
(* critical section.  Requests and replies may be delayed, overtaken,      *)
(* repeated (the central system tries again) or lost: what was sent stays  *)
(* around and is handled any number of times.                              *)
(*                                                                         *)
(* The central system is not part of the repository.  It is assumed to     *)
(* give every version one content, and to send a differential update only  *)
(* from the version it knows the station to have to the next one.          *)
(* Definitions marked "faulty variant" are no part of the specification.   *)
(***************************************************************************)
EXTENDS Integers

CONSTANTS
    IdTag,      \* the tags in play
    IdTagInfo,  \* what the list may say of a tag
    NoInfo,     \* a tag that is not listed; in an update: take it off the list
    MaxVersion  \* bound: versions of the list

ASSUME NoInfoAssumption == NoInfo \notin IdTagInfo
ASSUME MaxVersionAssumption == MaxVersion \in Nat

VARIABLES
    localAuthList,         \* simulator.localAuthList
    localAuthListVersion,  \* simulator.localAuthListVersion
    contents,              \* the content of each version the central system made
    latest,                \* the latest of these versions
    requests,              \* the updates the central system has sent
    replies,               \* the versions the station has said to have
    known                  \* the version the central system takes it to have

stationVars == <<localAuthList, localAuthListVersion>>
listVars == <<stationVars, contents, latest, requests, replies, known>>

Version == 0 .. MaxVersion
Content == [IdTag -> IdTagInfo \cup {NoInfo}]
Empty == [tag \in IdTag |-> NoInfo]

\* An update says of each tag of the set tags what info says.  When it repeats, a
\* tag is in its entries more than once.
Update == [version : Version, full : BOOLEAN, tags : SUBSET IdTag, info : Content, repeats : BOOLEAN]

ListTypeOK ==
    /\ localAuthList \in Content
    /\ localAuthListVersion \in Version
    /\ contents \in [Version -> Content]
    /\ latest \in Version
    /\ requests \subseteq Update
    /\ replies \subseteq Version
    /\ known \in Version

ListInit ==
    /\ localAuthList = Empty
    /\ localAuthListVersion = 0
    /\ contents = [v \in Version |-> Empty]
    /\ latest = 0
    /\ requests = {}
    /\ replies = {}
    /\ known = 0

-----------------------------------------------------------------------------
(* The station.                                                             *)

\* Faulty variant: an older version is taken.
AcceptsAnyVersion(m) == ~m.repeats
\* OnSendLocalList: VersionMismatch and Failed leave the list alone.
Accepts(m) == m.version > localAuthListVersion /\ ~m.repeats

\* The list after the update: an entry without an idTagInfo takes the tag off.
Updated(m) ==
    [tag \in IdTag |-> IF tag \in m.tags THEN m.info[tag]
                       ELSE IF m.full THEN NoInfo ELSE localAuthList[tag]]

\* OnSendLocalList
SendLocalList(m) ==
    /\ IF Accepts(m)
       THEN /\ localAuthList' = Updated(m)
            /\ localAuthListVersion' = m.version
            /\ replies' = replies \cup {m.version}
       ELSE UNCHANGED <<stationVars, replies>>
    /\ UNCHANGED <<contents, latest, requests, known>>

\* OnGetLocalListVersion
GetLocalListVersion ==
    /\ replies' = replies \cup {localAuthListVersion}
    /\ UNCHANGED <<stationVars, contents, latest, requests, known>>

-----------------------------------------------------------------------------
(* The central system.                                                      *)

Revise(content) ==
    /\ latest < MaxVersion
    /\ latest' = latest + 1
    /\ contents' = [contents EXCEPT ![latest + 1] = content]
    /\ UNCHANGED <<stationVars, requests, replies, known>>

FullUpdate(v) ==
    [version |-> v, full |-> TRUE, tags |-> {tag \in IdTag : contents[v][tag] # NoInfo},
     info |-> contents[v], repeats |-> FALSE]

\* From the version before v to version v.
DifferentialUpdate(v) ==
    [version |-> v, full |-> FALSE, tags |-> {tag \in IdTag : contents[v][tag] # contents[v - 1][tag]},
     info |-> contents[v], repeats |-> FALSE]

Send(m) ==
    /\ requests' = requests \cup {m}
    /\ UNCHANGED <<stationVars, contents, latest, replies, known>>

SendFull(v) == v \in 1 .. latest /\ Send(FullUpdate(v))
SendDifferential == known < latest /\ Send(DifferentialUpdate(known + 1))

\* A reply arrives, perhaps late.
Learn(v) ==
    /\ v \in replies
    /\ known' = IF v > known THEN v ELSE known
    /\ UNCHANGED <<stationVars, contents, latest, requests, replies>>

\* An update whose entries repeat a tag is not sent on purpose; it says anything.
Repeating == {m \in Update : m.repeats}

ListNext ==
    \/ \E m \in requests : SendLocalList(m)
    \/ \E m \in Repeating : SendLocalList(m)
    \/ GetLocalListVersion
    \/ \E content \in Content : Revise(content)
    \/ \E v \in Version : SendFull(v) \/ Learn(v)
    \/ SendDifferential

ListSpec == ListInit /\ [][ListNext]_listVars

-----------------------------------------------------------------------------
(* Safety.                                                                  *)

\* The version the station answers with names the content it has, whatever
\* updates are late, repeated, lost or malformed; and the central system never
\* takes the station to be further than it is.
VersionNamesContent ==
    /\ localAuthList = contents[localAuthListVersion]
    /\ known <= localAuthListVersion

\* What the updates and replies under way have to do with the versions: the
\* inductive invariant behind VersionNamesContent.
ListInv ==
    /\ ListTypeOK
    /\ VersionNamesContent
    /\ localAuthListVersion <= latest
    /\ \A v \in replies : v <= localAuthListVersion
    /\ contents[0] = Empty
    /\ \A m \in requests :
          /\ m.version \in 1 .. latest /\ ~m.repeats
          /\ \/ m = FullUpdate(m.version)
             \/ m = DifferentialUpdate(m.version) /\ m.version <= known + 1
=============================================================================
