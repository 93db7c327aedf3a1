--------------------------- MODULE ConfigResolution ---------------------------
(***************************************************************************)
(* How a command comes by its connection settings (internal/config,        *)
(* internal/cli/flags.go) and which certificates it then connects with     *)
(* (internal/ocppclient/client.go).                                        *)
(*                                                                         *)
(* Settings come in layers: what the configuration file says at its top,   *)
(* what a profile of the file says, and the flags of the command line.  A  *)
(* value is reduced to the layer it comes from, "" for an empty one.  A    *)
(* client certificate and its key are given as files or inline, in base64, *)
(* and so is a CA certificate; flags name files only.  The settings that   *)
(* stand alone are one setting here, charge_point_id; username and         *)
(* password, a pair as certificate and key are, are left out.              *)
(*                                                                         *)
(* The layers are read when their stage comes and may say anything.        *)
(* Definitions marked "faulty variant" are no part of the specification.   *)
(***************************************************************************)
VARIABLES
    stage,      \* where the command is
    said,       \* the settings each layer of the file gives, not empty
    flags,      \* what each flag of the command line says
    cfg,        \* ClientConfig
    presented   \* the layers of what the connection is made with

configVars == <<stage, said, flags, cfg, presented>>

FlagSetting == {"charge_point_id", "ca_cert", "client_cert", "client_key"}
Inline == [ca_cert |-> "ca_cert_base64", client_cert |-> "client_cert_base64",
           client_key |-> "client_key_base64"]
Setting == FlagSetting \cup {"ca_cert_base64", "client_cert_base64", "client_key_base64"}

\* DefaultClientConfig
DefaultConfig == [s \in Setting |-> IF s = "charge_point_id" THEN "default" ELSE ""]
NotPresented == [station |-> "", client |-> "", ca |-> ""]

ConfigInit ==
    /\ stage = "loading"
    /\ said = [layer \in {"file", "profile"} |-> {}]
    /\ flags = [s \in FlagSetting |-> "unset"]
    /\ cfg = DefaultConfig
    /\ presented = NotPresented

Goto(next) == stage' = next
Refuse == Goto("refused") /\ UNCHANGED <<said, flags, cfg, presented>>

Given(s) == cfg[s] # ""

-----------------------------------------------------------------------------
(* The configuration file.                                                  *)

\* applySettings: what is empty in a layer does not override.
Apply(layer, settings) ==
    /\ said' = [said EXCEPT ![layer] = settings]
    /\ cfg' = [s \in Setting |-> IF s \in settings THEN layer ELSE cfg[s]]

\* LoadClientConfigForProfile: no path, or no file at the default path.
SkipFile ==
    /\ stage = "loading"
    /\ Goto("flags")
    /\ UNCHANGED <<said, flags, cfg, presented>>

LoadFile(settings) ==
    /\ stage = "loading"
    /\ Apply("file", settings)
    /\ Goto("selecting")
    /\ UNCHANGED <<flags, presented>>

\* The file cannot be read or parsed, a value cannot be decoded, no profile is
\* selected where there are some, or there is none of that name.
LoadFails == stage \in {"loading", "selecting"} /\ Refuse

ApplyProfile(settings) ==
    /\ stage = "selecting"
    /\ Apply("profile", settings)
    /\ Goto("validating")
    /\ UNCHANGED <<flags, presented>>

\* The file has no profiles.
NoProfiles ==
    /\ stage = "selecting"
    /\ Goto("validating")
    /\ UNCHANGED <<said, flags, cfg, presented>>

-----------------------------------------------------------------------------
\* Faulty variant: both forms of a client certificate pass.
ValidBothForms ==
    /\ Given("client_cert") <=> Given("client_key")
    /\ Given("client_cert_base64") <=> Given("client_key_base64")
\* ValidateClientConfig
Valid ==
    /\ Given("client_cert") <=> Given("client_key")
    /\ Given("client_cert_base64") <=> Given("client_key_base64")
    /\ ~(Given("client_cert") /\ Given("client_cert_base64"))
    /\ Given("charge_point_id")

\* The file is validated by itself, and once more with the flags.
Validate ==
    /\ stage \in {"validating", "checking"}
    /\ IF Valid
       THEN Goto(IF stage = "validating" THEN "flags" ELSE "connecting")
       ELSE Goto("refused")
    /\ UNCHANGED <<said, flags, cfg, presented>>

-----------------------------------------------------------------------------
\* Faulty variant: the inline form of what a flag names stays.
ResolveFlagsKeepingInline(given) ==
    /\ stage = "flags"
    /\ flags' = given
    /\ cfg' = [s \in Setting |->
                 IF s \in FlagSetting /\ given[s] # "unset"
                 THEN IF given[s] = "given" THEN "flag" ELSE ""
                 ELSE cfg[s]]
    /\ Goto("checking")
    /\ UNCHANGED <<said, presented>>
\* resolveClientConfig: a flag on the command line overrides, an empty one too,
\* and takes the inline form with it.
ResolveFlags(given) ==
    LET named == {s \in FlagSetting : given[s] # "unset"}
    IN  /\ stage = "flags"
        /\ flags' = given
        /\ cfg' = [s \in Setting |->
                     IF s \in named THEN IF given[s] = "given" THEN "flag" ELSE ""
                     ELSE IF s \in {Inline[f] : f \in named \cap DOMAIN Inline} THEN ""
                     ELSE cfg[s]]
        /\ Goto("checking")
        /\ UNCHANGED <<said, presented>>

-----------------------------------------------------------------------------
(* The connection, for a wss:// URL.                                        *)

FileFirst(file, inline) == IF Given(file) THEN file ELSE inline

\* buildTLSConfig: a certificate and a key that belong together are loaded; those
\* of one layer may, and those of two layers may not.
BuildTLSConfig ==
    /\ stage = "connecting"
    /\ presented' = [station |-> cfg["charge_point_id"],
                     client |-> cfg[FileFirst("client_cert", "client_cert_base64")],
                     ca |-> cfg[FileFirst("ca_cert", "ca_cert_base64")]]
    /\ Goto("connected")
    /\ UNCHANGED <<said, flags, cfg>>

\* A file cannot be read, or holds no certificate, or not the key's.
TLSFails ==
    /\ stage = "connecting"
    /\ \E s \in {"ca_cert", "ca_cert_base64", "client_cert", "client_cert_base64"} : Given(s)
    /\ Refuse

ConfigNext ==
    \/ SkipFile \/ LoadFails \/ NoProfiles
    \/ \E settings \in SUBSET Setting : LoadFile(settings) \/ ApplyProfile(settings)
    \/ Validate
    \/ \E given \in [FlagSetting -> {"unset", "given", "empty"}] : ResolveFlags(given)
    \/ BuildTLSConfig \/ TLSFails

ConfigSpec == ConfigInit /\ [][ConfigNext]_configVars

-----------------------------------------------------------------------------
(* Safety.                                                                  *)

\* The layer that says most specifically what a setting is, in either form.
MostSpecific(file, inline) ==
    IF flags[file] # "unset" THEN IF flags[file] = "given" THEN "flag" ELSE ""
    ELSE IF said["profile"] \cap {file, inline} # {} THEN "profile"
    ELSE IF said["file"] \cap {file, inline} # {} THEN "file"
    ELSE ""

\* A command connects under the name, and with the client certificate, of the most
\* specific layer that gives one, the certificate as a file or inline: one of
\* another layer, in the other form, never takes its place, nor does one that a
\* flag took back.
PresentedIsMostSpecific ==
    stage = "connected" =>
        LET station == MostSpecific("charge_point_id", "charge_point_id")
        IN  /\ presented.station = IF station = "" THEN "default" ELSE station
            /\ presented.client = MostSpecific("client_cert", "client_cert_base64")

\* The CA certificate a flag names, or takes back, is the one trusted, or none is,
\* whatever the layers of the file say in either form.
CAFlagDecides ==
    stage = "connected" /\ flags["ca_cert"] # "unset" =>
        presented.ca = (IF flags["ca_cert"] = "given" THEN "flag" ELSE "")
=============================================================================
