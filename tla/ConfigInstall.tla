--------------------------- MODULE ConfigInstall ----------------------------
(***************************************************************************)
(* The private configuration of the service: installers write devices.env  *)
(* through a temporary file (install_private_config of                     *)
(* rust/src/config.rs) while a service loads it (RuntimeConfig.load, with  *)
(* the reads of rust/src/private_file.rs).  Every call may fail, an        *)
(* installer may be killed and the host may lose power between any two.    *)
(***************************************************************************)
EXTENDS FiniteSets

CONSTANTS
    Installers      \* bound: runs of the install command, each with a file of its own

Old == "old"        \* the file that was there before
None == "none"
Inodes == Installers \cup {Old}

ASSUME InstallersAssumption == IsFiniteSet(Installers) /\ Installers \cap {Old, None} = {}

VARIABLES
    ipc,        \* per installer: "idle", the next step, "ok", "failed" or "killed"
    isettings,  \* per file: the settings its installer was given
    idata,      \* per file: what is written, "nothing", "part" or "whole"
    isynced,    \* the files whose data is on the disk
    ientry,     \* the file devices.env names
    iondisk,    \* the files devices.env may name after a power loss
    rpc,        \* the loading service: "idle" or "read"
    rinode,     \* the file it has opened
    rview       \* what its last load returned

ivars == <<ipc, isettings, idata, isynced, ientry, iondisk, rpc, rinode, rview>>

-----------------------------------------------------------------------------
(* Values *)

\* A setting's text: where it comes from, and whether it has quotes around it,
\* white space around those, and a line break inside.
Text(from, pad, quote, break) == [from |-> from, pad |-> pad, quote |-> quote, break |-> break]
Plain(from) == Text(from, FALSE, FALSE, FALSE)

trim(text) == [text EXCEPT !.pad = FALSE]
unquote(text) == [text EXCEPT !.quote = text.quote /\ text.pad]

safe_config_value(text) == ~text.break /\ (text.quote => text.pad)

Settings(address, model, certificate) == [address |-> address, model |-> model, certificate |-> certificate]

\* The environment of an installer: one unusual value at a time.
Environments(from) ==
    LET texts == {t \in [from : {from}, pad : BOOLEAN, quote : BOOLEAN, break : BOOLEAN] :
                     t.break => t = Text(from, FALSE, FALSE, TRUE)} IN
    {Settings(text, Plain(from), <<from, "absolute">>) : text \in texts}
        \cup {Settings(Plain(from), text, <<from, "absolute">>) : text \in texts}
        \cup {Settings(Plain(from), Plain(from), <<from, "relative">>)}

\* A relative path is taken from the directory of the file, or from the
\* working directory when the values come from the environment.
resolve_path(path, base) == IF path[2] = "relative" THEN <<path[1], base>> ELSE path

\* load_from_source: required trims the address, the model is taken as it is.
load_from_source(values, base) ==
    Settings(trim(values.address), values.model, resolve_path(values.certificate, base))

\* parse_config_text on a line of install_private_config.
parse_value(text) == unquote(trim(text))
parse_config_text(values) == [values EXCEPT !.address = parse_value(@), !.model = parse_value(@)]

-----------------------------------------------------------------------------
(* install_private_config *)

ReaderStays == UNCHANGED <<rpc, rinode, rview>>

\* An installer that writes the path as it was given.
InstallRawPath(i, settings) ==
    /\ ipc[i] = "idle"
    /\ isettings' = [isettings EXCEPT ![i] = Settings(trim(settings.address), settings.model, settings.certificate)]
    /\ ipc' = [ipc EXCEPT ![i] = "check"]
    /\ UNCHANGED <<idata, isynced, ientry, iondisk>> /\ ReaderStays

\* The values are taken from the environment, and the paths resolved.
install_private_default_from_environment(i, settings) ==
    /\ ipc[i] = "idle"
    /\ isettings' = [isettings EXCEPT ![i] = load_from_source(settings, "working")]
    /\ ipc' = [ipc EXCEPT ![i] = "check"]
    /\ UNCHANGED <<idata, isynced, ientry, iondisk>> /\ ReaderStays

Steps(i, from, to) == ipc[i] = from /\ ipc' = [ipc EXCEPT ![i] = to]

Safe(settings) == safe_config_value(settings.address) /\ safe_config_value(settings.model)

\* The directory, the file in place and every value pass, and the temporary
\* file is created; or one does not, and nothing has changed.
create_temporary(i) ==
    /\ Steps(i, "check", "write") /\ Safe(isettings[i])
    /\ UNCHANGED <<isettings, idata, isynced, ientry, iondisk>> /\ ReaderStays

refuse(i) ==
    /\ Steps(i, "check", "failed")
    /\ UNCHANGED <<isettings, idata, isynced, ientry, iondisk>> /\ ReaderStays

write_all(i) ==
    /\ \/ idata[i] = "nothing" /\ Steps(i, "write", "write") /\ idata' = [idata EXCEPT ![i] = "part"]
       \/ idata[i] = "part" /\ Steps(i, "write", "sync") /\ idata' = [idata EXCEPT ![i] = "whole"]
    /\ UNCHANGED <<isettings, isynced, ientry, iondisk>> /\ ReaderStays

SkipSync(i) ==
    /\ Steps(i, "sync", "rename")
    /\ UNCHANGED <<isettings, idata, isynced, ientry, iondisk>> /\ ReaderStays

sync_all(i) ==
    /\ Steps(i, "sync", "rename")
    /\ isynced' = isynced \cup {i}
    /\ UNCHANGED <<isettings, idata, ientry, iondisk>> /\ ReaderStays

rename(i) ==
    /\ Steps(i, "rename", "directory")
    /\ ientry' = i
    /\ iondisk' = iondisk \cup {i}
    /\ UNCHANGED <<isettings, idata, isynced>> /\ ReaderStays

sync_parent(i) ==
    /\ Steps(i, "directory", "ok")
    /\ iondisk' = {ientry}
    /\ UNCHANGED <<isettings, idata, isynced, ientry>> /\ ReaderStays

\* A call fails and the temporary file is removed.  After the rename there is
\* none: the error is reported, and the new file stays in place.
install_failed(i) ==
    /\ ipc[i] \in {"write", "sync", "rename", "directory"}
    /\ ipc' = [ipc EXCEPT ![i] = "failed"]
    /\ UNCHANGED <<isettings, idata, isynced, ientry, iondisk>> /\ ReaderStays

-----------------------------------------------------------------------------
(* RuntimeConfig.load *)

Loaded(settings) == [kind |-> "loaded", settings |-> settings]
NotLoaded(kind) == [kind |-> kind]

\* open_private, and the checks on what it opened.
read_private_file ==
    /\ rpc = "idle"
    /\ \/ ientry = None /\ rview' = NotLoaded("missing") /\ UNCHANGED <<rpc, rinode>>
       \/ ientry # None /\ rpc' = "read" /\ rinode' = ientry /\ UNCHANGED rview
       \/ rview' = NotLoaded("unavailable") /\ UNCHANGED <<rpc, rinode>>
    /\ UNCHANGED <<ipc, isettings, idata, isynced, ientry, iondisk>>

\* The bytes of the opened file.  A part of them is refused for a missing
\* setting, or taken with defaults for the ones at its end.
config_values ==
    /\ rpc = "read" /\ rpc' = "idle"
    /\ rview' = IF idata[rinode] = "whole"
                THEN Loaded(load_from_source(parse_config_text(isettings[rinode]), "beside the file"))
                ELSE NotLoaded("damaged")
    /\ UNCHANGED <<ipc, isettings, idata, isynced, ientry, iondisk, rinode>>

-----------------------------------------------------------------------------
(* The installers and the host *)

Unfinished(i) == ipc[i] \notin {"idle", "ok", "failed", "killed"}

kill_installer(i) ==
    /\ Unfinished(i)
    /\ ipc' = [ipc EXCEPT ![i] = "killed"]
    /\ UNCHANGED <<isettings, idata, isynced, ientry, iondisk>> /\ ReaderStays

\* A file whose data was not synced may come back with less of it.
power_loss ==
    /\ ipc' = [i \in Installers |-> IF Unfinished(i) THEN "killed" ELSE ipc[i]]
    /\ ientry' \in iondisk
    /\ iondisk' = {ientry'}
    /\ idata' \in {d \in [Inodes -> {"nothing", "part", "whole"}] :
                     \A f \in Inodes : f \in isynced \/ idata[f] = "nothing" => d[f] = idata[f]}
    /\ isynced' = Inodes
    /\ rpc' = "idle"
    /\ UNCHANGED <<isettings, rinode, rview>>

IInit ==
    /\ ipc = [i \in Installers |-> "idle"]
    /\ isettings = [f \in Inodes |-> Settings(Plain(f), Plain(f), <<f, "absolute">>)]
    /\ idata = [f \in Inodes |-> IF f = Old THEN "whole" ELSE "nothing"]
    /\ isynced = {Old}
    /\ ientry \in {None, Old} /\ iondisk = {ientry}
    /\ rpc = "idle" /\ rinode = None /\ rview = NotLoaded("missing")

INext ==
    \/ \E i \in Installers :
         \/ \E settings \in Environments(i) : install_private_default_from_environment(i, settings)
         \/ create_temporary(i) \/ refuse(i) \/ write_all(i) \/ sync_all(i) \/ rename(i) \/ sync_parent(i)
         \/ install_failed(i) \/ kill_installer(i)
    \/ read_private_file \/ config_values \/ power_loss

-----------------------------------------------------------------------------
(* Properties *)

\* Whatever fails, is killed or loses power, and however many installers run,
\* a load finds one whole configuration: never a part of one, its address and
\* paths are those the installer checked, wherever the service runs, and its
\* model is the same text up to the white space and quotes around it.  Once an
\* installer has answered Ok, nothing that was there before comes back.
ConfigLoads ==
    /\ rview.kind # "damaged"
    /\ rview.kind = "loaded" =>
         \E f \in Inodes :
             /\ rview.settings.address = isettings[f].address
             /\ rview.settings.model.from = f /\ ~rview.settings.model.break
             /\ rview.settings.certificate = isettings[f].certificate
             /\ rview.settings.certificate[2] # "beside the file"
    /\ \A i \in Installers : ipc[i] = "ok" => iondisk \cap {None, Old} = {}
=============================================================================
