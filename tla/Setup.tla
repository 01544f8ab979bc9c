------------------------------- MODULE Setup --------------------------------
(***************************************************************************)
(* From a latte_config to the first answer of latte_activate: the setters  *)
(* of latte_config, latte_new with the parsing of the app ID (appid.c),    *)
(* the directory of the cache file and the machine's fingerprint           *)
(* (machineid.c), and how latte_activate tells by the key that was typed   *)
(* whether the cached token is meant.                                      *)
(*                                                                         *)
(* Each handle is a process; the directories are what they share.  An app  *)
(* ID is chosen where it is first read, by latte_new.  The machine's name   *)
(* is only sent along, and only the failure to copy it is modelled.  A     *)
(* token in a cache file is one that verifies and has not ended: Verify    *)
(* and Sdk say when.                                                       *)
(***************************************************************************)
EXTENDS LicenceKey, FiniteSets

CONSTANTS
    Handles,      \* processes, each with one handle at most
    AppIds,       \* app IDs as they may be given
    IssuedKeys,   \* key segments of the app IDs that exist
    RawIds,       \* machine IDs an application may set
    Hosts,        \* machines: their variables, machine-id files and directories
    Licences,     \* the licences the server knows, by native key and alias
    TypedKeys,    \* texts typed as a key, each with the key that is meant
    KeyBuffer,    \* size of latte_activate's buffers: 64
    KeySegment,   \* length of an app ID's key segment: 32
    Faults,       \* {"memory"}: allocations may fail
    MaxChanges,   \* bound: directories that appear while the model runs
    MaxSettings,  \* bound: calls of setters
    MaxFiles      \* bound: cache files that are written

Unset == "unset"
Text == Seq(STRING)
Variables == {"xdg", "home"}    \* XDG_CONFIG_HOME and HOME
Bases == Variables \cup {"cwd"}  \* the base directories, one for each and .licenselatte

ASSUME SetupAssumption ==
    /\ AppIds \subseteq [prefix : BOOLEAN, env : STRING, key : Text]
    /\ RawIds \subseteq STRING \ {"", "missing", "empty", Unset}
    /\ Hosts \subseteq [environ : SUBSET Variables, os : Seq(STRING \ {Unset}),
                       parents : SUBSET Bases]
    /\ Licences \subseteq [key : Text, alias : Text]
    /\ TypedKeys \subseteq [text : Text, of : Text]
    /\ KeySegment \in Nat /\ KeySegment >= 4
    /\ KeyBuffer \in Nat
    /\ MaxChanges \in Nat

\* What the issuer of app IDs keeps to: a valid key segment over the alphabet.
ASSUME IssuedAssumption ==
    \A key \in IssuedKeys :
        /\ key \in Text
        /\ Len(key) = KeySegment
        /\ \A i \in DOMAIN key : Places(Alphabet, key[i]) # {}
        /\ ValidateKey(key, 4)

\* What the issuer of licences keeps to: native keys over the alphabet, none of
\* them another's alias, and room in the buffers for one character more.
ASSUME LicencesAssumption ==
    /\ \A l \in Licences :
        /\ l.key # <<>> /\ \A i \in DOMAIN l.key : Places(Alphabet, l.key[i]) # {}
        /\ Len(l.key) + 1 < KeyBuffer /\ Len(l.alias) + 1 < KeyBuffer
    /\ \A l, m \in Licences : l.alias # m.key

\* What is meant by a text is the key it spells, and no text spells two.
ASSUME TypedAssumption ==
    \A typed \in TypedKeys :
        /\ \A l \in Licences :
            /\ SpellsNative(typed.text, l.key) => typed.of = l.key
            /\ l.alias # <<>> /\ Spells(typed.text, l.alias) => typed.of = l.alias
        /\ typed.of # <<>> => \E l \in Licences :
            \/ typed.of = l.key /\ SpellsNative(typed.text, l.key)
            \/ typed.of = l.alias /\ Spells(typed.text, l.alias)

VARIABLES
    config,     \* config[h]: struct latte_config
    asked,      \* asked[h]: the machine ID and directory the application asked for
    settings,   \* number of calls of setters so far
    handle,     \* handle[h]: where latte_new is, and struct latte_sdk
    status,     \* status[h]: what latte_new returned
    environ,    \* which of XDG_CONFIG_HOME and HOME the processes have
    os,         \* the contents of the machine-id files, "missing" or "empty"
    parents,    \* directories in which a base directory can be created
    made,       \* base directories that exist
    epoch,      \* number of changes of parents so far
    cache       \* the tokens in the cache files, by path

configs == <<config, asked, settings>>
machine == <<environ, os>>
directories == <<parents, made, epoch>>
setupVars == <<configs, handle, status, machine, directories, cache>>

NoConfig == [multi_instance |-> FALSE, machine_id |-> Unset, machine_id_failed |-> FALSE,
             machine_name_failed |-> FALSE]
NotAsked == [machine_id |-> Unset, multi_instance |-> FALSE]
NoHandle == [pc |-> "none", env |-> "none", app_key |-> <<>>, base |-> "none",
             machine_id |-> <<>>, since |-> 0, until |-> 0]

SetupInit ==
    /\ config = [h \in Handles |-> NoConfig]
    /\ asked = [h \in Handles |-> NotAsked]
    /\ handle = [h \in Handles |-> NoHandle]
    /\ status = [h \in Handles |-> "none"]
    /\ settings = 0
    /\ \E host \in Hosts :
        environ = host.environ /\ os = host.os /\ parents = host.parents
    /\ made = {}
    /\ epoch = 0
    /\ cache = <<>>

-----------------------------------------------------------------------------
(***************************************************************************)
(* struct latte_config.                                                    *)
(***************************************************************************)
NewConfig(h) ==
    /\ handle[h].pc = "none"
    /\ handle' = [handle EXCEPT ![h].pc = "config"]
    /\ config' = [config EXCEPT ![h] = NoConfig]
    /\ asked' = [asked EXCEPT ![h] = NotAsked]
    /\ status' = [status EXCEPT ![h] = "none"]
    /\ UNCHANGED <<settings, machine, directories, cache>>

\* A setter is called on a config that latte_new has not been given yet.
Setting(h) ==
    /\ handle[h].pc = "config"
    /\ settings < MaxSettings
    /\ settings' = settings + 1

SetMultiInstance(h) ==
    /\ Setting(h)
    /\ \E on \in BOOLEAN :
        /\ config' = [config EXCEPT ![h].multi_instance = on]
        /\ asked' = [asked EXCEPT ![h].multi_instance = on]
    /\ UNCHANGED <<handle, status, machine, directories, cache>>

\* NULL and "" both clear the machine ID; a copy may fail, and is remembered.
SetMachineId(h) ==
    /\ Setting(h)
    /\ \E raw \in RawIds \cup {Unset} :
        /\ asked' = [asked EXCEPT ![h].machine_id = raw]
        /\ \/ config' = [config EXCEPT ![h].machine_id = raw,
                                       ![h].machine_id_failed = FALSE]
           \/ /\ "memory" \in Faults
              /\ raw # Unset
              /\ config' = [config EXCEPT ![h].machine_id = Unset,
                                          ![h].machine_id_failed = TRUE]
    /\ UNCHANGED <<handle, status, machine, directories, cache>>

SetMachineName(h) ==
    /\ Setting(h)
    /\ \/ config' = [config EXCEPT ![h].machine_name_failed = FALSE]
       \/ "memory" \in Faults /\ config' = [config EXCEPT ![h].machine_name_failed = TRUE]
    /\ UNCHANGED <<asked, handle, status, machine, directories, cache>>

-----------------------------------------------------------------------------
(***************************************************************************)
(* latte_new.                                                              *)
(***************************************************************************)
\* ll_parse_app_id: prefix says whether the text begins with pk_, env is what
\* stands before the next underscore ("" also when there is none).
ParseAppId(id) ==
    CASE ~id.prefix \/ id.env = ""               -> "INVALID_APPID"
      [] id.env \notin {"live", "test", "local"} -> "UNKNOWN_ENVIRONMENT"
      [] Len(id.key) # KeySegment                -> "INVALID_APPID_KEY_SEGMENT"
      [] ~ValidateKey(id.key, 4)                 -> "INVALID_APPID_CHECKSUM"
      [] OTHER                                   -> "OK"

\* The application frees its config and may start over with a new one.
Fail(h, st) ==
    /\ handle' = [handle EXCEPT ![h] = NoHandle]
    /\ config' = [config EXCEPT ![h] = NoConfig]
    /\ asked' = [asked EXCEPT ![h] = NotAsked]
    /\ status' = [status EXCEPT ![h] = st]

\* Mutant of CopyFailed: the failures of the setters are not looked at.
CopyFailedUnseen(cfg) == FALSE

CopyFailed(cfg) == cfg.machine_id_failed \/ cfg.machine_name_failed

\* Constant, so that it is computed once.
Verdicts == [id \in AppIds |-> ParseAppId(id)]

\* latte_config_new gave no config, and the setters did nothing with it.
NewWithoutConfig(h) ==
    /\ handle[h].pc = "none"
    /\ "memory" \in Faults
    /\ status' = [status EXCEPT ![h] = "INVALID_CONFIG"]
    /\ UNCHANGED <<configs, handle, machine, directories, cache>>

\* Up to the calloc of the handle, which may fail.
New(h) ==
    /\ handle[h].pc = "config"
    /\ \/ CopyFailed(config[h]) /\ Fail(h, "INTERNAL")
       \/ /\ ~CopyFailed(config[h])
          /\ \E id \in AppIds :
                \/ Verdicts[id] # "OK" /\ Fail(h, Verdicts[id])
                \/ Verdicts[id] = "OK" /\ "memory" \in Faults /\ Fail(h, "INTERNAL")
                \/ /\ Verdicts[id] = "OK"
                   /\ handle' = [handle EXCEPT ![h] =
                        [NoHandle EXCEPT
                            !.pc = IF config[h].multi_instance THEN "cwd" ELSE "xdg",
                            !.env = id.env, !.app_key = id.key, !.since = epoch]]
                   /\ UNCHANGED <<status, config, asked>>
    /\ UNCHANGED <<settings, machine, directories, cache>>

\* Mutant of MkdirP: a directory that exists already is a failure.
MkdirAnew(base) == base \in parents \ made

\* mkdir_p: the directory has been created, or exists.
MkdirP(base) == base \in parents \cup made

Resolved(h, base) ==
    /\ made' = made \cup {base}
    /\ handle' = [handle EXCEPT ![h].pc = "machine", ![h].base = base, ![h].until = epoch]
    /\ UNCHANGED <<config, asked, status, parents, epoch>>

\* XDG_CONFIG_HOME, then HOME, when they are set and the directory can be had.
ResolveConfigDir(h) ==
    /\ handle[h].pc \in Variables
    /\ IF handle[h].pc \in environ /\ MkdirP(handle[h].pc)
       THEN Resolved(h, handle[h].pc)
       ELSE /\ handle' = [handle EXCEPT ![h].pc = IF @ = "xdg" THEN "home" ELSE "cwd"]
            /\ UNCHANGED <<config, asked, status, directories>>
    /\ UNCHANGED <<settings, machine, cache>>

\* .licenselatte in the working directory: the last resort, and the only
\* choice of a multi-instance handle.
ResolveWorkingDir(h) ==
    /\ handle[h].pc = "cwd"
    /\ IF MkdirP("cwd") THEN Resolved(h, "cwd")
       ELSE Fail(h, "STORAGE_INIT_FAILED") /\ UNCHANGED directories
    /\ UNCHANGED <<settings, machine, cache>>

\* Mutant of RawMachineId: an empty file is as good as any.
RawMachineIdEmptyToo == {os[i] : i \in {i \in DOMAIN os :
    os[i] # "missing" /\ \A j \in 1 .. i - 1 : os[j] = "missing"}}

\* get_raw_machine_id: the first file that can be read and is not empty.
RawMachineId == {os[i] : i \in {i \in DOMAIN os :
    /\ os[i] \notin {"missing", "empty"}
    /\ \A j \in 1 .. i - 1 : os[j] \in {"missing", "empty"}}}

\* ll_machine_id_hash: an HMAC of both, which no other pair has.
MachineIdHash(raw, h) == <<raw, handle[h].env, handle[h].app_key>>

Fingerprint(h) ==
    /\ handle[h].pc = "machine"
    /\ LET raws == IF config[h].machine_id # Unset THEN {config[h].machine_id}
                   ELSE RawMachineId
       IN  IF raws = {} THEN Fail(h, "MACHINE_ID_FAILED")
           ELSE /\ \E raw \in raws :
                    handle' = [handle EXCEPT ![h].pc = "client",
                                             ![h].machine_id = MachineIdHash(raw, h)]
                /\ UNCHANGED <<config, asked, status>>
    /\ UNCHANGED <<settings, machine, directories, cache>>

\* ll_http_client_new; the application frees the config it is done with.
Client(h) ==
    /\ handle[h].pc = "client"
    /\ \/ /\ handle' = [handle EXCEPT ![h].pc = "open"]
          /\ config' = [config EXCEPT ![h] = NoConfig]
          /\ status' = [status EXCEPT ![h] = "OK"]
          /\ UNCHANGED asked
       \/ "memory" \in Faults /\ Fail(h, "INTERNAL")
    /\ UNCHANGED <<settings, machine, directories, cache>>

-----------------------------------------------------------------------------
(***************************************************************************)
(* latte_activate, as far as the typed key goes.                           *)
(***************************************************************************)
IsOpen(h) == handle[h].pc = "open"

\* store_path
PathOf(h) == <<handle[h].base, handle[h].app_key>>

\* What becomes of each text: constants, computed once.
Texts == {k.text : k \in TypedKeys}
Sanitized == [t \in Texts |-> SanitizeKey(t, KeyBuffer)]
Normalized == [t \in Texts |-> NormalizeKey(t, KeyBuffer)]

\* Lines 478-481.
Meant(lic, typed) ==
    \/ lic.key = Sanitized[typed]
    \/ lic.alias # <<>> /\ lic.alias = Normalized[typed]

\* Lines 472-490: a cached token of this machine, and the key that was typed.
AnsweredFromCache(h, typed) ==
    /\ PathOf(h) \in DOMAIN cache
    /\ cache[PathOf(h)].machine_id = handle[h].machine_id
    /\ Normalized[typed] # <<>>
    /\ Meant(cache[PathOf(h)], typed)

\* The server finds a licence by its native key or by an alias, and then the
\* token carries the alias.
Found(sent, machine_id) ==
    {[key |-> l.key, alias |-> <<>>, machine_id |-> machine_id] :
        l \in {l \in Licences : l.key = SanitizeKey(sent, KeyBuffer)}}
    \cup {[key |-> l.key, alias |-> l.alias, machine_id |-> machine_id] :
        l \in {l \in Licences : l.alias = sent}}

\* The key is sent as it was normalized; an empty one is refused, and one that
\* the cache answers changes nothing.
ActivateTyped(h) ==
    /\ IsOpen(h)
    /\ \E typed \in Texts :
        /\ Normalized[typed] # <<>>
        /\ ~AnsweredFromCache(h, typed)
        /\ PathOf(h) \in DOMAIN cache \/ Cardinality(DOMAIN cache) < MaxFiles
        /\ \E tok \in Found(Normalized[typed], handle[h].machine_id) :
                cache' = [p \in DOMAIN cache \cup {PathOf(h)} |->
                            IF p = PathOf(h) THEN tok ELSE cache[p]]
    /\ UNCHANGED <<configs, handle, status, machine, directories>>

\* latte_free
Close(h) ==
    /\ IsOpen(h)
    /\ handle' = [handle EXCEPT ![h] = NoHandle]
    /\ asked' = [asked EXCEPT ![h] = NotAsked]
    /\ status' = [status EXCEPT ![h] = "none"]
    /\ UNCHANGED <<config, settings, machine, directories, cache>>

\* A first login, a mount: a parent directory appears.
ParentAppears ==
    /\ epoch < MaxChanges
    /\ \E place \in Bases \ parents : parents' = parents \cup {place}
    /\ epoch' = epoch + 1
    /\ UNCHANGED <<configs, handle, status, machine, made, cache>>

-----------------------------------------------------------------------------
SetupNext ==
    \/ \E h \in Handles :
        \/ NewConfig(h) \/ SetMultiInstance(h) \/ SetMachineId(h) \/ SetMachineName(h)
        \/ NewWithoutConfig(h) \/ New(h)
        \/ ResolveConfigDir(h) \/ ResolveWorkingDir(h)
        \/ Fingerprint(h) \/ Client(h)
        \/ ActivateTyped(h) \/ Close(h)
    \/ ParentAppears

SetupSpec == SetupInit /\ [][SetupNext]_setupVars

-----------------------------------------------------------------------------
(***************************************************************************)
(* Properties.                                                             *)
(***************************************************************************)
Statuses == {"none", "OK", "INTERNAL", "INVALID_CONFIG", "INVALID_APPID",
             "UNKNOWN_ENVIRONMENT", "INVALID_APPID_KEY_SEGMENT", "INVALID_APPID_CHECKSUM",
             "STORAGE_INIT_FAILED", "MACHINE_ID_FAILED"}

\* The state keeps its types, and a handle that is open has a directory that
\* exists and a fingerprint made from something that was read.
SetupTypeOK ==
    /\ \A h \in Handles :
        /\ status[h] \in Statuses
        /\ config[h].machine_id \in RawIds \cup {Unset}
        /\ handle[h].pc \in {"none", "config", "xdg", "home", "cwd", "machine", "client", "open"}
        /\ IsOpen(h) => /\ handle[h].base \in made
                        /\ handle[h].machine_id[1] \notin {Unset, "missing", "empty"}
    /\ epoch \in 0 .. MaxChanges

\* Two processes of one user that open the same app, neither of them as a
\* multi-instance, keep one cache file, also when both create its directory at
\* the same time: as long as no parent directory appears meanwhile, what
\* appid.c's search ends with does not depend on who came first.
SharedCache ==
    \A g, h \in Handles :
        (/\ IsOpen(g) /\ IsOpen(h)
         /\ handle[g].app_key = handle[h].app_key
         /\ ~asked[g].multi_instance /\ ~asked[h].multi_instance
         /\ {handle[g].since, handle[g].until, handle[h].since, handle[h].until} = {epoch})
        => PathOf(g) = PathOf(h)

\* An open handle goes by the machine ID the application set last, and by the
\* operating system's only if it set none, or cleared it: a copy that failed on
\* the way never makes the machine another one.
RightMachine ==
    \A h \in {h \in Handles : IsOpen(h)} :
        IF asked[h].machine_id = Unset
        THEN \E i \in DOMAIN os : /\ os[i] \notin {"missing", "empty"}
                                  /\ handle[h].machine_id = MachineIdHash(os[i], h)
        ELSE handle[h].machine_id = MachineIdHash(asked[h].machine_id, h)

\* The places where two texts of KeySegment characters differ.
Differ(a, b) == {i \in DOMAIN a : a[i] # b[i]}

Mistyped(a, b) == LET d == Differ(a, b) IN \E i \in d : d = {i}
Swapped(a, b) == LET d == Differ(a, b) IN
    \E i \in d : d = {i, i + 1} /\ a[i] = b[i + 1] /\ a[i + 1] = b[i]

\* The checksum's blind spots: a character counts for nothing more than its
\* place in the alphabet, at every other place only modulo 16.
BlindSpot(a, b) ==
    \A i \in Differ(a, b) :
        /\ i <= Len(a) - 4
        /\ Value(a[i]) % 16 = Value(b[i]) % 16
        /\ i % 2 = 0 => Value(a[i]) = Value(b[i])

\* An app ID with one character mistyped, or two neighbours swapped, opens a
\* handle only where the checksum is blind, and never with two swapped: to the
\* SDK it would be another app with a cache and a machine ID of its own.
TypoOpensNoHandle ==
    \A h \in {h \in Handles : IsOpen(h)} : \A key \in IssuedKeys :
        LET typed == handle[h].app_key
        IN  /\ ~Swapped(key, typed)
            /\ Mistyped(key, typed) => BlindSpot(key, typed)

\* latte_activate answers from the cache exactly when the cached licence of
\* this machine is the one whose key was typed, in whatever case, with
\* whatever separators, and with O for 0 and I or L for 1 in a native key: it
\* asks the server for nothing it has, and hands out no licence for another's
\* key.
KeyIsRecognised ==
    \A h \in {h \in Handles : IsOpen(h)} : \A typed \in TypedKeys :
        AnsweredFromCache(h, typed.text) <=>
            /\ PathOf(h) \in DOMAIN cache
            /\ cache[PathOf(h)].machine_id = handle[h].machine_id
            /\ typed.of # <<>>
            /\ typed.of \in {cache[PathOf(h)].key, cache[PathOf(h)].alias}
=============================================================================
