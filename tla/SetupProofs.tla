---------------------------- MODULE SetupProofs -----------------------------
(***************************************************************************)
(* Two processes of a user find the same cache file, and a handle goes by  *)
(* the machine ID that was set, for any number of processes, any machine   *)
(* and any bounds.                                                         *)
(*                                                                         *)
(* The search for the directory asks three questions whose answers depend  *)
(* on parents \cup made alone.  A mkdir leaves that union as it was, since *)
(* it creates only what could be created; only ParentAppears changes it,   *)
(* and counts in epoch.  So a search that began and ended in one epoch     *)
(* ends with Choice, whoever else was searching.                           *)
(*                                                                         *)
(* And what the characters of a text come to, for texts of any length: the *)
(* sum over an app ID, by which the checksum finds a slip, and the buffer  *)
(* that a typed key is copied to, which holds what the text spells.  Both  *)
(* are recursive functions over the places of the text; Counting is the    *)
(* induction.                                                              *)
(***************************************************************************)
EXTENDS Setup, TLAPS, WellFoundedInduction

Pcs == {"none", "config", "xdg", "home", "cwd", "machine", "client", "open"}

Raws == RawIds \cup {Unset} \cup UNION {{host.os[i] : i \in DOMAIN host.os} : host \in Hosts}
Envs == {"none", "live", "test", "local"}

ConfigType == [multi_instance : BOOLEAN, machine_id : RawIds \cup {Unset},
               machine_id_failed : BOOLEAN, machine_name_failed : BOOLEAN]
AskedType == [machine_id : RawIds \cup {Unset}, multi_instance : BOOLEAN]
MachineIds == {<<>>} \cup (Raws \X Envs \X Text)
HandleType == [pc : Pcs, env : Envs, app_key : Text, base : Bases \cup {"none"},
               machine_id : MachineIds,
               since : Nat, until : Nat]

SetupTypes ==
    /\ config \in [Handles -> ConfigType]
    /\ asked \in [Handles -> AskedType]
    /\ handle \in [Handles -> HandleType]
    /\ \A i \in DOMAIN os : os[i] \in Raws \ {Unset}
    /\ epoch \in Nat

Available == parents \cup made
Has(v) == v \in environ /\ v \in Available

\* What the search ends with while nothing appears.
Choice == IF Has("xdg") THEN "xdg" ELSE IF Has("home") THEN "home" ELSE "cwd"

Parsed == {"xdg", "home", "cwd", "machine"}

\* What of the config is true until the fingerprint has been made.
ConfigIsAsked(h) ==
    /\ handle[h].pc \in {"config"} \cup Parsed =>
        /\ config[h].multi_instance = asked[h].multi_instance
        /\ ~config[h].machine_id_failed => config[h].machine_id = asked[h].machine_id
    /\ handle[h].pc \in Parsed => ~config[h].machine_id_failed

SearchIsSteady(h) ==
    /\ handle[h].since <= epoch
    /\ handle[h].until <= epoch
    /\ handle[h].pc \in Variables => ~asked[h].multi_instance
    /\ (handle[h].since = epoch /\ ~asked[h].multi_instance) =>
        /\ handle[h].pc = "home" => ~Has("xdg")
        /\ handle[h].pc = "cwd" => ~Has("xdg") /\ ~Has("home")
        /\ handle[h].pc \in {"machine", "client", "open"} /\ handle[h].until = epoch
             => handle[h].base = Choice

MachineIsRight(h) ==
    IF asked[h].machine_id = Unset
    THEN \E i \in DOMAIN os : /\ os[i] \notin {"missing", "empty"}
                              /\ handle[h].machine_id = MachineIdHash(os[i], h)
    ELSE handle[h].machine_id = MachineIdHash(asked[h].machine_id, h)

HandleInv(h) ==
    /\ ConfigIsAsked(h)
    /\ SearchIsSteady(h)
    /\ handle[h].pc \in {"client", "open"} => MachineIsRight(h)

SetupInv == SetupTypes /\ \A h \in Handles : HandleInv(h)

-----------------------------------------------------------------------------
\* The invariant holds when nothing has been opened yet.
LEMMA SetupInitially == SetupInit => SetupInv
<1> SUFFICES ASSUME SetupInit PROVE SetupInv
  OBVIOUS
<1>1. SetupTypes
  <2>1. NoConfig \in ConfigType
    BY DEF NoConfig, ConfigType
  <2>2. NotAsked \in AskedType
    BY DEF NotAsked, AskedType
  <2>3. NoHandle \in HandleType
    BY DEF NoHandle, HandleType, Pcs, Envs, Text, MachineIds
  <2>4. \A i \in DOMAIN os : os[i] \in Raws \ {Unset}
    <3>1. PICK host \in Hosts : os = host.os
      BY DEF SetupInit
    <3>2. host.os \in Seq(STRING \ {Unset})
      BY SetupAssumption
    <3>3. \A i \in DOMAIN host.os : host.os[i] # Unset
      BY <3>2
    <3> QED
      BY <3>1, <3>3 DEF Raws
  <2> QED
    BY <2>1, <2>2, <2>3, <2>4 DEF SetupTypes, SetupInit
<1>2. ASSUME NEW h \in Handles
      PROVE  ConfigIsAsked(h) /\ SearchIsSteady(h) /\ handle[h].pc = "none"
  BY DEF SetupInit, NoHandle, ConfigIsAsked, SearchIsSteady, Parsed, Variables
<1> QED
  BY <1>1, <1>2 DEF SetupInv, HandleInv

\* What the step of another process leaves alone stays true of a handle.
LEMMA Untouched ==
    ASSUME SetupInv, NEW g \in Handles,
           config'[g] = config[g], asked'[g] = asked[g], handle'[g] = handle[g],
           UNCHANGED <<os, environ, epoch>>, Available' = Available
    PROVE  HandleInv(g)'
<1>1. HandleInv(g)
  BY DEF SetupInv
<1>2. /\ Has("xdg")' <=> Has("xdg")
      /\ Has("home")' <=> Has("home")
      /\ Choice' = Choice
  BY DEF Has, Choice
<1>3. ConfigIsAsked(g)'
  BY <1>1 DEF HandleInv, ConfigIsAsked
<1>4. SearchIsSteady(g)'
  BY <1>1, <1>2 DEF HandleInv, SearchIsSteady
<1>5. handle[g].pc \in {"client", "open"} => MachineIsRight(g)'
  BY <1>1 DEF HandleInv, MachineIsRight, MachineIdHash
<1> QED
  BY <1>3, <1>4, <1>5 DEF HandleInv

\* A handle with a config alone, or with nothing, has nothing to be wrong about.
LEMMA Fresh ==
    ASSUME SetupInv, NEW h \in Handles, epoch' = epoch,
           \/ handle'[h] = NoHandle
           \/ /\ handle'[h] = [NoHandle EXCEPT !.pc = "config"]
              /\ config'[h].multi_instance = asked'[h].multi_instance
              /\ ~config'[h].machine_id_failed => config'[h].machine_id = asked'[h].machine_id
    PROVE  HandleInv(h)'
  BY DEF SetupInv, SetupTypes, HandleInv, ConfigIsAsked, SearchIsSteady, NoHandle, Parsed,
         Variables

\* A handle that failed is no handle any more.
LEMMA FailPreserves ==
    ASSUME SetupInv, NEW h \in Handles, NEW st, Fail(h, st),
           UNCHANGED <<os, environ, epoch, parents, made>>
    PROVE  SetupInv'
<1>1. SetupTypes'
  <2>1. NoConfig \in ConfigType /\ NotAsked \in AskedType /\ NoHandle \in HandleType
    BY DEF NoConfig, ConfigType, NotAsked, AskedType, NoHandle, HandleType, Envs, Pcs, Text,
           MachineIds
  <2> QED
    BY <2>1 DEF Fail, SetupInv, SetupTypes
<1>2. ASSUME NEW g \in Handles, g # h PROVE HandleInv(g)'
  <2>1. config'[g] = config[g] /\ asked'[g] = asked[g] /\ handle'[g] = handle[g]
    BY <1>2 DEF Fail, SetupInv, SetupTypes
  <2>2. Available' = Available
    BY DEF Available
  <2> QED
    BY <2>1, <2>2, Untouched
<1>3. HandleInv(h)'
  <2>1. handle'[h] = NoHandle
    BY DEF Fail, SetupInv, SetupTypes
  <2> QED
    BY <2>1, Fresh
<1> QED
  BY <1>1, <1>2, <1>3 DEF SetupInv

\* The setters, and latte_config_new: the config is what was asked for, or is
\* known not to be.
LEMMA ConfigPreserves ==
    ASSUME SetupInv, NEW h \in Handles,
           NewConfig(h) \/ SetMultiInstance(h) \/ SetMachineId(h) \/ SetMachineName(h)
    PROVE  SetupInv'
<1>1. SetupTypes'
  <2>1. NoConfig \in ConfigType /\ NotAsked \in AskedType
    BY DEF NoConfig, ConfigType, NotAsked, AskedType
  <2>2. CASE NewConfig(h)
    <3>1. handle' \in [Handles -> HandleType]
      BY <2>2 DEF NewConfig, SetupInv, SetupTypes, HandleType, Pcs
    <3> QED
      BY <2>1, <2>2, <3>1 DEF NewConfig, SetupInv, SetupTypes, machine, directories
  <2>3. CASE SetMultiInstance(h)
    <3>1. PICK on \in BOOLEAN : /\ config' = [config EXCEPT ![h].multi_instance = on]
                               /\ asked' = [asked EXCEPT ![h].multi_instance = on]
      BY <2>3 DEF SetMultiInstance
    <3>2. config' \in [Handles -> ConfigType]
      BY <3>1 DEF SetupInv, SetupTypes, ConfigType
    <3>3. asked' \in [Handles -> AskedType]
      BY <3>1 DEF SetupInv, SetupTypes, AskedType
    <3> QED
      BY <2>3, <3>2, <3>3 DEF SetMultiInstance, SetupInv, SetupTypes, machine, directories
  <2>4. CASE SetMachineId(h)
    <3>1. PICK raw \in RawIds \cup {Unset} : asked' = [asked EXCEPT ![h].machine_id = raw]
      BY <2>4 DEF SetMachineId
    <3>2. asked' \in [Handles -> AskedType]
      BY <3>1 DEF SetupInv, SetupTypes, AskedType
    <3>3. PICK id \in RawIds \cup {Unset}, failed \in BOOLEAN :
            config' = [config EXCEPT ![h].machine_id = id, ![h].machine_id_failed = failed]
      BY <2>4 DEF SetMachineId
    <3>4. config' \in [Handles -> ConfigType]
      BY <3>3 DEF SetupInv, SetupTypes, ConfigType
    <3> QED
      BY <2>4, <3>2, <3>4 DEF SetMachineId, SetupInv, SetupTypes, machine, directories
  <2>5. CASE SetMachineName(h)
    <3>1. PICK failed \in BOOLEAN : config' = [config EXCEPT ![h].machine_name_failed = failed]
      BY <2>5 DEF SetMachineName
    <3>2. config' \in [Handles -> ConfigType]
      BY <3>1 DEF SetupInv, SetupTypes, ConfigType
    <3> QED
      BY <2>5, <3>2 DEF SetMachineName, SetupInv, SetupTypes, machine, directories
  <2> QED
    BY <2>2, <2>3, <2>4, <2>5
<1>2. Available' = Available /\ UNCHANGED <<os, environ, epoch>>
  BY DEF Available, NewConfig, SetMultiInstance, SetMachineId, SetMachineName, Setting,
         machine, directories
<1>3. ASSUME NEW g \in Handles, g # h PROVE HandleInv(g)'
  <2>1. config'[g] = config[g] /\ asked'[g] = asked[g] /\ handle'[g] = handle[g]
    BY <1>3 DEF NewConfig, SetMultiInstance, SetMachineId, SetMachineName, Setting,
                SetupInv, SetupTypes
  <2> QED
    BY <1>2, <2>1, Untouched
<1>4. HandleInv(h)'
  <2>1. HandleInv(h)
    BY DEF SetupInv
  <2>2. handle'[h].pc = "config" /\ handle'[h].since = handle[h].since
        /\ handle'[h].until = handle[h].until
    BY DEF NewConfig, SetMultiInstance, SetMachineId, SetMachineName, Setting,
           SetupInv, SetupTypes, HandleType
  <2>3. SearchIsSteady(h)'
    BY <1>2, <2>1, <2>2 DEF HandleInv, SearchIsSteady, Variables
  <2>4. ConfigIsAsked(h)'
    <3>1. CASE NewConfig(h)
      BY <2>2, <3>1 DEF NewConfig, NoConfig, NotAsked, ConfigIsAsked, Parsed, SetupInv, SetupTypes
    <3>2. CASE SetMultiInstance(h)
      BY <2>1, <2>2, <3>2 DEF SetMultiInstance, Setting, HandleInv, ConfigIsAsked, Parsed,
                              SetupInv, SetupTypes, ConfigType, AskedType
    <3>3. CASE SetMachineId(h)
      BY <2>1, <2>2, <3>3 DEF SetMachineId, Setting, HandleInv, ConfigIsAsked, Parsed,
                              SetupInv, SetupTypes, ConfigType, AskedType
    <3>4. CASE SetMachineName(h)
      BY <2>1, <2>2, <3>4 DEF SetMachineName, Setting, HandleInv, ConfigIsAsked, Parsed,
                              SetupInv, SetupTypes, ConfigType
    <3> QED
      BY <3>1, <3>2, <3>3, <3>4
  <2> QED
    BY <2>2, <2>3, <2>4 DEF HandleInv
<1> QED
  BY <1>1, <1>3, <1>4 DEF SetupInv

\* The search begins: nothing has been asked of the directories yet.
LEMMA NewPreserves ==
    ASSUME SetupInv, NEW h \in Handles, New(h)
    PROVE  SetupInv'
<1>1. CASE \E st : Fail(h, st)
  BY <1>1, FailPreserves DEF New, machine, directories
<1>2. ASSUME ~CopyFailed(config[h]), NEW id \in AppIds, Verdicts[id] = "OK",
             handle[h].pc = "config",
             handle' = [handle EXCEPT ![h] = [NoHandle EXCEPT
                          !.pc = IF config[h].multi_instance THEN "cwd" ELSE "xdg",
                          !.env = id.env, !.app_key = id.key, !.since = epoch]],
             UNCHANGED <<status, config, asked, settings, machine, directories, cache>>
      PROVE  SetupInv'
  <2>1. id.env \in Envs /\ id.key \in Text
    BY <1>2, SetupAssumption DEF Verdicts, ParseAppId, Envs
  <2>2. SetupTypes'
    BY <1>2, <2>1 DEF SetupInv, SetupTypes, HandleType, NoHandle, Pcs, Envs, Text,
                      MachineIds, machine, directories
  <2>3. Available' = Available /\ UNCHANGED <<os, environ, epoch>>
    BY <1>2 DEF Available, machine, directories
  <2>4. ASSUME NEW g \in Handles, g # h PROVE HandleInv(g)'
    <3>1. handle'[g] = handle[g]
      BY <1>2, <2>4 DEF SetupInv, SetupTypes
    <3> QED
      BY <1>2, <2>3, <3>1, Untouched
  <2>5. HandleInv(h)'
    <3>1. HandleInv(h)
      BY DEF SetupInv
    <3>2. /\ handle'[h].pc = IF config[h].multi_instance THEN "cwd" ELSE "xdg"
          /\ handle'[h].since = epoch /\ handle'[h].until = 0
      BY <1>2 DEF SetupInv, SetupTypes, NoHandle
    <3>3. ConfigIsAsked(h)'
      BY <1>2, <3>1, <3>2 DEF HandleInv, ConfigIsAsked, Parsed, CopyFailed
    <3>4. SearchIsSteady(h)'
      BY <1>2, <2>3, <3>1, <3>2 DEF HandleInv, ConfigIsAsked, SearchIsSteady, Variables,
                                    SetupInv, SetupTypes
    <3> QED
      BY <3>2, <3>3, <3>4 DEF HandleInv
  <2> QED
    BY <2>2, <2>4, <2>5 DEF SetupInv
<1> QED
  BY <1>1, <1>2 DEF New

\* A mkdir creates nothing that could not be had before.
LEMMA MkdirChangesNothing ==
    ASSUME NEW base, MkdirP(base), made' = made \cup {base}, parents' = parents
    PROVE  Available' = Available
  BY DEF MkdirP, Available

\* The next directory is tried only when this one cannot be had.
LEMMA ResolvePreserves ==
    ASSUME SetupInv, NEW h \in Handles, ResolveConfigDir(h) \/ ResolveWorkingDir(h)
    PROVE  SetupInv'
<1>1. CASE Fail(h, "STORAGE_INIT_FAILED") /\ UNCHANGED <<machine, directories>>
  BY <1>1, FailPreserves DEF machine, directories
<1>2. ASSUME NEW base \in Bases, handle[h].pc = base, MkdirP(base), Resolved(h, base),
             base \in environ \/ base = "cwd", UNCHANGED <<settings, machine, cache>>
      PROVE  SetupInv'
  <2>1. SetupTypes'
    <3>1. handle' \in [Handles -> HandleType]
      <4> DEFINE found == [handle[h] EXCEPT !.pc = "machine", !.base = base, !.until = epoch]
      <4>1. handle[h] \in HandleType /\ epoch \in Nat
        BY DEF SetupInv, SetupTypes
      <4>2. found \in HandleType
        BY <4>1 DEF HandleType, Pcs
      <4>3. handle' = [handle EXCEPT ![h] = found]
        BY <1>2 DEF Resolved, SetupInv, SetupTypes
      <4> QED
        BY <4>2, <4>3 DEF SetupInv, SetupTypes
    <3> QED
      BY <1>2, <3>1 DEF Resolved, SetupInv, SetupTypes, machine
  <2>2. Available' = Available /\ UNCHANGED <<os, environ, epoch>>
    BY <1>2, MkdirChangesNothing DEF Resolved, machine
  <2>3. ASSUME NEW g \in Handles, g # h PROVE HandleInv(g)'
    <3>1. config'[g] = config[g] /\ asked'[g] = asked[g] /\ handle'[g] = handle[g]
      BY <1>2, <2>3 DEF Resolved, SetupInv, SetupTypes
    <3> QED
      BY <2>2, <3>1, Untouched
  <2>4. HandleInv(h)'
    <3>1. HandleInv(h)
      BY DEF SetupInv
    <3>2. /\ handle'[h].pc = "machine" /\ handle'[h].base = base
          /\ handle'[h].since = handle[h].since /\ handle'[h].until = epoch
      BY <1>2 DEF Resolved, SetupInv, SetupTypes, HandleType
    <3>3. ConfigIsAsked(h)'
      BY <1>2, <3>1, <3>2 DEF Resolved, HandleInv, ConfigIsAsked, Parsed, Bases, Variables
    <3>4. ASSUME handle[h].since = epoch, ~asked[h].multi_instance PROVE base = Choice
      BY <1>2, <3>1, <3>4 DEF HandleInv, SearchIsSteady, Choice, Has, Available, MkdirP,
                              Bases, Variables
    <3>5. Choice' = Choice
      BY <2>2 DEF Choice, Has
    <3>6. SearchIsSteady(h)'
      BY <1>2, <2>2, <3>1, <3>2, <3>4, <3>5
         DEF Resolved, HandleInv, SearchIsSteady, Variables, SetupInv, SetupTypes
    <3> QED
      BY <3>2, <3>3, <3>6 DEF HandleInv
  <2> QED
    BY <2>1, <2>3, <2>4 DEF SetupInv
<1>3. ASSUME handle[h].pc \in Variables, ~Has(handle[h].pc),
             handle' = [handle EXCEPT ![h].pc = IF @ = "xdg" THEN "home" ELSE "cwd"],
             UNCHANGED <<config, asked, machine, directories>>
      PROVE  SetupInv'
  <2>1. SetupTypes'
    <3>1. handle' \in [Handles -> HandleType]
      BY <1>3 DEF SetupInv, SetupTypes, HandleType, Pcs
    <3> QED
      BY <1>3, <3>1 DEF SetupInv, SetupTypes, machine, directories
  <2>2. Available' = Available /\ UNCHANGED <<os, environ, epoch>>
    BY <1>3 DEF Available, machine, directories
  <2>3. ASSUME NEW g \in Handles, g # h PROVE HandleInv(g)'
    <3>1. config'[g] = config[g] /\ asked'[g] = asked[g] /\ handle'[g] = handle[g]
      BY <1>3, <2>3 DEF SetupInv, SetupTypes
    <3> QED
      BY <2>2, <3>1, Untouched
  <2>4. HandleInv(h)'
    <3>1. HandleInv(h)
      BY DEF SetupInv
    <3>2. /\ handle'[h].pc = IF handle[h].pc = "xdg" THEN "home" ELSE "cwd"
          /\ handle'[h].since = handle[h].since /\ handle'[h].until = handle[h].until
      BY <1>3 DEF SetupInv, SetupTypes, HandleType
    <3>3. ConfigIsAsked(h)'
      BY <1>3, <3>1, <3>2 DEF HandleInv, ConfigIsAsked, Parsed, Variables
    <3>4. SearchIsSteady(h)'
      BY <1>3, <2>2, <3>1, <3>2 DEF HandleInv, SearchIsSteady, Variables, Has
    <3> QED
      BY <3>2, <3>3, <3>4 DEF HandleInv
  <2> QED
    BY <2>1, <2>3, <2>4 DEF SetupInv
<1>4. CASE ResolveConfigDir(h)
  <2>1. CASE handle[h].pc \in environ /\ MkdirP(handle[h].pc)
    BY <1>2, <1>4, <2>1 DEF ResolveConfigDir, Bases
  <2>2. CASE ~(handle[h].pc \in environ /\ MkdirP(handle[h].pc))
    BY <1>3, <1>4, <2>2 DEF ResolveConfigDir, Has, Available, MkdirP
  <2> QED
    BY <2>1, <2>2
<1>5. CASE ResolveWorkingDir(h)
  BY <1>1, <1>2, <1>5 DEF ResolveWorkingDir, Bases
<1> QED
  BY <1>4, <1>5

\* Only a config whose copies all succeeded gets this far.
LEMMA FingerprintPreserves ==
    ASSUME SetupInv, NEW h \in Handles, Fingerprint(h)
    PROVE  SetupInv'
<1>1. CASE \E st : Fail(h, st)
  BY <1>1, FailPreserves DEF Fingerprint, machine, directories
<1>2. ASSUME NEW raw,
             raw \in (IF config[h].machine_id # Unset THEN {config[h].machine_id}
                      ELSE RawMachineId),
             handle[h].pc = "machine",
             handle' = [handle EXCEPT ![h].pc = "client",
                                      ![h].machine_id = MachineIdHash(raw, h)],
             UNCHANGED <<config, asked, machine, directories>>
      PROVE  SetupInv'
  <2>1. SetupTypes'
    <3>1. raw \in Raws
      BY <1>2 DEF SetupInv, SetupTypes, ConfigType, RawMachineId, Raws
    <3>2. MachineIdHash(raw, h) \in MachineIds
      BY <3>1 DEF MachineIdHash, MachineIds, SetupInv, SetupTypes, HandleType
    <3>3. handle' \in [Handles -> HandleType]
      <4> DEFINE named == [handle[h] EXCEPT !.pc = "client", !.machine_id = MachineIdHash(raw, h)]
      <4>1. handle[h] \in HandleType
        BY DEF SetupInv, SetupTypes
      <4>2. named \in HandleType
        BY <3>2, <4>1 DEF HandleType, Pcs
      <4>3. handle' = [handle EXCEPT ![h] = named]
        BY <1>2 DEF SetupInv, SetupTypes
      <4> QED
        BY <4>2, <4>3 DEF SetupInv, SetupTypes
    <3> QED
      BY <1>2, <3>3 DEF SetupInv, SetupTypes, machine, directories
  <2>2. Available' = Available /\ UNCHANGED <<os, environ, epoch>>
    BY <1>2 DEF Available, machine, directories
  <2>3. ASSUME NEW g \in Handles, g # h PROVE HandleInv(g)'
    <3>1. handle'[g] = handle[g]
      BY <1>2, <2>3 DEF SetupInv, SetupTypes
    <3> QED
      BY <1>2, <2>2, <3>1, Untouched
  <2>4. HandleInv(h)'
    <3>1. HandleInv(h)
      BY DEF SetupInv
    <3>2. /\ handle'[h].pc = "client" /\ handle'[h].base = handle[h].base
          /\ handle'[h].since = handle[h].since /\ handle'[h].until = handle[h].until
          /\ handle'[h].machine_id = MachineIdHash(raw, h)
          /\ handle'[h].env = handle[h].env /\ handle'[h].app_key = handle[h].app_key
      BY <1>2 DEF SetupInv, SetupTypes, HandleType
    <3>3. ConfigIsAsked(h)'
      BY <3>2 DEF ConfigIsAsked, Parsed
    <3>4. Choice' = Choice
      BY <2>2 DEF Choice, Has
    <3>5. SearchIsSteady(h)'
      BY <1>2, <2>2, <3>1, <3>2, <3>4 DEF HandleInv, SearchIsSteady, Variables
    <3>7. config[h].machine_id = asked[h].machine_id
      BY <1>2, <3>1 DEF HandleInv, ConfigIsAsked, Parsed
    <3>8. MachineIsRight(h)'
      <4>1. asked'[h] = asked[h] /\ os' = os
        BY <1>2, <2>2
      <4>2. CASE asked[h].machine_id # Unset
        <5>1. raw = asked[h].machine_id
          BY <1>2, <3>7, <4>2
        <5>2. handle'[h].machine_id = MachineIdHash(asked[h].machine_id, h)'
          BY <3>2, <4>1, <5>1 DEF MachineIdHash
        <5> QED
          BY <4>1, <4>2, <5>2 DEF MachineIsRight
      <4>3. CASE asked[h].machine_id = Unset
        <5>1. PICK i \in DOMAIN os : raw = os[i] /\ os[i] \notin {"missing", "empty"}
          BY <1>2, <3>7, <4>3 DEF RawMachineId
        <5>2. handle'[h].machine_id = MachineIdHash(os[i], h)'
          BY <3>2, <4>1, <5>1 DEF MachineIdHash
        <5> QED
          BY <4>1, <4>3, <5>1, <5>2 DEF MachineIsRight
      <4> QED
        BY <4>2, <4>3
    <3> QED
      BY <3>3, <3>5, <3>8 DEF HandleInv
  <2> QED
    BY <2>1, <2>3, <2>4 DEF SetupInv
<1> QED
  BY <1>1, <1>2 DEF Fingerprint

\* The handle opens: nothing it was made from changes.
LEMMA ClientPreserves ==
    ASSUME SetupInv, NEW h \in Handles, Client(h)
    PROVE  SetupInv'
<1>1. CASE \E st : Fail(h, st)
  BY <1>1, FailPreserves DEF Client, machine, directories
<1>2. ASSUME handle[h].pc = "client", handle' = [handle EXCEPT ![h].pc = "open"],
             config' = [config EXCEPT ![h] = NoConfig], UNCHANGED <<asked, machine, directories>>
      PROVE  SetupInv'
  <2>1. SetupTypes'
    <3>1. NoConfig \in ConfigType
      BY DEF NoConfig, ConfigType
    <3>2. handle' \in [Handles -> HandleType]
      BY <1>2 DEF SetupInv, SetupTypes, HandleType, Pcs
    <3> QED
      BY <1>2, <3>1, <3>2 DEF SetupInv, SetupTypes, machine, directories
  <2>2. Available' = Available /\ UNCHANGED <<os, environ, epoch>>
    BY <1>2 DEF Available, machine, directories
  <2>3. ASSUME NEW g \in Handles, g # h PROVE HandleInv(g)'
    <3>1. handle'[g] = handle[g] /\ config'[g] = config[g]
      BY <1>2, <2>3 DEF SetupInv, SetupTypes
    <3> QED
      BY <1>2, <2>2, <3>1, Untouched
  <2>4. HandleInv(h)'
    <3>1. HandleInv(h)
      BY DEF SetupInv
    <3>2. /\ handle'[h].pc = "open" /\ handle'[h].base = handle[h].base
          /\ handle'[h].since = handle[h].since /\ handle'[h].until = handle[h].until
          /\ handle'[h].machine_id = handle[h].machine_id
          /\ handle'[h].env = handle[h].env /\ handle'[h].app_key = handle[h].app_key
      BY <1>2 DEF SetupInv, SetupTypes, HandleType
    <3>3. ConfigIsAsked(h)'
      BY <3>2 DEF ConfigIsAsked, Parsed
    <3>4. Choice' = Choice
      BY <2>2 DEF Choice, Has
    <3>5. SearchIsSteady(h)'
      BY <1>2, <2>2, <3>1, <3>2, <3>4 DEF HandleInv, SearchIsSteady, Variables
    <3>6. MachineIsRight(h)'
      BY <1>2, <2>2, <3>1, <3>2 DEF HandleInv, MachineIsRight, MachineIdHash
    <3> QED
      BY <3>3, <3>5, <3>6 DEF HandleInv
  <2> QED
    BY <2>1, <2>3, <2>4 DEF SetupInv
<1> QED
  BY <1>1, <1>2 DEF Client

\* latte_free: the handle is gone.
LEMMA ClosePreserves ==
    ASSUME SetupInv, NEW h \in Handles, Close(h)
    PROVE  SetupInv'
<1>1. SetupTypes'
  <2>1. NotAsked \in AskedType /\ NoHandle \in HandleType
    BY DEF NotAsked, AskedType, NoHandle, HandleType, Envs, Pcs, Text, MachineIds
  <2> QED
    BY <2>1 DEF Close, SetupInv, SetupTypes, machine, directories
<1>2. Available' = Available /\ UNCHANGED <<os, environ, epoch>>
  BY DEF Close, Available, machine, directories
<1>3. ASSUME NEW g \in Handles, g # h PROVE HandleInv(g)'
  <2>1. config'[g] = config[g] /\ asked'[g] = asked[g] /\ handle'[g] = handle[g]
    BY <1>3 DEF Close, SetupInv, SetupTypes
  <2> QED
    BY <1>2, <2>1, Untouched
<1>4. HandleInv(h)'
  <2>1. handle'[h] = NoHandle
    BY DEF Close, SetupInv, SetupTypes
  <2> QED
    BY <1>2, <2>1, Fresh
<1> QED
  BY <1>1, <1>3, <1>4 DEF SetupInv

\* A directory that appears ends the epoch of every search so far.
LEMMA AppearsPreserves ==
    ASSUME SetupInv, ParentAppears
    PROVE  SetupInv'
<1>1. SetupTypes'
  BY DEF ParentAppears, SetupInv, SetupTypes, configs, machine
<1>2. ASSUME NEW h \in Handles PROVE HandleInv(h)'
  <2>1. HandleInv(h) /\ epoch \in Nat /\ handle[h].since \in Nat /\ handle[h].until \in Nat
    BY DEF SetupInv, SetupTypes, HandleType
  <2>2. /\ epoch' = epoch + 1
        /\ handle' = handle /\ config' = config /\ asked' = asked /\ os' = os
    BY DEF ParentAppears, configs, machine
  <2>3. ConfigIsAsked(h)'
    BY <2>1, <2>2 DEF HandleInv, ConfigIsAsked
  <2>4. SearchIsSteady(h)'
    BY <2>1, <2>2 DEF HandleInv, SearchIsSteady
  <2>5. handle[h].pc \in {"client", "open"} => MachineIsRight(h)'
    BY <2>1, <2>2 DEF HandleInv, MachineIsRight, MachineIdHash
  <2> QED
    BY <2>2, <2>3, <2>4, <2>5 DEF HandleInv
<1> QED
  BY <1>1, <1>2 DEF SetupInv

\* A step that leaves the handles, their configs and the machine alone.
LEMMA IdlePreserves ==
    ASSUME SetupInv, UNCHANGED <<config, asked, handle, machine, directories>>
    PROVE  SetupInv'
<1>1. SetupTypes'
  BY DEF SetupInv, SetupTypes, machine, directories
<1>2. ASSUME NEW h \in Handles PROVE HandleInv(h)'
  BY Untouched DEF Available, machine, directories
<1> QED
  BY <1>1, <1>2 DEF SetupInv

-----------------------------------------------------------------------------
\* The invariant holds in every reachable state.
THEOREM SetupCorrect == SetupSpec => []SetupInv
<1>1. ASSUME SetupInv, [SetupNext]_setupVars PROVE SetupInv'
  <2>1. ASSUME NEW h \in Handles,
               \/ NewConfig(h) \/ SetMultiInstance(h) \/ SetMachineId(h) \/ SetMachineName(h)
        PROVE  SetupInv'
    BY <1>1, <2>1, ConfigPreserves
  <2>2. ASSUME NEW h \in Handles, New(h) PROVE SetupInv'
    BY <1>1, <2>2, NewPreserves
  <2>3. ASSUME NEW h \in Handles, ResolveConfigDir(h) \/ ResolveWorkingDir(h) PROVE SetupInv'
    BY <1>1, <2>3, ResolvePreserves
  <2>4. ASSUME NEW h \in Handles, Fingerprint(h) PROVE SetupInv'
    BY <1>1, <2>4, FingerprintPreserves
  <2>5. ASSUME NEW h \in Handles, Client(h) PROVE SetupInv'
    BY <1>1, <2>5, ClientPreserves
  <2>6. ASSUME NEW h \in Handles, Close(h) PROVE SetupInv'
    BY <1>1, <2>6, ClosePreserves
  <2>7. ASSUME NEW h \in Handles, NewWithoutConfig(h) \/ ActivateTyped(h) PROVE SetupInv'
    BY <1>1, <2>7, IdlePreserves DEF NewWithoutConfig, ActivateTyped, configs
  <2>8. CASE ParentAppears
    BY <1>1, <2>8, AppearsPreserves
  <2>9. CASE UNCHANGED setupVars
    BY <1>1, <2>9, IdlePreserves DEF setupVars, configs
  <2> QED
    BY <1>1, <2>1, <2>2, <2>3, <2>4, <2>5, <2>6, <2>7, <2>8, <2>9 DEF SetupNext
<1> QED
  BY <1>1, SetupInitially, PTL DEF SetupSpec

\* Processes that open one app at the same time, or one after the other, find
\* one cache file: appid.c's search ends with Choice for each of them.
THEOREM CacheIsShared == SetupSpec => []SharedCache
<1>1. ASSUME SetupInv PROVE SharedCache
  <2> SUFFICES ASSUME NEW g \in Handles, NEW h \in Handles, IsOpen(g), IsOpen(h),
                      handle[g].app_key = handle[h].app_key,
                      ~asked[g].multi_instance, ~asked[h].multi_instance,
                      {handle[g].since, handle[g].until, handle[h].since, handle[h].until}
                        = {epoch}
               PROVE  PathOf(g) = PathOf(h)
    BY DEF SharedCache
  <2>1. /\ handle[g].since = epoch /\ handle[g].until = epoch
        /\ handle[h].since = epoch /\ handle[h].until = epoch
    OBVIOUS
  <2>2. handle[g].base = Choice /\ handle[h].base = Choice
    BY <1>1, <2>1 DEF SetupInv, HandleInv, SearchIsSteady, IsOpen
  <2> QED
    BY <2>2 DEF PathOf
<1> QED
  BY <1>1, SetupCorrect, PTL

\* An open handle goes by the machine ID that was set last, or by the operating
\* system's if none was: latte_new has looked at machine_id_failed.
THEOREM MachineIsTheOneAskedFor == SetupSpec => []RightMachine
<1>1. SetupInv => RightMachine
  BY DEF SetupInv, HandleInv, RightMachine, MachineIsRight, IsOpen
<1> QED
  BY <1>1, SetupCorrect, PTL

-----------------------------------------------------------------------------
(***************************************************************************)
(* The checksum of an app ID's key segment, for segments of any length.    *)
(* What the loop of calculate_checksum computes is a recursive function:   *)
(* it exists, and two of them are compared, by counting up to the place.   *)
(***************************************************************************)
\* A set of naturals that holds 0 and every successor holds them all.
LEMMA Counting ==
    ASSUME NEW T, 0 \in T, \A n \in Nat : n \in T => n + 1 \in T
    PROVE  Nat \subseteq T
<1> DEFINE Out == Nat \ T
<1> SUFFICES ASSUME Out # {} PROVE FALSE
  OBVIOUS
<1>1. PICK x \in Out : \A y \in Out : ~ (<<y, x>> \in OpToRel(<, Nat))
  <2>1. IsWellFoundedOn(OpToRel(<, Nat), Nat)
    BY NatLessThanWellFounded
  <2>2. Out \subseteq Nat
    OBVIOUS
  <2> HIDE DEF Out
  <2> QED
    BY <2>1, <2>2, WFMin
<1>2. x \in Nat \ {0} /\ x - 1 \in Nat
  OBVIOUS
<1>3. <<x - 1, x>> \in OpToRel(<, Nat)
  BY <1>2 DEF OpToRel
<1>4. x - 1 \in T
  BY <1>1, <1>2, <1>3
<1> QED
  BY <1>2, <1>4

\* What the loop computes, one character after the other.
LEMMA SumsStepwise ==
    ASSUME NEW data \in Seq(STRING)
    PROVE  /\ Sums(data)[0] = 0
           /\ \A i \in 1 .. Len(data) :
                Sums(data)[i] = Sums(data)[i - 1] + Weight(i) * Value(data[i])
<1> DEFINE Step(f, i) == IF i = 0 THEN 0 ELSE f[i - 1] + Weight(i) * Value(data[i])
           T == {n \in Nat : \E f : f = [i \in 0 .. n |-> Step(f, i)]}
<1>1. 0 \in T
  <2> DEFINE f == [i \in 0 .. 0 |-> 0]
  <2>1. f = [i \in 0 .. 0 |-> Step(f, i)]
    OBVIOUS
  <2> QED
    BY <2>1
<1>2. ASSUME NEW n \in Nat, n \in T PROVE n + 1 \in T
  <2>1. PICK f : f = [i \in 0 .. n |-> Step(f, i)]
    BY <1>2
  <2> DEFINE g == [i \in 0 .. n + 1 |-> IF i = n + 1 THEN f[n] + Weight(n + 1) * Value(data[n + 1])
                                         ELSE f[i]]
  <2>2. ASSUME NEW i \in 0 .. n + 1 PROVE g[i] = Step(g, i)
    <3>1. CASE i = n + 1
      <4>1. g[n] = f[n]
        OBVIOUS
      <4> QED
        BY <3>1, <4>1
    <3>2. CASE i \in 0 .. n
      <4>1. f[i] = Step(f, i)
        BY <2>1, <3>2
      <4>2. g[i] = f[i] /\ (i # 0 => g[i - 1] = f[i - 1])
        BY <3>2
      <4> QED
        BY <4>1, <4>2
    <3> QED
      BY <3>1, <3>2
  <2>3. g = [i \in 0 .. n + 1 |-> Step(g, i)]
    BY <2>2
  <2> HIDE DEF g, Step
  <2>4. \E h : h = [i \in 0 .. n + 1 |-> Step(h, i)]
    BY <2>3
  <2> QED
    BY <2>4
<1>3. Len(data) \in T
  <2> HIDE DEF T
  <2>1. Nat \subseteq T
    BY <1>1, <1>2, Counting
  <2> QED
    BY <2>1
<1>4. PICK f : f = [i \in 0 .. Len(data) |-> Step(f, i)]
  BY <1>3
<1>5. Sums(data) = [i \in 0 .. Len(data) |-> Step(Sums(data), i)]
  BY <1>4 DEF Sums
<1> HIDE DEF Step
<1>6. \A i \in 0 .. Len(data) : Sums(data)[i] = Step(Sums(data), i)
  BY <1>5
<1> USE DEF Step
<1>7. 0 \in 0 .. Len(data) /\ \A i \in 1 .. Len(data) : i \in 0 .. Len(data) /\ i # 0
  OBVIOUS
<1> QED
  BY <1>6, <1>7

\* No character stands at two places of the alphabet.
LEMMA AlphabetTells ==
    /\ DOMAIN Alphabet = 1 .. 32 /\ ALPHABET_LEN = 32
    /\ \A i, j \in 1 .. 32 : Alphabet[i] = Alphabet[j] => i = j
<1>1. DOMAIN Alphabet = 1 .. 32 /\ ALPHABET_LEN = 32
  BY DEF Alphabet, ALPHABET_LEN
<1>2. \A i, j \in 1 .. 32 : Alphabet[i] = Alphabet[j] => i = j
  BY SMTT(60) DEF Alphabet
<1> QED
  BY <1>1, <1>2

\* Characters of the alphabet have their places for values.
LEMMA ValueTells ==
    /\ \A c : Value(c) \in 0 .. 31
    /\ \A c, d : /\ Places(Alphabet, c) # {} /\ Places(Alphabet, d) # {}
                 /\ Value(c) = Value(d)
                => c = d
<1>1. \A c : Places(Alphabet, c) \subseteq 1 .. 32
  BY AlphabetTells DEF Places
<1>2. ASSUME NEW c, Places(Alphabet, c) # {}
      PROVE  Value(c) \in 0 .. 31 /\ Alphabet[Value(c) + 1] = c
  <2>1. PICK i \in Places(Alphabet, c) : Value(c) = i - 1
    BY <1>2 DEF Value
  <2>2. i \in 1 .. 32 /\ Alphabet[i] = c
    BY <1>1 DEF Places
  <2> QED
    BY <2>1, <2>2
<1>3. ASSUME NEW c, Places(Alphabet, c) = {} PROVE Value(c) \in 0 .. 31
  BY <1>3 DEF Value
<1>4. \A c : Value(c) \in 0 .. 31
  BY <1>2, <1>3
<1>5. ASSUME NEW c, NEW d, Places(Alphabet, c) # {}, Places(Alphabet, d) # {}, Value(c) = Value(d)
      PROVE  c = d
  BY <1>2, <1>5
<1> QED
  BY <1>4, <1>5

\* What a character adds to the sum.
LEMMA Contribution ==
    ASSUME NEW i \in Nat, NEW c
    PROVE  /\ Weight(i) * Value(c) = IF i % 2 = 1 THEN 2 * Value(c) ELSE Value(c)
           /\ Weight(i) * Value(c) \in Nat
<1>1. Value(c) \in 0 .. 31
  BY ValueTells
<1>2. CASE i % 2 = 1
  <2>1. Weight(i) = 2
    BY <1>2 DEF Weight
  <2> QED
    BY <1>1, <1>2, <2>1
<1>3. CASE i % 2 # 1
  <2>1. Weight(i) = 1
    BY <1>3 DEF Weight
  <2> QED
    BY <1>1, <1>3, <2>1
<1> QED
  BY <1>2, <1>3

LEMMA SumsAreNumbers ==
    ASSUME NEW data \in Seq(STRING)
    PROVE  \A i \in 0 .. Len(data) : Sums(data)[i] \in Nat
<1> DEFINE T == {n \in Nat : n <= Len(data) => Sums(data)[n] \in Nat}
<1>1. 0 \in T
  BY SumsStepwise
<1>2. ASSUME NEW n \in Nat, n \in T PROVE n + 1 \in T
  <2> SUFFICES ASSUME n + 1 <= Len(data) PROVE Sums(data)[n + 1] \in Nat
    OBVIOUS
  <2>1. Sums(data)[n] \in Nat
    BY <1>2
  <2>2. n + 1 \in 1 .. Len(data)
    OBVIOUS
  <2>3. Sums(data)[n + 1] = Sums(data)[n] + Weight(n + 1) * Value(data[n + 1])
    BY <2>2, SumsStepwise
  <2>4. Weight(n + 1) * Value(data[n + 1]) \in Nat
    BY Contribution
  <2> QED
    BY <2>1, <2>3, <2>4
<1>3. Nat \subseteq T
  <2> HIDE DEF T
  <2> QED
    BY <1>1, <1>2, Counting
<1> QED
  BY <1>3

\* One turn of the loop.
LEMMA SumsTurn ==
    ASSUME NEW data \in Seq(STRING), NEW i \in Nat, i < Len(data)
    PROVE  /\ Sums(data)[i] \in Nat
           /\ Sums(data)[i + 1] \in Nat
           /\ Sums(data)[i + 1] = Sums(data)[i] + Weight(i + 1) * Value(data[i + 1])
           /\ Weight(i + 1) * Value(data[i + 1]) \in Nat
           /\ i % 2 = 0 => Sums(data)[i + 1] = Sums(data)[i] + 2 * Value(data[i + 1])
           /\ i % 2 # 0 => Sums(data)[i + 1] = Sums(data)[i] + Value(data[i + 1])
<1>1. i \in 0 .. Len(data) /\ i + 1 \in 1 .. Len(data) /\ i + 1 \in 0 .. Len(data) /\ (i + 1) - 1 = i
  OBVIOUS
<1>2. Sums(data)[i + 1] = Sums(data)[i] + Weight(i + 1) * Value(data[i + 1])
  BY <1>1, SumsStepwise
<1>3. Sums(data)[i] \in Nat /\ Sums(data)[i + 1] \in Nat
  BY <1>1, SumsAreNumbers
<1>4. i % 2 = 0 <=> (i + 1) % 2 = 1
  OBVIOUS
<1>5. /\ Weight(i + 1) * Value(data[i + 1]) \in Nat
      /\ i % 2 = 0 => Weight(i + 1) * Value(data[i + 1]) = 2 * Value(data[i + 1])
      /\ i % 2 # 0 => Weight(i + 1) * Value(data[i + 1]) = Value(data[i + 1])
  BY <1>4, Contribution
<1> QED
  BY <1>2, <1>3, <1>5

\* Where two texts agree from one place to another, the loop adds the same.
LEMMA SameTailSameSum ==
    ASSUME NEW a \in Seq(STRING), NEW b \in Seq(STRING), NEW n \in Nat, Len(a) = n, Len(b) = n,
           NEW lo \in Nat, NEW m \in Nat, lo <= m, m <= n,
           \A i \in Nat : lo < i /\ i <= m => a[i] = b[i]
    PROVE  Sums(a)[m] - Sums(b)[m] = Sums(a)[lo] - Sums(b)[lo]
<1> DEFINE T == {k \in Nat : lo <= k /\ k <= m =>
                    Sums(a)[k] - Sums(b)[k] = Sums(a)[lo] - Sums(b)[lo]}
<1>1. 0 \in T
  <2> SUFFICES ASSUME lo <= 0 PROVE Sums(a)[0] - Sums(b)[0] = Sums(a)[lo] - Sums(b)[lo]
    OBVIOUS
  <2>1. lo = 0
    OBVIOUS
  <2> QED
    BY <2>1
<1>2. ASSUME NEW k \in Nat, k \in T PROVE k + 1 \in T
  <2> SUFFICES ASSUME lo <= k + 1, k + 1 <= m
               PROVE  Sums(a)[k + 1] - Sums(b)[k + 1] = Sums(a)[lo] - Sums(b)[lo]
    OBVIOUS
  <2>1. CASE lo = k + 1
    BY <2>1
  <2>2. CASE lo <= k
    <3>1. Sums(a)[k] - Sums(b)[k] = Sums(a)[lo] - Sums(b)[lo]
      BY <1>2, <2>2
    <3>2. k < Len(a) /\ k < Len(b) /\ a[k + 1] = b[k + 1]
      BY <2>2
    <3>3. /\ Sums(a)[k] \in Nat /\ Sums(b)[k] \in Nat
          /\ Weight(k + 1) * Value(a[k + 1]) \in Nat
          /\ Sums(a)[k + 1] = Sums(a)[k] + Weight(k + 1) * Value(a[k + 1])
          /\ Sums(b)[k + 1] = Sums(b)[k] + Weight(k + 1) * Value(a[k + 1])
      BY <3>2, SumsTurn
    <3> QED
      BY <3>1, <3>3
  <2> QED
    BY <2>1, <2>2
<1>3. m \in T
  <2> HIDE DEF T
  <2> QED
    BY <1>1, <1>2, Counting
<1> QED
  BY <1>3

\* Neighbours weigh differently.
LEMMA Parity == \A p \in Nat : p % 2 = 0 <=> (p + 1) % 2 # 0
  OBVIOUS

\* What one turn adds to the difference of two sums.
LEMMA TurnDifference ==
    ASSUME NEW a \in Seq(STRING), NEW b \in Seq(STRING), NEW p \in Nat, p < Len(a), p < Len(b)
    PROVE  Sums(a)[p + 1] - Sums(b)[p + 1] =
              (Sums(a)[p] - Sums(b)[p])
              + (IF p % 2 = 0 THEN 2 * Value(a[p + 1]) - 2 * Value(b[p + 1])
                 ELSE Value(a[p + 1]) - Value(b[p + 1]))
<1>1. PICK x \in 0 .. 31, y \in 0 .. 31 : x = Value(a[p + 1]) /\ y = Value(b[p + 1])
  BY ValueTells
<1>2. PICK s \in Nat, t \in Nat : s = Sums(a)[p] /\ t = Sums(b)[p]
  BY SumsTurn
<1>3. CASE p % 2 = 0
  <2>1. Sums(a)[p + 1] = s + 2 * x
    BY <1>1, <1>2, <1>3, SumsTurn
  <2>2. Sums(b)[p + 1] = t + 2 * y
    BY <1>1, <1>2, <1>3, SumsTurn
  <2>3. (s + 2 * x) - (t + 2 * y) = (s - t) + (2 * x - 2 * y)
    OBVIOUS
  <2> QED
    BY <1>1, <1>2, <1>3, <2>1, <2>2, <2>3
<1>4. CASE p % 2 # 0
  <2>1. Sums(a)[p + 1] = s + x
    BY <1>1, <1>2, <1>4, SumsTurn
  <2>2. Sums(b)[p + 1] = t + y
    BY <1>1, <1>2, <1>4, SumsTurn
  <2>3. (s + x) - (t + y) = (s - t) + (x - y)
    OBVIOUS
  <2> QED
    BY <1>1, <1>2, <1>4, <2>1, <2>2, <2>3
<1> QED
  BY <1>3, <1>4

LEMMA SameRemainder ==
    ASSUME NEW x \in Nat, NEW y \in Nat,
           x % 32 = y % 32 \/ (x + 31) % 32 = (y + 31) % 32
    PROVE  /\ x % 32 = y % 32
           /\ (x - y) % 32 = 0
           /\ \A i \in 1 .. 4 : (x + (i - 1) * 31) % 32 = (y + (i - 1) * 31) % 32
<1>1. x % 32 = y % 32
  OBVIOUS
<1>2. (x - y) % 32 = 0
  BY <1>1
<1>3. /\ (x + 31) % 32 = (y + 31) % 32
      /\ (x + 62) % 32 = (y + 62) % 32
      /\ (x + 93) % 32 = (y + 93) % 32
  BY <1>1
<1>4. ASSUME NEW i \in 1 .. 4 PROVE (x + (i - 1) * 31) % 32 = (y + (i - 1) * 31) % 32
  <2>1. CASE i = 1
    BY <1>1, <2>1
  <2>2. CASE i = 2
    BY <1>3, <2>2
  <2>3. CASE i = 3
    BY <1>3, <2>3
  <2>4. CASE i = 4
    BY <1>3, <2>4
  <2> QED
    BY <2>1, <2>2, <2>3, <2>4
<1> QED
  BY <1>1, <1>2, <1>4

\* The first two characters of a checksum each tell the sum modulo 32.
LEMMA ChecksumTells ==
    ASSUME NEW a \in Seq(STRING), NEW b \in Seq(STRING), Len(b) = Len(a),
           NEW k \in {1, 2}, Checksum(a, 4)[k] = Checksum(b, 4)[k]
    PROVE  /\ (Sums(a)[Len(a)] - Sums(b)[Len(a)]) % 32 = 0
           /\ Checksum(a, 4) = Checksum(b, 4)
<1>1. PICK x \in Nat, y \in Nat : x = Sums(a)[Len(a)] /\ y = Sums(b)[Len(a)]
  BY SumsAreNumbers
<1> DEFINE Turn(z, i) == (z + (i - 1) * 31) % 32
<1>2. /\ Checksum(a, 4) = [i \in 1 .. 4 |-> Alphabet[Turn(x, i) + 1]]
      /\ Checksum(b, 4) = [i \in 1 .. 4 |-> Alphabet[Turn(y, i) + 1]]
  BY <1>1, AlphabetTells DEF Checksum
<1>3. Turn(x, k) \in 0 .. 31 /\ Turn(y, k) \in 0 .. 31
  <2>1. x + (k - 1) * 31 \in Nat /\ y + (k - 1) * 31 \in Nat
    OBVIOUS
  <2> QED
    BY <2>1
<1>4. Turn(x, k) = Turn(y, k)
  <2>1. PICK p \in 0 .. 31, q \in 0 .. 31 : p = Turn(x, k) /\ q = Turn(y, k)
    BY <1>3
  <2> HIDE DEF Turn
  <2>2. Alphabet[p + 1] = Alphabet[q + 1]
    BY <1>2, <2>1
  <2>3. p + 1 \in 1 .. 32 /\ q + 1 \in 1 .. 32
    OBVIOUS
  <2>4. p + 1 = q + 1
    BY <2>2, <2>3, AlphabetTells
  <2> QED
    BY <2>1, <2>4
<1>5. x % 32 = y % 32 \/ (x + 31) % 32 = (y + 31) % 32
  <2>1. CASE k = 1
    BY <1>4, <2>1
  <2>2. CASE k = 2
    BY <1>4, <2>2
  <2> QED
    BY <2>1, <2>2
<1>6. (x - y) % 32 = 0 /\ \A i \in 1 .. 4 : Turn(x, i) = Turn(y, i)
  BY <1>5, SameRemainder
<1> HIDE DEF Turn
<1> QED
  BY <1>1, <1>2, <1>6

\* A valid key is its data, and the checksum of them.
LEMMA ValidParts ==
    ASSUME NEW key \in Seq(STRING), NEW n \in Nat, Len(key) = n + 4, ValidateKey(key, 4)
    PROVE  \E data \in Seq(STRING) :
              /\ Len(data) = n
              /\ \A i \in 1 .. n : data[i] = key[i]
              /\ \A k \in 1 .. 4 : Checksum(data, 4)[k] = key[n + k]
<1> DEFINE data == SubSeq(key, 1, n)
<1>1. data \in Seq(STRING) /\ Len(data) = n /\ \A i \in 1 .. n : data[i] = key[i]
  OBVIOUS
<1>2. SubSeq(key, n + 1, n + 4) = Checksum(data, 4)
  <2>1. Len(key) - 4 = n
    OBVIOUS
  <2> QED
    BY <2>1 DEF ValidateKey
<1>3. \A k \in 1 .. 4 : SubSeq(key, n + 1, n + 4)[k] = key[n + k]
  OBVIOUS
<1> HIDE DEF data
<1>4. \A k \in 1 .. 4 : Checksum(data, 4)[k] = key[n + k]
  BY <1>2, <1>3
<1> QED
  BY <1>1, <1>4

LEMMA Remainders ==
    ASSUME NEW x \in 0 .. 31, NEW y \in 0 .. 31
    PROVE  /\ (x - y) % 32 = 0 => x = y
           /\ (y - x) % 32 = 0 => x = y
           /\ (2 * x - 2 * y) % 32 = 0 => x % 16 = y % 16
  OBVIOUS

\* Neighbours in the data weigh 1 and 2, or 2 and 1: the sum tells them apart.
\* A single character is counted once or twice, modulo 32.
LEMMA TyposAreCaught ==
    ASSUME NEW key \in Seq(STRING), NEW typed \in Seq(STRING),
           Len(key) >= 4, Len(typed) = Len(key),
           ValidateKey(key, 4), ValidateKey(typed, 4),
           \A i \in DOMAIN key : Places(Alphabet, key[i]) # {}
    PROVE  /\ ~Swapped(key, typed)
           /\ Mistyped(key, typed) => BlindSpot(key, typed)
<1>1. PICK n \in Nat : Len(key) = n + 4 /\ Len(typed) = n + 4
  <2>1. Len(key) - 4 \in Nat /\ Len(key) = (Len(key) - 4) + 4
    OBVIOUS
  <2> QED
    BY <2>1
<1>2. PICK a \in Seq(STRING) :
        /\ Len(a) = n
        /\ \A i \in 1 .. n : a[i] = key[i]
        /\ \A k \in 1 .. 4 : Checksum(a, 4)[k] = key[n + k]
  BY <1>1, ValidParts
<1>3. PICK b \in Seq(STRING) :
        /\ Len(b) = n
        /\ \A i \in 1 .. n : b[i] = typed[i]
        /\ \A k \in 1 .. 4 : Checksum(b, 4)[k] = typed[n + k]
  BY <1>1, ValidParts
<1>4. DOMAIN key = 1 .. n + 4
  BY <1>1
<1>5. ASSUME NEW k \in {1, 2}, key[n + k] = typed[n + k]
      PROVE  /\ (Sums(a)[n] - Sums(b)[n]) % 32 = 0
             /\ \A j \in 1 .. 4 : key[n + j] = typed[n + j]
  <2>1. Checksum(a, 4)[k] = Checksum(b, 4)[k]
    BY <1>2, <1>3, <1>5
  <2>2. (Sums(a)[n] - Sums(b)[n]) % 32 = 0 /\ Checksum(a, 4) = Checksum(b, 4)
    BY <1>2, <1>3, <2>1, ChecksumTells
  <2> QED
    BY <1>2, <1>3, <2>2
<1>6. ASSUME \A i \in 1 .. n : key[i] = typed[i]
      PROVE  \A j \in 1 .. 4 : key[n + j] = typed[n + j]
  <2>1. Len(a) = Len(b) /\ \A i \in 1 .. Len(a) : a[i] = b[i]
    BY <1>2, <1>3, <1>6
  <2>2. a = b
    BY <2>1
  <2> QED
    BY <1>2, <1>3, <2>2
<1>7. /\ Sums(a)[0] = 0 /\ Sums(b)[0] = 0
      /\ \A i \in Nat : i < n => Sums(a)[i] \in Nat /\ Sums(b)[i] \in Nat
  BY <1>2, <1>3, SumsStepwise, SumsTurn
<1>8. ASSUME NEW i \in Nat, i < n, \A j \in 1 .. i : key[j] = typed[j]
      PROVE  Sums(a)[i] = Sums(b)[i]
  <2>1. \A j \in Nat : 0 < j /\ j <= i => a[j] = b[j]
    <3> SUFFICES ASSUME NEW j \in Nat, 0 < j, j <= i PROVE a[j] = b[j]
      OBVIOUS
    <3>1. j \in 1 .. n /\ j \in 1 .. i
      BY <1>8
    <3> QED
      BY <1>2, <1>3, <1>8, <3>1
  <2>2. Sums(a)[i] - Sums(b)[i] = Sums(a)[0] - Sums(b)[0]
    BY <1>2, <1>3, <1>8, <2>1, SameTailSameSum
  <2> QED
    BY <1>7, <1>8, <2>2
<1>9. ASSUME NEW i \in Nat, i <= n, \A j \in i + 1 .. n : key[j] = typed[j]
      PROVE  Sums(a)[n] - Sums(b)[n] = Sums(a)[i] - Sums(b)[i]
  <2>1. \A j \in Nat : i < j /\ j <= n => a[j] = b[j]
    <3> SUFFICES ASSUME NEW j \in Nat, i < j, j <= n PROVE a[j] = b[j]
      OBVIOUS
    <3>1. j \in 1 .. n /\ j \in i + 1 .. n
      BY <1>9
    <3> QED
      BY <1>2, <1>3, <1>9, <3>1
  <2> QED
    BY <1>2, <1>3, <1>9, <2>1, SameTailSameSum
<1>10. ASSUME Mistyped(key, typed) PROVE BlindSpot(key, typed)
  <2>1. PICK i \in 1 .. n + 4 : Differ(key, typed) = {i}
    BY <1>4, <1>10 DEF Mistyped, Differ
  <2>2. \A j \in 1 .. n + 4 : key[j] # typed[j] <=> j = i
    BY <1>4, <2>1 DEF Differ
  <2>3. i \in 1 .. n
    <3> SUFFICES ASSUME i > n PROVE FALSE
      OBVIOUS
    <3>1. \A j \in 1 .. n : key[j] = typed[j]
      BY <2>2
    <3>2. i - n \in 1 .. 4 /\ n + (i - n) = i
      OBVIOUS
    <3> QED
      BY <1>6, <2>2, <3>1, <3>2
  <2>4. PICK p \in Nat : i = p + 1 /\ p < n /\ p < Len(a) /\ p < Len(b)
    <3>1. i - 1 \in Nat /\ i = (i - 1) + 1 /\ i - 1 < n
      BY <2>3
    <3> QED
      BY <1>2, <1>3, <3>1
  <2>5. (Sums(a)[n] - Sums(b)[n]) % 32 = 0
    <3>1. key[n + 1] = typed[n + 1]
      BY <2>2, <2>3
    <3> QED
      BY <1>5, <3>1
  <2>6. Sums(a)[p] = Sums(b)[p] /\ Sums(a)[p] \in Nat
    <3>1. \A j \in 1 .. p : key[j] = typed[j]
      BY <2>2, <2>4
    <3> QED
      BY <1>7, <1>8, <2>4, <3>1
  <2>7. Sums(a)[n] - Sums(b)[n] = Sums(a)[p + 1] - Sums(b)[p + 1]
    <3>1. \A j \in i + 1 .. n : key[j] = typed[j]
      BY <2>2, <2>3
    <3> QED
      BY <1>9, <2>3, <2>4, <3>1
  <2>8. PICK x \in 0 .. 31, y \in 0 .. 31 : x = Value(a[p + 1]) /\ y = Value(b[p + 1])
    BY ValueTells
  <2>9. x = Value(key[i]) /\ y = Value(typed[i])
    BY <1>2, <1>3, <2>3, <2>4, <2>8
  <2>10. Sums(a)[p] - Sums(b)[p] = 0
    BY <2>6
  <2>11. Sums(a)[p + 1] - Sums(b)[p + 1]
            = (Sums(a)[p] - Sums(b)[p]) + (IF p % 2 = 0 THEN 2 * x - 2 * y ELSE x - y)
    <3>1. Sums(a)[p + 1] - Sums(b)[p + 1] =
             (Sums(a)[p] - Sums(b)[p])
             + (IF p % 2 = 0 THEN 2 * Value(a[p + 1]) - 2 * Value(b[p + 1])
                ELSE Value(a[p + 1]) - Value(b[p + 1]))
      BY <2>4, TurnDifference
    <3> QED
      BY <2>8, <3>1
  <2>12. CASE p % 2 = 0
    <3>1. Sums(a)[p + 1] - Sums(b)[p + 1] = 0 + (2 * x - 2 * y)
      BY <2>10, <2>12, <2>11
    <3>2. (2 * x - 2 * y) % 32 = 0
      BY <2>5, <2>7, <3>1
    <3>3. x % 16 = y % 16
      BY <3>2, Remainders
    <3>4. i % 2 # 0
      BY <2>4, <2>12, Parity
    <3> QED
      BY <1>1, <2>1, <2>3, <2>9, <3>3, <3>4 DEF BlindSpot
  <2>13. CASE p % 2 # 0
    <3>1. Sums(a)[p + 1] - Sums(b)[p + 1] = 0 + (x - y)
      BY <2>10, <2>13, <2>11
    <3>2. (x - y) % 32 = 0
      BY <2>5, <2>7, <3>1
    <3>3. x = y
      BY <3>2, Remainders
    <3>4. Value(key[i]) = Value(typed[i])
      BY <2>9, <3>3
    <3> QED
      BY <1>1, <2>1, <2>3, <3>4 DEF BlindSpot
  <2> QED
    BY <2>12, <2>13
<1>11. ASSUME Swapped(key, typed) PROVE FALSE
  <2>1. PICK i \in 1 .. n + 4 : /\ Differ(key, typed) = {i, i + 1}
                                /\ key[i] = typed[i + 1] /\ key[i + 1] = typed[i]
    BY <1>4, <1>11 DEF Swapped, Differ
  <2>2. /\ i + 1 \in 1 .. n + 4
        /\ \A j \in 1 .. n + 4 : key[j] # typed[j] <=> j \in {i, i + 1}
    BY <1>4, <2>1 DEF Differ
  <2>3. CASE i > n
    <3>1. \A j \in 1 .. n : key[j] = typed[j]
      BY <2>2, <2>3
    <3>2. i - n \in 1 .. 4 /\ n + (i - n) = i
      BY <2>3
    <3> QED
      BY <1>6, <2>2, <3>1, <3>2
  <2>4. CASE i = n
    <3>1. key[n + 2] = typed[n + 2] /\ key[n + 1] # typed[n + 1]
      BY <2>2, <2>4
    <3> QED
      BY <1>5, <3>1
  <2>5. CASE i < n
    <3>1. PICK p \in Nat : i = p + 1 /\ p + 1 < n
      <4>1. i - 1 \in Nat /\ i = (i - 1) + 1 /\ (i - 1) + 1 < n
        BY <2>5
      <4> QED
        BY <4>1
    <3>2. (Sums(a)[n] - Sums(b)[n]) % 32 = 0
      <4>1. key[n + 1] = typed[n + 1]
        BY <2>2, <2>5
      <4> QED
        BY <1>5, <4>1
    <3>3. Sums(a)[p] = Sums(b)[p] /\ Sums(a)[p] \in Nat
      <4>1. \A j \in 1 .. p : key[j] = typed[j]
        BY <2>2, <3>1
      <4> QED
        BY <1>7, <1>8, <3>1, <4>1
    <3>4. Sums(a)[n] - Sums(b)[n] = Sums(a)[p + 1 + 1] - Sums(b)[p + 1 + 1]
      <4>1. \A j \in (p + 2) + 1 .. n : key[j] = typed[j]
        BY <2>2, <3>1
      <4>2. p + 2 \in Nat /\ p + 2 <= n
        BY <3>1
      <4> QED
        BY <1>9, <4>1, <4>2
    <3>5. PICK x \in 0 .. 31, y \in 0 .. 31 : x = Value(key[i]) /\ y = Value(key[i + 1])
      BY ValueTells
    <3>6. /\ x = Value(a[p + 1]) /\ y = Value(b[p + 1])
          /\ y = Value(a[p + 1 + 1]) /\ x = Value(b[p + 1 + 1])
      <4>1. i \in 1 .. n /\ i + 1 \in 1 .. n /\ p + 1 = i /\ p + 1 + 1 = i + 1
        BY <2>5, <3>1
      <4> QED
        BY <1>2, <1>3, <2>1, <3>5, <4>1
    <3>7. Sums(a)[p] - Sums(b)[p] = 0
      BY <3>3
    <3>8. p < Len(a) /\ p < Len(b) /\ p + 1 \in Nat /\ p + 1 < Len(a) /\ p + 1 < Len(b)
      BY <1>2, <1>3, <3>1
    <3>9. Sums(a)[p + 1] - Sums(b)[p + 1]
              = (Sums(a)[p] - Sums(b)[p]) + (IF p % 2 = 0 THEN 2 * x - 2 * y ELSE x - y)
      <4>1. Sums(a)[p + 1] - Sums(b)[p + 1] =
               (Sums(a)[p] - Sums(b)[p])
               + (IF p % 2 = 0 THEN 2 * Value(a[p + 1]) - 2 * Value(b[p + 1])
                  ELSE Value(a[p + 1]) - Value(b[p + 1]))
        BY <3>1, <3>8, TurnDifference
      <4> QED
        BY <3>6, <4>1
    <3>10. Sums(a)[p + 1 + 1] - Sums(b)[p + 1 + 1]
              = (Sums(a)[p + 1] - Sums(b)[p + 1])
                + (IF (p + 1) % 2 = 0 THEN 2 * y - 2 * x ELSE y - x)
      <4>1. Sums(a)[p + 1 + 1] - Sums(b)[p + 1 + 1] =
               (Sums(a)[p + 1] - Sums(b)[p + 1])
               + (IF (p + 1) % 2 = 0 THEN 2 * Value(a[p + 1 + 1]) - 2 * Value(b[p + 1 + 1])
                  ELSE Value(a[p + 1 + 1]) - Value(b[p + 1 + 1]))
        BY <3>8, TurnDifference
      <4> QED
        BY <3>6, <4>1
    <3>11. ASSUME p % 2 = 0 PROVE (x - y) % 32 = 0 \/ (y - x) % 32 = 0
      <4>1. Sums(a)[p + 1] - Sums(b)[p + 1] = 0 + (2 * x - 2 * y)
        BY <3>7, <3>11, <3>9
      <4>2. (p + 1) % 2 # 0
        BY <3>11, Parity
      <4>3. Sums(a)[p + 1 + 1] - Sums(b)[p + 1 + 1] = (0 + (2 * x - 2 * y)) + (y - x)
        BY <3>10, <4>1, <4>2
      <4>4. (0 + (2 * x - 2 * y)) + (y - x) = x - y
        OBVIOUS
      <4> QED
        BY <3>2, <3>4, <4>3, <4>4
    <3>12. ASSUME p % 2 # 0 PROVE (x - y) % 32 = 0 \/ (y - x) % 32 = 0
      <4>1. Sums(a)[p + 1] - Sums(b)[p + 1] = 0 + (x - y)
        BY <3>7, <3>12, <3>9
      <4>2. (p + 1) % 2 = 0
        BY <3>12, Parity
      <4>3. Sums(a)[p + 1 + 1] - Sums(b)[p + 1 + 1] = (0 + (x - y)) + (2 * y - 2 * x)
        BY <3>10, <4>1, <4>2
      <4>4. (0 + (x - y)) + (2 * y - 2 * x) = y - x
        OBVIOUS
      <4> QED
        BY <3>2, <3>4, <4>3, <4>4
    <3>13. key[i] = key[i + 1]
      <4>1. x = y
        BY <3>11, <3>12, Remainders
      <4> QED
        BY <1>4, <2>2, <3>5, <4>1, ValueTells
    <3> QED
      BY <2>1, <2>2, <3>13
  <2> QED
    BY <2>3, <2>4, <2>5
<1> QED
  BY <1>10, <1>11

-----------------------------------------------------------------------------
(***************************************************************************)
(* What a handle has been given on the way to open: a key segment that was *)
(* found valid, and a directory that was created or was there.             *)
(***************************************************************************)
ValidSegment(key) == key \in Text /\ Len(key) = KeySegment /\ ValidateKey(key, 4)

OpenedInv ==
    /\ status \in [Handles -> Statuses]
    /\ \A h \in Handles :
        /\ handle[h].pc \in Parsed \cup {"client", "open"} => ValidSegment(handle[h].app_key)
        /\ handle[h].pc \in {"machine", "client", "open"} => handle[h].base \in made
    /\ epoch <= MaxChanges

\* What latte_new says of an app ID is one of its statuses.
LEMMA VerdictsAreStatuses ==
    ASSUME NEW id \in AppIds
    PROVE  /\ Verdicts[id] \in Statuses
           /\ Verdicts[id] = "OK" => ValidSegment(id.key)
  BY SetupAssumption DEF Verdicts, ParseAppId, Statuses, ValidSegment

LEMMA Bounds == MaxChanges \in Nat /\ KeySegment \in Nat /\ KeySegment >= 4
  BY SetupAssumption

\* A step that closes a handle, fails, or leaves it alone.
LEMMA OpenedStays ==
    ASSUME SetupInv, OpenedInv, status' \in [Handles -> Statuses], made \subseteq made',
           epoch' <= MaxChanges,
           \A h \in Handles : handle'[h] = handle[h] \/ handle'[h].pc \in {"none", "config"}
    PROVE  OpenedInv'
  BY DEF OpenedInv, Parsed

LEMMA FailOpened ==
    ASSUME SetupInv, OpenedInv, NEW h \in Handles, NEW st \in Statuses, Fail(h, st),
           UNCHANGED <<made, epoch>>
    PROVE  OpenedInv'
<1>1. status' \in [Handles -> Statuses]
  BY DEF Fail, OpenedInv
<1>2. \A g \in Handles : handle'[g] = handle[g] \/ handle'[g].pc \in {"none", "config"}
  BY DEF Fail, SetupInv, SetupTypes, NoHandle
<1> QED
  BY <1>1, <1>2, OpenedStays DEF OpenedInv

LEMMA OpenedStep ==
    ASSUME SetupInv, OpenedInv, [SetupNext]_setupVars
    PROVE  OpenedInv'
<1> USE DEF directories
<1>1. ASSUME NEW h \in Handles,
             \/ NewConfig(h) \/ SetMultiInstance(h) \/ SetMachineId(h) \/ SetMachineName(h)
             \/ NewWithoutConfig(h) \/ ActivateTyped(h) \/ Close(h)
      PROVE  OpenedInv'
  <2>1. /\ \/ status' = status \/ status' = [status EXCEPT ![h] = "none"]
           \/ status' = [status EXCEPT ![h] = "INVALID_CONFIG"]
        /\ UNCHANGED <<made, epoch>>
    BY <1>1 DEF NewConfig, SetMultiInstance, SetMachineId, SetMachineName, Setting,
                NewWithoutConfig, ActivateTyped, Close
  <2>2. status' \in [Handles -> Statuses]
    BY <2>1 DEF OpenedInv, Statuses
  <2>3. \A g \in Handles : handle'[g] = handle[g] \/ handle'[g].pc \in {"none", "config"}
    BY <1>1 DEF NewConfig, SetMultiInstance, SetMachineId, SetMachineName, Setting,
                NewWithoutConfig, ActivateTyped, Close, NoHandle, SetupInv, SetupTypes, HandleType
  <2> QED
    BY <2>1, <2>2, <2>3, OpenedStays DEF OpenedInv
<1>2. ASSUME NEW h \in Handles, New(h) PROVE OpenedInv'
  <2>1. CASE Fail(h, "INTERNAL") \/ \E id \in AppIds : Fail(h, Verdicts[id])
    BY <1>2, <2>1, FailOpened, VerdictsAreStatuses DEF New, Statuses
  <2>2. ASSUME NEW id \in AppIds, Verdicts[id] = "OK", status' = status,
               handle' = [handle EXCEPT ![h] = [NoHandle EXCEPT
                            !.pc = IF config[h].multi_instance THEN "cwd" ELSE "xdg",
                            !.env = id.env, !.app_key = id.key, !.since = epoch]]
        PROVE  OpenedInv'
    <3>1. /\ handle'[h].pc \in {"cwd", "xdg"} /\ handle'[h].app_key = id.key
          /\ \A g \in Handles : g # h => handle'[g] = handle[g]
      BY <2>2 DEF SetupInv, SetupTypes, NoHandle
    <3>2. ValidSegment(handle'[h].app_key)
      BY <2>2, <3>1, VerdictsAreStatuses
    <3>3. UNCHANGED <<made, epoch>>
      BY <1>2 DEF New
    <3> QED
      BY <2>2, <3>1, <3>2, <3>3 DEF OpenedInv, Parsed
  <2> QED
    BY <1>2, <2>1, <2>2 DEF New
<1>3. ASSUME NEW h \in Handles, ResolveConfigDir(h) \/ ResolveWorkingDir(h)
      PROVE  OpenedInv'
  <2>1. CASE Fail(h, "STORAGE_INIT_FAILED") /\ UNCHANGED directories
    BY <2>1, FailOpened DEF Statuses
  <2>2. ASSUME NEW base, Resolved(h, base), handle[h].pc \in Parsed PROVE OpenedInv'
    <3>1. /\ handle'[h].base = base /\ handle'[h].app_key = handle[h].app_key
          /\ \A g \in Handles : g # h => handle'[g] = handle[g]
      BY <2>2 DEF Resolved, SetupInv, SetupTypes, HandleType
    <3>2. /\ handle'[h].pc = "machine" /\ base \in made' /\ made \subseteq made'
          /\ UNCHANGED <<status, epoch>>
      BY <2>2 DEF Resolved, SetupInv, SetupTypes, HandleType
    <3>3. ValidSegment(handle'[h].app_key)
      BY <2>2, <3>1 DEF OpenedInv
    <3>4. ASSUME NEW g \in Handles
          PROVE  /\ handle'[g].pc \in Parsed \cup {"client", "open"} => ValidSegment(handle'[g].app_key)
                 /\ handle'[g].pc \in {"machine", "client", "open"} => handle'[g].base \in made'
      BY <3>1, <3>2, <3>3 DEF OpenedInv
    <3> QED
      BY <3>2, <3>4 DEF OpenedInv
  <2>3. ASSUME handle' = [handle EXCEPT ![h].pc = IF @ = "xdg" THEN "home" ELSE "cwd"],
               handle[h].pc \in Variables, UNCHANGED <<status, directories>>
        PROVE  OpenedInv'
    <3>1. /\ handle'[h].pc \in {"home", "cwd"} /\ handle'[h].app_key = handle[h].app_key
          /\ \A g \in Handles : g # h => handle'[g] = handle[g]
      BY <2>3 DEF SetupInv, SetupTypes, HandleType
    <3> QED
      BY <2>3, <3>1 DEF OpenedInv, Parsed, Variables
  <2> QED
    BY <1>3, <2>1, <2>2, <2>3 DEF ResolveConfigDir, ResolveWorkingDir, Variables, Parsed
<1>4. ASSUME NEW h \in Handles, Fingerprint(h) \/ Client(h) PROVE OpenedInv'
  <2>1. CASE Fail(h, "MACHINE_ID_FAILED") \/ Fail(h, "INTERNAL")
    BY <1>4, <2>1, FailOpened DEF Fingerprint, Client, Statuses
  <2>2. CASE ~(Fail(h, "MACHINE_ID_FAILED") \/ Fail(h, "INTERNAL"))
    <3>1. /\ handle[h].pc \in {"machine", "client"}
          /\ handle'[h].app_key = handle[h].app_key /\ handle'[h].base = handle[h].base
          /\ \A g \in Handles : g # h => handle'[g] = handle[g]
      BY <1>4, <2>2 DEF Fingerprint, Client, SetupInv, SetupTypes, HandleType
    <3>2. status' = status \/ status' = [status EXCEPT ![h] = "OK"]
      BY <1>4, <2>2 DEF Fingerprint, Client
    <3>3. status' \in [Handles -> Statuses]
      BY <3>2 DEF OpenedInv, Statuses
    <3>4. UNCHANGED <<made, epoch>>
      BY <1>4 DEF Fingerprint, Client
    <3> QED
      BY <3>1, <3>3, <3>4 DEF OpenedInv, Parsed
  <2> QED
    BY <2>1, <2>2
<1>5. CASE ParentAppears
  <2>1. epoch \in Nat /\ epoch < MaxChanges /\ epoch' = epoch + 1
    BY <1>5 DEF ParentAppears, SetupInv, SetupTypes
  <2> QED
    BY <1>5, <2>1, Bounds DEF ParentAppears, OpenedInv
<1>6. CASE UNCHANGED setupVars
  BY <1>6 DEF setupVars, OpenedInv
<1> QED
  BY <1>1, <1>2, <1>3, <1>4, <1>5, <1>6 DEF SetupNext

\* latte_new opens a handle on nothing it has not checked or made.
THEOREM OpenedCorrect == SetupSpec => []OpenedInv
<1>1. SetupInit => OpenedInv
  BY Bounds DEF SetupInit, OpenedInv, NoHandle, Statuses, Parsed
<1> QED
  BY <1>1, SetupCorrect, OpenedStep, PTL DEF SetupSpec

\* Every variable keeps to its type, and an open handle has a directory that
\* exists and a fingerprint of something that was set or read.
THEOREM SetupTypeCorrect == SetupSpec => []SetupTypeOK
<1>1. ASSUME SetupInv, OpenedInv PROVE SetupTypeOK
  <2>1. ASSUME NEW h \in Handles
        PROVE  /\ status[h] \in Statuses
               /\ config[h].machine_id \in RawIds \cup {Unset}
               /\ handle[h].pc \in {"none", "config", "xdg", "home", "cwd", "machine", "client", "open"}
    BY <1>1 DEF SetupInv, SetupTypes, OpenedInv, ConfigType, HandleType, Pcs
  <2>2. ASSUME NEW h \in Handles, IsOpen(h)
        PROVE  handle[h].base \in made /\ handle[h].machine_id[1] \notin {Unset, "missing", "empty"}
    <3>1. handle[h].base \in made /\ MachineIsRight(h)
      BY <1>1, <2>2 DEF OpenedInv, SetupInv, HandleInv, IsOpen
    <3>2. CASE asked[h].machine_id # Unset
      <4>1. asked[h].machine_id \in RawIds
        BY <1>1, <3>2 DEF SetupInv, SetupTypes, AskedType
      <4>2. RawIds \subseteq STRING \ {"", "missing", "empty", Unset}
        BY SetupAssumption
      <4>3. handle[h].machine_id[1] = asked[h].machine_id
        BY <3>1, <3>2 DEF MachineIsRight, MachineIdHash
      <4> QED
        BY <3>1, <4>1, <4>2, <4>3
    <3>3. CASE asked[h].machine_id = Unset
      BY <1>1, <3>1, <3>3 DEF MachineIsRight, MachineIdHash, SetupInv, SetupTypes
    <3> QED
      BY <3>1, <3>2, <3>3
  <2>3. epoch \in 0 .. MaxChanges
    BY <1>1, Bounds DEF SetupInv, SetupTypes, OpenedInv
  <2> QED
    BY <2>1, <2>2, <2>3 DEF SetupTypeOK
<1> QED
  BY <1>1, SetupCorrect, OpenedCorrect, PTL

\* A slip of the keyboard in an app ID opens no handle but where the checksum
\* is blind: for key segments of any length, and every slip.
THEOREM TyposAreRefused == SetupSpec => []TypoOpensNoHandle
<1>1. ASSUME OpenedInv PROVE TypoOpensNoHandle
  <2> SUFFICES ASSUME NEW h \in Handles, IsOpen(h), NEW key \in IssuedKeys
               PROVE  /\ ~Swapped(key, handle[h].app_key)
                      /\ Mistyped(key, handle[h].app_key) => BlindSpot(key, handle[h].app_key)
    BY DEF TypoOpensNoHandle
  <2>1. ValidSegment(handle[h].app_key)
    BY <1>1 DEF OpenedInv, IsOpen
  <2>2. /\ key \in Seq(STRING) /\ Len(key) = KeySegment /\ ValidateKey(key, 4)
        /\ \A i \in DOMAIN key : Places(Alphabet, key[i]) # {}
    BY IssuedAssumption DEF Text
  <2> QED
    BY <2>1, <2>2, SetupAssumption, TyposAreCaught DEF ValidSegment, Text
<1> QED
  BY <1>1, OpenedCorrect, PTL

-----------------------------------------------------------------------------
(***************************************************************************)
(* Keys: for texts of any length, what ll_sanitize_key and                 *)
(* ll_normalize_key leave of a text is what the text spells.               *)
(***************************************************************************)
\* What the loop of ll_normalize_key computes, one character after the other.
LEMMA CopiedStepwise ==
    ASSUME NEW src \in Seq(STRING), NEW size
    PROVE  /\ Copied(src, size)[0] = <<>>
           /\ \A i \in 1 .. Len(src) : Copied(src, size)[i] =
                IF Len(Copied(src, size)[i - 1]) + 1 >= size \/ ToUpper(src[i]) \in Separators
                THEN Copied(src, size)[i - 1]
                ELSE Append(Copied(src, size)[i - 1], ToUpper(src[i]))
<1> DEFINE Turn(dst, i) == IF Len(dst) + 1 >= size \/ ToUpper(src[i]) \in Separators
                           THEN dst ELSE Append(dst, ToUpper(src[i]))
           Step(f, i) == IF i = 0 THEN <<>> ELSE Turn(f[i - 1], i)
           T == {n \in Nat : \E f : f = [i \in 0 .. n |-> Step(f, i)]}
<1> HIDE DEF Turn
<1>1. 0 \in T
  <2> DEFINE f == [i \in 0 .. 0 |-> <<>>]
  <2>1. f = [i \in 0 .. 0 |-> Step(f, i)]
    OBVIOUS
  <2> QED BY <2>1
<1>2. ASSUME NEW n \in Nat, n \in T PROVE n + 1 \in T
  <2>1. PICK f : f = [i \in 0 .. n |-> Step(f, i)]
    BY <1>2
  <2> DEFINE g == [i \in 0 .. n + 1 |-> IF i = n + 1 THEN Turn(f[n], n + 1) ELSE f[i]]
  <2>2. ASSUME NEW i \in 0 .. n + 1 PROVE g[i] = Step(g, i)
    <3>1. CASE i = n + 1
      <4>1. g[n] = f[n]
        OBVIOUS
      <4> QED BY <3>1, <4>1
    <3>2. CASE i \in 0 .. n
      <4>1. f[i] = Step(f, i)
        BY <2>1, <3>2
      <4>2. g[i] = f[i] /\ (i # 0 => g[i - 1] = f[i - 1])
        BY <3>2
      <4> QED BY <4>1, <4>2
    <3> QED BY <3>1, <3>2
  <2>3. g = [i \in 0 .. n + 1 |-> Step(g, i)]
    BY <2>2
  <2> HIDE DEF g, Step
  <2>4. \E h : h = [i \in 0 .. n + 1 |-> Step(h, i)]
    BY <2>3
  <2> QED BY <2>4
<1>3. Len(src) \in T
  <2> HIDE DEF T
  <2>1. Nat \subseteq T
    BY <1>1, <1>2, Counting
  <2> QED BY <2>1
<1>4. PICK f : f = [i \in 0 .. Len(src) |-> Step(f, i)]
  BY <1>3
<1>5. Copied(src, size) = [i \in 0 .. Len(src) |-> Step(Copied(src, size), i)]
  BY <1>4 DEF Copied, Turn
<1> HIDE DEF Step
<1>6. \A i \in 0 .. Len(src) : Copied(src, size)[i] = Step(Copied(src, size), i)
  BY <1>5
<1> USE DEF Step, Turn
<1>7. 0 \in 0 .. Len(src) /\ \A i \in 1 .. Len(src) : i \in 0 .. Len(src) /\ i # 0
  OBVIOUS
<1> QED BY <1>6, <1>7

\* No letter is a separator, in either case.
LEMMA LettersSeparateNothing == \A c : ToUpper(c) \in Separators <=> c \in Separators
<1>1. DOMAIN LowerCase = 1 .. 26 /\ DOMAIN UpperCase = 1 .. 26
  BY DEF LowerCase, UpperCase
<1>2. \A i \in 1 .. 26 : LowerCase[i] \notin Separators /\ UpperCase[i] \notin Separators
  <2> DEFINE Lower == {"a", "b", "c", "d", "e", "f", "g", "h", "i", "j", "k", "l", "m",
                     "n", "o", "p", "q", "r", "s", "t", "u", "v", "w", "x", "y", "z"}
             Upper == {"A", "B", "C", "D", "E", "F", "G", "H", "I", "J", "K", "L", "M",
                     "N", "O", "P", "Q", "R", "S", "T", "U", "V", "W", "X", "Y", "Z"}
  <2>1. \A i \in 1 .. 26 : LowerCase[i] \in Lower
    BY SMTT(60) DEF LowerCase
  <2>2. \A i \in 1 .. 26 : UpperCase[i] \in Upper
    BY SMTT(60) DEF UpperCase
  <2>3. \A c \in Lower : c \notin Separators
    BY Zenon DEF Separators
  <2>4. \A c \in Upper : c \notin Separators
    BY Zenon DEF Separators
  <2> HIDE DEF Lower, Upper
  <2> QED BY <2>1, <2>2, <2>3, <2>4
<1>3. ASSUME NEW c, Places(LowerCase, c) # {}
      PROVE  ToUpper(c) \notin Separators /\ c \notin Separators
  <2>1. PICK i \in Places(LowerCase, c) : ToUpper(c) = UpperCase[i]
    BY <1>3 DEF ToUpper
  <2> QED BY <1>1, <1>2, <2>1 DEF Places
<1>4. ASSUME NEW c, Places(LowerCase, c) = {} PROVE ToUpper(c) = c
  BY <1>4 DEF ToUpper
<1> QED BY <1>3, <1>4

\* The buffer holds characters of the text.
LEMMA CopiedText ==
    ASSUME NEW src \in Seq(STRING), NEW size
    PROVE  \A i \in 0 .. Len(src) :
             Copied(src, size)[i] \in Seq({ToUpper(src[p]) : p \in 1 .. Len(src)})
<1> DEFINE Letters == {ToUpper(src[p]) : p \in 1 .. Len(src)}
           T == {n \in Nat : n <= Len(src) => Copied(src, size)[n] \in Seq(Letters)}
<1>1. 0 \in T
  <2>1. Copied(src, size)[0] = <<>>
    BY CopiedStepwise
  <2> HIDE DEF Letters
  <2>2. <<>> \in Seq(Letters)
    OBVIOUS
  <2> QED BY <2>1, <2>2
<1>2. ASSUME NEW n \in Nat, n \in T PROVE n + 1 \in T
  <2> SUFFICES ASSUME n + 1 <= Len(src) PROVE Copied(src, size)[n + 1] \in Seq(Letters)
    OBVIOUS
  <2>1. Copied(src, size)[n] \in Seq(Letters)
    BY <1>2
  <2>2. n + 1 \in 1 .. Len(src) /\ (n + 1) - 1 = n
    OBVIOUS
  <2>3. ToUpper(src[n + 1]) \in Letters
    BY <2>2
  <2>4. \/ Copied(src, size)[n + 1] = Copied(src, size)[n]
        \/ Copied(src, size)[n + 1] = Append(Copied(src, size)[n], ToUpper(src[n + 1]))
    BY <2>2, CopiedStepwise
  <2> HIDE DEF Letters
  <2>5. Append(Copied(src, size)[n], ToUpper(src[n + 1])) \in Seq(Letters)
    BY <2>1, <2>3
  <2> QED BY <2>1, <2>4, <2>5
<1> HIDE DEF T
<1>3. Nat \subseteq T
  BY <1>1, <1>2, Counting
<1> QED BY <1>3 DEF T

\* A turn of the loop while there is room.
LEMMA CopiedTurn ==
    ASSUME NEW src \in Seq(STRING), NEW size \in Nat, NEW n \in Nat, n + 1 <= Len(src)
    PROVE  LET d == Copied(src, size)[n]
               e == Copied(src, size)[n + 1]
           IN  /\ Len(d) \in Nat /\ Len(e) \in Nat /\ Len(d) <= Len(e)
               /\ Len(d) + 1 < size /\ src[n + 1] \in Separators => e = d
               /\ Len(d) + 1 < size /\ src[n + 1] \notin Separators =>
                    /\ Len(e) = Len(d) + 1
                    /\ \A j \in 1 .. Len(d) : e[j] = d[j]
                    /\ e[Len(d) + 1] = ToUpper(src[n + 1])
<1> DEFINE d == Copied(src, size)[n]
           e == Copied(src, size)[n + 1]
           Letters == {ToUpper(src[p]) : p \in 1 .. Len(src)}
<1>1. n \in 0 .. Len(src) /\ n + 1 \in 1 .. Len(src) /\ (n + 1) - 1 = n
  OBVIOUS
<1>2. d \in Seq(Letters) /\ ToUpper(src[n + 1]) \in Letters
  BY <1>1, CopiedText
<1>3. e = IF Len(d) + 1 >= size \/ src[n + 1] \in Separators
          THEN d ELSE Append(d, ToUpper(src[n + 1]))
  BY <1>1, CopiedStepwise, LettersSeparateNothing
<1> HIDE DEF d, e, Letters
<1>4. /\ Len(d) \in Nat
      /\ Len(Append(d, ToUpper(src[n + 1]))) = Len(d) + 1
      /\ \A j \in 1 .. Len(d) : Append(d, ToUpper(src[n + 1]))[j] = d[j]
      /\ Append(d, ToUpper(src[n + 1]))[Len(d) + 1] = ToUpper(src[n + 1])
  BY <1>2
<1>5. CASE Len(d) + 1 >= size \/ src[n + 1] \in Separators
  BY <1>3, <1>4, <1>5 DEF d, e
<1>6. CASE ~(Len(d) + 1 >= size \/ src[n + 1] \in Separators)
  BY <1>3, <1>4, <1>6 DEF d, e
<1> QED BY <1>5, <1>6

\* The buffer holds the characters of any reading it has room for.
LEMMA ReadingIsCopied ==
    ASSUME NEW src \in Seq(STRING), NEW size \in Nat, NEW m \in Nat, m + 1 < size,
           NEW place \in Readings(src, m)
    PROVE  /\ Len(NormalizeKey(src, size)) = m
           /\ \A j \in 1 .. m : NormalizeKey(src, size)[j] = ToUpper(src[place[j]])
<1> DEFINE d(i) == Copied(src, size)[i]
           Upto(i) == /\ Len(d(i)) \in Nat /\ Len(d(i)) <= m
                      /\ \A j \in 1 .. m : place[j] <= i <=> j <= Len(d(i))
                      /\ \A j \in 1 .. Len(d(i)) : d(i)[j] = ToUpper(src[place[j]])
           T == {i \in Nat : i <= Len(src) => Upto(i)}
<1>0. /\ \A j \in 1 .. m : place[j] \in 1 .. Len(src)
      /\ \A i, j \in 1 .. m : i < j => place[i] < place[j]
      /\ \A p \in 1 .. Len(src) : src[p] \in Separators <=> \A j \in 1 .. m : place[j] # p
  BY DEF Readings
<1>1. 0 \in T
  <2>1. d(0) = <<>>
    BY CopiedStepwise
  <2>2. Len(d(0)) = 0
    BY <2>1
  <2> QED BY <1>0, <2>2
<1>2. ASSUME NEW i \in Nat, i \in T PROVE i + 1 \in T
  <2> SUFFICES ASSUME i + 1 <= Len(src) PROVE Upto(i + 1)
    OBVIOUS
  <2>1. Upto(i) /\ i + 1 \in 1 .. Len(src)
    BY <1>2
  <2> HIDE DEF d
  <2>2. Len(d(i)) + 1 < size
    BY <2>1
  <2>3. CASE src[i + 1] \in Separators
    <3>1. d(i + 1) = d(i)
      BY <2>2, <2>3, CopiedTurn DEF d
    <3>2. \A j \in 1 .. m : place[j] # i + 1
      BY <1>0, <2>1, <2>3
    <3>3. \A j \in 1 .. m : place[j] <= i + 1 <=> place[j] <= i
      BY <1>0, <3>2
    <3> QED BY <2>1, <3>1, <3>3
  <2>4. CASE src[i + 1] \notin Separators
    <3>1. PICK k \in 1 .. m : place[k] = i + 1
      BY <1>0, <2>1, <2>4
    <3>2. k = Len(d(i)) + 1
      <4>1. k > Len(d(i))
        BY <2>1, <3>1
      <4>2. ASSUME k > Len(d(i)) + 1 PROVE FALSE
        <5>1. k - 1 \in 1 .. m /\ k - 1 > Len(d(i)) /\ k - 1 < k
          BY <2>1, <4>2
        <5>2. place[k - 1] < i + 1 /\ place[k - 1] \in 1 .. Len(src)
          BY <1>0, <3>1, <5>1
        <5> QED BY <2>1, <5>1, <5>2
      <4> QED BY <2>1, <4>1, <4>2
    <3>3. /\ Len(d(i + 1)) = k
          /\ \A j \in 1 .. Len(d(i)) : d(i + 1)[j] = d(i)[j]
          /\ d(i + 1)[k] = ToUpper(src[place[k]])
      <4>1. /\ Len(d(i + 1)) = Len(d(i)) + 1
            /\ \A j \in 1 .. Len(d(i)) : d(i + 1)[j] = d(i)[j]
            /\ d(i + 1)[Len(d(i)) + 1] = ToUpper(src[i + 1])
        BY <2>2, <2>4, CopiedTurn DEF d
      <4> QED BY <3>1, <3>2, <4>1
    <3>4. \A j \in 1 .. m : place[j] <= i + 1 <=> j <= k
      BY <1>0, <2>1, <3>1, <3>2
    <3>5. \A j \in 1 .. k : d(i + 1)[j] = ToUpper(src[place[j]])
      BY <2>1, <3>2, <3>3
    <3> QED BY <3>3, <3>4, <3>5
  <2> QED BY <2>3, <2>4
<1>3. Upto(Len(src))
  <2> HIDE DEF Upto
  <2>1. Len(src) \in Nat
    OBVIOUS
  <2> HIDE DEF T
  <2>2. Nat \subseteq T
    BY <1>1, <1>2, Counting
  <2> QED BY <2>1, <2>2 DEF T
<1> HIDE DEF d
<1>4. \A j \in 1 .. m : j <= Len(d(Len(src)))
  BY <1>0, <1>3
<1>5. Len(d(Len(src))) = m
  BY <1>3, <1>4
<1> QED BY <1>3, <1>5 DEF d, NormalizeKey

\* What is in a buffer that is not full has been read off the text.
LEMMA CopyIsReading ==
    ASSUME NEW src \in Seq(STRING), NEW size \in Nat,
           Len(NormalizeKey(src, size)) + 1 < size
    PROVE  /\ Len(NormalizeKey(src, size)) \in Nat
           /\ \E place \in Readings(src, Len(NormalizeKey(src, size))) :
                \A j \in 1 .. Len(NormalizeKey(src, size)) :
                  NormalizeKey(src, size)[j] = ToUpper(src[place[j]])
<1> DEFINE d(i) == Copied(src, size)[i]
           IsReading(f, i) ==
               /\ f \in [1 .. Len(d(i)) -> 1 .. i]
               /\ \A j, k \in 1 .. Len(d(i)) : j < k => f[j] < f[k]
               /\ \A p \in 1 .. i : src[p] \in Separators <=> \A j \in 1 .. Len(d(i)) : f[j] # p
               /\ \A j \in 1 .. Len(d(i)) : d(i)[j] = ToUpper(src[f[j]])
           T == {i \in Nat : i <= Len(src) =>
                    Len(d(i)) \in Nat /\ (Len(d(i)) + 1 < size => \E f : IsReading(f, i))}
<1>1. 0 \in T
  <2>1. d(0) = <<>>
    BY CopiedStepwise
  <2> HIDE DEF d
  <2>2. Len(d(0)) = 0
    BY <2>1
  <2> DEFINE f == [j \in 1 .. 0 |-> j]
  <2>3. IsReading(f, 0)
    BY <2>2
  <2> HIDE DEF IsReading
  <2> QED BY <2>2, <2>3
<1>2. ASSUME NEW i \in Nat, i \in T PROVE i + 1 \in T
  <2> SUFFICES ASSUME i + 1 <= Len(src)
               PROVE  /\ Len(d(i + 1)) \in Nat
                      /\ Len(d(i + 1)) + 1 < size => \E f : IsReading(f, i + 1)
    OBVIOUS
  <2>1. /\ Len(d(i)) \in Nat /\ Len(d(i + 1)) \in Nat /\ Len(d(i)) <= Len(d(i + 1))
        /\ Len(d(i)) + 1 < size => \E f : IsReading(f, i)
    <3>1. i <= Len(src)
      OBVIOUS
    <3>2. Len(d(i)) \in Nat /\ Len(d(i + 1)) \in Nat /\ Len(d(i)) <= Len(d(i + 1))
      BY CopiedTurn
    <3> HIDE DEF IsReading
    <3>3. Len(d(i)) + 1 < size => \E f : IsReading(f, i)
      BY <1>2, <3>1
    <3> QED BY <3>2, <3>3
  <2> HIDE DEF d
  <2> SUFFICES ASSUME Len(d(i + 1)) + 1 < size PROVE \E f : IsReading(f, i + 1)
    BY <2>1
  <2>2. Len(d(i)) + 1 < size
    BY <2>1
  <2>3. PICK f : IsReading(f, i)
    BY <2>1, <2>2
  <2>4. CASE src[i + 1] \in Separators
    <3>1. d(i + 1) = d(i)
      BY <2>2, <2>4, CopiedTurn DEF d
    <3>2. \A p \in 1 .. i + 1 : src[p] \in Separators <=> \A j \in 1 .. Len(d(i)) : f[j] # p
      BY <2>1, <2>3, <2>4
    <3>3. f \in [1 .. Len(d(i)) -> 1 .. i + 1]
      BY <2>1, <2>3
    <3>4. IsReading(f, i + 1)
      BY <2>3, <3>1, <3>2, <3>3
    <3> QED BY <3>4
  <2>5. CASE src[i + 1] \notin Separators
    <3> DEFINE m == Len(d(i)) + 1
               g == [j \in 1 .. m |-> IF j = m THEN i + 1 ELSE f[j]]
    <3>1. /\ Len(d(i + 1)) = m /\ m \in Nat
          /\ \A j \in 1 .. Len(d(i)) : d(i + 1)[j] = d(i)[j]
          /\ d(i + 1)[m] = ToUpper(src[i + 1])
      <4>1. /\ Len(d(i + 1)) = Len(d(i)) + 1
            /\ \A j \in 1 .. Len(d(i)) : d(i + 1)[j] = d(i)[j]
            /\ d(i + 1)[Len(d(i)) + 1] = ToUpper(src[i + 1])
        BY <2>2, <2>5, CopiedTurn DEF d
      <4> QED BY <2>1, <4>1
    <3>2. /\ g[m] = i + 1 /\ \A j \in 1 .. Len(d(i)) : g[j] = f[j] /\ f[j] \in 1 .. i
          /\ \A j \in 1 .. m : j = m \/ j \in 1 .. Len(d(i))
      <4>1. m \in 1 .. m /\ \A j \in 1 .. Len(d(i)) : j \in 1 .. m /\ j # m
        BY <2>1
      <4>2. \A j \in 1 .. m : j = m \/ j \in 1 .. Len(d(i))
        BY <2>1
      <4>3. \A j \in 1 .. Len(d(i)) : f[j] \in 1 .. i
        BY <2>3
      <4> HIDE DEF m, d
      <4> QED BY <4>1, <4>2, <4>3
    <3>3. g \in [1 .. m -> 1 .. i + 1]
      BY <2>1, <2>3
    <3> HIDE DEF m, g
    <3>4. \A j, k \in 1 .. m : j < k => g[j] < g[k]
      <4> SUFFICES ASSUME NEW j \in 1 .. m, NEW k \in 1 .. m, j < k PROVE g[j] < g[k]
        OBVIOUS
      <4>1. j \in 1 .. Len(d(i))
        BY <2>1 DEF m
      <4>2. CASE k = m
        BY <3>2, <4>1, <4>2
      <4>3. CASE k # m
        BY <2>3, <3>2, <4>1, <4>3
      <4> QED BY <4>2, <4>3
    <3>5. ASSUME NEW p \in 1 .. i + 1
          PROVE  src[p] \in Separators <=> \A j \in 1 .. m : g[j] # p
      <4>1. CASE p = i + 1
        BY <2>5, <3>1, <3>2, <4>1 DEF m
      <4>2. CASE p # i + 1
        <5>1. p \in 1 .. i
          BY <4>2
        <5>2. src[p] \in Separators <=> \A j \in 1 .. Len(d(i)) : f[j] # p
          BY <2>3, <5>1
        <5>3. \A j \in 1 .. Len(d(i)) : j \in 1 .. m
          BY <2>1 DEF m
        <5> QED BY <3>2, <4>2, <5>2, <5>3
      <4> QED BY <4>1, <4>2
    <3>6. \A j \in 1 .. m : d(i + 1)[j] = ToUpper(src[g[j]])
      BY <2>3, <3>1, <3>2
    <3>7. IsReading(g, i + 1)
      BY <3>1, <3>3, <3>4, <3>5, <3>6
    <3> HIDE DEF IsReading
    <3> QED BY <3>7
  <2> QED BY <2>4, <2>5
<1>3. Len(src) \in T
  <2> HIDE DEF T
  <2>1. Nat \subseteq T
    BY <1>1, <1>2, Counting
  <2> QED BY <2>1
<1> HIDE DEF d, IsReading
<1>4. NormalizeKey(src, size) = d(Len(src))
  BY DEF NormalizeKey, d
<1>5. PICK f : IsReading(f, Len(src))
  BY <1>3, <1>4
<1>6. f \in Readings(src, Len(d(Len(src))))
  BY <1>5 DEF IsReading, Readings
<1> QED BY <1>3, <1>4, <1>5, <1>6 DEF IsReading

\* A buffer and a key that is a text are the same when they are equally long and
\* have the same characters.
LEMMA BufferIs ==
    ASSUME NEW src \in Seq(STRING), NEW size
    PROVE  /\ Len(NormalizeKey(src, size)) \in Nat
           /\ DOMAIN NormalizeKey(src, size) = 1 .. Len(NormalizeKey(src, size))
           /\ NormalizeKey(src, size) = [j \in DOMAIN NormalizeKey(src, size) |-> NormalizeKey(src, size)[j]]
<1> DEFINE Letters == {ToUpper(src[p]) : p \in 1 .. Len(src)}
           key == NormalizeKey(src, size)
<1>1. Len(src) \in 0 .. Len(src)
  OBVIOUS
<1>2. key \in Seq(Letters)
  BY <1>1, CopiedText DEF NormalizeKey
<1> HIDE DEF Letters, key
<1>3. /\ Len(key) \in Nat
      /\ DOMAIN key = 1 .. Len(key)
      /\ key = [j \in DOMAIN key |-> key[j]]
  BY <1>2
<1> QED BY <1>3 DEF key

\* Two intervals from 1 are equal only if they end alike.
LEMMA EqualIntervals == ASSUME NEW m \in Nat, NEW n \in Nat, 1 .. m = 1 .. n PROVE m = n
<1>1. ASSUME m < n PROVE FALSE
  <2>1. n \in 1 .. n /\ n \notin 1 .. m
    BY <1>1
  <2> QED BY <2>1
<1>2. ASSUME n < m PROVE FALSE
  <2>1. m \in 1 .. m /\ m \notin 1 .. n
    BY <1>2
  <2> QED BY <2>1
<1> QED BY <1>1, <1>2

\* ll_normalize_key leaves an alias of a text exactly when the text spells it.
LEMMA AliasesAreSpelled ==
    ASSUME NEW src \in Seq(STRING), NEW size \in Nat,
           NEW alias \in Seq(STRING), Len(alias) + 1 < size
    PROVE  NormalizeKey(src, size) = alias <=> Spells(src, alias)
<1> DEFINE key == NormalizeKey(src, size)
<1>1. /\ Len(key) \in Nat
      /\ DOMAIN key = 1 .. Len(key)
      /\ key = [j \in DOMAIN key |-> key[j]]
  BY BufferIs
<1>2. /\ Len(alias) \in Nat
      /\ DOMAIN alias = 1 .. Len(alias)
      /\ alias = [j \in DOMAIN alias |-> alias[j]]
  OBVIOUS
<1>3. ASSUME key = alias PROVE Spells(src, alias)
  <2>1. Len(key) + 1 < size
    BY <1>3
  <2>2. PICK place \in Readings(src, Len(key)) :
            \A j \in 1 .. Len(key) : key[j] = ToUpper(src[place[j]])
    BY <2>1, CopyIsReading
  <2> HIDE DEF key
  <2>3. place \in Readings(src, Len(alias))
    BY <1>3, <2>2
  <2>4. \A j \in DOMAIN alias : ToUpper(src[place[j]]) = alias[j]
    BY <1>2, <1>3, <2>2
  <2> QED BY <2>3, <2>4 DEF Spells
<1>4. ASSUME Spells(src, alias) PROVE key = alias
  <2>1. PICK place \in Readings(src, Len(alias)) :
            \A j \in DOMAIN alias : ToUpper(src[place[j]]) = alias[j]
    BY <1>4 DEF Spells
  <2>2. Len(key) = Len(alias) /\ \A j \in 1 .. Len(alias) : key[j] = ToUpper(src[place[j]])
    BY <1>2, ReadingIsCopied
  <2> HIDE DEF key
  <2> QED BY <1>1, <1>2, <2>1, <2>2
<1> QED BY <1>3, <1>4

\* A character is turned into one of the alphabet exactly when it looks like it.
LEMMA LikenessIsFolded ==
    ASSUME NEW c, NEW k, Places(Alphabet, k) # {}
    PROVE  Fold(c) = k <=> LooksLike(c, k)
<1>1. \A i \in 1 .. 32 : Alphabet[i] # "O" /\ Alphabet[i] # "I" /\ Alphabet[i] # "L"
  BY SMTT(60) DEF Alphabet
<1>2. k # "O" /\ k # "I" /\ k # "L"
  BY <1>1, AlphabetTells DEF Places
<1>3. CASE c = "O"
  BY <1>2, <1>3 DEF Fold, LooksLike
<1>4. CASE c \in {"I", "L"}
  BY <1>2, <1>4 DEF Fold, LooksLike
<1>5. CASE c # "O" /\ c \notin {"I", "L"}
  BY <1>5 DEF Fold, LooksLike
<1> QED BY <1>3, <1>4, <1>5

\* ll_sanitize_key leaves a native key of a text exactly when the text spells it.
LEMMA NativeKeysAreSpelled ==
    ASSUME NEW src \in Seq(STRING), NEW size \in Nat,
           NEW native \in Seq(STRING), Len(native) + 1 < size,
           \A i \in DOMAIN native : Places(Alphabet, native[i]) # {}
    PROVE  /\ SanitizeKey(src, size) = native <=> SpellsNative(src, native)
           /\ SanitizeKey(src, size) = native /\ native # <<>> => NormalizeKey(src, size) # <<>>
<1> DEFINE key == NormalizeKey(src, size)
           sanitized == SanitizeKey(src, size)
<1>1. Len(key) \in Nat /\ DOMAIN key = 1 .. Len(key)
  BY BufferIs
<1>2. /\ Len(native) \in Nat
      /\ DOMAIN native = 1 .. Len(native)
      /\ native = [j \in DOMAIN native |-> native[j]]
  OBVIOUS
<1>3. sanitized = [j \in DOMAIN key |-> Fold(key[j])]
  BY DEF SanitizeKey
<1>4. ASSUME sanitized = native
      PROVE  Len(key) = Len(native) /\ \A j \in 1 .. Len(native) : Fold(key[j]) = native[j]
  <2> HIDE DEF key, sanitized
  <2>1. DOMAIN native = DOMAIN key
    BY <1>3, <1>4
  <2>2. Len(key) = Len(native)
    BY <1>1, <1>2, <2>1, EqualIntervals
  <2> QED BY <1>2, <1>3, <1>4, <2>1, <2>2
<1>5. ASSUME sanitized = native PROVE SpellsNative(src, native)
  <2>1. Len(key) + 1 < size
    BY <1>4, <1>5
  <2>2. PICK place \in Readings(src, Len(key)) :
            \A j \in 1 .. Len(key) : key[j] = ToUpper(src[place[j]])
    BY <2>1, CopyIsReading
  <2> HIDE DEF key
  <2>3. place \in Readings(src, Len(native))
    BY <1>4, <1>5, <2>2
  <2>4. ASSUME NEW j \in DOMAIN native
        PROVE  LooksLike(ToUpper(src[place[j]]), native[j])
    <3>1. Fold(ToUpper(src[place[j]])) = native[j]
      BY <1>2, <1>4, <1>5, <2>2
    <3> QED BY <3>1, LikenessIsFolded
  <2> QED BY <2>3, <2>4 DEF SpellsNative
<1>6. ASSUME SpellsNative(src, native) PROVE sanitized = native
  <2>1. PICK place \in Readings(src, Len(native)) :
            \A j \in DOMAIN native : LooksLike(ToUpper(src[place[j]]), native[j])
    BY <1>6 DEF SpellsNative
  <2>2. Len(key) = Len(native) /\ \A j \in 1 .. Len(native) : key[j] = ToUpper(src[place[j]])
    BY <1>2, ReadingIsCopied
  <2> HIDE DEF key, sanitized
  <2>3. ASSUME NEW j \in DOMAIN native PROVE Fold(key[j]) = native[j]
    <3>1. key[j] = ToUpper(src[place[j]])
      BY <1>2, <2>2
    <3> QED BY <2>1, <3>1, LikenessIsFolded
  <2> QED BY <1>1, <1>2, <1>3, <2>2, <2>3
<1>7. ASSUME sanitized = native, native # <<>> PROVE key # <<>>
  <2>1. Len(native) # 0
    BY <1>7
  <2>2. Len(key) # 0
    BY <1>4, <1>7, <2>1
  <2> HIDE DEF key, sanitized
  <2> QED BY <2>2
<1> QED BY <1>5, <1>6, <1>7

\* What latte_activate makes of a text and a cached licence is what the text
\* means.
LEMMA KeysAreTold ==
    ASSUME NEW typed \in TypedKeys, NEW l \in Licences, NEW alias \in {<<>>, l.alias}
    PROVE  /\ Normalized[typed.text] # <<>>
           /\ \/ l.key = Sanitized[typed.text]
              \/ alias # <<>> /\ alias = Normalized[typed.text]
           <=> typed.of # <<>> /\ typed.of \in {l.key, alias}
<1> DEFINE normalized == Normalized[typed.text]
           sanitized == Sanitized[typed.text]
<1>1. typed.text \in Seq(STRING) /\ KeyBuffer \in Nat
  BY SetupAssumption DEF Text
<1>2. normalized = NormalizeKey(typed.text, KeyBuffer) /\ sanitized = SanitizeKey(typed.text, KeyBuffer)
  BY DEF Normalized, Sanitized, Texts
<1>3. ASSUME NEW m \in Licences
      PROVE  /\ m.key # <<>>
             /\ sanitized = m.key <=> SpellsNative(typed.text, m.key)
             /\ sanitized = m.key => normalized # <<>>
             /\ normalized = m.alias <=> Spells(typed.text, m.alias)
  <2>1. m.key \in Seq(STRING) /\ m.alias \in Seq(STRING)
    BY SetupAssumption DEF Text
  <2>2. /\ m.key # <<>> /\ \A i \in DOMAIN m.key : Places(Alphabet, m.key[i]) # {}
        /\ Len(m.key) + 1 < KeyBuffer /\ Len(m.alias) + 1 < KeyBuffer
    BY LicencesAssumption
  <2>3. normalized = m.alias <=> Spells(typed.text, m.alias)
    BY <1>1, <1>2, <2>1, <2>2, AliasesAreSpelled
  <2>4. /\ sanitized = m.key <=> SpellsNative(typed.text, m.key)
        /\ sanitized = m.key /\ m.key # <<>> => normalized # <<>>
    <3> DEFINE key == m.key
    <3> HIDE DEF key
    <3>1. key \in Seq(STRING) /\ Len(key) + 1 < KeyBuffer
      BY <2>1, <2>2 DEF key
    <3>2. \A i \in DOMAIN key : Places(Alphabet, key[i]) # {}
      BY <2>2 DEF key
    <3>3. /\ SanitizeKey(typed.text, KeyBuffer) = key <=> SpellsNative(typed.text, key)
          /\ SanitizeKey(typed.text, KeyBuffer) = key /\ key # <<>>
                => NormalizeKey(typed.text, KeyBuffer) # <<>>
      BY <1>1, <3>1, <3>2, NativeKeysAreSpelled
    <3> QED BY <1>2, <3>3 DEF key
  <2> QED BY <2>2, <2>3, <2>4
<1>4. /\ SpellsNative(typed.text, l.key) => typed.of = l.key
      /\ l.alias # <<>> /\ Spells(typed.text, l.alias) => typed.of = l.alias
      /\ typed.of # <<>> => \E m \in Licences :
            \/ typed.of = m.key /\ SpellsNative(typed.text, m.key)
            \/ typed.of = m.alias /\ Spells(typed.text, m.alias)
  BY TypedAssumption
<1>5. \A m \in Licences : l.alias # m.key /\ m.alias # l.key
  BY LicencesAssumption
<1> HIDE DEF normalized, sanitized
<1>6. ASSUME normalized # <<>>, l.key = sanitized PROVE typed.of # <<>> /\ typed.of = l.key
  BY <1>3, <1>4, <1>6
<1>7. ASSUME alias # <<>>, alias = normalized PROVE typed.of # <<>> /\ typed.of = alias
  BY <1>3, <1>4, <1>7
<1>8. ASSUME typed.of # <<>>, typed.of = l.key PROVE normalized # <<>> /\ l.key = sanitized
  <2>1. PICK m \in Licences : \/ typed.of = m.key /\ SpellsNative(typed.text, m.key)
                              \/ typed.of = m.alias /\ Spells(typed.text, m.alias)
    BY <1>4, <1>8
  <2>2. typed.of = m.key /\ SpellsNative(typed.text, m.key)
    BY <1>5, <1>8, <2>1
  <2> QED BY <1>3, <1>8, <2>2
<1>9. ASSUME typed.of # <<>>, typed.of = alias PROVE alias # <<>> /\ alias = normalized
  <2>1. PICK m \in Licences : \/ typed.of = m.key /\ SpellsNative(typed.text, m.key)
                              \/ typed.of = m.alias /\ Spells(typed.text, m.alias)
    BY <1>4, <1>9
  <2>2. alias = l.alias
    BY <1>9
  <2>3. typed.of = m.alias /\ Spells(typed.text, m.alias)
    BY <1>5, <1>9, <2>1, <2>2
  <2> QED BY <1>3, <1>9, <2>3
<1>10. normalized # <<>> /\ (l.key = sanitized \/ (alias # <<>> /\ alias = normalized))
       <=> typed.of # <<>> /\ typed.of \in {l.key, alias}
  BY <1>6, <1>7, <1>8, <1>9
<1> QED BY <1>10 DEF normalized, sanitized

\* A cache file has the token of a licence the server knows.
CacheInv ==
    \A path \in DOMAIN cache : \E l \in Licences :
        cache[path].key = l.key /\ cache[path].alias \in {<<>>, l.alias}

LEMMA CacheStep == CacheInv /\ [SetupNext]_setupVars => CacheInv'
<1> SUFFICES ASSUME CacheInv, [SetupNext]_setupVars PROVE CacheInv'
  OBVIOUS
<1>1. ASSUME NEW h \in Handles, ActivateTyped(h) PROVE CacheInv'
  <2> PICK typed \in Texts : \E tok \in Found(Normalized[typed], handle[h].machine_id) :
            cache' = [p \in DOMAIN cache \cup {PathOf(h)} |->
                        IF p = PathOf(h) THEN tok ELSE cache[p]]
    BY <1>1 DEF ActivateTyped
  <2>1. PICK tok \in Found(Normalized[typed], handle[h].machine_id) :
            cache' = [p \in DOMAIN cache \cup {PathOf(h)} |->
                        IF p = PathOf(h) THEN tok ELSE cache[p]]
    OBVIOUS
  <2>2. PICK l \in Licences : tok.key = l.key /\ tok.alias \in {<<>>, l.alias}
    BY DEF Found
  <2>3. ASSUME NEW path \in DOMAIN cache'
        PROVE  \E m \in Licences : cache'[path].key = m.key /\ cache'[path].alias \in {<<>>, m.alias}
    <3>1. CASE path = PathOf(h)
      <4>1. cache'[path] = tok
        BY <2>1, <3>1
      <4> QED BY <2>2, <4>1
    <3>2. CASE path # PathOf(h)
      <4>1. path \in DOMAIN cache /\ cache'[path] = cache[path]
        BY <2>1, <2>3, <3>2
      <4> QED BY <4>1 DEF CacheInv
    <3> QED BY <3>1, <3>2
  <2> QED BY <2>3 DEF CacheInv
<1>2. CASE UNCHANGED cache
  BY <1>2 DEF CacheInv
<1>3. (\E h \in Handles : ActivateTyped(h)) \/ UNCHANGED cache
  BY DEF SetupNext, setupVars, NewConfig, SetMultiInstance, SetMachineId, SetMachineName,
         NewWithoutConfig, New, ResolveConfigDir, ResolveWorkingDir, Fingerprint, Client, Close,
         ParentAppears
<1> QED BY <1>1, <1>2, <1>3

\* latte_activate answers from the cache exactly when the cached licence of
\* this machine is the one whose key was typed: for texts of any length, and
\* every licence whose key and alias leave a character of the buffers free
\* (latte.c:472-490, key.c:65-97).
THEOREM KeysAreRecognised == SetupSpec => []KeyIsRecognised
<1>1. SetupInit => CacheInv
  BY DEF SetupInit, CacheInv
<1>2. ASSUME CacheInv PROVE KeyIsRecognised
  <2> SUFFICES ASSUME NEW h \in Handles, NEW typed \in TypedKeys, PathOf(h) \in DOMAIN cache
               PROVE  Normalized[typed.text] # <<>> /\ Meant(cache[PathOf(h)], typed.text)
                      <=> typed.of # <<>> /\ typed.of \in {cache[PathOf(h)].key, cache[PathOf(h)].alias}
    BY DEF KeyIsRecognised, AnsweredFromCache
  <2>1. PICK l \in Licences :
            cache[PathOf(h)].key = l.key /\ cache[PathOf(h)].alias \in {<<>>, l.alias}
    BY <1>2 DEF CacheInv
  <2> QED BY <2>1, KeysAreTold DEF Meant
<1>3. SetupSpec => []CacheInv
  BY <1>1, CacheStep, PTL DEF SetupSpec
<1> QED BY <1>2, <1>3, PTL
=============================================================================
