------------------------------ MODULE MCSetup -------------------------------
(***************************************************************************)
(* Instance of Setup for TLC: one app ID with slips of the keyboard, and   *)
(* one licence that has a native key and an alias, each typed in several   *)
(* ways.                                                                   *)
(***************************************************************************)
EXTENDS Setup, TLC

CONSTANTS h1, h2

SwapHandles == Permutations({h1, h2})

\* A key segment has 28 characters of data and four of checksum.
Data == <<"0", "G", "9", "8", "S", "8", "B", "K", "D", "D", "M", "Z", "W", "3",
          "2", "R", "M", "Q", "M", "8", "N", "Z", "T", "3", "3", "E", "5", "0">>
Issued == Data \o Checksum(Data, 4)
MCIssuedKeys == {Issued}

AppId(key) == [prefix |-> TRUE, env |-> "live", key |-> key]

\* At either end of the data, and in the checksum.
MistypedAt == {1, 2, 27, 32}
Characters == {"0", "G", "H", "Z"}
Slips ==
    {[Issued EXCEPT ![i] = c] : i \in MistypedAt, c \in Characters}
    \cup {[Issued EXCEPT ![i] = Issued[i + 1], ![i + 1] = Issued[i]] : i \in {1, 3, 28, 31}}
    \cup {Tail(Issued), Issued \o <<"0">>}

MCAppIds ==
    {AppId(key) : key \in Slips \cup {Issued}}
    \cup {[AppId(Issued) EXCEPT !.prefix = FALSE], [AppId(Issued) EXCEPT !.env = ""],
          [AppId(Issued) EXCEPT !.env = "prod"]}

Host(vars, ids, dirs) == [environ |-> vars, os |-> ids, parents |-> dirs]

\* Either directory may be missing, or have no variable; the last has no ID.
MCHosts ==
    {Host({"xdg", "home"}, <<"empty", "etc">>, p) :
        p \in {{"xdg", "home", "cwd"}, {"home", "cwd"}, {"cwd"}, {"home"}, {}}}
    \cup {Host({"home"}, <<"dbus", "etc">>, {"xdg", "cwd"}),
          Host({}, <<"missing", "etc">>, {"xdg", "cwd"}),
          Host({"xdg", "home"}, <<"missing", "empty">>, {"xdg", "home", "cwd"})}

-----------------------------------------------------------------------------
NativeKey == <<"0", "1", "A", "1">>
Alias == <<"O", "L", "D">>
MCLicences == {[key |-> NativeKey, alias |-> Alias]}

MCTypedKeys ==
    {[text |-> t, of |-> NativeKey] :
        t \in {NativeKey, <<"0", "1", "a", "1">>, <<"o", "I", "-", "A", "L">>,
               <<" ", "O", "l", "a", "i", " ">>}}
    \cup {[text |-> t, of |-> Alias] : t \in {Alias, <<"o", "-", "l", "d">>}}
    \cup {[text |-> t, of |-> <<>>] :
        t \in {<<>>, <<"-", " ">>, <<"0", "L", "D">>, <<"0", "1", "A", "1", "0", "0", "0", "0">>}}
=============================================================================
