--------------------------- MODULE CacheRegister ---------------------------
(***************************************************************************)
(* What the rest of the SDK expects of the cache file: a register that a   *)
(* save replaces in one step, whose save returns 0 exactly when it did,    *)
(* and whose load returns what one instant of the load found in it.        *)
(***************************************************************************)
CONSTANTS
    Writers, Readers,
    Records,     \* what ll_file_save_token may be asked to write
    Blank,       \* the record of an empty token, which clears the cache
    Nothing      \* what ll_file_load_token finds when there is no token

VARIABLES
    value,       \* the record in the register, Nothing before the first save
    saved,       \* saved[w]: what w's save returned, "none" before it has
    seen,        \* seen[r]: what r's load has found, if it is in progress
    loaded       \* loaded[r]: what r's last load returned

registerVars == <<value, saved, seen, loaded>>

NotReading == "not reading"

\* A blank record is no token.
TokenOf(rec) == IF rec = Blank THEN Nothing ELSE rec

Init ==
    /\ value = Nothing
    /\ saved = [w \in Writers |-> "none"]
    /\ seen = [r \in Readers |-> NotReading]
    /\ loaded = [r \in Readers |-> Nothing]

BeginSave(w) ==
    /\ saved' = [saved EXCEPT ![w] = "none"]
    /\ UNCHANGED <<value, seen, loaded>>

Save(w, rec) ==
    /\ value' = rec
    /\ saved' = [saved EXCEPT ![w] = "ok"]
    /\ UNCHANGED <<seen, loaded>>

SaveFails(w) ==
    /\ saved' = [saved EXCEPT ![w] = "failed"]
    /\ UNCHANGED <<value, seen, loaded>>

Look(r) ==
    /\ seen[r] = NotReading
    /\ seen' = [seen EXCEPT ![r] = value]
    /\ UNCHANGED <<value, saved, loaded>>

Load(r) ==
    /\ seen[r] # NotReading
    /\ loaded' = [loaded EXCEPT ![r] = TokenOf(seen[r])]
    /\ seen' = [seen EXCEPT ![r] = NotReading]
    /\ UNCHANGED <<value, saved>>

Next ==
    \/ \E w \in Writers : BeginSave(w) \/ SaveFails(w) \/ \E rec \in Records : Save(w, rec)
    \/ \E r \in Readers : Look(r) \/ Load(r)

Spec == Init /\ [][Next]_registerVars
=============================================================================
