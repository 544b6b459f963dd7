----------------------------- MODULE FeatureCache -----------------------------
(***************************************************************************)
(* The feature flag skip_posting_gross_amount of a workspace and its copy  *)
(* in the cache.  Exports read the copy; one that NetSuite refuses for its *)
(* gross amounts updates the flag inside its transaction, renews the copy  *)
(* and posts again, and whether it commits turns out later.                *)
(***************************************************************************)
CONSTANTS
    Workers,  \* workers that export bills and expense reports
    None      \* no copy in the cache

VARIABLES
    flag,   \* the committed flag
    cache,  \* its copy, or None
    step,   \* where each worker stands
    value   \* what the worker has read

vars == <<flag, cache, step, value>>

Holding == {"updated", "deleted", "reread", "renewed"}  \* has updated the row, uncommitted

TypeOK ==
    /\ flag \in BOOLEAN /\ cache \in BOOLEAN \cup {None}
    /\ step \in [Workers -> {"idle", "missed", "loaded", "known", "refused"} \cup Holding]
    /\ value \in [Workers -> BOOLEAN]

Init ==
    /\ flag = FALSE /\ cache = None
    /\ step = [w \in Workers |-> "idle"]
    /\ value = [w \in Workers |-> FALSE]

Move(w, from, to) == step[w] = from /\ step' = [step EXCEPT ![w] = to]
-----------------------------------------------------------------------------
(* get_feature_config                                                      *)
Hit(w) ==
    /\ cache # None
    /\ Move(w, "idle", "known")
    /\ value' = [value EXCEPT ![w] = cache]
    /\ UNCHANGED <<flag, cache>>

Miss(w) == cache = None /\ Move(w, "idle", "missed") /\ UNCHANGED <<flag, cache, value>>

Load(w) ==
    /\ Move(w, "missed", "loaded")
    /\ value' = [value EXCEPT ![w] = flag]
    /\ UNCHANGED <<flag, cache>>

Store(w) == Move(w, "loaded", "known") /\ cache' = value[w] /\ UNCHANGED <<flag, value>>

\* 48 hours
\* mutant: the copy is kept for good
ExpireNever == FALSE /\ UNCHANGED vars
Expire == cache # None /\ cache' = None /\ UNCHANGED <<flag, step, value>>
-----------------------------------------------------------------------------
(* The export; NetSuite only refuses gross amounts that are sent.          *)
Posted(w)  == Move(w, "known", "idle") /\ UNCHANGED <<flag, cache, value>>
Refused(w) == ~value[w] /\ Move(w, "known", "refused") /\ UNCHANGED <<flag, cache, value>>

\* a second update of the row waits for the first to end
Update(w) ==
    /\ \A v \in Workers : step[v] \notin Holding
    /\ Move(w, "refused", "updated")
    /\ UNCHANGED <<flag, cache, value>>

\* reset_feature_config_cache
Delete(w) == Move(w, "updated", "deleted") /\ cache' = None /\ UNCHANGED <<flag, value>>
Reread(w) ==
    /\ Move(w, "deleted", "reread")
    /\ value' = [value EXCEPT ![w] = TRUE]
    /\ UNCHANGED <<flag, cache>>
Renew(w) == Move(w, "reread", "renewed") /\ cache' = value[w] /\ UNCHANGED <<flag, value>>

Commit(w)   == Move(w, "renewed", "idle") /\ flag' = TRUE /\ UNCHANGED <<cache, value>>
RollBack(w) == Move(w, "renewed", "idle") /\ UNCHANGED <<flag, cache, value>>

ReadOn(w) == Hit(w) \/ Miss(w) \/ Load(w) \/ Store(w)
Export(w) ==
    \/ Posted(w) \/ Refused(w) \/ Update(w) \/ Delete(w) \/ Reread(w) \/ Renew(w)
    \/ Commit(w) \/ RollBack(w)

Proceed(w) == step[w] # "idle" /\ (ReadOn(w) \/ Export(w))

Next == Expire \/ \E w \in Workers : ReadOn(w) \/ Export(w)

\* entries expire, and an export that has begun goes on
Fairness ==
    /\ WF_vars(Expire)
    /\ \A w \in Workers : WF_vars(Proceed(w))

Spec == Init /\ [][Next]_vars /\ Fairness
-----------------------------------------------------------------------------
\* Once an export has committed the flag, the exports stop being sent with gross amounts:
\* a worker that has read the old flag may yet put it in the cache, but not for good.
FlagTakesOver == flag ~> [](cache # FALSE)
=============================================================================
