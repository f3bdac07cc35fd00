--------------------------- MODULE PreferenceStore ---------------------------
(***************************************************************************)
(* A preference store of the frontend: one module-level record shared by   *)
(* every mounted widget, loaded from and saved to the backend as a whole.  *)
(* features/terminal/model/use-terminal-preferences.ts and                 *)
(* features/agent/model/use-ai-composer-preferences.ts are both of this    *)
(* shape; only their fields differ.  A field is an integer: a font size, a *)
(* scrollback, a line height in hundredths, or the index of an option.     *)
(***************************************************************************)
EXTENDS Integers

CONSTANTS Field,       \* the fields of the record
          Low, High,   \* Field -> the range a field is clamped to
          Step,        \* Field -> what a +/- button adds; 0: a select
          Default,     \* Field -> the default value
          MaxChanges,  \* bound on what the operator does
          MaxFaults    \* bound on lost requests and answers

ASSUME RangeAssumption ==
    /\ Low \in [Field -> Int] /\ High \in [Field -> Int] /\ Step \in [Field -> Int]
    /\ Default \in [Field -> Int]
    /\ \A f \in Field : Default[f] \in Low[f]..High[f]

VARIABLES
    saved,       \* the record the backend holds
    shown,       \* the values in the frontend's state
    isLoading, isSaving, error,
    load, answer,   \* the shared load request and the record it was answered
    save, next,  \* the save in flight and the record it carries
    target,      \* the fields the operator changed with it
    overlapped,  \* the last load began while a save was in flight
    clean,       \* the save in flight began with no error and no overlap
    changes, faults

prefVars == <<saved, shown, isLoading, isSaving, error, load, answer, save, next,
              target, overlapped, clean, changes, faults>>

Request == {"none", "sent", "served", "failed"}

\* The records whose fields are all within their range.
Values ==
    {v \in [Field -> UNION {Low[f]..High[f] : f \in Field}] :
        \A f \in Field : v[f] \in Low[f]..High[f]}

clamp(f, v) == IF v < Low[f] THEN Low[f] ELSE IF v > High[f] THEN High[f] ELSE v

normalize(r) == [f \in Field |-> clamp(f, r[f])]

PrefInit ==
    /\ saved \in Values
    /\ shown = Default
    /\ isLoading = TRUE /\ isSaving = FALSE /\ error = FALSE
    /\ load = "none" /\ answer = Default
    /\ save = "none" /\ next = Default /\ target = {}
    /\ overlapped = FALSE /\ clean = FALSE
    /\ changes = 0 /\ faults = 0

\* A widget mounts: it joins the load in flight or starts one.
ensureLoaded ==
    /\ load = "none"
    /\ changes < MaxChanges
    /\ changes' = changes + 1
    /\ load' = "sent"
    /\ error' = FALSE /\ isLoading' = TRUE
    /\ overlapped' = (save # "none")
    /\ UNCHANGED <<saved, shown, isSaving, answer, save, next, target, clean, faults>>

\* What the controls of a field offer.
Options(f) ==
    IF Step[f] = 0
    THEN {v \in Low[f]..High[f] : v # shown[f]}
    ELSE {v \in {shown[f] + Step[f]} : shown[f] < High[f]}
         \cup {v \in {shown[f] - Step[f]} : shown[f] > Low[f]}
         \cup {v \in {Default[f]} : shown[f] # Default[f]}

\* The controls of the settings section are disabled while loading or saving.
controlsEnabled == ~isLoading /\ ~isSaving

\* Variant: a load in flight does not disable the controls.
persistWhileLoading(fs, r) ==
    /\ ~isSaving /\ save = "none"
    /\ changes < MaxChanges
    /\ changes' = changes + 1
    /\ save' = "sent"
    /\ next' = normalize(r)
    /\ target' = fs
    /\ error' = FALSE /\ isSaving' = TRUE
    /\ clean' = (~error /\ ~overlapped)
    /\ overlapped' = FALSE
    /\ UNCHANGED <<saved, shown, isLoading, load, answer, faults>>

\* The whole record is sent.
persist(fs, r) ==
    /\ controlsEnabled
    /\ changes < MaxChanges
    /\ changes' = changes + 1
    /\ save' = "sent"
    /\ next' = normalize(r)
    /\ target' = fs
    /\ error' = FALSE /\ isSaving' = TRUE
    /\ clean' = (~error /\ ~overlapped)
    /\ overlapped' = FALSE
    /\ UNCHANGED <<saved, shown, isLoading, load, answer, faults>>

setField(f) == \E v \in Options(f) : persist({f}, [shown EXCEPT ![f] = v])

resetDefaults == shown # Default /\ persist(Field, Default)

ServeLoad ==
    /\ load = "sent"
    /\ load' = "served"
    /\ answer' = saved
    /\ UNCHANGED <<saved, shown, isLoading, isSaving, error, save, next, target,
                   overlapped, clean, changes, faults>>

ServeSave ==
    /\ save = "sent"
    /\ save' = "served"
    /\ saved' = normalize(next)
    /\ UNCHANGED <<shown, isLoading, isSaving, error, load, answer, next, target,
                   overlapped, clean, changes, faults>>

\* The request or its answer is lost, or the answer is an error.
LoadFails ==
    /\ load \in {"sent", "served"}
    /\ faults < MaxFaults
    /\ faults' = faults + 1
    /\ load' = "failed"
    /\ UNCHANGED <<saved, shown, isLoading, isSaving, error, answer, save, next,
                   target, overlapped, clean, changes>>

SaveFails ==
    /\ save \in {"sent", "served"}
    /\ faults < MaxFaults
    /\ faults' = faults + 1
    /\ save' = "failed"
    /\ UNCHANGED <<saved, shown, isLoading, isSaving, error, load, answer, next,
                   target, overlapped, clean, changes>>

\* The load returns: all fields are replaced, or the error is set; `finally`
\* clears its own flag.
refresh ==
    /\ load \in {"served", "failed"}
    /\ load' = "none"
    /\ isLoading' = FALSE
    /\ shown' = IF load = "served" THEN normalize(answer) ELSE shown
    /\ error' = (error \/ load = "failed")
    /\ UNCHANGED <<saved, isSaving, answer, save, next, target, overlapped, clean,
                   changes, faults>>

\* Variant: the answer is not taken over.
saveReturnsUnread ==
    /\ save \in {"served", "failed"}
    /\ save' = "none"
    /\ isSaving' = FALSE
    /\ error' = (error \/ save = "failed")
    /\ UNCHANGED <<saved, shown, isLoading, load, answer, next, target, overlapped,
                   clean, changes, faults>>

\* The save returns: the answer, which is the record stored, is taken over.
saveReturns ==
    /\ save \in {"served", "failed"}
    /\ save' = "none"
    /\ isSaving' = FALSE
    /\ shown' = IF save = "served" THEN normalize(next) ELSE shown
    /\ error' = (error \/ save = "failed")
    /\ UNCHANGED <<saved, isLoading, load, answer, next, target, overlapped, clean,
                   changes, faults>>

PrefNext ==
    \/ ensureLoaded \/ resetDefaults
    \/ \E f \in Field : setField(f)
    \/ ServeLoad \/ ServeSave \/ LoadFails \/ SaveFails
    \/ refresh \/ saveReturns

PrefSpec == PrefInit /\ [][PrefNext]_prefVars

-----------------------------------------------------------------------------
\* Every value is within its range, in the frontend and in the backend,
\* whatever buttons were pressed: each path into either goes through a clamp
\* (clampTerminalFontSize and its siblings).
InRange == saved \in Values /\ shown \in Values /\ next \in Values /\ answer \in Values

\* A flag is up exactly while its request is in flight, so the controls are
\* never left disabled by a request that ended: `isLoading` and `isSaving` are
\* each cleared by their own `finally` only, whichever answer comes first.
\* Before the first widget mounts `isLoading` is up with no request.
PrefFlagsHaveOwner ==
    /\ isSaving <=> save # "none"
    /\ isLoading <=> (load # "none" \/ changes = 0)

\* Once nothing is in flight, a store that was loaded and shows no error shows
\* what the backend holds, unless the last load began while a save was in
\* flight: the answer to that load may be the older of the two.
ShownIsSaved ==
    (load = "none" /\ save = "none" /\ ~isLoading /\ ~error /\ ~overlapped)
        => shown = saved

\* Saving one preference never changes another one in the backend, although the
\* whole record is sent, as long as no error was shown and no overlap happened
\* when the operator changed it.  After a failed load the defaults are on screen
\* and enabled: the change then carries them all.
SaveKeepsOthers ==
    [][(ServeSave /\ clean) =>
        \A f \in Field \ target : saved'[f] = saved[f]]_prefVars
=============================================================================
