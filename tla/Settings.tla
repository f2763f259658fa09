------------------------------ MODULE Settings ------------------------------
(***************************************************************************)
(* SettingsService: one row of platform_settings, made by whoever reads    *)
(* the settings first.  A handler of an update reads the row, changes the  *)
(* instance and saves the columns it was given; the extended settings are  *)
(* one JSON column, merged in memory and saved as a whole.                 *)
(*                                                                         *)
(* The limits of a payout stand for the limits of a credit request too,    *)
(* which the code checks in the same way; switches stand for the columns   *)
(* that are saved without a check.  save() writes the columns that differ  *)
(* from the instance read.  A limit that is given always differs: a        *)
(* DECIMAL is read as a string, which getAllSettings turns into a number,  *)
(* and an update sets a number.  findOne has no order: where there are     *)
(* several rows, any of them is found.                                     *)
(***************************************************************************)
EXTENDS Calls

CONSTANTS
    Rows,           \* rows that platform_settings may come to have
    NoSettings,     \* a handler without a row
    Limits,         \* amounts, in order, that limits are set to
    Unset,          \* a limit that an update does not mention
    Keys,           \* keys of the extended settings
    Switches,       \* columns that are saved without a check
    NoSwitch        \* an update of none of them

ASSUME SettingsAssumption ==
    /\ NoSettings \notin Rows /\ NoSwitch \notin Switches
    /\ Limits \subseteq Nat \ {0} /\ Unset \notin Nat
    /\ \E a, b \in Limits : a < b /\ \A c \in Limits : a <= c /\ c <= b

DefaultMin == CHOOSE a \in Limits : \A b \in Limits : a <= b
DefaultMax == CHOOSE a \in Limits : \A b \in Limits : b <= a

VARIABLES
    rows,           \* rows that exist
    minPayout, maxPayout,
    extended,       \* extended_settings: the keys that are set
    on,             \* on[r]: the switches that are on
    update,         \* what a handler holds
    acknowledged,   \* keys that some update reported as saved
    reported        \* switches that are on by the last update's report

settingsTable == <<rows, minPayout, maxPayout, extended, on>>
settingsReports == <<acknowledged, reported>>
settingsState == <<settingsTable, update, settingsReports>>

NoLimits == [min |-> Unset, max |-> Unset]
LimitUpdates == [min : Limits \cup {Unset}, max : Limits \cup {Unset}] \ {NoLimits}

\* kind: "read", "limits", "extended" or "switch"; limits, keys, switch and
\* value: what it was given; row, seenMin, seenKeys, seenOn: its instance.
NoUpdate == [kind |-> "none", limits |-> NoLimits, keys |-> {},
             switch |-> NoSwitch, value |-> FALSE,
             row |-> NoSettings, seenMin |-> Unset, seenKeys |-> {}, seenOn |-> {}]

SettingsInit ==
    /\ rows = {}
    /\ minPayout = [r \in Rows |-> DefaultMin]
    /\ maxPayout = [r \in Rows |-> DefaultMax]
    /\ extended = [r \in Rows |-> {}]
    /\ update = [p \in Procs |-> NoUpdate]
    /\ on = [r \in Rows |-> {}]
    /\ acknowledged = {} /\ reported = {}

SettingsGoOn(p, u, label) == update' = [update EXCEPT ![p] = u] /\ Goto(p, label)

SettingsDone(p) == SettingsGoOn(p, NoUpdate, "idle")

\* The instance of row r.  A reader is done with it at once.
TakeSettings(p, r, u) ==
    IF u.kind = "read" THEN SettingsDone(p)
    ELSE SettingsGoOn(p, [u EXCEPT !.row = r, !.seenMin = minPayout[r],
                                   !.seenKeys = extended[r], !.seenOn = on[r]],
                      "settings_save")

\* Mutant: the settings are created whatever findOne found.
FindSettingsNever(p, u) ==
    /\ Idle(p)
    /\ SettingsGoOn(p, u, "settings_create")
    /\ UNCHANGED <<settingsTable, settingsReports>>

\* getOrCreateSettings: PlatformSettings.findOne.
FindSettings(p, u) ==
    /\ Idle(p)
    /\ \/ \E r \in rows : TakeSettings(p, r, u)
       \/ rows = {} /\ SettingsGoOn(p, u, "settings_create")
    /\ UNCHANGED <<settingsTable, settingsReports>>

ReadSettings(p) == FindSettings(p, [NoUpdate EXCEPT !.kind = "read"])
UpdateLimits(p, limits) ==
    FindSettings(p, [NoUpdate EXCEPT !.kind = "limits", !.limits = limits])
UpdateExtended(p, keys) ==
    FindSettings(p, [NoUpdate EXCEPT !.kind = "extended", !.keys = keys])
UpdateSwitch(p, switch, value) ==
    FindSettings(p, [NoUpdate EXCEPT !.kind = "switch", !.switch = switch, !.value = value])

\* PlatformSettings.create with the defaults.
CreateSettings(p) ==
    /\ pc[p] = "settings_create"
    /\ \E r \in Rows \ rows :
          /\ rows' = rows \cup {r}
          /\ TakeSettings(p, r, update[p])
    /\ UNCHANGED <<minPayout, maxPayout, extended, on, settingsReports>>

Given(limit) == limit # Unset

\* minPayout of the instance, once the update has set its fields.
NewMin(p) == IF Given(update[p].limits.min) THEN update[p].limits.min ELSE update[p].seenMin

\* Mutant: only the two limits of one request are compared.
LimitsAcceptedGiven(p) ==
    Given(update[p].limits.max) /\ Given(update[p].limits.min) =>
        update[p].limits.max > update[p].limits.min

\* "Maximum payout must be greater than minimum payout", asked of a request
\* that gives a maximum.
LimitsAccepted(p) == Given(update[p].limits.max) => update[p].limits.max > NewMin(p)

SaveLimits(p) ==
    LET r == update[p].row IN
    /\ pc[p] = "settings_save" /\ update[p].kind = "limits"
    /\ LimitsAccepted(p)
    /\ minPayout' = IF Given(update[p].limits.min)
                    THEN [minPayout EXCEPT ![r] = update[p].limits.min] ELSE minPayout
    /\ maxPayout' = IF Given(update[p].limits.max)
                    THEN [maxPayout EXCEPT ![r] = update[p].limits.max] ELSE maxPayout
    /\ SettingsDone(p)
    /\ UNCHANGED <<rows, extended, on, settingsReports>>

\* The merge of what was read with what was given.
SaveExtended(p) ==
    LET r == update[p].row IN
    /\ pc[p] = "settings_save" /\ update[p].kind = "extended"
    /\ extended' = [extended EXCEPT ![r] = update[p].seenKeys \cup update[p].keys]
    /\ acknowledged' = acknowledged \cup update[p].keys
    /\ SettingsDone(p)
    /\ UNCHANGED <<rows, minPayout, maxPayout, on, reported>>

\* set with or without s.
Switched(set, s, value) == IF value THEN set \cup {s} ELSE set \ {s}

\* updateOperationsSettings, and payment, business, platform and widget: a
\* switch that was seen in this position is not written.
SaveSwitch(p) ==
    LET r == update[p].row
        s == update[p].switch
        value == update[p].value IN
    /\ pc[p] = "settings_save" /\ update[p].kind = "switch"
    /\ on' = IF value = (s \in update[p].seenOn) THEN on
             ELSE [on EXCEPT ![r] = Switched(on[r], s, value)]
    /\ reported' = Switched(reported, s, value)
    /\ SettingsDone(p)
    /\ UNCHANGED <<rows, minPayout, maxPayout, extended, acknowledged>>

SettingsLabels == {"settings_create", "settings_save"}

SettingsHandlerFails(p) ==
    /\ pc[p] \in SettingsLabels
    /\ SettingsDone(p)
    /\ UNCHANGED <<settingsTable, settingsReports>>

SettingsRequest(p) ==
    \/ ReadSettings(p)
    \/ \E limits \in LimitUpdates : UpdateLimits(p, limits)
    \/ \E k \in Keys : UpdateExtended(p, {k})
    \/ \E s \in Switches, value \in BOOLEAN : UpdateSwitch(p, s, value)

SettingsStep(p) ==
    \/ CreateSettings(p)
    \/ SaveLimits(p) \/ SaveExtended(p) \/ SaveSwitch(p)
    \/ SettingsHandlerFails(p)

\* What a handler is changing: the one row, by a first read, or the columns
\* of its update.
SettingsWorksOn(p) ==
    {<<"settings", what>> : what \in
        CASE pc[p] = "settings_create" -> {"row", update[p].kind}
          [] pc[p] = "settings_save" -> {update[p].kind}
          [] OTHER -> {}}

\* Two handlers ever changed this at once.
Met(what) == <<"settings", what>> \in raced

-----------------------------------------------------------------------------
(* Properties *)

SettingsTypeOK ==
    /\ rows \subseteq Rows
    /\ minPayout \in [Rows -> Limits] /\ maxPayout \in [Rows -> Limits]
    /\ extended \in [Rows -> SUBSET Keys]
    /\ update \in [Procs ->
          [kind : {"none", "read", "limits", "extended", "switch"},
           limits : LimitUpdates \cup {NoLimits}, keys : SUBSET Keys,
           switch : Switches \cup {NoSwitch}, value : BOOLEAN,
           row : Rows \cup {NoSettings}, seenMin : Limits \cup {Unset},
           seenKeys : SUBSET Keys, seenOn : SUBSET Switches]]
    /\ on \in [Rows -> SUBSET Switches]
    /\ acknowledged \subseteq Keys /\ reported \subseteq Switches
    /\ \A p \in Procs : pc[p] = "settings_save" => update[p].row \in rows

\* "Get or create settings (singleton pattern)": there is one row, unless
\* two first readers met.  It has every extended setting that an update
\* reported as saved, and every switch as the last update of it reported,
\* unless two updates of the extended settings met, or two of the switches:
\* an update of one category undoes none of another.
OneSettingsUnlessRaced ==
    ~Met("row") =>
        /\ \A r, s \in rows : r = s
        /\ ~Met("extended") => \A r \in rows : acknowledged \subseteq extended[r]
        /\ ~Met("switch") => \A r \in rows : on[r] = reported

\* The one row holds what was saved in it.
SettingsInv == SettingsTypeOK /\ OneSettingsUnlessRaced

\* "Maximum payout must be greater than minimum payout" after every update
\* that gives a maximum, unless two updates of the limits met.
MaximumAboveMinimumUnlessRaced ==
    [][~Met("row")' /\ ~Met("limits")' =>
          \A p \in Procs :
              Given(update[p].limits.max) /\ <<minPayout, maxPayout>>' # <<minPayout, maxPayout>>
                 => \A r \in rows : maxPayout'[r] > minPayout'[r]
      ]_<<minPayout, maxPayout, raced>>

=============================================================================
