-------------------------- MODULE PreferencesWindow -------------------------
(***************************************************************************)
(* The Preferences window (src/gui/gsc_preferences_window.cpp) and the     *)
(* smartctl options per device it edits (src/applib/storage_settings.h).   *)
(*                                                                         *)
(* Three text entries show the selected row of a list, and each writes     *)
(* what is typed into it to the selected row.  An entry cannot tell the    *)
(* user from the program: showing another row changes the entries one      *)
(* after the other, and each change is written back.                       *)
(***************************************************************************)
EXTENDS Naturals, Sequences, FiniteSets, SequencesExt, Functions

CONSTANTS
    Device, Type, Params,   \* texts of the three entries, without the empty one
    Unbalanced,             \* the parameters which the shell parser refuses
    Setting,                \* the other settings of the dialog
    OtherSetting,           \* settings it does not show: window sizes, startup devices
    Value,                  \* their values
    Default,                \* init_default_settings()
    Empty,                  \* the empty text
    Malformed,              \* an element of a list in a file that has no device, type and options
    Listed,                 \* the arrays the user may have written into the file
    MaxRows                 \* bound: rows in the list

ASSUME TextAssumption ==
    /\ Empty \notin Device \cup Type \cup Params
    /\ Unbalanced \subseteq Params
ASSUME SettingAssumption ==
    /\ Setting \cap OtherSetting = {}
    /\ Default \in [Setting \cup OtherSetting -> Value]
ASSUME MaxRowsAssumption == MaxRows \in Nat

VARIABLES
    scalars,    \* config_node: the settings that are set, a partial function
    options,    \* "system/smartctl_device_options" in it: a JSON array, <<>> if there is none
    isOpen,     \* there is a window
    fields,     \* what its check boxes and entries show, [Setting -> Value]
    rows,       \* the rows of device_options_treeview, a partial function from numbers
    selected,   \* the selected row, 0 if none is
    entries,    \* the three entries beside the list
    removable,  \* the Remove button is sensitive
    edited      \* history: the user has edited something in this window

configVars == <<scalars, options>>
dialogVars == <<isOpen, fields, rows, selected, entries, removable, edited>>
vars == <<scalars, options, isOpen, fields, rows, selected, entries, removable, edited>>

Row == [device : Device \cup {Empty}, type : Type \cup {Empty}, params : Params \cup {Empty}]
Blank == [device |-> Empty, type |-> Empty, params |-> Empty]
RowId == 1 .. MaxRows
NoRow == 0

ASSUME ListedAssumption ==
    /\ Malformed \notin Row
    /\ \A json \in Listed : json \in Seq(Row \cup {Malformed})

PartialFunctions(D, R) == UNION {[S -> R] : S \in SUBSET D}
With(f, x, v) == [y \in DOMAIN f \cup {x} |-> IF y = x THEN v ELSE f[y]]

-----------------------------------------------------------------------------
(* AppDeviceOptionMap: [<<device, type>> -> params].                       *)

OptionKey == (Device \cup {Empty}) \X (Type \cup {Empty})

RowOf(key, params) == [device |-> key[1], type |-> key[2], params |-> params]
KeyOf(row) == <<row.device, row.type>>

\* Mutation: rows without a type are left out, too.
TypedToJson(map) ==
    LET kept == {k \in DOMAIN map : k[1] # Empty /\ k[2] # Empty /\ map[k] # Empty}
    IN  SetToSeq({RowOf(k, map[k]) : k \in kept})

\* to_json()
ToJson(map) ==
    LET kept == {k \in DOMAIN map : k[1] # Empty /\ map[k] # Empty}
    IN  SetToSeq({RowOf(k, map[k]) : k \in kept})

\* from_json(): insert_or_assign() in the order of the array.
FromJson(json) ==
    LET at(k) == {i \in DOMAIN json : json[i] # Malformed /\ KeyOf(json[i]) = k}
        last(k) == CHOOSE i \in at(k) : \A j \in at(k) : j <= i
    IN  [k \in {k \in OptionKey : at(k) # {}} |-> json[last(k)].params]

\* app_get_device_options(): what is added to the command line.
OptionsFor(json, device, type) ==
    LET map == FromJson(json)
    IN  IF /\ device # Empty
           /\ <<device, type>> \in DOMAIN map
           /\ map[<<device, type>>] \notin Unbalanced
        THEN map[<<device, type>>] ELSE Empty

Read(set, s) == IF s \in DOMAIN set THEN set[s] ELSE Default[s]

-----------------------------------------------------------------------------
(* The list and the entries.                                               *)

\* Mutation: the new row's texts go where the selection was.
WriteOldRow(rs, r, column, text) ==
    IF selected \notin DOMAIN rs \/ entries[column] = text THEN rs
    ELSE [rs EXCEPT ![selected] = [@ EXCEPT ![column] = text]]

\* set_text() of an entry and its "changed" handler, update_selected_row_device() and so
\* on.  External: GTK does not emit the signal if the text stays the same.
WriteRow(rs, r, column, text) ==
    IF r \notin DOMAIN rs \/ entries[column] = text THEN rs
    ELSE [rs EXCEPT ![r] = [@ EXCEPT ![column] = text]]

\* on_selection_changed(), which calls update_device_widgets(); "rs" are the rows, "r" is
\* the row that is selected now.
SelectionChanged(rs, r) ==
    LET shown == IF r = NoRow THEN Blank ELSE rs[r]
    IN  /\ selected' = r
        /\ removable' = (r # NoRow)
        /\ entries' = shown
        /\ rows' = WriteRow(WriteRow(WriteRow(rs, r, "device", shown.device),
                                     r, "type", shown.type),
                            r, "params", shown.params)

\* The user selects another row, or none.
Select ==
    /\ isOpen
    /\ \E r \in DOMAIN rows \cup {NoRow} : r # selected /\ SelectionChanged(rows, r)
    /\ UNCHANGED <<scalars, options, isOpen, fields, edited>>

\* The user types: on_device_options_device_entry_changed() and the other two.
TypeInto(column, text) ==
    /\ isOpen /\ entries[column] # text
    /\ entries' = [entries EXCEPT ![column] = text]
    /\ rows' = WriteRow(rows, selected, column, text)
    /\ edited' = TRUE
    /\ UNCHANGED <<scalars, options, isOpen, fields, selected, removable>>

TypeDevice == \E text \in Device \cup {Empty} : TypeInto("device", text)
TypeType == \E text \in Type \cup {Empty} : TypeInto("type", text)
TypeParams == \E text \in Params \cup {Empty} : TypeInto("params", text)

\* on_device_options_add_device_button_clicked(): an empty row if one is selected, a row
\* with what the entries hold if none is.  The new row is selected.
AddRow ==
    /\ isOpen
    /\ \E r \in RowId \ DOMAIN rows :
          SelectionChanged(With(rows, r, IF selected # NoRow THEN Blank ELSE entries), r)
    /\ edited' = TRUE
    /\ UNCHANGED <<scalars, options, isOpen, fields>>

\* on_device_options_remove_device_button_clicked().  External: GTK selects the row after
\* the one that had the cursor, or none.
RemoveRow ==
    /\ isOpen /\ removable
    /\ LET rest == Restrict(rows, DOMAIN rows \ {selected})
       IN  \E r \in DOMAIN rest \cup {NoRow} : SelectionChanged(rest, r)
    /\ edited' = TRUE
    /\ UNCHANGED <<scalars, options, isOpen, fields>>

\* The other entries and the check boxes have no handlers.
EditField ==
    /\ isOpen
    /\ \E s \in Setting, v \in Value : fields' = [fields EXCEPT ![s] = v]
    /\ edited' = TRUE
    /\ UNCHANGED <<scalars, options, isOpen, rows, selected, entries, removable>>

-----------------------------------------------------------------------------
(* Opening and closing.                                                    *)

\* set_device_map(): "at" are the rows GTK makes of it.
RowsOf(map, at) ==
    LET key(r) == CHOOSE k \in DOMAIN map : at[k] = r
    IN  [r \in Range(at) |-> RowOf(key(r), map[key(r)])]

\* The constructor: import_config().  The window is modal, so there is one.
Open ==
    /\ ~isOpen
    /\ isOpen' = TRUE
    /\ fields' = [s \in Setting |-> Read(scalars, s)]
    /\ LET map == FromJson(options)
       IN  \E at \in Injection(DOMAIN map, RowId) : rows' = RowsOf(map, at)
    /\ selected' = NoRow /\ entries' = Blank /\ removable' = FALSE
    /\ edited' = FALSE
    /\ UNCHANGED <<scalars, options>>

Close ==
    /\ isOpen' = FALSE /\ selected' = NoRow /\ removable' = FALSE /\ edited' = FALSE
    /\ fields' = Restrict(Default, Setting) /\ rows' = <<>> /\ entries' = Blank

Cancel ==
    /\ isOpen
    /\ Close
    /\ UNCHANGED <<scalars, options>>

\* get_device_map(): rows without a device are skipped; of rows with the same device and
\* type the last in the list counts.  External: how GTK orders them.
DeviceMaps(rs) ==
    LET listed == {i \in DOMAIN rs : rs[i].device # Empty}
    IN  {[k \in {KeyOf(rs[i]) : i \in listed} |-> rs[wins[k]].params] :
            wins \in {f \in [{KeyOf(rs[i]) : i \in listed} -> listed] :
                         \A k \in DOMAIN f : KeyOf(rs[f[k]]) = k}}

\* "Check if device map contains drives with empty device names or parameters."
ContainsEmpty(map) == \E k \in DOMAIN map : k[1] = Empty \/ map[k] = Empty

\* Mutation: defaults are not written, and what was there stays.
SetNonDefault(set, values) ==
    [s \in DOMAIN set \cup {s \in DOMAIN values : values[s] # Default[s]} |->
        IF s \in DOMAIN values /\ values[s] # Default[s] THEN values[s] ELSE set[s]]

\* prefs_config_set() for each field: "don't set the defaults".
PrefsSet(set, values) ==
    [s \in (DOMAIN set \ DOMAIN values) \cup {s \in DOMAIN values : values[s] # Default[s]} |->
        IF s \in DOMAIN values THEN values[s] ELSE set[s]]

\* on_window_ok_button_clicked(), with or without the question, and export_config().  An
\* option map equal to the default, the empty one, is unset.
ClickOk ==
    /\ isOpen
    /\ \E map \in DeviceMaps(rows) :
          \/ /\ scalars' = PrefsSet(scalars, fields)
             /\ options' = ToJson(map)
             /\ Close
          \/ \* "Do you want to continue?"
             /\ ContainsEmpty(map)
             /\ UNCHANGED vars

\* on_window_reset_all_button_clicked(): clear_config().
ResetAll ==
    /\ isOpen
    /\ scalars' = <<>> /\ options' = <<>>
    /\ Close

\* set_data() by other windows.
OtherChange ==
    /\ ~isOpen
    /\ \E s \in OtherSetting, v \in Value : scalars' = With(scalars, s, v)
    /\ UNCHANGED <<options, dialogVars>>

Init ==
    /\ scalars \in PartialFunctions(Setting \cup OtherSetting, Value)
    /\ options \in Listed
    /\ isOpen = FALSE /\ fields = Restrict(Default, Setting) /\ rows = <<>>
    /\ selected = NoRow /\ entries = Blank /\ removable = FALSE /\ edited = FALSE

Next ==
    \/ Open \/ Cancel \/ ClickOk \/ ResetAll
    \/ Select \/ TypeDevice \/ TypeType \/ TypeParams \/ AddRow \/ RemoveRow \/ EditField
    \/ OtherChange

Spec == Init /\ [][Next]_vars

-----------------------------------------------------------------------------
(* Properties.                                                             *)

\* The variables have their types.
TypeOK ==
    /\ scalars \in PartialFunctions(Setting \cup OtherSetting, Value)
    /\ options \in Seq(Row \cup {Malformed})
    /\ isOpen \in BOOLEAN /\ removable \in BOOLEAN /\ edited \in BOOLEAN
    /\ fields \in [Setting -> Value]
    /\ rows \in PartialFunctions(RowId, Row)
    /\ selected \in RowId \cup {NoRow}
    /\ entries \in Row

\* The entries show what the list holds in the selected row, which exists, and the Remove
\* button has a row to remove (on_selection_changed() and the entries' own handlers).
ShowsSelected ==
    /\ removable <=> selected # NoRow
    /\ selected # NoRow => selected \in DOMAIN rows /\ entries = rows[selected]

\* Only typing changes a row, and only the one that is selected; showing another row in
\* the entries, whose handlers write to the list, changes none.  Only the selected row
\* can be removed.
ChangesOwnRow ==
    [][isOpen /\ isOpen' =>
          /\ \A r \in DOMAIN rows \cap DOMAIN rows' :
                rows'[r] # rows[r] => r = selected /\ selected' = selected
          /\ DOMAIN rows \ DOMAIN rows' \subseteq {selected}]_vars

Passed(params) == IF params \in Unbalanced THEN Empty ELSE params

\* After OK, smartctl is called with the options that the list showed for the device and
\* type, and without any if there was no such row; each setting of the dialog reads as it
\* was shown, and the others are as they were (on_window_ok_button_clicked(),
\* to_json(), app_get_device_options()).
SavesWhatIsShown ==
    [][ClickOk /\ ~isOpen' =>
          /\ \A k \in OptionKey :
                LET shown == {rows[r].params : r \in {r \in DOMAIN rows : KeyOf(rows[r]) = k}}
                IN  OptionsFor(options', k[1], k[2]) \in
                        IF k[1] = Empty \/ shown = {} THEN {Empty} ELSE {Passed(p) : p \in shown}
          /\ \A s \in Setting : Read(scalars', s) = fields[s]
          /\ Restrict(scalars', OtherSetting \cap DOMAIN scalars')
                = Restrict(scalars, OtherSetting \cap DOMAIN scalars)]_vars

InEffect ==
    <<[s \in Setting \cup OtherSetting |-> Read(scalars, s)],
      [k \in OptionKey |-> OptionsFor(options, k[1], k[2])]>>

\* Opening the window, looking at rows and clicking OK changes nothing the program would
\* notice, whatever the user has written into the file.
LookingChangesNothing == [][ClickOk /\ ~edited => UNCHANGED InEffect]_vars

\* src/gui/ui/gsc_preferences_window.glade:598, of the type: "Leave empty for all types."
EmptyTypeMatchesAll ==
    \A d \in Device, t \in Type :
        OptionsFor(options, d, Empty) # Empty => OptionsFor(options, d, t) # Empty

\* src/gui/gsc_preferences_window.cpp:468: the handler of OK says it checks "if device map
\* contains drives with empty device names or parameters" before it discards them.
DiscardsAfterAsking ==
    [][ClickOk /\ ~isOpen' /\ (\E r \in DOMAIN rows : rows[r].device = Empty /\ rows[r] # Blank)
          => \A map \in DeviceMaps(rows) : ContainsEmpty(map)]_vars
=============================================================================
