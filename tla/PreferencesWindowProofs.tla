----------------------- MODULE PreferencesWindowProofs ----------------------
(***************************************************************************)
(* Proofs about PreferencesWindow, for any devices, types, parameters and  *)
(* settings, and any file the user has written.                            *)
(***************************************************************************)
EXTENDS PreferencesWindow, FiniteSetTheorems, WellFoundedInduction, TLAPS

Rows == PartialFunctions(RowId, Row)

\* A partial function is a function from its domain.
LEMMA PartialFunctionFacts ==
    ASSUME NEW D, NEW R, NEW f
    PROVE  f \in PartialFunctions(D, R) <=> f \in [DOMAIN f -> R] /\ DOMAIN f \subseteq D
BY DEF PartialFunctions

\* Writing to a row what it holds already changes nothing.
LEMMA WriteOwnText ==
    ASSUME NEW rs \in Rows, NEW r \in DOMAIN rs, NEW column \in {"device", "type", "params"}
    PROVE  WriteRow(rs, r, column, rs[r][column]) = rs
<1>1. rs \in [DOMAIN rs -> Row]
  BY PartialFunctionFacts DEF Rows
<1>2. rs[r] \in Row
  BY <1>1
<1>3. [rs[r] EXCEPT ![column] = rs[r][column]] = rs[r]
  BY <1>2 DEF Row
<1>4. [rs EXCEPT ![r] = [@ EXCEPT ![column] = rs[r][column]]] = rs
  BY <1>1, <1>3
<1> QED
  BY <1>4 DEF WriteRow

\* The handlers of the entries, called while a row is shown in them, write nothing to the
\* list that was not there (update_device_widgets()).
LEMMA ShowingKeepsRows ==
    ASSUME NEW rs \in Rows, NEW r \in DOMAIN rs \cup {NoRow}, SelectionChanged(rs, r)
    PROVE  /\ rows' = rs /\ selected' = r /\ removable' = (r # NoRow)
           /\ entries' = IF r = NoRow THEN Blank ELSE rs[r]
<1>1. DOMAIN rs \subseteq RowId /\ NoRow \notin DOMAIN rs
  <2>1. DOMAIN rs \subseteq RowId
    BY PartialFunctionFacts DEF Rows
  <2>2. NoRow \notin RowId
    BY DEF NoRow, RowId
  <2> QED
    BY <2>1, <2>2
<1>2. CASE r = NoRow
  <2>1. /\ WriteRow(rs, r, "device", Blank.device) = rs
        /\ WriteRow(rs, r, "type", Blank.type) = rs
        /\ WriteRow(rs, r, "params", Blank.params) = rs
    BY <1>1, <1>2 DEF WriteRow
  <2>2. WriteRow(WriteRow(WriteRow(rs, r, "device", Blank.device), r, "type", Blank.type),
                 r, "params", Blank.params) = rs
    BY <2>1
  <2> QED
    BY <1>2, <2>2 DEF SelectionChanged
<1>3. CASE r # NoRow
  <2>1. r \in DOMAIN rs
    BY <1>3
  <2>2. /\ WriteRow(rs, r, "device", rs[r].device) = rs
        /\ WriteRow(rs, r, "type", rs[r].type) = rs
        /\ WriteRow(rs, r, "params", rs[r].params) = rs
    BY <2>1, WriteOwnText
  <2> QED
    BY <1>3, <2>2 DEF SelectionChanged
<1> QED
  BY <1>2, <1>3

\* The list without the selected row.
LEMMA RestIsRows ==
    ASSUME NEW rs \in Rows, NEW S \in SUBSET DOMAIN rs
    PROVE  Restrict(rs, S) \in Rows /\ DOMAIN Restrict(rs, S) = S
           /\ \A r \in S : Restrict(rs, S)[r] = rs[r]
BY PartialFunctionFacts DEF Rows, Restrict

\* The list with another row.
LEMMA MoreIsRows ==
    ASSUME NEW rs \in Rows, NEW r \in RowId \ DOMAIN rs, NEW row \in Row
    PROVE  /\ With(rs, r, row) \in Rows
           /\ DOMAIN With(rs, r, row) = DOMAIN rs \cup {r}
           /\ \A i \in DOMAIN rs : With(rs, r, row)[i] = rs[i]
BY PartialFunctionFacts DEF Rows, With

\* A text that may stand in a column.
Fits(column, text) == \A row \in Row : [row EXCEPT ![column] = text] \in Row

\* The list with another text in one row.
WritesOneRow(rs, r, column, text) ==
    LET new == WriteRow(rs, r, column, text)
    IN  /\ new \in Rows /\ DOMAIN new = DOMAIN rs
        /\ \A i \in DOMAIN rs : i # r => new[i] = rs[i]
        /\ r \in DOMAIN rs /\ rs[r] = entries /\ entries[column] # text
              => new[r] = [entries EXCEPT ![column] = text]

LEMMA WriteIsRows ==
    ASSUME NEW rs \in Rows, NEW r, NEW column, NEW text, Fits(column, text)
    PROVE  WritesOneRow(rs, r, column, text)
BY PartialFunctionFacts DEF Rows, WriteRow, Fits, WritesOneRow

\* The texts of the entries fit their columns.
LEMMA TextFits ==
    /\ \A text \in Device \cup {Empty} : Fits("device", text)
    /\ \A text \in Type \cup {Empty} : Fits("type", text)
    /\ \A text \in Params \cup {Empty} : Fits("params", text)
BY DEF Row, Fits

-----------------------------------------------------------------------------
(* The list as an option map, and the option map as a list.                *)

\* SetToSeq() makes a sequence of any finite set.
LEMMA SetToSeqType ==
    ASSUME NEW S, IsFiniteSet(S)
    PROVE  SetToSeq(S) \in Seq(S)
<1>1. Cardinality(S) \in Nat /\ ExistsBijection(1 .. Cardinality(S), S)
  BY FS_CardinalityType
<1>2. \E f \in [1 .. Cardinality(S) -> S] : IsInjective(f)
  BY <1>1 DEF ExistsBijection, Bijection, Injection
<1>3. SetToSeq(S) \in [1 .. Cardinality(S) -> S]
  BY <1>2 DEF SetToSeq
<1> QED
  BY <1>1, <1>3

\* A bounded set of numbers has a largest element.
LEMMA MaxExists ==
    ASSUME NEW S \in SUBSET Nat, S # {}, NEW n \in Nat, \A i \in S : i <= n
    PROVE  \E i \in S : \A j \in S : j <= i
<1> DEFINE Above == {n - i : i \in S}
<1>1. PICK s : s \in S
  OBVIOUS
<1>2. Above \in SUBSET Nat
  OBVIOUS
<1>3. n - s \in Above
  BY <1>1
<1> HIDE DEF Above
<1>4. PICK d \in Above : \A e \in Above : d <= e
  <2>1. PICK d \in Above : \A e \in Above : ~ (<<e, d>> \in OpToRel(<, Nat))
    BY <1>2, <1>3, NatLessThanWellFounded, WFMin
  <2>2. \A e \in Above : ~ (e < d)
    BY <1>2, <2>1 DEF OpToRel
  <2> QED
    BY <1>2, <2>2
<1> USE DEF Above
<1>5. PICK i \in S : d = n - i
  BY <1>4
<1>6. \A j \in S : d <= n - j
  BY <1>4
<1> QED
  BY <1>5, <1>6

\* What from_json() makes of an array of the file maps devices with types to parameters.
LEMMA FromJsonType ==
    ASSUME NEW json \in Seq(Row \cup {Malformed})
    PROVE  FromJson(json) \in PartialFunctions(OptionKey, Params \cup {Empty})
<1> DEFINE at(k) == {i \in DOMAIN json : json[i] # Malformed /\ KeyOf(json[i]) = k}
           last(k) == CHOOSE i \in at(k) : \A j \in at(k) : j <= i
<1>1. \A i \in DOMAIN json : json[i] \in Row \cup {Malformed}
  OBVIOUS
<1>2. ASSUME NEW k, at(k) # {}
      PROVE  json[last(k)].params \in Params \cup {Empty}
  <2>1. at(k) \subseteq 1 .. Len(json) /\ Len(json) \in Nat
    OBVIOUS
  <2>2. \E i \in at(k) : \A j \in at(k) : j <= i
    <3> HIDE DEF at
    <3>1. at(k) \in SUBSET Nat /\ \E n \in Nat : \A i \in at(k) : i <= n
      BY <2>1
    <3> QED
      BY <1>2, <3>1, MaxExists
  <2>3. last(k) \in at(k)
    BY <2>2
  <2> QED
    BY <1>1, <2>3 DEF Row
<1>3. FromJson(json) = [k \in {k \in OptionKey : at(k) # {}} |-> json[last(k)].params]
  BY DEF FromJson
<1> HIDE DEF at, last
<1> DEFINE D == {k \in OptionKey : at(k) # {}}
<1>4. FromJson(json) \in [D -> Params \cup {Empty}]
  BY <1>2, <1>3
<1>5. D \in SUBSET OptionKey
  OBVIOUS
<1> QED
  BY <1>4, <1>5 DEF PartialFunctions

\* The rows that are made of an option map.
LEMMA RowsOfType ==
    ASSUME NEW map \in PartialFunctions(OptionKey, Params \cup {Empty}),
           NEW at \in Injection(DOMAIN map, RowId)
    PROVE  RowsOf(map, at) \in Rows
<1> DEFINE key(r) == CHOOSE k \in DOMAIN map : at[k] = r
<1>1. map \in [DOMAIN map -> Params \cup {Empty}] /\ DOMAIN map \subseteq OptionKey
  BY PartialFunctionFacts
<1>2. at \in [DOMAIN map -> RowId]
  BY DEF Injection
<1>3. ASSUME NEW r \in Range(at)
      PROVE  RowOf(key(r), map[key(r)]) \in Row
  <2>1. key(r) \in DOMAIN map
    BY <1>2 DEF Range
  <2>2. key(r)[1] \in Device \cup {Empty} /\ key(r)[2] \in Type \cup {Empty}
    BY <1>1, <2>1 DEF OptionKey
  <2>3. map[key(r)] \in Params \cup {Empty}
    BY <1>1, <2>1
  <2> QED
    BY <2>2, <2>3 DEF RowOf, Row
<1>4. RowsOf(map, at) = [r \in Range(at) |-> RowOf(key(r), map[key(r)])]
  BY DEF RowsOf
<1> HIDE DEF key
<1>5. RowsOf(map, at) \in [Range(at) -> Row]
  BY <1>3, <1>4
<1>6. Range(at) \in SUBSET RowId
  BY <1>2 DEF Range
<1> QED
  BY <1>5, <1>6 DEF Rows, PartialFunctions

\* The option map that get_device_map() makes of the list has finitely many entries, whose
\* keys and parameters are those of rows.
LEMMA DeviceMapsType ==
    ASSUME NEW rs \in Rows, NEW map \in DeviceMaps(rs)
    PROVE  /\ IsFiniteSet(DOMAIN map)
           /\ \A k \in DOMAIN map : k \in OptionKey /\ map[k] \in Params \cup {Empty}
<1> DEFINE listed == {i \in DOMAIN rs : rs[i].device # Empty}
           keys == {KeyOf(rs[i]) : i \in listed}
           f == [i \in listed |-> KeyOf(rs[i])]
<1>1. rs \in [DOMAIN rs -> Row] /\ DOMAIN rs \subseteq RowId
  BY PartialFunctionFacts DEF Rows
<1>2. PICK wins \in [keys -> listed] : map = [k \in keys |-> rs[wins[k]].params]
  BY DEF DeviceMaps
<1>3. DOMAIN map = keys
  BY <1>2
<1>4. IsFiniteSet(listed)
  BY <1>1, MaxRowsAssumption, FS_Interval, FS_Subset DEF RowId
<1>5. f \in Surjection(listed, keys)
  BY DEF Surjection
<1>6. IsFiniteSet(keys)
  BY <1>4, <1>5, FS_Surjection DEF ExistsSurjection
<1>7. ASSUME NEW k \in keys
      PROVE  k \in OptionKey /\ map[k] \in Params \cup {Empty}
  <2>1. PICK i \in listed : k = KeyOf(rs[i])
    OBVIOUS
  <2>2. rs[i] \in Row /\ wins[k] \in DOMAIN rs
    BY <1>1, <1>2
  <2>3. rs[wins[k]] \in Row
    BY <1>1, <2>2
  <2> QED
    BY <1>2, <2>1, <2>2, <2>3 DEF Row, KeyOf, OptionKey
<1> QED
  BY <1>3, <1>6, <1>7

\* What to_json() writes is an array of entries.
LEMMA ToJsonType ==
    ASSUME NEW map, IsFiniteSet(DOMAIN map),
           \A k \in DOMAIN map : k \in OptionKey /\ map[k] \in Params \cup {Empty}
    PROVE  ToJson(map) \in Seq(Row \cup {Malformed})
<1> DEFINE kept == {k \in DOMAIN map : k[1] # Empty /\ map[k] # Empty}
           written == {RowOf(k, map[k]) : k \in kept}
           f == [k \in kept |-> RowOf(k, map[k])]
<1>1. IsFiniteSet(kept)
  BY FS_Subset
<1>2. f \in Surjection(kept, written)
  BY DEF Surjection
<1>3. IsFiniteSet(written)
  BY <1>1, <1>2, FS_Surjection DEF ExistsSurjection
<1>4. written \subseteq Row
  BY DEF RowOf, Row, OptionKey
<1>5. ToJson(map) = SetToSeq(written)
  BY DEF ToJson
<1> HIDE DEF written
<1>6. SetToSeq(written) \in Seq(written)
  BY <1>3, SetToSeqType
<1> QED
  BY <1>4, <1>5, <1>6

-----------------------------------------------------------------------------
(* The invariant, one lemma for each kind of step.                         *)

Inv == TypeOK /\ ShowsSelected

\* What ChangesOwnRow says of a step.
OwnRowStep ==
    isOpen /\ isOpen' =>
        /\ \A r \in DOMAIN rows \cap DOMAIN rows' :
              rows'[r] # rows[r] => r = selected /\ selected' = selected
        /\ DOMAIN rows \ DOMAIN rows' \subseteq {selected}

\* The settings of the configuration do not matter to the list.
ConfigOK == /\ scalars \in PartialFunctions(Setting \cup OtherSetting, Value)
            /\ options \in Seq(Row \cup {Malformed})
DialogOK == /\ isOpen \in BOOLEAN /\ removable \in BOOLEAN /\ edited \in BOOLEAN
            /\ fields \in [Setting -> Value]
            /\ rows \in Rows
            /\ selected \in RowId \cup {NoRow}
            /\ entries \in Row

LEMMA TypeParts ==
    /\ TypeOK <=> ConfigOK /\ DialogOK
    /\ TypeOK' <=> ConfigOK' /\ DialogOK'
BY DEF TypeOK, ConfigOK, DialogOK, Rows

\* Rows are not "no row".
LEMMA RowsAreNumbered ==
    ASSUME NEW rs \in Rows
    PROVE  DOMAIN rs \subseteq RowId /\ NoRow \notin DOMAIN rs
<1>1. DOMAIN rs \subseteq RowId
  BY PartialFunctionFacts DEF Rows
<1>2. NoRow \notin RowId
  BY DEF NoRow, RowId
<1> QED
  BY <1>1, <1>2

\* Whatever list a row is shown of, the entries hold the row afterwards.
LEMMA ShowingShows ==
    ASSUME NEW rs \in Rows, NEW r \in DOMAIN rs \cup {NoRow}, SelectionChanged(rs, r)
    PROVE  /\ rows' = rs /\ selected' = r /\ selected' \in RowId \cup {NoRow}
           /\ removable' \in BOOLEAN /\ entries' \in Row /\ ShowsSelected'
<1>1. /\ rows' = rs /\ selected' = r /\ removable' = (r # NoRow)
      /\ entries' = IF r = NoRow THEN Blank ELSE rs[r]
  BY ShowingKeepsRows
<1>2. Blank \in Row /\ rs \in [DOMAIN rs -> Row]
  BY PartialFunctionFacts DEF Blank, Row, Rows
<1> QED
  BY <1>1, <1>2, RowsAreNumbered DEF ShowsSelected

LEMMA SelectStep ==
    ASSUME Inv, Select
    PROVE  Inv' /\ OwnRowStep
<1>1. ConfigOK /\ DialogOK
  BY TypeParts DEF Inv
<1>2. PICK r \in DOMAIN rows \cup {NoRow} : SelectionChanged(rows, r)
  BY DEF Select
<1>3. rows' = rows /\ selected' \in RowId \cup {NoRow} /\ removable' \in BOOLEAN
      /\ entries' \in Row /\ ShowsSelected'
  BY <1>1, <1>2, ShowingShows DEF DialogOK
<1>4. UNCHANGED <<scalars, options, isOpen, fields, edited>>
  BY DEF Select
<1> QED
  BY <1>1, <1>3, <1>4, TypeParts DEF Inv, ConfigOK, DialogOK, OwnRowStep

LEMMA AddRowStep ==
    ASSUME Inv, AddRow
    PROVE  Inv' /\ OwnRowStep
<1>1. ConfigOK /\ DialogOK
  BY TypeParts DEF Inv
<1> DEFINE row == IF selected # NoRow THEN Blank ELSE entries
<1>2. PICK r \in RowId \ DOMAIN rows : SelectionChanged(With(rows, r, row), r)
  BY DEF AddRow
<1>3. row \in Row
  BY <1>1 DEF DialogOK, Blank, Row
<1> DEFINE rs == With(rows, r, row)
<1>4. rs \in Rows /\ DOMAIN rs = DOMAIN rows \cup {r} /\ \A i \in DOMAIN rows : rs[i] = rows[i]
  BY <1>1, <1>3, MoreIsRows DEF DialogOK
<1> HIDE DEF rs
<1>5. rows' = rs /\ selected' \in RowId \cup {NoRow} /\ removable' \in BOOLEAN
      /\ entries' \in Row /\ ShowsSelected'
  <2>1. SelectionChanged(rs, r)
    BY <1>2 DEF rs
  <2> QED
    BY <1>4, <2>1, ShowingShows
<1>6. edited' = TRUE /\ UNCHANGED <<scalars, options, isOpen, fields>>
  BY DEF AddRow
<1> QED
  BY <1>1, <1>4, <1>5, <1>6, TypeParts DEF Inv, ConfigOK, DialogOK, OwnRowStep

LEMMA RemoveRowStep ==
    ASSUME Inv, RemoveRow
    PROVE  Inv' /\ OwnRowStep
<1>1. ConfigOK /\ DialogOK
  BY TypeParts DEF Inv
<1> DEFINE S == DOMAIN rows \ {selected}
           rest == Restrict(rows, S)
<1>2. PICK r \in DOMAIN rest \cup {NoRow} : SelectionChanged(rest, r)
  BY DEF RemoveRow
<1>3. rest \in Rows /\ DOMAIN rest = S /\ \A i \in S : rest[i] = rows[i]
  BY <1>1, RestIsRows DEF DialogOK
<1> HIDE DEF rest
<1>4. rows' = rest /\ selected' \in RowId \cup {NoRow} /\ removable' \in BOOLEAN
      /\ entries' \in Row /\ ShowsSelected'
  BY <1>2, <1>3, ShowingShows
<1>5. edited' = TRUE /\ UNCHANGED <<scalars, options, isOpen, fields>>
  BY DEF RemoveRow
<1> QED
  BY <1>1, <1>3, <1>4, <1>5, TypeParts DEF Inv, ConfigOK, DialogOK, OwnRowStep

LEMMA TypeIntoStep ==
    ASSUME Inv, NEW column \in {"device", "type", "params"}, NEW text, Fits(column, text),
           TypeInto(column, text)
    PROVE  Inv' /\ OwnRowStep
<1>1. ConfigOK /\ DialogOK /\ ShowsSelected
  BY TypeParts DEF Inv
<1>2. /\ isOpen /\ entries[column] # text
      /\ entries' = [entries EXCEPT ![column] = text]
      /\ rows' = WriteRow(rows, selected, column, text)
      /\ edited' = TRUE
      /\ UNCHANGED <<scalars, options, isOpen, fields, selected, removable>>
  BY DEF TypeInto
<1>3. /\ rows' \in Rows /\ DOMAIN rows' = DOMAIN rows
      /\ \A i \in DOMAIN rows : i # selected => rows'[i] = rows[i]
      /\ selected \in DOMAIN rows /\ rows[selected] = entries => rows'[selected] = entries'
  <2>1. WritesOneRow(rows, selected, column, text)
    BY <1>1, WriteIsRows DEF DialogOK
  <2> QED
    BY <1>2, <2>1 DEF WritesOneRow
<1>4. ShowsSelected'
  BY <1>1, <1>2, <1>3 DEF ShowsSelected
<1>5. entries' \in Row
  BY <1>1, <1>2 DEF DialogOK, Fits
<1>6. OwnRowStep
  BY <1>2, <1>3 DEF OwnRowStep
<1> QED
  BY <1>1, <1>2, <1>3, <1>4, <1>5, <1>6, TypeParts DEF Inv, ConfigOK, DialogOK

LEMMA EditFieldStep ==
    ASSUME Inv, EditField
    PROVE  Inv' /\ OwnRowStep
<1>1. ConfigOK /\ DialogOK /\ ShowsSelected
  BY TypeParts DEF Inv
<1>2. /\ fields' \in [Setting -> Value] /\ edited' = TRUE
      /\ UNCHANGED <<scalars, options, isOpen, rows, selected, entries, removable>>
  BY <1>1 DEF EditField, DialogOK
<1> QED
  BY <1>1, <1>2, TypeParts DEF Inv, ConfigOK, DialogOK, ShowsSelected, OwnRowStep

\* Closing the window leaves a dialog that shows nothing.
LEMMA CloseStep ==
    ASSUME Close, ConfigOK'
    PROVE  Inv' /\ OwnRowStep
<1>1. Restrict(Default, Setting) \in [Setting -> Value]
  BY SettingAssumption DEF Restrict
<1>2. <<>> \in Rows
  BY DEF Rows, PartialFunctions
<1>3. Blank \in Row
  BY DEF Blank, Row
<1>4. DialogOK'
  BY <1>1, <1>2, <1>3 DEF Close, DialogOK
<1>5. ShowsSelected'
  BY DEF Close, ShowsSelected
<1> QED
  BY <1>4, <1>5, TypeParts DEF Inv, OwnRowStep, Close

\* What the settings read as, set or not.
LEMMA ReadType ==
    ASSUME NEW set \in PartialFunctions(Setting \cup OtherSetting, Value),
           NEW s \in Setting \cup OtherSetting
    PROVE  Read(set, s) \in Value
BY PartialFunctionFacts, SettingAssumption DEF Read

LEMMA OpenStep ==
    ASSUME Inv, Open
    PROVE  Inv' /\ OwnRowStep
<1>1. ConfigOK /\ DialogOK
  BY TypeParts DEF Inv
<1>2. PICK at \in Injection(DOMAIN FromJson(options), RowId) :
         rows' = RowsOf(FromJson(options), at)
  BY DEF Open
<1>3. rows' \in Rows
  BY <1>1, <1>2, FromJsonType, RowsOfType DEF ConfigOK
<1>4. fields' \in [Setting -> Value]
  BY <1>1, ReadType DEF Open, ConfigOK
<1>5. /\ ~isOpen /\ isOpen' = TRUE /\ selected' = NoRow /\ entries' = Blank
      /\ removable' = FALSE /\ edited' = FALSE /\ UNCHANGED <<scalars, options>>
  BY DEF Open
<1>6. Blank \in Row
  BY DEF Blank, Row
<1> QED
  BY <1>1, <1>3, <1>4, <1>5, <1>6, TypeParts
  DEF Inv, ConfigOK, DialogOK, ShowsSelected, OwnRowStep

LEMMA ClickOkStep ==
    ASSUME Inv, ClickOk
    PROVE  Inv' /\ OwnRowStep
<1>1. ConfigOK /\ DialogOK
  BY TypeParts DEF Inv
<1>2. PICK map \in DeviceMaps(rows) :
         \/ scalars' = PrefsSet(scalars, fields) /\ options' = ToJson(map) /\ Close
         \/ UNCHANGED vars
  BY DEF ClickOk
<1>3. CASE scalars' = PrefsSet(scalars, fields) /\ options' = ToJson(map) /\ Close
  <2>1. options' \in Seq(Row \cup {Malformed})
    BY <1>1, <1>3, DeviceMapsType, ToJsonType DEF DialogOK
  <2>2. scalars' \in PartialFunctions(Setting \cup OtherSetting, Value)
    BY <1>1, <1>3, PartialFunctionFacts DEF ConfigOK, DialogOK, PrefsSet
  <2> QED
    BY <1>3, <2>1, <2>2, CloseStep DEF ConfigOK
<1>4. CASE UNCHANGED vars
  BY <1>1, <1>4, TypeParts DEF vars, Inv, ConfigOK, DialogOK, ShowsSelected, OwnRowStep
<1> QED
  BY <1>2, <1>3, <1>4

LEMMA CancelStep ==
    ASSUME Inv, Cancel
    PROVE  Inv' /\ OwnRowStep
BY TypeParts, CloseStep DEF Inv, Cancel, ConfigOK

LEMMA ResetAllStep ==
    ASSUME Inv, ResetAll
    PROVE  Inv' /\ OwnRowStep
<1>1. <<>> \in PartialFunctions(Setting \cup OtherSetting, Value)
  <2>1. <<>> \in [{} -> Value]
    OBVIOUS
  <2> QED
    BY <2>1 DEF PartialFunctions
<1>2. ConfigOK'
  BY <1>1 DEF ResetAll, ConfigOK
<1> QED
  BY <1>2, CloseStep DEF ResetAll

LEMMA OtherChangeStep ==
    ASSUME Inv, OtherChange
    PROVE  Inv' /\ OwnRowStep
<1>1. ConfigOK /\ DialogOK /\ ShowsSelected
  BY TypeParts DEF Inv
<1>2. scalars' \in PartialFunctions(Setting \cup OtherSetting, Value)
  BY <1>1, PartialFunctionFacts DEF OtherChange, ConfigOK, With
<1>3. ~isOpen /\ UNCHANGED <<options, dialogVars>>
  BY DEF OtherChange
<1> QED
  BY <1>1, <1>2, <1>3, TypeParts
  DEF Inv, ConfigOK, DialogOK, ShowsSelected, OwnRowStep, dialogVars

LEMMA InitInv == Init => Inv
<1> SUFFICES ASSUME Init PROVE Inv
  OBVIOUS
<1>1. Restrict(Default, Setting) \in [Setting -> Value]
  BY SettingAssumption DEF Restrict
<1>2. <<>> \in Rows /\ Blank \in Row
  BY DEF Rows, PartialFunctions, Blank, Row
<1>3. options \in Seq(Row \cup {Malformed})
  BY ListedAssumption DEF Init
<1> QED
  BY <1>1, <1>2, <1>3, TypeParts DEF Init, Inv, ConfigOK, DialogOK, ShowsSelected

LEMMA NextStep == Inv /\ [Next]_vars => Inv' /\ OwnRowStep
<1> SUFFICES ASSUME Inv, [Next]_vars PROVE Inv' /\ OwnRowStep
  OBVIOUS
<1>1. CASE TypeDevice
  <2>1. PICK text \in Device \cup {Empty} : TypeInto("device", text)
    BY <1>1 DEF TypeDevice
  <2> QED
    BY <2>1, TypeIntoStep, TextFits
<1>2. CASE TypeType
  <2>1. PICK text \in Type \cup {Empty} : TypeInto("type", text)
    BY <1>2 DEF TypeType
  <2> QED
    BY <2>1, TypeIntoStep, TextFits
<1>3. CASE TypeParams
  <2>1. PICK text \in Params \cup {Empty} : TypeInto("params", text)
    BY <1>3 DEF TypeParams
  <2> QED
    BY <2>1, TypeIntoStep, TextFits
<1>4. CASE UNCHANGED vars
  BY <1>4, TypeParts DEF vars, Inv, ConfigOK, DialogOK, ShowsSelected, OwnRowStep
<1> QED
  BY <1>1, <1>2, <1>3, <1>4, OpenStep, CancelStep, ClickOkStep, ResetAllStep, SelectStep,
     AddRowStep, RemoveRowStep, EditFieldStep, OtherChangeStep DEF Next

-----------------------------------------------------------------------------
(* Theorems.                                                               *)

\* The variables have their types: what OK writes can be read, and what is read can be shown.
THEOREM PreferencesTypeOK == Spec => []TypeOK
<1>1. Inv => TypeOK
  BY DEF Inv
<1> QED
  BY <1>1, InitInv, NextStep, PTL DEF Spec

\* The entries always show the selected row as the list holds it.
THEOREM EntriesShowSelected == Spec => []ShowsSelected
<1>1. Inv => ShowsSelected
  BY DEF Inv
<1> QED
  BY <1>1, InitInv, NextStep, PTL DEF Spec

\* Rows are changed by typing only, and only the selected one.
THEOREM TypingChangesOwnRow == Spec => ChangesOwnRow
<1>1. Inv /\ [Next]_vars => [OwnRowStep]_vars
  BY NextStep
<1> QED
  BY <1>1, InitInv, NextStep, PTL DEF Spec, ChangesOwnRow, OwnRowStep

-----------------------------------------------------------------------------
(* What is written is what is read.                                        *)

\* SetToSeq() lists each element of a finite set, and nothing else.
LEMMA SetToSeqBijection ==
    ASSUME NEW S, IsFiniteSet(S)
    PROVE  /\ SetToSeq(S) \in [1 .. Cardinality(S) -> S] /\ IsInjective(SetToSeq(S))
           /\ \A x \in S : \E i \in 1 .. Cardinality(S) : SetToSeq(S)[i] = x
<1> DEFINE n == Cardinality(S)
<1>1. n \in Nat /\ ExistsBijection(1 .. n, S)
  BY FS_CardinalityType
<1>2. \E f \in [1 .. n -> S] : IsInjective(f)
  BY <1>1 DEF ExistsBijection, Bijection, Injection
<1>3. SetToSeq(S) \in [1 .. n -> S] /\ IsInjective(SetToSeq(S))
  BY <1>2 DEF SetToSeq
<1>4. SetToSeq(S) \in Injection(1 .. n, S)
  BY <1>3 DEF Injection
<1>5. Cardinality(1 .. n) = n
  BY <1>1, FS_Interval
<1>6. SetToSeq(S) \in Surjection(1 .. n, S)
  BY <1>4, <1>5, FS_Injection
<1> QED
  BY <1>3, <1>6 DEF Surjection

\* What to_json() writes of an option map.
Kept(map) == {k \in DOMAIN map : k[1] # Empty /\ map[k] # Empty}

IsOptionMap(map) ==
    /\ IsFiniteSet(DOMAIN map)
    /\ \A k \in DOMAIN map : k \in OptionKey /\ map[k] \in Params \cup {Empty}

\* from_json() reads what to_json() has written.
LEMMA RoundTrip ==
    ASSUME NEW map, IsOptionMap(map)
    PROVE  FromJson(ToJson(map)) = [k \in Kept(map) |-> map[k]]
<1> DEFINE written == {RowOf(k, map[k]) : k \in Kept(map)}
           f == [k \in Kept(map) |-> RowOf(k, map[k])]
           json == SetToSeq(written)
           n == Cardinality(written)
           at(k) == {i \in DOMAIN json : json[i] # Malformed /\ KeyOf(json[i]) = k}
           last(k) == CHOOSE i \in at(k) : \A j \in at(k) : j <= i
<1>1. IsFiniteSet(written)
  <2>1. IsFiniteSet(Kept(map))
    BY FS_Subset DEF IsOptionMap, Kept
  <2>2. f \in Surjection(Kept(map), written)
    BY DEF Surjection
  <2> QED
    BY <2>1, <2>2, FS_Surjection
<1>2. ToJson(map) = json
  BY DEF ToJson, Kept
<1>3. \A k \in Kept(map) : KeyOf(RowOf(k, map[k])) = k /\ RowOf(k, map[k]) \in Row
  BY DEF Kept, IsOptionMap, OptionKey, RowOf, KeyOf, Row
<1> HIDE DEF written
<1>4. /\ json \in [1 .. n -> written] /\ IsInjective(json)
      /\ \A x \in written : \E i \in 1 .. n : json[i] = x
  BY <1>1, SetToSeqBijection
<1>5. n \in Nat
  BY <1>1, FS_CardinalityType
<1> HIDE DEF json, n
\* Each key is in the array once.
<1>6. ASSUME NEW k \in Kept(map)
      PROVE  \E i \in 1 .. n : at(k) = {i} /\ json[i] = RowOf(k, map[k])
  <2>1. RowOf(k, map[k]) \in written
    BY DEF written
  <2>2. PICK i \in 1 .. n : json[i] = RowOf(k, map[k])
    BY <1>4, <2>1
  <2>3. i \in at(k)
    BY <1>3, <1>4, <2>2, ListedAssumption
  <2>4. ASSUME NEW j \in at(k)
        PROVE  j = i
    <3>1. j \in 1 .. n /\ json[j] \in written /\ KeyOf(json[j]) = k
      BY <1>4
    <3>2. PICK k2 \in Kept(map) : json[j] = RowOf(k2, map[k2])
      BY <3>1 DEF written
    <3>3. k2 = k
      BY <1>3, <3>1, <3>2
    <3> QED
      BY <1>4, <2>2, <3>1, <3>2, <3>3 DEF IsInjective
  <2> QED
    BY <2>2, <2>3, <2>4
<1>7. \A k \in OptionKey : at(k) # {} => k \in Kept(map)
  <2> SUFFICES ASSUME NEW k \in OptionKey, NEW j \in at(k) PROVE k \in Kept(map)
    OBVIOUS
  <2>1. json[j] \in written /\ KeyOf(json[j]) = k
    BY <1>4
  <2> QED
    BY <1>3, <2>1 DEF written
<1>8. Kept(map) \subseteq OptionKey
  BY DEF Kept, IsOptionMap
<1>9. {k \in OptionKey : at(k) # {}} = Kept(map)
  BY <1>6, <1>7, <1>8
<1>10. \A k \in Kept(map) : json[last(k)].params = map[k]
  <2> SUFFICES ASSUME NEW k \in Kept(map) PROVE json[last(k)].params = map[k]
    OBVIOUS
  <2>1. PICK i \in 1 .. n : at(k) = {i} /\ json[i] = RowOf(k, map[k])
    BY <1>6
  <2>2. last(k) = i
    <3> HIDE DEF at
    <3> QED
      BY <1>5, <2>1
  <2> QED
    BY <2>1, <2>2 DEF RowOf
<1>11. FromJson(json) = [k \in {k \in OptionKey : at(k) # {}} |-> json[last(k)].params]
  BY DEF FromJson
<1> HIDE DEF at, last
<1> QED
  BY <1>2, <1>9, <1>10, <1>11

\* What the program passes on after to_json() has written an option map.
LEMMA OptionsWritten ==
    ASSUME NEW map, IsOptionMap(map), NEW k \in OptionKey
    PROVE  OptionsFor(ToJson(map), k[1], k[2])
              = IF k \in Kept(map) THEN Passed(map[k]) ELSE Empty
<1>1. FromJson(ToJson(map)) = [i \in Kept(map) |-> map[i]]
  BY RoundTrip
<1>2. k = <<k[1], k[2]>>
  BY DEF OptionKey
<1> QED
  BY <1>1, <1>2 DEF OptionsFor, Passed, Kept

\* The parameters the list shows for a device and a type.
Shown(rs, k) == {rs[r].params : r \in {r \in DOMAIN rs : KeyOf(rs[r]) = k}}

\* get_device_map() takes the parameters of a device and type from a row that shows them.
LEMMA DeviceMapsShown ==
    ASSUME NEW rs \in Rows, NEW map \in DeviceMaps(rs), NEW k \in OptionKey
    PROVE  IF k[1] = Empty \/ Shown(rs, k) = {} THEN k \notin DOMAIN map
           ELSE k \in DOMAIN map /\ map[k] \in Shown(rs, k)
<1> DEFINE listed == {i \in DOMAIN rs : rs[i].device # Empty}
           keys == {KeyOf(rs[i]) : i \in listed}
<1>1. PICK wins \in [keys -> listed] :
         /\ map = [i \in keys |-> rs[wins[i]].params]
         /\ \A i \in keys : KeyOf(rs[wins[i]]) = i
  BY DEF DeviceMaps
<1>2. \A i \in DOMAIN rs : KeyOf(rs[i])[1] = rs[i].device
  BY DEF KeyOf
<1>3. k \in keys <=> k[1] # Empty /\ Shown(rs, k) # {}
  BY <1>2 DEF Shown
<1>4. k \in keys => map[k] \in Shown(rs, k)
  BY <1>1 DEF Shown
<1> QED
  BY <1>1, <1>3, <1>4

LEMMA ShownIsWritten ==
    ASSUME NEW rs \in Rows, NEW map \in DeviceMaps(rs), NEW k \in OptionKey
    PROVE  OptionsFor(ToJson(map), k[1], k[2]) \in
              IF k[1] = Empty \/ Shown(rs, k) = {} THEN {Empty}
              ELSE {Passed(p) : p \in Shown(rs, k)}
<1>1. IsOptionMap(map)
  BY DeviceMapsType DEF IsOptionMap
<1>2. OptionsFor(ToJson(map), k[1], k[2]) = IF k \in Kept(map) THEN Passed(map[k]) ELSE Empty
  BY <1>1, OptionsWritten
<1>3. CASE k[1] = Empty \/ Shown(rs, k) = {}
  BY <1>2, <1>3, DeviceMapsShown DEF Kept
<1>4. CASE ~(k[1] = Empty \/ Shown(rs, k) = {})
  <2>1. k \in DOMAIN map /\ map[k] \in Shown(rs, k)
    BY <1>4, DeviceMapsShown
  <2>2. k \notin Kept(map) => map[k] = Empty
    BY <1>4, <2>1 DEF Kept
  <2>3. Passed(Empty) = Empty
    BY DEF Passed
  <2> QED
    BY <1>2, <1>4, <2>1, <2>2, <2>3
<1> QED
  BY <1>3, <1>4

\* What prefs_config_set() does to the settings of the dialog, and to the others.
LEMMA PrefsSetReads ==
    ASSUME NEW set, NEW values \in [Setting -> Value]
    PROVE  /\ \A s \in Setting : Read(PrefsSet(set, values), s) = values[s]
           /\ \A s \in OtherSetting : Read(PrefsSet(set, values), s) = Read(set, s)
           /\ Restrict(PrefsSet(set, values), OtherSetting \cap DOMAIN PrefsSet(set, values))
                 = Restrict(set, OtherSetting \cap DOMAIN set)
<1> DEFINE new == PrefsSet(set, values)
<1>1. DOMAIN new = (DOMAIN set \ Setting) \cup {s \in Setting : values[s] # Default[s]}
  BY DEF PrefsSet
<1>2. \A s \in DOMAIN new : new[s] = IF s \in Setting THEN values[s] ELSE set[s]
  BY DEF PrefsSet
<1>3. OtherSetting \cap DOMAIN new = OtherSetting \cap DOMAIN set
  BY <1>1, SettingAssumption
<1> HIDE DEF new
<1>4. \A s \in OtherSetting \cap DOMAIN set : new[s] = set[s]
  BY <1>2, <1>3, SettingAssumption
<1>5. \A s \in Setting : Read(new, s) = values[s]
  BY <1>1, <1>2 DEF Read
<1>6. \A s \in OtherSetting : Read(new, s) = Read(set, s)
  BY <1>3, <1>4 DEF Read
<1>7. Restrict(new, OtherSetting \cap DOMAIN new) = Restrict(set, OtherSetting \cap DOMAIN set)
  BY <1>3, <1>4 DEF Restrict
<1> QED
  BY <1>5, <1>6, <1>7 DEF new

\* What SavesWhatIsShown says of a step.
SavesShownStep ==
    ClickOk /\ ~isOpen' =>
        /\ \A k \in OptionKey :
              LET shown == {rows[r].params : r \in {r \in DOMAIN rows : KeyOf(rows[r]) = k}}
              IN  OptionsFor(options', k[1], k[2]) \in
                      IF k[1] = Empty \/ shown = {} THEN {Empty} ELSE {Passed(p) : p \in shown}
        /\ \A s \in Setting : Read(scalars', s) = fields[s]
        /\ Restrict(scalars', OtherSetting \cap DOMAIN scalars')
              = Restrict(scalars, OtherSetting \cap DOMAIN scalars)

\* What OK does if the user wants it.
LEMMA OkSaves ==
    ASSUME Inv, ClickOk, ~isOpen'
    PROVE  \E map \in DeviceMaps(rows) :
              options' = ToJson(map) /\ scalars' = PrefsSet(scalars, fields)
BY DEF ClickOk, vars

LEMMA SavesStep == Inv => SavesShownStep
<1> SUFFICES ASSUME Inv, ClickOk, ~isOpen'
             PROVE  SavesShownStep
  BY DEF SavesShownStep
<1>1. PICK map \in DeviceMaps(rows) :
         options' = ToJson(map) /\ scalars' = PrefsSet(scalars, fields)
  BY OkSaves
<1>2. rows \in Rows /\ fields \in [Setting -> Value]
  BY TypeParts DEF Inv, DialogOK
<1>3. \A k \in OptionKey :
         OptionsFor(options', k[1], k[2]) \in
            IF k[1] = Empty \/ Shown(rows, k) = {} THEN {Empty}
            ELSE {Passed(p) : p \in Shown(rows, k)}
  BY <1>1, <1>2, ShownIsWritten
<1>4. /\ \A s \in Setting : Read(scalars', s) = fields[s]
      /\ Restrict(scalars', OtherSetting \cap DOMAIN scalars')
            = Restrict(scalars, OtherSetting \cap DOMAIN scalars)
  BY <1>1, <1>2, PrefsSetReads
<1> QED
  BY <1>3, <1>4 DEF SavesShownStep, Shown

\* After OK, smartctl gets what the list showed, and the settings are what the fields showed.
THEOREM OkSavesWhatIsShown == Spec => SavesWhatIsShown
<1>1. Inv /\ [Next]_vars => [SavesShownStep]_vars
  BY SavesStep
<1> QED
  BY <1>1, InitInv, NextStep, PTL DEF Spec, SavesWhatIsShown, SavesShownStep

-----------------------------------------------------------------------------
(* Looking changes nothing: until the user edits something, the dialog     *)
(* shows what the configuration says.                                      *)

ShowsOptions(rs, json) ==
    \A k \in OptionKey :
        Shown(rs, k) = IF k \in DOMAIN FromJson(json) THEN {FromJson(json)[k]} ELSE {}

ShowsConfig ==
    isOpen /\ ~edited => /\ fields = [s \in Setting |-> Read(scalars, s)]
                         /\ ShowsOptions(rows, options)

\* set_device_map() makes one row of each entry.
LEMMA RowsOfShown ==
    ASSUME NEW map \in PartialFunctions(OptionKey, Params \cup {Empty}),
           NEW at \in Injection(DOMAIN map, RowId), NEW k \in OptionKey
    PROVE  Shown(RowsOf(map, at), k) = IF k \in DOMAIN map THEN {map[k]} ELSE {}
<1> DEFINE key(r) == CHOOSE i \in DOMAIN map : at[i] = r
           rs == RowsOf(map, at)
<1>1. map \in [DOMAIN map -> Params \cup {Empty}] /\ DOMAIN map \subseteq OptionKey
  BY PartialFunctionFacts
<1>2. at \in [DOMAIN map -> RowId] /\ \A i, j \in DOMAIN map : at[i] = at[j] => i = j
  BY DEF Injection, IsInjective
<1>3. \A i \in DOMAIN map : at[i] \in Range(at) /\ key(at[i]) = i
  BY <1>2 DEF Range
<1>4. \A r \in Range(at) : key(r) \in DOMAIN map /\ at[key(r)] = r
  BY <1>2 DEF Range
<1>5. rs = [r \in Range(at) |-> RowOf(key(r), map[key(r)])]
  BY DEF RowsOf
<1> HIDE DEF key, rs
<1>6. \A r \in Range(at) : KeyOf(rs[r]) = key(r) /\ rs[r].params = map[key(r)]
  <2> SUFFICES ASSUME NEW r \in Range(at)
               PROVE  KeyOf(rs[r]) = key(r) /\ rs[r].params = map[key(r)]
    OBVIOUS
  <2>1. key(r) \in OptionKey
    BY <1>1, <1>4
  <2>2. rs[r] = RowOf(key(r), map[key(r)])
    BY <1>5
  <2> QED
    BY <2>1, <2>2 DEF KeyOf, RowOf, OptionKey
<1>7. DOMAIN rs = Range(at)
  BY <1>5
<1>8. CASE k \in DOMAIN map
  <2>1. {r \in DOMAIN rs : KeyOf(rs[r]) = k} = {at[k]}
    BY <1>3, <1>4, <1>6, <1>7, <1>8
  <2>2. rs[at[k]].params = map[k]
    BY <1>3, <1>6, <1>8
  <2>3. Shown(rs, k) = {map[k]}
    BY <2>1, <2>2 DEF Shown
  <2> QED
    BY <1>8, <2>3 DEF rs
<1>9. CASE k \notin DOMAIN map
  <2>1. {r \in DOMAIN rs : KeyOf(rs[r]) = k} = {}
    BY <1>4, <1>6, <1>7, <1>9
  <2>2. Shown(rs, k) = {}
    BY <2>1 DEF Shown
  <2> QED
    BY <1>9, <2>2 DEF rs
<1> QED
  BY <1>8, <1>9

LEMMA ShowsConfigStep == Inv /\ ShowsConfig /\ [Next]_vars => ShowsConfig'
<1> SUFFICES ASSUME Inv, ShowsConfig, [Next]_vars, isOpen', ~edited'
             PROVE  /\ fields' = [s \in Setting |-> Read(scalars', s)]
                    /\ ShowsOptions(rows', options')
  BY DEF ShowsConfig
<1>1. ConfigOK /\ DialogOK
  BY TypeParts DEF Inv
<1>2. CASE Open
  <2>1. PICK at \in Injection(DOMAIN FromJson(options), RowId) :
           rows' = RowsOf(FromJson(options), at)
    BY <1>2 DEF Open
  <2>2. FromJson(options) \in PartialFunctions(OptionKey, Params \cup {Empty})
    BY <1>1, FromJsonType DEF ConfigOK
  <2>3. ShowsOptions(rows', options)
    BY <2>1, <2>2, RowsOfShown DEF ShowsOptions
  <2> QED
    BY <1>2, <2>3 DEF Open
<1>3. CASE Select
  <2>1. PICK r \in DOMAIN rows \cup {NoRow} : SelectionChanged(rows, r)
    BY <1>3 DEF Select
  <2>2. rows' = rows
    BY <1>1, <2>1, ShowingKeepsRows DEF DialogOK
  <2> QED
    BY <1>3, <2>2 DEF Select, ShowsConfig
<1>4. CASE UNCHANGED vars
  BY <1>4 DEF vars, ShowsConfig
<1>5. CASE ClickOk
  <2>1. UNCHANGED vars
    BY <1>5 DEF ClickOk, Close
  <2> QED
    BY <1>4, <2>1
<1>6. ~Cancel /\ ~ResetAll
  BY DEF Cancel, ResetAll, Close
<1>7. ~AddRow /\ ~RemoveRow /\ ~EditField /\ ~TypeDevice /\ ~TypeType /\ ~TypeParams
  BY DEF AddRow, RemoveRow, EditField, TypeDevice, TypeType, TypeParams, TypeInto
<1>8. ~OtherChange
  BY DEF OtherChange, dialogVars
<1> QED
  BY <1>2, <1>3, <1>4, <1>5, <1>6, <1>7, <1>8 DEF Next

\* What LookingChangesNothing says of a step.
LookingStep == ClickOk /\ ~edited => UNCHANGED InEffect

LEMMA LookingKeeps == Inv /\ ShowsConfig => LookingStep
<1> SUFFICES ASSUME Inv, ShowsConfig, ClickOk, ~edited
             PROVE  InEffect' = InEffect
  BY DEF LookingStep
<1>1. rows \in Rows /\ fields \in [Setting -> Value] /\ isOpen
  BY TypeParts DEF Inv, DialogOK, ClickOk
<1>2. CASE UNCHANGED vars
  BY <1>2 DEF vars, InEffect
<1>3. ASSUME NEW map \in DeviceMaps(rows), scalars' = PrefsSet(scalars, fields),
             options' = ToJson(map)
      PROVE  InEffect' = InEffect
  <2>1. \A s \in Setting \cup OtherSetting : Read(scalars', s) = Read(scalars, s)
    <3>1. \A s \in Setting : Read(scalars', s) = fields[s]
      BY <1>1, <1>3, PrefsSetReads
    <3>2. \A s \in OtherSetting : Read(scalars', s) = Read(scalars, s)
      BY <1>1, <1>3, PrefsSetReads
    <3>3. \A s \in Setting : fields[s] = Read(scalars, s)
      BY <1>1 DEF ShowsConfig
    <3> QED
      BY <3>1, <3>2, <3>3
  <2>2. ASSUME NEW k \in OptionKey
        PROVE  OptionsFor(options', k[1], k[2]) = OptionsFor(options, k[1], k[2])
    <3> DEFINE old == FromJson(options)
    <3>1. Shown(rows, k) = IF k \in DOMAIN old THEN {old[k]} ELSE {}
      BY <1>1 DEF ShowsConfig, ShowsOptions
    <3>2. OptionsFor(options', k[1], k[2]) \in
             IF k[1] = Empty \/ Shown(rows, k) = {} THEN {Empty}
             ELSE {Passed(p) : p \in Shown(rows, k)}
      BY <1>1, <1>3, ShownIsWritten
    <3>3. k = <<k[1], k[2]>>
      BY DEF OptionKey
    <3>4. OptionsFor(options, k[1], k[2])
             = IF k[1] # Empty /\ k \in DOMAIN old THEN Passed(old[k]) ELSE Empty
      BY <3>3 DEF OptionsFor, Passed
    <3> HIDE DEF old
    <3> QED
      BY <3>1, <3>2, <3>4
  <2> QED
    BY <2>1, <2>2 DEF InEffect
<1> QED
  BY <1>2, <1>3 DEF ClickOk

\* Opening the window, looking around and clicking OK changes nothing that has an effect,
\* whatever the file said.
THEOREM LookingIsHarmless == Spec => LookingChangesNothing
<1>1. Init => ShowsConfig
  BY DEF Init, ShowsConfig
<1>2. Inv /\ ShowsConfig /\ [Next]_vars => [LookingStep]_vars
  BY LookingKeeps
<1> QED
  BY <1>1, <1>2, InitInv, NextStep, ShowsConfigStep, PTL
  DEF Spec, LookingChangesNothing, LookingStep
=============================================================================
