-------------------------- MODULE ConfigStoreProofs -------------------------
(***************************************************************************)
(* Proofs about ConfigTree and ConfigStore, for any settings with any      *)
(* values, and any files the program may find.                             *)
(***************************************************************************)
EXTENDS ConfigStore, TLAPS

-----------------------------------------------------------------------------
(* Paths.                                                                  *)

\* A proper prefix is a shorter path.
LEMMA AncestorShorter ==
    ASSUME NEW p \in Seq(Name), NEW a \in Ancestors(p)
    PROVE  a \in Seq(Name) /\ Len(a) < Len(p)
<1>1. PICK i \in 0 .. Len(p) - 1 : a = SubSeq(p, 1, i)
  BY DEF Ancestors
<1>2. Len(p) \in Nat /\ i \in Nat /\ i < Len(p)
  OBVIOUS
<1>3. a \in Seq(Name) /\ Len(a) = i
  BY <1>1, <1>2
<1> QED
  BY <1>2, <1>3

\* A prefix of a prefix is a prefix.
LEMMA AncestorTransitive ==
    ASSUME NEW p \in Seq(Name), NEW b \in Ancestors(p), NEW a \in Ancestors(b)
    PROVE  a \in Ancestors(p)
<1>1. PICK j \in 0 .. Len(p) - 1 : b = SubSeq(p, 1, j)
  BY DEF Ancestors
<1>2. Len(p) \in Nat /\ j \in Nat /\ j < Len(p)
  OBVIOUS
<1>3. b \in Seq(Name) /\ Len(b) = j /\ \A n \in 1 .. j : b[n] = p[n]
  BY <1>1, <1>2
<1>4. PICK i \in 0 .. Len(b) - 1 : a = SubSeq(b, 1, i)
  BY DEF Ancestors
<1>5. i \in Nat /\ i < j
  BY <1>2, <1>3, <1>4
<1>6. SubSeq(b, 1, i) = SubSeq(p, 1, i)
  BY <1>2, <1>3, <1>5
<1>7. a = SubSeq(p, 1, i)
  BY <1>4, <1>6
<1>8. i \in 0 .. Len(p) - 1
  BY <1>2, <1>5
<1> QED
  BY <1>7, <1>8 DEF Ancestors

\* Paths are sequences of names, closed under prefixes; the root has none, all others have it.
LEMMA PathFacts ==
    /\ Path \subseteq Seq(Name) /\ Key \subseteq Path /\ <<>> \in Path /\ <<>> \notin Key
    /\ \A p \in Path : Ancestors(p) \subseteq Path
    /\ Ancestors(<<>>) = {}
    /\ \A p \in Key : <<>> \in Ancestors(p)
<1>1. Key \subseteq Seq(Name) \ {<<>>}
  BY KeyAssumption
<1>2. Key \subseteq Path /\ <<>> \in Path /\ <<>> \notin Key
  BY <1>1 DEF Path
<1>3. Path \subseteq Seq(Name)
  <2>1. \A p \in Key : Ancestors(p) \subseteq Seq(Name)
    BY <1>1, AncestorShorter
  <2>2. <<>> \in Seq(Name)
    OBVIOUS
  <2> QED
    BY <1>1, <2>1, <2>2 DEF Path
<1>4. Ancestors(<<>>) = {}
  <2>1. 0 .. Len(<<>>) - 1 = {}
    OBVIOUS
  <2> QED
    BY <2>1 DEF Ancestors
<1>5. ASSUME NEW p \in Path, NEW a \in Ancestors(p) PROVE a \in Path
  <2>1. CASE p = <<>>
    BY <2>1, <1>4
  <2>2. CASE p \in Key
    BY <2>2 DEF Path
  <2>3. CASE \E k \in Key : p \in Ancestors(k)
    <3>1. PICK k \in Key : p \in Ancestors(k)
      BY <2>3
    <3>2. a \in Ancestors(k)
      BY <3>1, <1>1, AncestorTransitive
    <3> QED
      BY <3>1, <3>2 DEF Path
  <2> QED
    BY <2>1, <2>2, <2>3 DEF Path
<1>6. ASSUME NEW p \in Key PROVE <<>> \in Ancestors(p)
  <2>1. p \in Seq(Name) /\ p # <<>>
    BY <1>1
  <2>2. Len(p) \in Nat /\ Len(p) > 0
    BY <2>1
  <2>3. SubSeq(p, 1, 0) = <<>>
    BY <2>1
  <2>4. 0 \in 0 .. Len(p) - 1
    BY <2>2
  <2> QED
    BY <2>3, <2>4, Zenon DEF Ancestors
<1> QED
  BY <1>2, <1>3, <1>4, <1>5, <1>6

-----------------------------------------------------------------------------
(* Trees.                                                                  *)

\* Two different settings are not within one another, nor on the way to one another.
LEMMA KeysApart ==
    ASSUME NEW p \in Key, NEW q \in Key, p # q
    PROVE  q \notin Ancestors(p) /\ q \notin Within(p)
BY KeyAssumption DEF Within

\* No path is on the way to itself, nor both on the way to another and within it.
LEMMA PathsAreOrdered ==
    /\ \A p \in Path : p \notin Ancestors(p) /\ p \notin Within(p)
    /\ \A p \in Path : \A a \in Ancestors(p) : a \notin Within(p)
    /\ \A p, r \in Path : \A q \in Within(p) : q \in Ancestors(r) => r \in Within(p)
<1>1. \A p \in Path : p \notin Ancestors(p)
  <2> SUFFICES ASSUME NEW p \in Path, p \in Ancestors(p) PROVE FALSE
    OBVIOUS
  <2>1. p \in Seq(Name)
    BY PathFacts
  <2>2. Len(p) < Len(p) /\ Len(p) \in Nat
    BY <2>1, AncestorShorter
  <2> QED
    BY <2>2
<1>2. \A p \in Path : \A a \in Ancestors(p) : a \notin Within(p)
  <2> SUFFICES ASSUME NEW p \in Path, NEW a \in Ancestors(p), p \in Ancestors(a) PROVE FALSE
    BY DEF Within
  <2>1. p \in Seq(Name)
    BY PathFacts
  <2>2. p \in Ancestors(p)
    BY <2>1, AncestorTransitive
  <2> QED
    BY <2>2, <1>1
<1>3. \A p, r \in Path : \A q \in Within(p) : q \in Ancestors(r) => r \in Within(p)
  <2> SUFFICES ASSUME NEW p \in Path, NEW q \in Within(p), NEW r \in Path, q \in Ancestors(r)
               PROVE  p \in Ancestors(r)
    BY DEF Within
  <2>1. r \in Seq(Name) /\ p \in Ancestors(q)
    BY PathFacts DEF Within
  <2> QED
    BY <2>1, AncestorTransitive
<1> QED
  BY <1>1, <1>2, <1>3 DEF Within

\* The empty configuration is a document.
LEMMA EmptyTreeIsTree == EmptyTree \in Tree
<1>1. EmptyTree \in [Path -> {Absent, Object, Invalid} \cup Value]
  BY DEF EmptyTree
<1>2. EmptyTree[<<>>] # Absent
  BY PathFacts DEF EmptyTree, Absent, Object
<1>3. ASSUME NEW p \in Path, NEW a \in Ancestors(p), EmptyTree[a] # Object
      PROVE  EmptyTree[p] = Absent
  BY <1>3, PathFacts DEF EmptyTree
<1>4. \A p \in Path : EmptyTree[p] \in NodeAt(p)
  BY DEF EmptyTree, NodeAt
<1> QED
  BY <1>1, <1>2, <1>3, <1>4 DEF Tree

\* Setting a value makes a document of a document, whatever was in the way.
LEMMA SetNodeIsTree ==
    ASSUME NEW t \in Tree, NEW key \in Key, NEW value \in Value
    PROVE  SetNode(t, key, value) \in Tree
<1>1. CASE Blocking(t, key) # {}
  BY <1>1 DEF SetNode
<1>2. CASE Blocking(t, key) = {}
  <2> DEFINE new == [q \in Path |-> IF q = key THEN value
                                    ELSE IF q \in Ancestors(key) THEN Object
                                    ELSE IF q \in Within(key) THEN Absent
                                    ELSE t[q]]
  <2>1. SetNode(t, key, value) = new
    BY <1>2 DEF SetNode
  <2>2. key \in Path
    BY PathFacts
  <2>3. new \in [Path -> {Absent, Object, Invalid} \cup Value]
    BY DEF Tree
  <2>4. new[<<>>] # Absent
    <3>1. <<>> \in Path /\ <<>> \in Ancestors(key) /\ <<>> # key
      BY PathFacts
    <3>2. new[<<>>] = Object
      BY <3>1
    <3> QED
      BY <3>2 DEF Absent, Object
  <2>5. ASSUME NEW p \in Path PROVE new[p] \in NodeAt(p)
    BY DEF Tree, NodeAt
  <2>6. ASSUME NEW p \in Path, NEW a \in Ancestors(p), new[a] # Object PROVE new[p] = Absent
    <3>1. a \in Path /\ a \notin Ancestors(key)
      BY <2>6, PathFacts, PathsAreOrdered, <2>2
    <3>2. p \notin Ancestors(key) /\ p # key
      <4>1. key \in Seq(Name)
        BY PathFacts
      <4> QED
        BY <4>1, <3>1, AncestorTransitive
    <3>3. CASE p \in Within(key)
      BY <3>2, <3>3
    <3>4. CASE p \notin Within(key)
      <4>1. a # key /\ a \notin Within(key)
        BY <3>4, <2>2, PathsAreOrdered DEF Within
      <4>2. new[a] = t[a] /\ new[p] = t[p]
        BY <4>1, <3>1, <3>2, <3>4
      <4> QED
        BY <4>2, <2>6 DEF Tree
    <3> QED
      BY <3>3, <3>4
  <2> QED
    BY <2>1, <2>3, <2>4, <2>5, <2>6 DEF Tree
<1> QED
  BY <1>1, <1>2

\* So does removing one, and an invalid node with it.
LEMMA UnsetNodeIsTree ==
    ASSUME NEW t \in Tree, NEW key \in Key
    PROVE  UnsetNode(t, key) \in Tree
<1> DEFINE erased == {key} \cup Within(key) \cup (Blocking(t, key) \ {<<>>})
           new == [q \in Path |-> IF q \in erased THEN Absent ELSE t[q]]
<1>1. UnsetNode(t, key) = new
  BY DEF UnsetNode
<1>2. key \in Path
  BY PathFacts
<1>3. new \in [Path -> {Absent, Object, Invalid} \cup Value]
  BY DEF Tree
<1>4. new[<<>>] # Absent
  <2>1. <<>> \in Path /\ <<>> # key /\ <<>> \notin Within(key)
    BY PathFacts DEF Within
  <2>2. new[<<>>] = t[<<>>]
    BY <2>1
  <2> QED
    BY <2>2 DEF Tree
<1>5. ASSUME NEW p \in Path PROVE new[p] \in NodeAt(p)
  BY DEF Tree, NodeAt
<1>6. ASSUME NEW p \in Path, NEW a \in Ancestors(p), new[a] # Object PROVE new[p] = Absent
  <2>1. a \in Path
    BY PathFacts
  <2>2. CASE a = key
    BY <2>2 DEF Within
  <2>3. CASE a \in Within(key)
    <3>1. p \in Within(key)
      BY <2>3, <1>2, PathsAreOrdered
    <3> QED
      BY <3>1
  <2>4. CASE a \notin Within(key) /\ a # key
    <3>1. t[a] # Object
      BY <2>1, <2>4, <1>6 DEF Blocking
    <3>2. t[p] = Absent
      BY <3>1 DEF Tree
    <3> QED
      BY <3>2
  <2> QED
    BY <2>2, <2>3, <2>4
<1> QED
  BY <1>1, <1>3, <1>4, <1>5, <1>6 DEF Tree

\* A set value is read back unless an invalid node is in the way, and then nothing changes.
LEMMA SetNodeReads ==
    ASSUME NEW t \in Tree, NEW key \in Key, NEW value \in Value
    PROVE  \/ SetNode(t, key, value) = t
           \/ Reads(SetNode(t, key, value)) = [Reads(t) EXCEPT ![key] = value]
<1>1. CASE Blocking(t, key) # {}
  BY <1>1 DEF SetNode
<1>2. CASE Blocking(t, key) = {}
  <2>1. Key \subseteq Path
    BY PathFacts
  <2>2. SetNode(t, key, value)[key] = value
    BY <1>2, <2>1 DEF SetNode
  <2>3. ASSUME NEW k \in Key, k # key PROVE SetNode(t, key, value)[k] = t[k]
    BY <1>2, <2>1, <2>3, KeysApart DEF SetNode
  <2> QED
    BY <2>2, <2>3 DEF Reads, Read
<1> QED
  BY <1>1, <1>2

\* A removed setting reads as its default, and the others as before.
LEMMA UnsetNodeReads ==
    ASSUME NEW t \in Tree, NEW key \in Key
    PROVE  /\ Reads(UnsetNode(t, key)) = [Reads(t) EXCEPT ![key] = Default[key]]
           /\ Read(UnsetNode(t, key), key) = Default[key]
<1>1. Key \subseteq Path
  BY PathFacts
<1>2. UnsetNode(t, key)[key] = Absent /\ Absent \notin Value
  BY <1>1, ValueAssumption DEF UnsetNode
<1>3. ASSUME NEW k \in Key, k # key PROVE UnsetNode(t, key)[k] = t[k]
  BY <1>1, <1>3, KeysApart DEF UnsetNode, Blocking
<1> QED
  BY <1>2, <1>3 DEF Reads, Read

-----------------------------------------------------------------------------
(* The life of the configuration.                                          *)

\* Loading a file gives a document.
LEMMA LoadIsTree ==
    ASSUME NEW t \in Tree, NEW f \in File
    PROVE  Load(t, f) \in Tree
BY DEF Load, File, FileOf, NoFile, TornFile

\* What the programs' files may become in a step, told from the parts the step is made of.
LEMMA FileKinds ==
    /\ NoFile \in File /\ TornFile \in File
    /\ \A t \in Tree : FileOf(t) \in File /\ FileOf(t).kind = "tree" /\ FileOf(t).tree = t
BY DEF File, FileOf

\* The reads of a document are values.
LEMMA ReadsAreValues ==
    ASSUME NEW t \in Tree
    PROVE  Reads(t) \in [Key -> Value]
BY ValueAssumption DEF Reads, Read

\* The configuration stays a JSON document, and every other variable in its type, whatever
\* the files are and whatever fails.
THEOREM TypeCorrect == Spec => []TypeOK
<1>1. Init => TypeOK
  BY EmptyTreeIsTree, ValueAssumption DEF Init, TypeOK
<1>2. TypeOK /\ [Next]_vars => TypeOK'
  <2> SUFFICES ASSUME TypeOK, [Next]_vars PROVE TypeOK'
    OBVIOUS
  <2>1. CASE Start
    <3>1. Load(Load(EmptyTree, globalFile), file) \in Tree
      BY EmptyTreeIsTree, LoadIsTree DEF TypeOK
    <3> QED
      BY <2>1, <3>1, FlagsAssumption DEF Start, TypeOK
  <2>2. CASE Quit
    BY <2>2, EmptyTreeIsTree, FileKinds DEF Quit, Exit, CheckWritable, Idle, TypeOK
  <2>3. CASE AutosaveTick
    BY <2>3, FileKinds DEF AutosaveTick, CheckWritable, Idle, TypeOK
  <2>4. CASE OpenFile
    BY <2>4, EmptyTreeIsTree, FileKinds DEF OpenFile, SaveReturns, Exit, TypeOK
  <2>5. CASE WriteFile
    <3>1. config' \in Tree /\ process' \in {"off", "running", "quitting"} /\ saving' = "no"
          /\ timer' \in BOOLEAN
      BY <2>5, EmptyTreeIsTree DEF WriteFile, SaveReturns, Exit, TypeOK
    <3>2. file' \in File /\ written' \in [Key -> Value] /\ lastSave' \in {"complete", "failed"}
      BY <2>5, FileKinds, ReadsAreValues DEF WriteFile, TypeOK
    <3> QED
      BY <2>5, <3>1, <3>2 DEF WriteFile, TypeOK
  <2>6. CASE Crash
    BY <2>6, EmptyTreeIsTree DEF Crash, Exit, TypeOK
  <2>7. ASSUME NEW key \in Key, NEW value \in Value, Change(key, value) PROVE TypeOK'
    BY <2>7, SetNodeIsTree, UnsetNodeIsTree DEF Change, TypeOK
  <2>8. ASSUME NEW key \in Key, NEW value \in Value, SetData(key, value) PROVE TypeOK'
    BY <2>8, SetNodeIsTree DEF SetData, TypeOK
  <2>9. CASE UNCHANGED vars
    BY <2>9 DEF vars, TypeOK
  <2> QED
    BY <2>1, <2>2, <2>3, <2>4, <2>5, <2>6, <2>7, <2>8, <2>9 DEF Next
<1> QED
  BY <1>1, <1>2, PTL DEF Spec

\* Whatever invalid nodes the user's file has put into the tree, a change of a setting is read
\* back or refused, and disturbs no other setting.
THEOREM ChangesAreExact == Spec => ChangeIsExact
<1> DEFINE Exact == \A key \in Key, value \in Value : Change(key, value) \/ SetData(key, value) =>
              /\ Reads(config') = [Reads(config) EXCEPT ![key] = value] \/ config' = config
              /\ value = Default[key] /\ Change(key, value) => Read(config', key) = value
<1>1. TypeOK /\ [Next]_vars => [Exact]_vars
  <2> SUFFICES ASSUME TypeOK, NEW key \in Key, NEW value \in Value,
                      Change(key, value) \/ SetData(key, value)
               PROVE  /\ Reads(config') = [Reads(config) EXCEPT ![key] = value] \/ config' = config
                      /\ value = Default[key] /\ Change(key, value) => Read(config', key) = value
    BY DEF Exact
  <2>1. config \in Tree
    BY DEF TypeOK
  <2>2. CASE config' = SetNode(config, key, value) /\ ~(value = Default[key] /\ Change(key, value))
    BY <2>1, <2>2, SetNodeReads
  <2>3. CASE config' = UnsetNode(config, key) /\ value = Default[key]
    BY <2>1, <2>3, UnsetNodeReads
  <2> QED
    BY <2>2, <2>3 DEF Change, SetData
<1> QED
  BY <1>1, TypeCorrect, PTL DEF Spec, ChangeIsExact

\* A save that was completed is not lost: not by a crash outside of a save, nor by a failed
\* check, nor by a file that cannot be opened.  (On Windows the check deletes the file.)
THEOREM CompleteSavesAreKept ==
    ASSUME ~Windows
    PROVE  Spec => []SavedIsKept
<1>1. Init => SavedIsKept
  BY DEF Init, SavedIsKept
<1>2. TypeOK /\ SavedIsKept /\ [Next]_vars => SavedIsKept'
  <2> SUFFICES ASSUME TypeOK, SavedIsKept, [Next]_vars PROVE SavedIsKept'
    OBVIOUS
  <2>1. CASE Start
    BY <2>1 DEF Start, SavedIsKept
  <2>2. CASE Quit
    BY <2>2 DEF Quit, Idle, CheckWritable, SavedIsKept
  <2>3. CASE AutosaveTick
    BY <2>3 DEF AutosaveTick, Idle, CheckWritable, SavedIsKept
  <2>4. CASE OpenFile
    BY <2>4 DEF OpenFile, SavedIsKept
  <2>5. CASE WriteFile
    <3>1. CASE lastSave' = "complete"
      <4>1. file' = FileOf(config) /\ written' = Reads(config)
        BY <2>5, <3>1 DEF WriteFile
      <4> QED
        BY <4>1, FileKinds DEF TypeOK, SavedIsKept
    <3> QED
      BY <3>1 DEF SavedIsKept
  <2>6. CASE Crash
    BY <2>6 DEF Crash, SavedIsKept
  <2>7. ASSUME NEW key \in Key, NEW value \in Value, Change(key, value) \/ SetData(key, value)
        PROVE  SavedIsKept'
    BY <2>7 DEF Change, SetData, SavedIsKept
  <2>8. CASE UNCHANGED vars
    BY <2>8 DEF vars, SavedIsKept
  <2> QED
    BY <2>1, <2>2, <2>3, <2>4, <2>5, <2>6, <2>7, <2>8 DEF Next
<1> QED
  BY <1>1, <1>2, TypeCorrect, PTL DEF Spec

\* No save is in progress while the program is not running.
LEMMA NoSaveWhenOff == Spec => [](process = "off" => saving = "no")
<1> DEFINE Off == process = "off" => saving = "no"
<1>1. Init => Off
  BY DEF Init
<1>2. Off /\ [Next]_vars => Off'
  BY DEF Next, vars, Start, Quit, AutosaveTick, OpenFile, WriteFile, Crash, Change, SetData,
         SaveReturns, Exit, Idle
<1> QED
  BY <1>1, <1>2, PTL DEF Spec

\* The program comes up with the settings of the last save if that was completed.
THEOREM SavedSettingsComeBack ==
    ASSUME ~Windows
    PROVE  Spec => SettingsSurvive
<1> DEFINE Off == process = "off" => saving = "no"
           Survive == process = "off" /\ process' = "running" /\ lastSave = "complete" =>
                          Reads(config') = written
<1>1. TypeOK /\ SavedIsKept /\ Off /\ [Next]_vars => [Survive]_vars
  <2> SUFFICES ASSUME SavedIsKept, Off, [Next]_vars, process = "off", process' = "running",
                      lastSave = "complete"
               PROVE  Reads(config') = written
    OBVIOUS
  <2>1. Start
    BY DEF Next, vars, Quit, AutosaveTick, OpenFile, WriteFile, Crash, Change, SetData, Idle
  <2>2. file.kind = "tree" /\ Reads(file.tree) = written
    BY DEF SavedIsKept
  <2>3. config' = file.tree
    BY <2>1, <2>2 DEF Start, Load
  <2> QED
    BY <2>2, <2>3
<1> QED
  BY <1>1, TypeCorrect, CompleteSavesAreKept, NoSaveWhenOff, PTL DEF Spec, SettingsSurvive
=============================================================================
