-------------------------- MODULE MainWindowProofs --------------------------
(***************************************************************************)
(* Proofs about MainWindow, for any devices and any depth.  Whatever       *)
(* clicks nest into running commands, scans do not overlap and what was    *)
(* entered with a type and is removed is forgotten; while the user waits   *)
(* for commands, the icons show the drives of the list, once.              *)
(***************************************************************************)
EXTENDS MainWindow, FiniteSetTheorems, SequenceTheorems, TLAPS

\* The handlers that may still begin a scan: they are past the look at scanning_.
BeginOp == {"startCheck", "check", "askRescan"}

\* Handlers in progress are a sequence of records that say what they do.
IsStack(s) == s \in Seq({s[i] : i \in DOMAIN s}) /\ \A i \in DOMAIN s : "op" \in DOMAIN s[i]

\* A handler scans just if the flag is set, and what was begun on top of it is not about
\* to begin a scan.
Shape(s, flag) ==
    /\ IsStack(s)
    /\ flag \in BOOLEAN
    /\ flag <=> \E i \in DOMAIN s : s[i].op \in ScanOp
    /\ \A i, j \in DOMAIN s : i < j /\ s[i].op \in ScanOp => s[j].op \notin ScanOp \cup BeginOp

ScanInv == Shape(stack, scanning)

-----------------------------------------------------------------------------
(* Stacks.                                                                 *)

\* A stack one longer.
LEMMA Longer ==
    ASSUME NEW s, IsStack(s), NEW f, "op" \in DOMAIN f
    PROVE  /\ IsStack(Append(s, f))
           /\ Len(s) \in Nat /\ DOMAIN s = 1 .. Len(s)
           /\ DOMAIN Append(s, f) = 1 .. Len(s) + 1
           /\ Append(s, f)[Len(s) + 1] = f
           /\ \A i \in 1 .. Len(s) : Append(s, f)[i] = s[i]
<1> DEFINE S == {s[i] : i \in DOMAIN s} \cup {f}
           t == Append(s, f)
<1>1. s \in Seq({s[i] : i \in DOMAIN s})
    BY DEF IsStack
<1>2. s \in Seq(S) /\ f \in S
    BY <1>1
<1> HIDE DEF S
<1>3. /\ t \in Seq(S)
      /\ Len(s) \in Nat /\ DOMAIN s = 1 .. Len(s) /\ DOMAIN t = 1 .. Len(s) + 1
      /\ t[Len(s) + 1] = f /\ \A i \in 1 .. Len(s) : t[i] = s[i]
    BY <1>2, AppendProperties, LenProperties
<1>4. t \in Seq({t[i] : i \in DOMAIN t})
    BY <1>3
<1>5. \A i \in DOMAIN t : "op" \in DOMAIN t[i]
    BY <1>3 DEF IsStack
<1> QED
    BY <1>3, <1>4, <1>5 DEF IsStack

\* A stack without its topmost handler.
LEMMA Shorter ==
    ASSUME NEW s, IsStack(s), s # <<>>, NEW b, b = SubSeq(s, 1, Len(s) - 1)
    PROVE  /\ IsStack(b)
           /\ Len(s) \in Nat /\ Len(s) >= 1 /\ DOMAIN s = 1 .. Len(s)
           /\ DOMAIN b = 1 .. Len(s) - 1
           /\ \A i \in 1 .. Len(s) - 1 : b[i] = s[i]
           /\ "op" \in DOMAIN s[Len(s)]
<1> DEFINE S == {s[i] : i \in DOMAIN s}
<1>1. s \in Seq(S)
    BY DEF IsStack
<1> HIDE DEF S
<1>2. Len(s) \in Nat /\ Len(s) >= 1 /\ DOMAIN s = 1 .. Len(s)
    BY <1>1, EmptySeq, LenProperties
<1>3. b \in Seq(S) /\ DOMAIN b = 1 .. Len(s) - 1 /\ \A i \in 1 .. Len(s) - 1 : b[i] = s[i]
    BY <1>1, <1>2
<1>4. b \in Seq({b[i] : i \in DOMAIN b})
    <2>1. Len(b) \in Nat /\ b \in [1 .. Len(b) -> S]
        BY <1>3, LenProperties
    <2> DEFINE T == {b[i] : i \in DOMAIN b}
    <2>2. b \in [1 .. Len(b) -> T]
        BY <2>1
    <2> HIDE DEF T
    <2>3. b \in UNION {[1 .. n -> T] : n \in Nat}
        BY <2>1, <2>2
    <2>4. Seq(T) = UNION {[1 .. n -> T] : n \in Nat}
        BY SeqDef
    <2>5. b \in Seq(T)
        BY <2>3, <2>4, Zenon
    <2> QED
        BY <2>5 DEF T
<1>5. \A i \in DOMAIN b : "op" \in DOMAIN b[i]
    BY <1>2, <1>3 DEF IsStack
<1>6. "op" \in DOMAIN s[Len(s)]
    BY <1>2 DEF IsStack
<1> QED
    BY <1>2, <1>3, <1>4, <1>5, <1>6 DEF IsStack

\* A handler that does not scan is called; one that may begin a scan, only if none runs.
LEMMA CallKeeps ==
    ASSUME NEW s, NEW flag, Shape(s, flag),
           NEW f, "op" \in DOMAIN f, f.op \notin ScanOp, f.op \in BeginOp => ~flag
    PROVE  Shape(Append(s, f), flag)
<1>1. /\ IsStack(Append(s, f))
      /\ Len(s) \in Nat /\ DOMAIN s = 1 .. Len(s)
      /\ DOMAIN Append(s, f) = 1 .. Len(s) + 1
      /\ Append(s, f)[Len(s) + 1] = f
      /\ \A i \in 1 .. Len(s) : Append(s, f)[i] = s[i]
    BY Longer DEF Shape
<1> HIDE DEF ScanOp, BeginOp
<1> DEFINE t == Append(s, f)
<1> HIDE DEF t
<1>2. flag <=> \E i \in DOMAIN t : t[i].op \in ScanOp
    BY <1>1 DEF Shape, t
<1>3. ASSUME NEW i \in DOMAIN t, NEW j \in DOMAIN t, i < j, t[i].op \in ScanOp
      PROVE  t[j].op \notin ScanOp \cup BeginOp
    <2>1. i \in 1 .. Len(s) /\ s[i].op \in ScanOp
        BY <1>1, <1>3 DEF t
    <2>2. CASE j \in 1 .. Len(s)
        BY <1>1, <1>3, <2>1, <2>2 DEF Shape, t
    <2>3. CASE j = Len(s) + 1
        BY <1>1, <2>1, <2>3 DEF Shape, t
    <2> QED
        BY <1>1, <2>2, <2>3 DEF t
<1> QED
    BY <1>1, <1>2, <1>3 DEF Shape, t
\* The topmost handler returns: none of the others scans if it did, or might have begun to.
LEMMA ReturnKeeps ==
    ASSUME NEW s, NEW flag, Shape(s, flag), s # <<>>, NEW b, b = SubSeq(s, 1, Len(s) - 1)
    PROVE  /\ "op" \in DOMAIN s[Len(s)]
           /\ s[Len(s)].op \in ScanOp => flag
           /\ s[Len(s)].op \in BeginOp => ~flag
           /\ Shape(b, flag /\ s[Len(s)].op \notin ScanOp)
<1>1. /\ IsStack(b)
      /\ Len(s) \in Nat /\ Len(s) >= 1 /\ DOMAIN s = 1 .. Len(s)
      /\ DOMAIN b = 1 .. Len(s) - 1
      /\ \A i \in 1 .. Len(s) - 1 : b[i] = s[i]
      /\ "op" \in DOMAIN s[Len(s)]
    BY Shorter DEF Shape
<1>2. ScanOp \cap BeginOp = {}
    BY DEF ScanOp, BeginOp
<1> HIDE DEF ScanOp, BeginOp
<1> DEFINE rest == flag /\ s[Len(s)].op \notin ScanOp
<1>3. s[Len(s)].op \in ScanOp \cup BeginOp => \A i \in DOMAIN b : b[i].op \notin ScanOp
    BY <1>1 DEF Shape
<1>4. s[Len(s)].op \in ScanOp => flag
    BY <1>1 DEF Shape
<1>5. s[Len(s)].op \in BeginOp => ~flag
    BY <1>1, <1>2, <1>3 DEF Shape
<1>6. rest <=> \E i \in DOMAIN b : b[i].op \in ScanOp
    <2>1. ASSUME rest PROVE \E i \in DOMAIN b : b[i].op \in ScanOp
        <3>1. PICK i \in DOMAIN s : s[i].op \in ScanOp
            BY <2>1 DEF Shape
        <3>2. i \in 1 .. Len(s) - 1
            BY <1>1, <2>1, <3>1
        <3> QED
            BY <1>1, <3>1, <3>2
    <2>2. ASSUME NEW i \in DOMAIN b, b[i].op \in ScanOp PROVE rest
        <3>1. i \in DOMAIN s /\ s[i].op \in ScanOp
            BY <1>1, <2>2
        <3>2. flag
            BY <3>1 DEF Shape
        <3> QED
            BY <1>3, <2>2, <3>2
    <2> QED
        BY <2>1, <2>2
<1>7. \A i, j \in DOMAIN b :
         i < j /\ b[i].op \in ScanOp => b[j].op \notin ScanOp \cup BeginOp
    BY <1>1 DEF Shape
<1> QED
    BY <1>1, <1>4, <1>5, <1>6, <1>7 DEF Shape

\* A handler begins to scan when none does.
LEMMA ScanBegins ==
    ASSUME NEW s, Shape(s, FALSE), NEW f, "op" \in DOMAIN f, f.op \in ScanOp
    PROVE  Shape(Append(s, f), TRUE)
<1>1. /\ IsStack(Append(s, f))
      /\ Len(s) \in Nat /\ DOMAIN s = 1 .. Len(s)
      /\ DOMAIN Append(s, f) = 1 .. Len(s) + 1
      /\ Append(s, f)[Len(s) + 1] = f
      /\ \A i \in 1 .. Len(s) : Append(s, f)[i] = s[i]
    BY Longer DEF Shape
<1> HIDE DEF ScanOp, BeginOp
<1> DEFINE t == Append(s, f)
<1> HIDE DEF t
<1>2. \A i \in 1 .. Len(s) : t[i].op \notin ScanOp
    BY <1>1 DEF Shape, t
<1>3. \E i \in DOMAIN t : t[i].op \in ScanOp
    BY <1>1 DEF t
<1>4. \A i, j \in DOMAIN t : ~(i < j /\ t[i].op \in ScanOp)
    BY <1>1, <1>2 DEF t
<1> QED
    BY <1>1, <1>3, <1>4 DEF Shape, t
-----------------------------------------------------------------------------
(* Handlers.                                                               *)

\* What the topmost handler does tells whether a handler scans.
LEMMA TopShape ==
    ASSUME ScanInv, stack # <<>>
    PROVE  (Top.op \in ScanOp => scanning) /\ (Top.op \in BeginOp => ~scanning)
<1> DEFINE n == Len(stack)
<1>1. n \in DOMAIN stack
    BY Shorter DEF ScanInv, Shape
<1>2. stack[n].op \in ScanOp => scanning
    BY <1>1, Zenon DEF ScanInv, Shape
<1>3. stack[n].op \in BeginOp => ~scanning
    BY ReturnKeeps DEF ScanInv
<1> QED
    BY <1>2, <1>3 DEF Top

\* A handler is called.
LEMMA Called ==
    ASSUME ScanInv, NEW f, "op" \in DOMAIN f, f.op \notin ScanOp, f.op \in BeginOp => ~scanning,
           stack' = Append(stack, f), scanning' = scanning
    PROVE  ScanInv'
<1>1. Shape(Append(stack, f), scanning)
    BY CallKeeps DEF ScanInv
<1> QED
    BY <1>1 DEF ScanInv

\* The topmost handler returns.
LEMMA Returned ==
    ASSUME ScanInv, stack # <<>>, stack' = Below, scanning' = (scanning /\ Top.op \notin ScanOp)
    PROVE  ScanInv'
<1>1. Shape(Below, scanning /\ stack[Len(stack)].op \notin ScanOp)
    BY ReturnKeeps DEF ScanInv, Below
<1> QED
    BY <1>1 DEF ScanInv, Top

\* The topmost handler goes on with something else than scanning.
LEMMA GoesOn ==
    ASSUME ScanInv, stack # <<>>, NEW f, "op" \in DOMAIN f,
           f.op \notin ScanOp, f.op \in BeginOp => Top.op \in BeginOp,
           stack' = Append(Below, f), scanning' = (scanning /\ Top.op \notin ScanOp)
    PROVE  ScanInv'
<1> DEFINE rest == scanning /\ Top.op \notin ScanOp
<1>1. Shape(Below, rest) /\ (Top.op \in BeginOp => ~scanning)
    BY ReturnKeeps DEF ScanInv, Below, Top
<1>2. Shape(Append(Below, f), rest)
    BY <1>1, CallKeeps
<1> QED
    BY <1>2 DEF ScanInv

\* The topmost handler goes on scanning, or begins to.
LEMMA Scans ==
    ASSUME ScanInv, stack # <<>>, Top.op \in ScanOp \cup BeginOp,
           NEW f, "op" \in DOMAIN f, f.op \in ScanOp,
           stack' = Append(Below, f), scanning' = TRUE
    PROVE  ScanInv'
<1> DEFINE rest == scanning /\ Top.op \notin ScanOp
<1>1. Shape(Below, rest) /\ (Top.op \in BeginOp => ~scanning)
    BY ReturnKeeps DEF ScanInv, Below, Top
<1>2. ~rest
    BY <1>1
<1>3. Shape(Append(Below, f), TRUE)
    BY <1>1, <1>2, ScanBegins
<1> QED
    BY <1>3 DEF ScanInv

\* A frame says what its handler does.
LEMMA FrameOps ==
    /\ \A op : "op" \in DOMAIN NewFrame(op) /\ NewFrame(op).op = op
    /\ \A op, d : LET f == [NewFrame(op) EXCEPT !.drive = d]
                  IN  "op" \in DOMAIN f /\ f.op = op
    /\ \A op, r, x : LET f == [NewFrame(op) EXCEPT !.request = r, !.flag = x]
                     IN  "op" \in DOMAIN f /\ f.op = op
    /\ \A r, x : LET f == [NewFrame("add") EXCEPT !.request = r, !.todo = x]
                 IN  "op" \in DOMAIN f /\ f.op = "add"
    /\ \A d, x, y : LET f == [NewFrame("fetch") EXCEPT !.drive = d, !.left = x, !.flag = y]
                    IN  "op" \in DOMAIN f /\ f.op = "fetch"
BY DEF NewFrame

\* ReplaceTop(op) is going on with op.
LEMMA Replaced ==
    ASSUME ScanInv, stack # <<>>, NEW op, ReplaceTop(op)
    PROVE  \E f : "op" \in DOMAIN f /\ f.op = op /\ stack' = Append(Below, f)
<1>1. "op" \in DOMAIN Top
    BY ReturnKeeps DEF ScanInv, Top
<1>2. "op" \in DOMAIN [Top EXCEPT !.op = op] /\ [Top EXCEPT !.op = op].op = op
    BY <1>1
<1> QED
    BY <1>2 DEF ReplaceTop

\* The startup devices are added when a handler is over.
LEMMA AddsNext ==
    ASSUME ScanInv, stack # <<>>, NEW todo, AddNext(Below, todo),
           scanning' = (scanning /\ Top.op \notin ScanOp)
    PROVE  ScanInv'
<1>1. CASE stack' = Below
    BY <1>1, Returned
<1>2. CASE \E f : "op" \in DOMAIN f /\ f.op = "add" /\ stack' = Append(Below, f)
    <2>1. PICK f : "op" \in DOMAIN f /\ f.op = "add" /\ stack' = Append(Below, f)
        BY <1>2
    <2>2. f.op \notin ScanOp \cup BeginOp
        BY <2>1 DEF ScanOp, BeginOp
    <2> QED
        BY <2>1, <2>2, GoesOn
<1>3. ASSUME todo # {} PROVE \E f : "op" \in DOMAIN f /\ f.op = "add" /\ stack' = Append(Below, f)
    <2>1. PICK r \in todo :
              stack' = Append(Below, [NewFrame("add") EXCEPT !.request = r, !.todo = todo \ {r}])
        BY <1>3 DEF AddNext
    <2> QED
        BY <2>1, FrameOps
<1> QED
    BY <1>1, <1>2, <1>3 DEF AddNext

\* A handler that scans goes on with an error dialog or the next drive.
LEMMA FetchesNext ==
    ASSUME ScanInv, stack # <<>>, Top.op \in ScanOp, scanning' = scanning,
           NEW left, NEW collected, FetchNext(left, collected)
    PROVE  ScanInv'
<1>1. \E f : "op" \in DOMAIN f /\ f.op \in ScanOp /\ stack' = Append(Below, f)
    <2>1. CASE ReplaceTop("scanError") \/ ReplaceTop("permissionError")
        BY <2>1, Replaced DEF ScanOp
    <2>2. CASE \E d, x, y : stack' = Append(Below, [NewFrame("fetch") EXCEPT !.drive = d, !.left = x, !.flag = y])
        BY <2>2, FrameOps DEF ScanOp
    <2> QED
        BY <2>1, <2>2 DEF FetchNext
<1>2. scanning' = TRUE
    BY ReturnKeeps DEF ScanInv, Shape, Top
<1> QED
    BY <1>1, <1>2, Scans

\* The window of a drive: a fetch, a message, or no more handler.
LEMMA ShowsDetails ==
    ASSUME NEW below, NEW d, ShowDetails(below, d)
    PROVE  /\ UNCHANGED listVars
           /\ \/ stack' = below
              \/ \E f : "op" \in DOMAIN f /\ f.op = "dialog" /\ stack' = Append(below, f)
              \/ \E f : "op" \in DOMAIN f /\ f.op = "open" /\ stack' = Append(below, f)
<1>1. CASE stack' = Append(below, [NewFrame("open") EXCEPT !.drive = d]) /\ UNCHANGED listVars
    BY <1>1, FrameOps
<1>2. CASE ShowWindow(below, d)
    BY <1>2, FrameOps DEF ShowWindow
<1> QED
    BY <1>1, <1>2 DEF ShowDetails

-----------------------------------------------------------------------------
(* The steps.                                                              *)

\* A click calls a handler that does not scan, and one that may begin to only if none does.
LEMMA ClickStep == ScanInv /\ User => ScanInv'
<1> SUFFICES ASSUME ScanInv, User PROVE ScanInv'
    OBVIOUS
<1> DEFINE Calls(op) == \E f : /\ "op" \in DOMAIN f /\ f.op = op
                               /\ stack' = Append(stack, f) /\ scanning' = scanning
<1>1. ASSUME NEW op, Calls(op), op \notin ScanOp, op \in BeginOp => ~scanning PROVE ScanInv'
    BY <1>1, Called
<1>2. ASSUME stack' = stack, scanning' = scanning PROVE ScanInv'
    BY <1>2 DEF ScanInv
<1>3. {"dialog", "addNew", "add", "check", "toggle", "reread", "open", "askEnable",
       "askQuit"} \cap ScanOp = {}
    BY DEF ScanOp
<1>4. {"dialog", "addNew", "add", "toggle", "reread", "open", "askEnable",
       "askQuit"} \cap BeginOp = {}
    BY DEF BeginOp
<1>5. ASSUME NEW name \in Manual, NEW type \in EnteredTypes, NEW auto \in BOOLEAN,
             ClickAdd(<<name, type>>, auto)
      PROVE  ScanInv'
    <2>1. scanning' = scanning
        BY <1>5 DEF ClickAdd, listVars
    <2>2. \/ stack' = Append(stack, NewFrame("dialog"))
          \/ stack' = Append(stack, [NewFrame("addNew") EXCEPT !.request = <<name, type>>, !.flag = auto])
        BY <1>5 DEF ClickAdd, Push
    <2>3. CASE stack' = Append(stack, NewFrame("dialog"))
        BY <1>1, <1>3, <1>4, <2>1, <2>3, FrameOps
    <2>4. CASE stack' = Append(stack, [NewFrame("addNew") EXCEPT !.request = <<name, type>>, !.flag = auto])
        <3>1. Calls("addNew")
            BY <2>1, <2>4, FrameOps
        <3> QED
            BY <1>1, <1>3, <1>4, <3>1
    <2> QED
        BY <2>2, <2>3, <2>4
<1>6. CASE RemoveIcon
    BY <1>2, <1>6 DEF RemoveIcon
<1>7. CASE LoadVirtual
    <2>1. /\ scanning' = scanning
          /\ stack' = stack \/ stack' = Append(stack, NewFrame("dialog"))
        BY <1>7 DEF LoadVirtual, Push, AddDrive, listVars
    <2>2. stack' = Append(stack, NewFrame("dialog")) => Calls("dialog")
        BY <2>1, FrameOps
    <2> QED
        BY <1>1, <1>2, <1>3, <1>4, <2>1, <2>2
<1>8. CASE ClickRescan
    <2>1. scanning \in BOOLEAN /\ scanning' = scanning
        BY <1>8 DEF ClickRescan, listVars, ScanInv, Shape
    <2>2. CASE scanning
        <3>1. AddNext(stack, startupDevices)
            BY <1>8, <2>2 DEF ClickRescan
        <3>2. stack' = stack \/ Calls("add")
            BY <2>1, <3>1, FrameOps DEF AddNext
        <3> QED
            BY <1>1, <1>2, <1>3, <1>4, <2>1, <3>2
    <2>3. CASE ~scanning
        <3>1. Calls("check")
            BY <1>8, <2>1, <2>3, FrameOps DEF ClickRescan, Push
        <3> QED
            BY <1>1, <1>3, <2>3, <3>1
    <2> QED
        BY <2>1, <2>2, <2>3
<1>9. CASE PrefsUpdated
    BY <1>2, <1>9 DEF PrefsUpdated
<1>10. CASE ClickToggle
    <2>1. Calls("toggle")
        BY <1>10, FrameOps DEF ClickToggle, Push, listVars
    <2> QED
        BY <1>1, <1>3, <1>4, <2>1
<1>11. CASE ClickReread
    <2>1. (stack' = stack /\ scanning' = scanning) \/ Calls("reread")
        BY <1>11, FrameOps DEF ClickReread, Reread, listVars
    <2> QED
        BY <1>1, <1>2, <1>3, <1>4, <2>1
<1>12. CASE ClickDetails
    <2>1. CASE Push(NewFrame("dialog")) /\ UNCHANGED listVars
        <3>1. Calls("dialog")
            BY <2>1, FrameOps DEF Push, listVars
        <3> QED
            BY <1>1, <1>3, <1>4, <3>1
    <2>2. CASE Push([NewFrame("askEnable") EXCEPT !.drive = selected]) /\ UNCHANGED listVars
        <3>1. Calls("askEnable")
            BY <2>2, FrameOps DEF Push, listVars
        <3> QED
            BY <1>1, <1>3, <1>4, <3>1
    <2>3. CASE ShowDetails(stack, selected)
        <3>1. (stack' = stack /\ scanning' = scanning) \/ Calls("dialog") \/ Calls("open")
            BY <2>3, ShowsDetails DEF listVars
        <3> QED
            BY <1>1, <1>2, <1>3, <1>4, <3>1
    <2> QED
        BY <1>12, <2>1, <2>2, <2>3 DEF ClickDetails
<1>13. CASE ClickQuit
    <2>1. (stack' = stack /\ scanning' = scanning) \/ Calls("askQuit")
        BY <1>13, FrameOps DEF ClickQuit, Quit, Push, listVars
    <2> QED
        BY <1>1, <1>2, <1>3, <1>4, <2>1
<1>14. ASSUME NEW d \in Drives, Select(d) \/ TestStarts(d) \/ WindowCloses(d) PROVE ScanInv'
    BY <1>2, <1>14 DEF Select, TestStarts, WindowCloses, listVars
<1>15. ClickRemove \/ ClickRemoveVirtual => RemoveIcon
    BY DEF ClickRemove, ClickRemoveVirtual
<1> QED
    BY <1>5, <1>6, <1>7, <1>8, <1>9, <1>10, <1>11, <1>12, <1>13, <1>14, <1>15 DEF User
\* A handler goes on: it returns, is replaced, scans on, or begins to scan when none does.
LEMMA ResumeStep == ScanInv /\ Resume => ScanInv'
<1> SUFFICES ASSUME ScanInv, Resume PROVE ScanInv'
    OBVIOUS
<1>0. stack # <<>>
    BY DEF Resume, Ready, StartCheckReturns, StartPumpReturns, StartErrorClosed, AddReturns,
           AddNewReturns, CheckReturns, PumpReturns, DetectReturns, DetectFails, FetchReturns,
           ToggleReturns, RereadReturns, EnableReturns, OpenReturns, AddErrorClosed,
           AskRescanAnswered, CheckErrorClosed, ScanErrorClosed, PermissionErrorClosed,
           ToggleErrorClosed, AskEnableAnswered, EnableErrorClosed, AskQuitAnswered, DialogClosed
<1> DEFINE rest == scanning /\ Top.op \notin ScanOp
<1>1. scanning \in BOOLEAN /\ (Top.op \in ScanOp => scanning) /\ (Top.op \in BeginOp => ~scanning)
    <2>1. Shape(stack, scanning)
        BY DEF ScanInv
    <2>2. scanning \in BOOLEAN
        BY <2>1 DEF Shape
    <2>3. (Top.op \in ScanOp => scanning) /\ (Top.op \in BeginOp => ~scanning)
        BY <1>0, TopShape
    <2> QED
        BY <2>2, <2>3
<1>2. ASSUME stack' = Below, scanning' = rest PROVE ScanInv'
    BY <1>0, <1>2, Returned
<1>3. ASSUME NEW op, ReplaceTop(op), op \notin ScanOp, op \in BeginOp => Top.op \in BeginOp,
             scanning' = rest
      PROVE  ScanInv'
    <2>1. PICK f : "op" \in DOMAIN f /\ f.op = op /\ stack' = Append(Below, f)
        BY <1>0, <1>3, Replaced
    <2> QED
        BY <1>0, <1>3, <2>1, GoesOn
<1>4. ASSUME NEW op, ReplaceTop(op), op \in ScanOp, Top.op \in ScanOp \cup BeginOp, scanning' = TRUE
      PROVE  ScanInv'
    <2>1. PICK f : "op" \in DOMAIN f /\ f.op = op /\ stack' = Append(Below, f)
        BY <1>0, <1>4, Replaced
    <2> QED
        BY <1>0, <1>4, <2>1, Scans
<1>5. ASSUME Reread(Below), Top.op \in {"toggle", "toggleError"} PROVE ScanInv'
    <2>1. scanning' = rest
        BY <1>1, <1>5 DEF Reread, listVars, ScanOp
    <2>2. stack' = Below \/ \E d : stack' = Append(Below, [NewFrame("reread") EXCEPT !.drive = d])
        BY <1>5 DEF Reread
    <2>3. CASE \E d : stack' = Append(Below, [NewFrame("reread") EXCEPT !.drive = d])
        <3>1. PICK f : "op" \in DOMAIN f /\ f.op = "reread" /\ stack' = Append(Below, f)
            BY <2>3, FrameOps
        <3>2. f.op \notin ScanOp \cup BeginOp
            BY <3>1 DEF ScanOp, BeginOp
        <3> QED
            BY <1>0, <2>1, <3>1, <3>2, GoesOn
    <2> QED
        BY <1>2, <2>1, <2>2, <2>3
<1>6. ASSUME Top.op \in ScanOp, scanning' = FALSE, AddNext(Below, startupDevices) PROVE ScanInv'
    BY <1>0, <1>6, AddsNext
<1>7. ASSUME Top.op \notin ScanOp, scanning' = scanning, NEW todo, AddNext(Below, todo) PROVE ScanInv'
    BY <1>0, <1>1, <1>7, AddsNext
<1>8. ASSUME StartScan, Top.op \in BeginOp PROVE ScanInv'
    <2>1. scanning' = TRUE /\ ReplaceTop("pump") /\ "pump" \in ScanOp
        BY <1>8 DEF StartScan, ScanOp
    <2> QED
        BY <1>4, <1>8, <2>1
<1>9. CASE StartCheckReturns
    <2>1. Top.op = "startCheck" /\ Top.op \in BeginOp /\ Top.op \notin ScanOp
        BY <1>9 DEF StartCheckReturns, Ready, BeginOp, ScanOp
    <2>2. CASE StartScan
        BY <1>8, <2>1, <2>2
    <2>3. CASE \E op \in {"startError", "askRescan", "startPump"} : ReplaceTop(op) /\ scanning' = scanning
        <3>1. {"startError", "askRescan", "startPump"} \cap ScanOp = {}
            BY DEF ScanOp
        <3> QED
            BY <1>1, <1>3, <2>1, <2>3, <3>1
    <2> QED
        BY <1>9, <2>2, <2>3 DEF StartCheckReturns, ClearIcons, listVars
<1>10. CASE StartPumpReturns
    <2>1. Top.op \notin ScanOp /\ scanning' = scanning /\ AddNext(Below, startupDevices)
        BY <1>10 DEF StartPumpReturns, Ready, ScanOp, listVars
    <2> QED
        BY <1>7, <2>1
<1>11. CASE StartErrorClosed
    <2>1. scanning' = rest /\ stack' = Below
        BY <1>1, <1>11 DEF StartErrorClosed, Ready, ScanOp
    <2> QED
        BY <1>2, <2>1
<1>12. CASE AddReturns
    <2>1. Top.op \notin ScanOp /\ scanning' = scanning /\ AddNext(Below, Top.todo)
        BY <1>12 DEF AddReturns, Ready, ScanOp, AddDrive
    <2> QED
        BY <1>7, <2>1
<1>13. CASE AddNewReturns
    <2>1. Top.op \notin ScanOp /\ scanning' = scanning /\ (stack' = Below \/ ReplaceTop("addError"))
        BY <1>13 DEF AddNewReturns, Ready, ScanOp, AddDrive, listVars
    <2>2. "addError" \notin ScanOp \cup BeginOp
        BY DEF ScanOp, BeginOp
    <2> QED
        BY <1>1, <1>2, <1>3, <2>1, <2>2
<1>14. CASE CheckReturns
    <2>1. Top.op \in BeginOp /\ Top.op \notin ScanOp
        BY <1>14 DEF CheckReturns, Ready, BeginOp, ScanOp
    <2>2. CASE StartScan
        BY <1>8, <2>1, <2>2
    <2>3. CASE \E op \in {"checkError", "askRescan"} : ReplaceTop(op) /\ scanning' = scanning
        <3>1. {"checkError", "askRescan"} \cap ScanOp = {}
            BY DEF ScanOp
        <3> QED
            BY <1>1, <1>3, <2>1, <2>3, <3>1
    <2> QED
        BY <1>14, <2>2, <2>3 DEF CheckReturns, listVars
<1>15. CASE PumpReturns
    <2>1. Top.op \in ScanOp /\ scanning' = scanning /\ ReplaceTop("detect") /\ "detect" \in ScanOp
        BY <1>15 DEF PumpReturns, Ready, ScanOp
    <2> QED
        BY <1>1, <1>4, <2>1
<1>16. CASE DetectReturns
    <2>1. Top.op \in ScanOp /\ scanning' = FALSE /\ AddNext(Below, startupDevices)
        BY <1>16 DEF DetectReturns, Ready, ScanOp, ListDrives
    <2> QED
        BY <1>6, <2>1
<1>17. CASE DetectFails
    <2>1. Top.op \in ScanOp /\ scanning' = scanning /\ FetchNext(drives, FALSE)
        BY <1>17 DEF DetectFails, Ready, ScanOp, listVars
    <2> QED
        BY <1>0, <2>1, FetchesNext
<1>18. CASE FetchReturns
    <2>1. Top.op \in ScanOp /\ scanning' = scanning
        BY <1>18 DEF FetchReturns, Ready, ScanOp
    <2>2. \E left, collected : FetchNext(left, collected)
        BY <1>18 DEF FetchReturns
    <2> QED
        BY <1>0, <2>1, <2>2, FetchesNext
<1>19. CASE ToggleReturns
    <2>1. Top.op = "toggle"
        BY <1>19 DEF ToggleReturns, Ready
    <2>2. Reread(Below) \/ (ReplaceTop("toggleError") /\ scanning' = scanning)
        BY <1>19 DEF ToggleReturns, listVars
    <2>3. Top.op \notin ScanOp /\ "toggleError" \notin ScanOp \cup BeginOp
        BY <2>1 DEF ScanOp, BeginOp
    <2> QED
        BY <1>1, <1>3, <1>5, <2>1, <2>2, <2>3
<1>20. CASE RereadReturns
    <2>1. Top.op \notin ScanOp /\ scanning' = scanning /\ (stack' = Below \/ ReplaceTop("dialog"))
        BY <1>20 DEF RereadReturns, Ready, ScanOp
    <2>2. "dialog" \notin ScanOp \cup BeginOp
        BY DEF ScanOp, BeginOp
    <2> QED
        BY <1>1, <1>2, <1>3, <2>1, <2>2
<1>w. ASSUME Top.op \notin ScanOp, ShowDetails(Below, Top.drive) \/ ShowWindow(Below, Top.drive)
       PROVE  ScanInv'
    <2>1. scanning' = rest
        BY <1>1, <1>w, ShowsDetails DEF ShowWindow, listVars
    <2>2. \/ stack' = Below
          \/ \E f : "op" \in DOMAIN f /\ f.op \in {"dialog", "open"} /\ stack' = Append(Below, f)
        BY <1>w, ShowsDetails, FrameOps DEF ShowWindow
    <2>3. {"dialog", "open"} \cap (ScanOp \cup BeginOp) = {}
        BY DEF ScanOp, BeginOp
    <2> QED
        BY <1>0, <1>2, <2>1, <2>2, <2>3, GoesOn
<1>21. CASE OpenReturns \/ AskEnableAnswered \/ EnableReturns \/ EnableErrorClosed
    <2>1. Top.op \notin ScanOp
        BY <1>21 DEF OpenReturns, AskEnableAnswered, EnableReturns, EnableErrorClosed, Ready, ScanOp
    <2>2. \/ ShowDetails(Below, Top.drive) \/ ShowWindow(Below, Top.drive)
          \/ /\ ReplaceTop("dialog") \/ ReplaceTop("enable") \/ ReplaceTop("enableError")
             /\ scanning' = scanning
        BY <1>21 DEF OpenReturns, AskEnableAnswered, EnableReturns, EnableErrorClosed, listVars
    <2>3. {"dialog", "enable", "enableError"} \cap (ScanOp \cup BeginOp) = {}
        BY DEF ScanOp, BeginOp
    <2> QED
        BY <1>1, <1>3, <1>w, <2>1, <2>2, <2>3
<1>22. CASE AddErrorClosed
    <2>1. scanning' = rest /\ stack' = Below
        BY <1>1, <1>22 DEF AddErrorClosed, Ready, ScanOp, listVars
    <2> QED
        BY <1>2, <2>1
<1>23. CASE AskRescanAnswered
    <2>1. Top.op \in BeginOp /\ Top.op \notin ScanOp
        BY <1>23 DEF AskRescanAnswered, Ready, BeginOp, ScanOp
    <2>2. StartScan \/ (AddNext(Below, startupDevices) /\ scanning' = scanning)
        BY <1>23 DEF AskRescanAnswered, listVars
    <2> QED
        BY <1>7, <1>8, <2>1, <2>2
<1>24. CASE CheckErrorClosed
    <2>1. Top.op \notin ScanOp /\ scanning' = scanning /\ AddNext(Below, startupDevices)
        BY <1>24 DEF CheckErrorClosed, Ready, ScanOp, listVars
    <2> QED
        BY <1>7, <2>1
<1>25. CASE ScanErrorClosed \/ PermissionErrorClosed
    <2>1. Top.op \in ScanOp /\ scanning' = FALSE /\ AddNext(Below, startupDevices)
        BY <1>25 DEF ScanErrorClosed, PermissionErrorClosed, Ready, ScanOp, ListDrives
    <2> QED
        BY <1>6, <2>1
<1>26. CASE ToggleErrorClosed
    BY <1>5, <1>26 DEF ToggleErrorClosed, Ready
<1>27. CASE AskQuitAnswered \/ DialogClosed
    <2>1. scanning' = rest /\ stack' = Below
        BY <1>1, <1>27 DEF AskQuitAnswered, DialogClosed, Quit, Ready, ScanOp, listVars
    <2> QED
        BY <1>2, <2>1
<1> QED
    BY <1>9, <1>10, <1>11, <1>12, <1>13, <1>14, <1>15, <1>16, <1>17, <1>18, <1>19, <1>20, <1>21,
       <1>22, <1>23, <1>24, <1>25, <1>26, <1>27 DEF Resume

-----------------------------------------------------------------------------
(* The theorem.                                                            *)

\* When the constructor runs "smartctl -V", nobody scans.
LEMMA ScanInit == Init => ScanInv
<1> SUFFICES ASSUME Init PROVE ScanInv
    OBVIOUS
<1> DEFINE f == NewFrame("startCheck")
<1>1. "op" \in DOMAIN f /\ f.op = "startCheck"
    BY FrameOps
<1> HIDE DEF f
<1>2. stack = <<f>> /\ scanning = FALSE
    BY DEF Init, f
<1>3. DOMAIN stack = {1} /\ stack[1] = f /\ stack \in Seq({stack[i] : i \in DOMAIN stack})
    BY <1>2
<1>4. f.op \notin ScanOp
    BY <1>1 DEF ScanOp
<1> QED
    BY <1>1, <1>2, <1>3, <1>4 DEF ScanInv, Shape, IsStack

\* Every step keeps it.
LEMMA ScanStep == ScanInv /\ [Next]_allVars => ScanInv'
<1> SUFFICES ASSUME ScanInv, [Next]_allVars PROVE ScanInv'
    OBVIOUS
<1>1. ASSUME stack' = stack, scanning' = scanning PROVE ScanInv'
    BY <1>1 DEF ScanInv
<1>2. CASE EnterMainLoop \/ \E d \in Drives : TestEnds(d)
    BY <1>1, <1>2 DEF EnterMainLoop, TestEnds, listVars
<1>3. CASE UNCHANGED allVars
    BY <1>1, <1>3 DEF allVars, listVars
<1> QED
    BY <1>2, <1>3, ClickStep, ResumeStep DEF Next

\* The shape of the stack means that one handler scans, or none.
LEMMA OneScans == ScanInv => OneScanAtATime
<1> SUFFICES ASSUME ScanInv PROVE OneScanAtATime
    OBVIOUS
<1> DEFINE scans == {i \in DOMAIN stack : stack[i].op \in ScanOp}
<1>1. DOMAIN stack = 1 .. Len(stack) /\ Len(stack) \in Nat
    BY LenProperties DEF ScanInv, Shape, IsStack
<1>2. CASE ~scanning
    <2>1. scans = {}
        BY <1>2 DEF ScanInv, Shape
    <2> QED
        BY <1>2, <2>1, FS_EmptySet DEF OneScanAtATime
<1>3. CASE scanning
    <2>1. PICK i \in DOMAIN stack : stack[i].op \in ScanOp
        BY <1>3 DEF ScanInv, Shape
    <2>2. ASSUME NEW j \in scans PROVE j = i
        BY <1>1, <2>1, <2>2 DEF ScanInv, Shape
    <2>3. scans = {i}
        BY <2>1, <2>2
    <2> QED
        BY <1>3, <2>3, FS_Singleton DEF OneScanAtATime
<1> QED
    BY <1>2, <1>3 DEF ScanInv, Shape

\* However deep the handlers nest and whatever the user clicks, scanning_ is set exactly
\* while one handler is scanning.
THEOREM ScansNeverOverlap == Spec => []OneScanAtATime
BY ScanInit, ScanStep, OneScans, PTL DEF Spec

-----------------------------------------------------------------------------
(* Types.  An object that is unused is not shown, a handler that was given *)
(* a drive or a device to add has one.                                     *)

\* The startup devices the user may enter.
Asked == Manual \X EnteredTypes

AddOp == {"add", "addNew", "addError"}

OpenOp == {"askEnable", "enable", "enableError", "open"}

GoodFrame == {f \in Frame : /\ f.op \in OpenOp => f.drive # 0
                            /\ f.op \in AddOp => f.request \in Asked
                            /\ f.todo \subseteq Asked}

\* What was added by hand has the name and the type the user entered.
GoodObject(o) ==
    /\ o \in Device \cup {noDevice}
    /\ o.kind = "manual" => o.name \in Manual /\ o.entered \in EnteredTypes

StackType == stack \in Seq(GoodFrame) /\ Len(stack) <= MaxDepth

ObjectType ==
    /\ object \in [Drives -> Device \cup {noDevice}]
    /\ \A d \in Drives : GoodObject(object[d])

IconType ==
    /\ icons \in [Drives -> Nat] /\ numIcons \in Nat
    /\ selected \in Drives \cup {0}
    /\ selected # 0 => icons[selected] > 0

ListType == ObjectType /\ drives \subseteq Drives /\ IconType /\ scanning \in BOOLEAN

RestType ==
    /\ startupDevices \subseteq Asked
    /\ windows \subseteq Drives /\ testing \subseteq Drives
    /\ mainLoop \in {"none", "running", "ended"} /\ outcome \in {"running", "quit", "crashed"}

TypeInv == StackType /\ ListType /\ RestType

\* What may be entered is a request.
LEMMA AskedAreRequests == Asked \subseteq Request
BY TypesAssumption DEF Asked, Request

\* A new frame is good if its handler needs nothing.
LEMMA NewFrames ==
    ASSUME NEW op \in CommandOp \cup PumpOp \cup DialogOp
    PROVE  /\ NewFrame(op) \in Frame /\ NewFrame(op).op = op /\ NewFrame(op).todo = {}
           /\ op \notin AddOp \cup OpenOp => NewFrame(op) \in GoodFrame
BY DEF NewFrame, Frame, GoodFrame, OpenOp

\* The frames of handlers with a drive.
LEMMA DriveFrames ==
    ASSUME NEW d \in Drives, NEW left \in SUBSET Drives, NEW flag \in BOOLEAN
    PROVE  /\ \A op \in {"toggle", "reread", "askEnable", "open"} : [NewFrame(op) EXCEPT !.drive = d] \in GoodFrame
           /\ [NewFrame("fetch") EXCEPT !.drive = d, !.left = left, !.flag = flag] \in GoodFrame
<1>1. d # 0
    BY DEF Drives
<1>2. {"toggle", "reread", "askEnable", "open", "fetch"} \subseteq CommandOp \cup DialogOp
    BY DEF CommandOp, DialogOp
<1>3. ASSUME NEW op \in {"toggle", "reread", "askEnable", "open"} PROVE [NewFrame(op) EXCEPT !.drive = d] \in GoodFrame
    BY <1>1, <1>2 DEF NewFrame, Frame, GoodFrame, AddOp, OpenOp
<1>4. [NewFrame("fetch") EXCEPT !.drive = d, !.left = left, !.flag = flag] \in GoodFrame
    BY <1>1, <1>2 DEF NewFrame, Frame, GoodFrame, AddOp, OpenOp
<1> QED
    BY <1>3, <1>4

\* The frames of handlers that add a device.
LEMMA AddFrames ==
    ASSUME NEW r \in Asked
    PROVE  /\ \A flag \in BOOLEAN : [NewFrame("addNew") EXCEPT !.request = r, !.flag = flag] \in GoodFrame
           /\ \A todo \in SUBSET Asked : [NewFrame("add") EXCEPT !.request = r, !.todo = todo] \in GoodFrame
<1>1. r \in Request /\ \A todo \in SUBSET Asked : todo \in SUBSET Request
    BY AskedAreRequests
<1>2. {"add", "addNew"} \subseteq CommandOp
    BY DEF CommandOp
<1>3. ASSUME NEW flag \in BOOLEAN
      PROVE  [NewFrame("addNew") EXCEPT !.request = r, !.flag = flag] \in GoodFrame
    BY <1>1, <1>2 DEF NewFrame, Frame, GoodFrame, AddOp, OpenOp
<1>4. ASSUME NEW todo \in SUBSET Asked
      PROVE  [NewFrame("add") EXCEPT !.request = r, !.todo = todo] \in GoodFrame
    BY <1>1, <1>2 DEF NewFrame, Frame, GoodFrame, AddOp, OpenOp
<1> QED
    BY <1>3, <1>4

\* The topmost handler and the others.
LEMMA TopAndBelow ==
    ASSUME StackType, stack # <<>>
    PROVE  /\ Top \in GoodFrame /\ Below \in Seq(GoodFrame)
           /\ Len(stack) \in Nat /\ Len(stack) >= 1 /\ Len(Below) = Len(stack) - 1
<1>1. stack \in Seq(GoodFrame)
    BY DEF StackType
<1>2. Len(stack) \in Nat /\ Len(stack) >= 1 /\ Top \in GoodFrame
    BY <1>1, EmptySeq, LenProperties, ElementOfSeq DEF Top
<1> DEFINE n == Len(stack) - 1
<1>3. 1 \in 1 .. Len(stack) + 1 /\ n \in 1 - 1 .. Len(stack) /\ n - 1 + 1 = n
    BY <1>2
<1> HIDE DEF n
<1>4. SubSeq(stack, 1, n) \in Seq(GoodFrame) /\ Len(SubSeq(stack, 1, n)) = n
    BY <1>1, <1>3, SubSeqProperties
<1>5. Below \in Seq(GoodFrame) /\ Len(Below) = Len(stack) - 1
    BY <1>4 DEF Below, n
<1> QED
    BY <1>2, <1>5

\* The topmost handler returns, or goes on as another.
LEMMA TopChanges ==
    ASSUME StackType, stack # <<>>
    PROVE  /\ stack' = Below => StackType'
           /\ \A f \in GoodFrame : stack' = Append(Below, f) => StackType'
<1>1. /\ Below \in Seq(GoodFrame)
      /\ Len(stack) \in Nat /\ Len(stack) >= 1 /\ Len(Below) = Len(stack) - 1
    BY TopAndBelow
<1>2. Len(stack) <= MaxDepth /\ MaxDepth \in Nat
    BY BoundsAssumption DEF StackType
<1>3. ASSUME stack' = Below PROVE StackType'
    BY <1>1, <1>2, <1>3 DEF StackType
<1>4. ASSUME NEW f \in GoodFrame, stack' = Append(Below, f) PROVE StackType'
    <2>1. stack' \in Seq(GoodFrame) /\ Len(stack') = Len(stack)
        BY <1>1, <1>4, AppendProperties
    <2> QED
        BY <1>2, <2>1 DEF StackType
<1> QED
    BY <1>3, <1>4

\* A handler is called.
LEMMA PushType ==
    ASSUME StackType, NEW f \in GoodFrame, Push(f) PROVE StackType'
<1>1. stack \in Seq(GoodFrame) /\ Len(stack) \in Nat
    BY LenProperties DEF StackType
<1>2. stack' \in Seq(GoodFrame) /\ Len(stack') = Len(stack) + 1
    BY <1>1, AppendProperties DEF Push
<1> QED
    BY <1>1, <1>2, BoundsAssumption DEF StackType, Push

\* The topmost handler goes on with a dialog or another step of the scan.
LEMMA ReplaceType ==
    ASSUME StackType, stack # <<>>, NEW op \in CommandOp \cup PumpOp \cup DialogOp, ReplaceTop(op),
           op \in AddOp => Top.op \in AddOp, op \in OpenOp => Top.op \in OpenOp
    PROVE  StackType'
<1>1. Top \in GoodFrame
    BY TopAndBelow
<1>2. [Top EXCEPT !.op = op] \in GoodFrame
    BY <1>1 DEF GoodFrame, Frame, AddOp, OpenOp
<1> QED
    BY <1>2, TopChanges DEF ReplaceTop

\* The startup devices are added when a handler is over, or on top of one.
LEMMA AddNextType ==
    ASSUME StackType, NEW todo \in SUBSET Asked
    PROVE  /\ stack # <<>> /\ AddNext(Below, todo) => StackType'
           /\ Len(stack) < MaxDepth /\ AddNext(stack, todo) => StackType'
<1>1. ASSUME stack # <<>>, AddNext(Below, todo) PROVE StackType'
    <2>1. CASE stack' = Below
        BY <1>1, <2>1, TopChanges
    <2>2. CASE \E r \in todo : stack' = Append(Below, [NewFrame("add") EXCEPT !.request = r, !.todo = todo \ {r}])
        BY <1>1, <2>2, TopChanges, AddFrames
    <2> QED
        BY <1>1, <2>1, <2>2 DEF AddNext
<1>2. ASSUME Len(stack) < MaxDepth, AddNext(stack, todo) PROVE StackType'
    <2>1. CASE stack' = stack
        BY <2>1 DEF StackType
    <2>2. CASE \E r \in todo : stack' = Append(stack, [NewFrame("add") EXCEPT !.request = r, !.todo = todo \ {r}])
        <3>1. PICK r \in todo : stack' = Append(stack, [NewFrame("add") EXCEPT !.request = r, !.todo = todo \ {r}])
            BY <2>2
        <3>2. [NewFrame("add") EXCEPT !.request = r, !.todo = todo \ {r}] \in GoodFrame
            BY AddFrames
        <3> QED
            BY <1>2, <3>1, <3>2, PushType DEF Push
    <2> QED
        BY <1>2, <2>1, <2>2 DEF AddNext
<1> QED
    BY <1>1, <1>2

\* The objects are finitely many.
LEMMA DrivesAreFinite == IsFiniteSet(Drives)
<1>1. 1 \in Int /\ MaxDrives \in Int
    BY BoundsAssumption
<1>2. IsFiniteSet(1 .. MaxDrives)
    BY <1>1, FS_Interval
<1> QED
    BY <1>2 DEF Drives

\* Icons are added, cleared, and one is removed.
LEMMA IconsStayTyped ==
    ASSUME IconType
    PROVE  /\ \A set \in SUBSET Drives : AddIcons(set) /\ selected' = selected => IconType'
           /\ ClearIcons => IconType'
           /\ RemoveIcon => IconType'
<1>1. ASSUME NEW set \in SUBSET Drives, AddIcons(set), selected' = selected PROVE IconType'
    <2>1. Cardinality(set) \in Nat
        BY DrivesAreFinite, FS_Subset, FS_CardinalityType
    <2> QED
        BY <1>1, <2>1 DEF IconType, AddIcons
<1>2. ASSUME ClearIcons PROVE IconType'
    BY <1>2 DEF IconType, ClearIcons
<1>3. ASSUME RemoveIcon PROVE IconType'
    BY <1>3 DEF IconType, RemoveIcon
<1> QED
    BY <1>1, <1>2, <1>3

\* A device that is read stays one, with its kind, its name and what was entered.
LEMMA ReadDevice ==
    ASSUME NEW o, GoodObject(o), NEW result \in Fetched(o)
    PROVE  /\ GoodObject(result.device)
           /\ result.device.kind = o.kind
           /\ o.kind # "none" => result.device.name = o.name /\ result.device.entered = o.entered
           /\ o.kind # "none" /\ o.type # "" => result.device.type = o.type
<1>1. PICK type \in TypesTried(o) : result.device = [o EXCEPT !.type = type]
    BY DEF Fetched
<1> DEFINE dev == [o EXCEPT !.type = type]
<1>2. result.device = dev /\ (type = o.type \/ (o.type = "" /\ type = "scsi"))
    BY <1>1 DEF TypesTried
<1>3. CASE o = noDevice
    <2>1. dev = noDevice
        BY <1>3 DEF noDevice
    <2> QED
        BY <1>2, <1>3, <2>1 DEF GoodObject, noDevice
<1>4. CASE o \in Device
    <2>1. type \in TypeArg
        BY <1>2, <1>4 DEF Device, TypeArg
    <2>2. /\ dev \in Device /\ dev.kind = o.kind /\ dev.name = o.name /\ dev.entered = o.entered
          /\ dev.type = type
        BY <1>2, <1>4, <2>1 DEF Device
    <2> QED
        BY <1>2, <1>4, <2>2 DEF GoodObject
<1> QED
    BY <1>3, <1>4 DEF GoodObject

\* What the user adds, and what the program finds, are devices.
LEMMA NewDevices ==
    /\ \A r \in Asked : /\ GoodObject(NewDevice("manual", r)) /\ NewDevice("manual", r) \in Device
                        /\ NewDevice("manual", r).kind = "manual"
                        /\ NewDevice("manual", r).entered = r[2] /\ NewDevice("manual", r).type = r[2]
    /\ GoodObject(NewDevice("virtual", <<"file", "">>)) /\ NewDevice("virtual", <<"file", "">>).kind = "virtual"
    /\ \A name \in Disk : /\ GoodObject(NewDevice("detected", <<name, "">>))
                          /\ NewDevice("detected", <<name, "">>).kind = "detected"
                          /\ NewDevice("detected", <<name, "">>).name = name
<1>1. ASSUME NEW r \in Asked
      PROVE  /\ GoodObject(NewDevice("manual", r)) /\ NewDevice("manual", r) \in Device
             /\ NewDevice("manual", r).kind = "manual"
             /\ NewDevice("manual", r).entered = r[2] /\ NewDevice("manual", r).type = r[2]
    <2>1. r[1] \in Manual /\ r[2] \in EnteredTypes /\ r[2] \in TypeArg
        BY <1>1, TypesAssumption DEF Asked
    <2> QED
        BY <2>1 DEF NewDevice, GoodObject, Device
<1>2. GoodObject(NewDevice("virtual", <<"file", "">>)) /\ NewDevice("virtual", <<"file", "">>).kind = "virtual"
    BY DEF NewDevice, GoodObject, Device, TypeArg
<1>3. ASSUME NEW name \in Disk
      PROVE  /\ GoodObject(NewDevice("detected", <<name, "">>))
             /\ NewDevice("detected", <<name, "">>).kind = "detected"
             /\ NewDevice("detected", <<name, "">>).name = name
    BY DEF NewDevice, GoodObject, Device, TypeArg
<1> QED
    BY <1>1, <1>2, <1>3

\* An object is replaced by a good one.
LEMMA ObjectsStayTyped ==
    ASSUME ObjectType, NEW d, NEW o, d \in Drives => GoodObject(o), object' = [object EXCEPT ![d] = o]
    PROVE  ObjectType'
<1>1. GoodObject(o) => o \in Device \cup {noDevice}
    BY DEF GoodObject
<1> HIDE DEF GoodObject
<1> QED
    BY <1>1 DEF ObjectType

\* A device joins the list, in place of an object that was not used.
LEMMA AddDriveType ==
    ASSUME ListType, NEW o, GoodObject(o), AddDrive(o)
    PROVE  ListType' /\ NewDrive \in Drives
<1>1. NewDrive \in Drives
    BY DEF AddDrive, NewDrive, Unused
<1>2. ObjectType'
    BY <1>1, ObjectsStayTyped DEF ListType, AddDrive
<1>3. IconType'
    <2>1. Cardinality({NewDrive}) = 1
        BY FS_Singleton
    <2> QED
        BY <1>1, <2>1 DEF ListType, IconType, AddDrive, AddIcons
<1> QED
    BY <1>1, <1>2, <1>3 DEF ListType, AddDrive

\* A detection lists objects nobody used, each with a device of its own.
LEMMA Detected ==
    ASSUME ObjectType, DetectReturns
    PROVE  \E new \in SUBSET Unused :
              /\ object' \in [Drives -> Device \cup {noDevice}]
              /\ \A d \in Drives : d \notin new => object'[d] = object[d]
              /\ \A d \in new : GoodObject(object'[d]) /\ object'[d].kind = "detected"
              /\ \A d, e \in new : object'[d].name = object'[e].name => d = e
              /\ drives' = drives \cup new
              /\ ListDrives(drives')
<1> DEFINE IdsOf(found) == {f \in [found -> Unused] : \A x, y \in found : f[x] = f[y] => x = y}
           NameOf(found, id, d) == CHOOSE x \in found : id[x] = d
           IdOf(found) == CHOOSE f \in IdsOf(found) : TRUE
<1>0. PICK found \in SUBSET Disk :
          /\ IdsOf(found) # {}
          /\ object' = [d \in Drives |->
                           IF d \in {IdOf(found)[x] : x \in found}
                           THEN NewDevice("detected", <<NameOf(found, IdOf(found), d), "">>)
                           ELSE object[d]]
          /\ drives' = drives \cup {IdOf(found)[x] : x \in found}
          /\ ListDrives(drives')
    BY Zenon DEF DetectReturns
<1> DEFINE id == IdOf(found)
<1>01. id \in IdsOf(found)
    BY <1>0
<1> HIDE DEF id
<1>1. /\ object' = [d \in Drives |->
                        IF d \in {id[x] : x \in found}
                        THEN NewDevice("detected", <<NameOf(found, id, d), "">>) ELSE object[d]]
      /\ drives' = drives \cup {id[x] : x \in found}
      /\ ListDrives(drives')
    BY <1>0 DEF id
<1> DEFINE new == {id[x] : x \in found}
           nameOf(d) == NameOf(found, id, d)
<1>2. id \in [found -> Unused] /\ \A x, y \in found : id[x] = id[y] => x = y
    BY <1>01
<1>3. new \subseteq Unused /\ Unused \subseteq Drives
    BY <1>2 DEF Unused
<1>4. ASSUME NEW d \in new PROVE nameOf(d) \in found /\ id[nameOf(d)] = d
    OBVIOUS
<1>5. ASSUME NEW d \in new
      PROVE  /\ GoodObject(object'[d]) /\ object'[d].kind = "detected"
             /\ object'[d].name = nameOf(d)
    <2>1. object'[d] = NewDevice("detected", <<nameOf(d), "">>)
        BY <1>1, <1>3, <1>5
    <2>2. nameOf(d) \in found /\ found \subseteq Disk
        BY <1>4, <1>5
    <2> HIDE DEF nameOf, new
    <2> QED
        BY <2>1, <2>2, NewDevices
<1>6. \A d \in Drives : d \notin new => object'[d] = object[d]
    BY <1>1
<1>8. \A d \in new : object'[d] \in Device \cup {noDevice}
    BY <1>5 DEF GoodObject
<1>9. object' \in [Drives -> Device \cup {noDevice}]
    <2> DEFINE Value(d) == IF d \in new THEN NewDevice("detected", <<nameOf(d), "">>) ELSE object[d]
    <2>1. object' = [d \in Drives |-> Value(d)]
        BY <1>1
    <2> HIDE DEF Value, new, Device, noDevice
    <2>2. \A d \in Drives : object'[d] \in Device \cup {noDevice}
        BY <1>6, <1>8 DEF ObjectType
    <2>3. \A d \in Drives : Value(d) \in Device \cup {noDevice}
        BY <2>1, <2>2
    <2> QED
        BY <2>1, <2>3
<1>10. \A d, e \in new : object'[d].name = object'[e].name => d = e
    BY <1>4, <1>5
<1> HIDE DEF new
<1> QED
    BY <1>1, <1>3, <1>5, <1>6, <1>9, <1>10 DEF new

\* What is left alone keeps its types.
LEMMA Untouched ==
    /\ StackType /\ stack' = stack => StackType'
    /\ ListType /\ UNCHANGED listVars => ListType'
    /\ RestType /\ UNCHANGED restVars => RestType'
    /\ ObjectType /\ object' = object => ObjectType'
    /\ IconType /\ UNCHANGED iconVars => IconType'
<1>1. StackType /\ stack' = stack => StackType'
    BY DEF StackType
<1>2. ObjectType /\ object' = object => ObjectType'
    BY DEF ObjectType
<1>3. IconType /\ UNCHANGED iconVars => IconType'
    BY DEF IconType, iconVars
<1>4. ListType /\ UNCHANGED listVars => ListType'
    BY <1>2, <1>3 DEF ListType, listVars
<1>5. RestType /\ UNCHANGED restVars => RestType'
    BY DEF RestType, restVars
<1> QED
    BY <1>1, <1>2, <1>3, <1>4, <1>5

\* The application quits.
LEMMA QuitTypes == ListType /\ RestType /\ Quit => ListType' /\ RestType'
<1> SUFFICES ASSUME ListType, RestType, Quit PROVE ListType' /\ RestType'
    OBVIOUS
<1>1. ListType'
    BY Untouched DEF Quit
<1>2. RestType'
    BY DEF Quit, RestType
<1> QED
    BY <1>1, <1>2

\* The selected drive is read again, on top of the stack or in place of a handler.
LEMMA ReadsAgain ==
    ASSUME StackType, ListType, RestType,
           \/ Len(stack) < MaxDepth /\ Reread(stack)
           \/ stack # <<>> /\ Reread(Below)
    PROVE  StackType' /\ ListType' /\ RestType'
<1> DEFINE f == [NewFrame("reread") EXCEPT !.drive = selected]
<1>1. ListType'
    BY Untouched DEF Reread
<1>2. RestType'
    BY DEF Reread, RestType
<1>3. selected # 0 => f \in GoodFrame
    BY DriveFrames DEF ListType, IconType
<1> HIDE DEF f
<1>4. CASE Len(stack) < MaxDepth /\ Reread(stack)
    <2>1. stack' = stack \/ (f \in GoodFrame /\ Push(f))
        BY <1>3, <1>4 DEF Reread, Push, f
    <2> QED
        BY <1>1, <1>2, <2>1, PushType, Untouched
<1>5. CASE stack # <<>> /\ Reread(Below)
    <2>1. stack' = Below \/ (f \in GoodFrame /\ stack' = Append(Below, f))
        BY <1>3, <1>5 DEF Reread, f
    <2> QED
        BY <1>1, <1>2, <1>5, <2>1, TopChanges
<1> QED
    BY <1>4, <1>5

\* The window of a drive.
LEMMA DetailsTypes ==
    ASSUME ListType, RestType, NEW below, NEW d \in Drives,
           ShowDetails(below, d) \/ ShowWindow(below, d)
    PROVE  ListType' /\ RestType' /\ (stack' = below \/ \E f \in GoodFrame : stack' = Append(below, f))
<1>1. [NewFrame("open") EXCEPT !.drive = d] \in GoodFrame
    BY DriveFrames
<1>2. NewFrame("dialog") \in GoodFrame
    BY NewFrames DEF DialogOp, AddOp, OpenOp
<1>3. CASE stack' = Append(below, [NewFrame("open") EXCEPT !.drive = d]) /\ UNCHANGED <<listVars, restVars>>
    BY <1>1, <1>3, Untouched
<1>4. CASE ShowWindow(below, d)
    <2>1. ListType'
        BY <1>4, Untouched DEF ShowWindow
    <2>2. RestType'
        BY <1>4 DEF ShowWindow, RestType
    <2> QED
        BY <1>2, <1>4, <2>1, <2>2 DEF ShowWindow
<1> QED
    BY <1>3, <1>4 DEF ShowDetails

\* What a click does keeps the types.
LEMMA ClickTypes == TypeInv /\ User => TypeInv'
<1> SUFFICES ASSUME StackType, ListType, RestType, User PROVE StackType' /\ ListType' /\ RestType'
    BY DEF TypeInv
<1> DEFINE Ops == CommandOp \cup PumpOp \cup DialogOp
<1>0. ASSUME NEW op \in {"dialog", "check", "askQuit"} PROVE NewFrame(op) \in GoodFrame
    <2>1. op \in Ops /\ op \notin AddOp \cup OpenOp
        BY DEF CommandOp, DialogOp, AddOp, OpenOp
    <2> QED
        BY <2>1, NewFrames
<1>1. ASSUME NEW name \in Manual, NEW type \in EnteredTypes, NEW auto \in BOOLEAN,
             ClickAdd(<<name, type>>, auto)
      PROVE  StackType' /\ ListType' /\ RestType'
    <2>1. <<name, type>> \in Asked
        BY DEF Asked
    <2>2. \E f \in GoodFrame : Push(f)
        BY <1>0, <1>1, <2>1, AddFrames DEF ClickAdd
    <2> QED
        BY <1>1, <2>2, PushType, Untouched DEF ClickAdd
<1>2. CASE ClickRemove \/ ClickRemoveVirtual
    <2>1. RemoveIcon /\ IconType /\ ObjectType
        BY <1>2 DEF ClickRemove, ClickRemoveVirtual, ListType
    <2>2. IconType' /\ ObjectType' /\ StackType'
        BY <2>1, IconsStayTyped, Untouched DEF RemoveIcon
    <2>3. ListType'
        BY <2>1, <2>2 DEF ListType, RemoveIcon
    <2>6. RestType'
        BY <1>2, <2>1 DEF RestType, ClickRemove, ClickRemoveVirtual, RemoveIcon
    <2> QED
        BY <2>2, <2>3, <2>6
<1>3. CASE LoadVirtual
    <2>1. RestType'
        BY <1>3, Untouched DEF LoadVirtual
    <2>2. CASE AddDrive(NewDevice("virtual", <<"file", "">>)) /\ UNCHANGED stack
        BY <2>1, <2>2, AddDriveType, NewDevices, Untouched
    <2>3. CASE Push(NewFrame("dialog")) /\ UNCHANGED listVars
        BY <2>1, <2>3, <1>0, PushType, Untouched
    <2> QED
        BY <1>3, <2>2, <2>3 DEF LoadVirtual
<1>4. CASE ClickRescan
    <2>1. startupDevices \in SUBSET Asked
        BY DEF RestType
    <2>2. CASE scanning
        BY <1>4, <2>1, <2>2, AddNextType, Untouched DEF ClickRescan
    <2>3. CASE ~scanning
        BY <1>0, <1>4, <2>3, PushType, Untouched DEF ClickRescan
    <2> QED
        BY <2>2, <2>3
<1>5. CASE PrefsUpdated
    <2>1. IconType /\ ObjectType
        BY DEF ListType
    <2>2. IconType' /\ ObjectType' /\ StackType' /\ RestType'
        BY <1>5, <2>1, IconsStayTyped, Untouched DEF PrefsUpdated
    <2> QED
        BY <1>5, <2>2 DEF PrefsUpdated, ListType
<1>6. ASSUME selected # 0 PROVE selected \in Drives
    BY <1>6 DEF ListType, IconType
<1>7. CASE ClickToggle
    <2>1. [NewFrame("toggle") EXCEPT !.drive = selected] \in GoodFrame
        BY <1>6, <1>7, DriveFrames DEF ClickToggle
    <2> QED
        BY <1>7, <2>1, PushType, Untouched DEF ClickToggle
<1>8. CASE ClickReread
    BY <1>8, ReadsAgain DEF ClickReread
<1>9. CASE ClickDetails
    <2>1. selected \in Drives /\ Len(stack) < MaxDepth
        BY <1>6, <1>9 DEF ClickDetails
    <2>2. [NewFrame("askEnable") EXCEPT !.drive = selected] \in GoodFrame
        BY <2>1, DriveFrames
    <2>3. CASE (\E f \in GoodFrame : Push(f)) /\ UNCHANGED <<listVars, restVars>>
        BY <2>3, PushType, Untouched
    <2>4. CASE ShowDetails(stack, selected)
        <3>1. ListType' /\ RestType' /\ (stack' = stack \/ \E f \in GoodFrame : Push(f))
            BY <2>1, <2>4, DetailsTypes DEF Push
        <3> QED
            BY <3>1, PushType, Untouched
    <2> QED
        BY <1>0, <1>9, <2>2, <2>3, <2>4 DEF ClickDetails
<1>10. CASE ClickQuit
    <2>1. CASE TestingActive
        BY <1>0, <1>10, <2>1, PushType, Untouched DEF ClickQuit
    <2>2. CASE ~TestingActive
        BY <1>10, <2>2, QuitTypes, Untouched DEF ClickQuit
    <2> QED
        BY <2>1, <2>2
<1>11. ASSUME NEW d \in Drives, Select(d) PROVE StackType' /\ ListType' /\ RestType'
    <2>1. StackType' /\ RestType'
        BY <1>11, Untouched DEF Select
    <2>2. ListType'
        BY <1>11 DEF Select, ListType, ObjectType, IconType
    <2> QED
        BY <2>1, <2>2
<1>12. ASSUME NEW d \in Drives, TestStarts(d) \/ WindowCloses(d) PROVE StackType' /\ ListType' /\ RestType'
    <2>1. StackType' /\ ListType'
        BY <1>12, Untouched DEF TestStarts, WindowCloses
    <2>2. RestType'
        BY <1>12 DEF TestStarts, WindowCloses, RestType
    <2> QED
        BY <2>1, <2>2
<1> QED
    BY <1>1, <1>2, <1>3, <1>4, <1>5, <1>7, <1>8, <1>9, <1>10, <1>11, <1>12 DEF User

\* A handler that goes on keeps the types.
LEMMA ResumeTypes == TypeInv /\ Resume => TypeInv'
<1> SUFFICES ASSUME StackType, ListType, RestType, Resume PROVE StackType' /\ ListType' /\ RestType'
    BY DEF TypeInv
<1> DEFINE Goal == StackType' /\ ListType' /\ RestType'
<1>0. stack # <<>> /\ startupDevices \in SUBSET Asked
    BY DEF Resume, Ready, StartCheckReturns, StartPumpReturns, StartErrorClosed, AddReturns,
           AddNewReturns, CheckReturns, PumpReturns, DetectReturns, DetectFails, FetchReturns,
           ToggleReturns, RereadReturns, EnableReturns, OpenReturns, AddErrorClosed,
           AskRescanAnswered, CheckErrorClosed, ScanErrorClosed, PermissionErrorClosed,
           ToggleErrorClosed, AskEnableAnswered, EnableErrorClosed, AskQuitAnswered, DialogClosed, RestType
<1>1. Top \in GoodFrame
    BY <1>0, TopAndBelow
<1>2. ASSUME NEW op \in {"startError", "askRescan", "startPump", "pump", "checkError", "detect",
                         "scanError", "permissionError", "toggleError", "dialog"},
             ReplaceTop(op)
      PROVE  StackType'
    <2>1. op \in CommandOp \cup PumpOp \cup DialogOp /\ op \notin AddOp \cup OpenOp
        BY DEF CommandOp, PumpOp, DialogOp, AddOp, OpenOp
    <2> QED
        BY <1>0, <1>2, <2>1, ReplaceType
<1>3. stack' = Below \/ AddNext(Below, startupDevices) => StackType'
    BY <1>0, TopChanges, AddNextType
<1>4. ObjectType /\ IconType /\ drives \subseteq Drives /\ scanning \in BOOLEAN
    BY DEF ListType
<1>5. ASSUME ClearIcons, UNCHANGED <<object, drives>>, scanning' \in BOOLEAN PROVE ListType'
    <2>1. IconType' /\ ObjectType'
        BY <1>4, <1>5, IconsStayTyped, Untouched
    <2> QED
        BY <1>4, <1>5, <2>1 DEF ListType
<1>6. ASSUME StartScan PROVE StackType' /\ ListType'
    <2>1. ListType'
        BY <1>5, <1>6 DEF StartScan
    <2> QED
        BY <1>2, <1>6, <2>1 DEF StartScan
<1>7. ASSUME SaveStartupDevice, Top.request \in Asked PROVE RestType'
    BY <1>7, AskedAreRequests DEF SaveStartupDevice, RestType
<1>8. Top.op \in AddOp => Top.request \in Asked
    BY <1>1 DEF GoodFrame
<1>9. ASSUME NEW r \in Asked, NEW result \in Fetched(NewDevice("manual", r)) PROVE GoodObject(result.device)
    BY <1>9, NewDevices, ReadDevice
<1>10. CASE StartCheckReturns
    <2>1. RestType'
        BY <1>10, Untouched DEF StartCheckReturns
    <2>2. CASE StartScan
        BY <1>6, <2>1, <2>2
    <2>3. CASE ClearIcons /\ ReplaceTop("startPump") /\ UNCHANGED <<object, drives, scanning>>
        BY <1>2, <1>4, <1>5, <2>1, <2>3
    <2>4. CASE (ReplaceTop("startError") \/ ReplaceTop("askRescan")) /\ UNCHANGED listVars
        BY <1>2, <2>1, <2>4, Untouched
    <2> QED
        BY <1>10, <2>2, <2>3, <2>4 DEF StartCheckReturns
<1>11. CASE StartPumpReturns
    BY <1>3, <1>11, Untouched DEF StartPumpReturns
<1>12. CASE StartErrorClosed
    BY <1>3, <1>4, <1>5, <1>12, Untouched DEF StartErrorClosed
<1>13. CASE AddReturns
    <2>1. Top.request \in Asked /\ Top.todo \in SUBSET Asked
        BY <1>1, <1>8, <1>13 DEF AddReturns, Ready, AddOp, GoodFrame
    <2>2. PICK result \in Fetched(NewDevice("manual", Top.request)) : AddDrive(result.device)
        BY <1>13 DEF AddReturns
    <2>3. ListType'
        BY <1>9, <2>1, <2>2, AddDriveType
    <2> QED
        BY <1>0, <1>13, <2>1, <2>3, AddNextType, Untouched DEF AddReturns
<1>14. CASE AddNewReturns
    <2>1. Top.op = "addNew" /\ Top.request \in Asked
        BY <1>8, <1>14 DEF AddNewReturns, Ready, AddOp
    <2>2. PICK result \in Fetched(NewDevice("manual", Top.request)) :
              IF result.ok
              THEN AddDrive(result.device) /\ SaveStartupDevice /\ stack' = Below
              ELSE ReplaceTop("addError") /\ UNCHANGED <<listVars, restVars>>
        BY <1>14 DEF AddNewReturns
    <2>3. CASE result.ok
        <3>1. ListType'
            BY <1>9, <2>1, <2>2, <2>3, AddDriveType
        <3> QED
            BY <1>3, <1>7, <2>1, <2>2, <2>3, <3>1
    <2>4. CASE ~result.ok
        <3>1. "addError" \in DialogOp /\ "addError" \notin OpenOp /\ Top.op \in AddOp
            BY <2>1 DEF DialogOp, AddOp, OpenOp
        <3>2. StackType'
            BY <1>0, <2>2, <2>4, <3>1, ReplaceType
        <3> QED
            BY <2>2, <2>4, <3>2, Untouched
    <2> QED
        BY <2>3, <2>4
<1>15. CASE AddErrorClosed
    <2>1. Top.request \in Asked
        BY <1>8, <1>15 DEF AddErrorClosed, Ready, AddOp
    <2> QED
        BY <1>3, <1>7, <1>15, <2>1, Untouched DEF AddErrorClosed
<1>16. CASE CheckReturns
    <2>1. RestType'
        BY <1>16, Untouched DEF CheckReturns
    <2>2. CASE StartScan
        BY <1>6, <2>1, <2>2
    <2>3. CASE (ReplaceTop("checkError") \/ ReplaceTop("askRescan")) /\ UNCHANGED listVars
        BY <1>2, <2>1, <2>3, Untouched
    <2> QED
        BY <1>16, <2>2, <2>3 DEF CheckReturns
<1>17. CASE AskRescanAnswered
    <2>1. RestType'
        BY <1>17, Untouched DEF AskRescanAnswered
    <2> QED
        BY <1>3, <1>6, <1>17, <2>1, Untouched DEF AskRescanAnswered
<1>18. CASE CheckErrorClosed
    BY <1>3, <1>18, Untouched DEF CheckErrorClosed
<1>19. CASE PumpReturns
    <2> DEFINE kept == {d \in Drives : icons[d] > 0 \/ d \in InUse}
    <2>1. object' = [d \in Drives |-> IF d \in kept THEN object[d] ELSE noDevice]
        BY <1>19 DEF PumpReturns
    <2> HIDE DEF kept
    <2>2. GoodObject(noDevice)
        BY DEF GoodObject, noDevice
    <2> HIDE DEF GoodObject
    <2>3. ObjectType'
        <3> DEFINE Value(d) == IF d \in kept THEN object[d] ELSE noDevice
        <3>1. \A d \in Drives : Value(d) \in Device \cup {noDevice} /\ GoodObject(Value(d))
            BY <1>4, <2>2 DEF ObjectType
        <3>2. object' = [d \in Drives |-> Value(d)]
            BY <2>1
        <3> HIDE DEF Value, noDevice, Device
        <3> QED
            BY <3>1, <3>2 DEF ObjectType
    <2>4. IconType' /\ RestType' /\ StackType'
        BY <1>2, <1>4, <1>19, Untouched DEF PumpReturns
    <2>5. drives' = {} /\ scanning' = scanning
        BY <1>19 DEF PumpReturns
    <2> QED
        BY <1>4, <2>3, <2>4, <2>5 DEF ListType
<1>20. ASSUME NEW list \in SUBSET Drives, ListDrives(list)
       PROVE  StackType' /\ RestType' /\ IconType' /\ scanning' \in BOOLEAN
    <2>1. PICK shown \in SUBSET list : AddIcons(shown) /\ selected' = selected
        BY <1>20 DEF ListDrives
    <2> QED
        BY <1>3, <1>4, <1>20, <2>1, IconsStayTyped, Untouched DEF ListDrives
<1>21. CASE DetectReturns
    <2>1. PICK new \in SUBSET Unused :
              /\ object' \in [Drives -> Device \cup {noDevice}]
              /\ \A d \in Drives : d \notin new => object'[d] = object[d]
              /\ \A d \in new : GoodObject(object'[d])
              /\ drives' = drives \cup new
              /\ ListDrives(drives')
        BY <1>4, <1>21, Detected
    <2> HIDE DEF GoodObject
    <2>2. ObjectType'
        BY <1>4, <2>1 DEF ObjectType
    <2>3. drives' \in SUBSET Drives
        BY <1>4, <2>1 DEF Unused
    <2> QED
        BY <1>20, <2>1, <2>2, <2>3 DEF ListType
<1>22. CASE ScanErrorClosed \/ PermissionErrorClosed
    <2>1. \E list \in SUBSET Drives : ListDrives(list)
        BY <1>4, <1>22 DEF ScanErrorClosed, PermissionErrorClosed
    <2>2. ObjectType' /\ drives' = drives
        BY <1>4, <1>22, Untouched DEF ScanErrorClosed, PermissionErrorClosed
    <2> QED
        BY <1>4, <1>20, <2>1, <2>2 DEF ListType
<1>23. ASSUME NEW left \in SUBSET Drives, NEW collected \in BOOLEAN, FetchNext(left, collected)
       PROVE  StackType'
    <2>1. CASE ReplaceTop("scanError") \/ ReplaceTop("permissionError")
        BY <1>2, <2>1
    <2>2. ASSUME NEW d \in left, NEW rest \in SUBSET left,
                 stack' = Append(Below, [NewFrame("fetch") EXCEPT !.drive = d, !.left = rest,
                                                                 !.flag = collected])
          PROVE  StackType'
        <3>1. d \in Drives /\ rest \in SUBSET Drives
            BY <2>2
        <3> QED
            BY <1>0, <2>2, <3>1, DriveFrames, TopChanges
    <2>3. \/ ReplaceTop("scanError") \/ ReplaceTop("permissionError")
          \/ \E d \in left, rest \in SUBSET left :
                stack' = Append(Below, [NewFrame("fetch") EXCEPT !.drive = d, !.left = rest,
                                                                 !.flag = collected])
        BY <1>23 DEF FetchNext
    <2> QED
        BY <2>1, <2>2, <2>3
<1>24. CASE DetectFails
    <2>1. FetchNext(drives, FALSE)
        BY <1>24 DEF DetectFails
    <2>2. StackType'
        BY <1>4, <1>23, <2>1
    <2> QED
        BY <1>24, <2>2, Untouched DEF DetectFails
<1>25. ASSUME NEW result \in Fetched(object[Top.drive]),
              object' = [object EXCEPT ![Top.drive] = result.device],
              UNCHANGED <<drives, iconVars, scanning>>
       PROVE  ListType'
    <2>1. Top.drive \in Drives => GoodObject(result.device)
        BY <1>4, ReadDevice DEF ObjectType
    <2>2. ObjectType'
        BY <1>4, <1>25, <2>1, ObjectsStayTyped
    <2>3. IconType'
        BY <1>4, <1>25, Untouched
    <2> QED
        BY <1>4, <1>25, <2>2, <2>3 DEF ListType
<1>26. CASE FetchReturns
    <2>1. PICK result \in Fetched(object[Top.drive]) :
              /\ object' = [object EXCEPT ![Top.drive] = result.device]
              /\ FetchNext(Top.left, Top.flag \/ ~result.ok)
        BY <1>26 DEF FetchReturns
    <2>2. Top.left \in SUBSET Drives
        BY <1>1 DEF GoodFrame, Frame
    <2>3. (Top.flag \/ ~result.ok) \in BOOLEAN
        OBVIOUS
    <2>4. StackType'
        BY <1>23, <2>1, <2>2, <2>3
    <2> QED
        BY <1>25, <1>26, <2>1, <2>4, Untouched DEF FetchReturns
<1>27. CASE RereadReturns
    <2>1. PICK result \in Fetched(object[Top.drive]) :
              /\ object' = [object EXCEPT ![Top.drive] = result.device]
              /\ IF result.ok THEN stack' = Below ELSE ReplaceTop("dialog")
        BY <1>27 DEF RereadReturns
    <2> QED
        BY <1>2, <1>3, <1>25, <1>27, <2>1, Untouched DEF RereadReturns
<1>28. CASE ToggleReturns
    <2>1. CASE Reread(Below)
        BY <1>0, <2>1, ReadsAgain
    <2>2. CASE ReplaceTop("toggleError") /\ UNCHANGED <<listVars, restVars>>
        BY <1>2, <2>2, Untouched
    <2> QED
        BY <1>28, <2>1, <2>2 DEF ToggleReturns
<1>29. CASE ToggleErrorClosed
    BY <1>0, <1>29, ReadsAgain DEF ToggleErrorClosed
<1>30. CASE OpenReturns \/ AskEnableAnswered \/ EnableReturns \/ EnableErrorClosed
    <2>1. Top.op \in OpenOp /\ Top.drive \in Drives
        BY <1>1, <1>30 DEF OpenReturns, AskEnableAnswered, EnableReturns, EnableErrorClosed, Ready,
                           OpenOp, GoodFrame, Frame
    <2>2. CASE ShowDetails(Below, Top.drive) \/ ShowWindow(Below, Top.drive)
        BY <1>0, <2>1, <2>2, DetailsTypes, TopChanges
    <2>3. ASSUME NEW op \in {"enable", "enableError"}, ReplaceTop(op) PROVE StackType'
        <3>1. op \in CommandOp \cup DialogOp /\ op \notin AddOp
            BY DEF CommandOp, DialogOp, AddOp
        <3> QED
            BY <1>0, <2>1, <2>3, <3>1, ReplaceType
    <2>4. CASE \E op \in {"dialog", "enable", "enableError"} :
                  ReplaceTop(op) /\ UNCHANGED <<listVars, restVars>>
        BY <1>2, <2>3, <2>4, Untouched
    <2> QED
        BY <1>30, <2>2, <2>4 DEF OpenReturns, AskEnableAnswered, EnableReturns, EnableErrorClosed
<1>31. CASE AskQuitAnswered
    BY <1>3, <1>31, QuitTypes, Untouched DEF AskQuitAnswered
<1>32. CASE DialogClosed
    BY <1>3, <1>32, Untouched DEF DialogClosed
<1> QED
    BY <1>10, <1>11, <1>12, <1>13, <1>14, <1>15, <1>16, <1>17, <1>18, <1>19, <1>21, <1>22, <1>24,
       <1>26, <1>27, <1>28, <1>29, <1>30, <1>31, <1>32 DEF Resume

\* The window starts well.
LEMMA TypeInit == Init => TypeInv
<1> SUFFICES ASSUME Init PROVE TypeInv
    OBVIOUS
<1>1. NewFrame("startCheck") \in GoodFrame
    BY NewFrames DEF CommandOp, AddOp, OpenOp
<1>2. StackType
    BY <1>1, BoundsAssumption DEF Init, StackType
<1>3. GoodObject(noDevice)
    BY DEF GoodObject, noDevice
<1>4. ObjectType
    BY <1>3 DEF Init, ObjectType
<1>5. IconType /\ drives \subseteq Drives /\ scanning \in BOOLEAN
    BY DEF Init, IconType
<1>6. RestType
    BY DEF Init, RestType, Asked
<1> QED
    BY <1>2, <1>4, <1>5, <1>6 DEF TypeInv, ListType

\* Every step keeps the types.
LEMMA TypeStep == TypeInv /\ [Next]_allVars => TypeInv'
<1> SUFFICES ASSUME StackType, ListType, RestType, [Next]_allVars PROVE TypeInv'
    BY DEF TypeInv
<1>1. CASE Resume \/ User
    BY <1>1, ResumeTypes, ClickTypes DEF TypeInv
<1>2. CASE EnterMainLoop \/ \E d \in Drives : TestEnds(d)
    <2>1. StackType' /\ ListType'
        BY <1>2, Untouched DEF EnterMainLoop, TestEnds
    <2>2. RestType'
        BY <1>2 DEF EnterMainLoop, TestEnds, RestType
    <2> QED
        BY <2>1, <2>2 DEF TypeInv
<1>3. CASE UNCHANGED allVars
    <2>1. UNCHANGED <<listVars, restVars, stack>>
        BY <1>3 DEF allVars
    <2> QED
        BY <2>1, Untouched DEF TypeInv
<1> QED
    BY <1>1, <1>2, <1>3 DEF Next

\* Every variable stays in its type, whatever nests.
THEOREM TypesHold == Spec => []TypeOK
<1>1. TypeInv => TypeOK
    <2> SUFFICES ASSUME TypeInv PROVE TypeOK
        OBVIOUS
    <2>1. stack \in Seq(Frame)
        BY DEF TypeInv, StackType, GoodFrame
    <2>2. startupDevices \subseteq Request
        BY AskedAreRequests DEF TypeInv, RestType
    <2> QED
        BY <2>1, <2>2 DEF TypeInv, StackType, ListType, ObjectType, IconType, RestType, TypeOK
<1> QED
    BY <1>1, TypeInit, TypeStep, PTL DEF Spec

-----------------------------------------------------------------------------
(* A user who waits until no command is running.                           *)

ShowInv == IconsAreListed /\ ShownOnce

\* During a scan no icon is shown, the list is empty once it is cleared, and nothing joins it,
\* so that no drive is read.
Fits(op) ==
    /\ op \in ScanOp => \A d \in Drives : icons[d] = 0
    /\ op \in ScanOp /\ op # "pump" => drives = {}
    /\ op \notin {"fetch", "permissionError"}

StackFits == Len(stack) <= 1 /\ (stack # <<>> => Fits(Top.op))

PatientInv == ShowInv /\ StackFits

\* Most handlers need nothing.
LEMMA OthersFit == \A op : op \notin ScanOp => Fits(op)'
BY DEF Fits, ScanOp

\* The only handler returns, or goes on.
LEMMA PatientReturns ==
    ASSUME StackType, StackFits, stack # <<>>
    PROVE  /\ stack' = Below => StackFits'
           /\ \A f \in GoodFrame : stack' = Append(Below, f) /\ Fits(f.op)' => StackFits'
           /\ \A op : ReplaceTop(op) /\ Fits(op)' => StackFits'
           /\ \A todo \in SUBSET Asked : AddNext(Below, todo) => StackFits'
<1>1. /\ Top \in GoodFrame /\ Below \in Seq(GoodFrame)
      /\ Len(stack) = 1 /\ Len(Below) = 0
    BY TopAndBelow DEF StackFits
<1>2. Below = <<>>
    BY <1>1, EmptySeq
<1>3. ASSUME stack' = Below PROVE StackFits'
    BY <1>2, <1>3 DEF StackFits
<1>4. ASSUME NEW f, stack' = Append(Below, f), Fits(f.op)' PROVE StackFits'
    <2>1. stack' = <<f>> /\ Len(stack') = 1 /\ stack'[Len(stack')] = f
        BY <1>2, <1>4
    <2>2. Top' = f
        BY <2>1 DEF Top
    <2> QED
        BY <1>4, <2>1, <2>2 DEF StackFits
<1>5. ASSUME NEW op, ReplaceTop(op), Fits(op)' PROVE StackFits'
    <2>1. [Top EXCEPT !.op = op].op = op
        BY <1>1 DEF GoodFrame, Frame
    <2> QED
        BY <1>4, <1>5, <2>1 DEF ReplaceTop
<1>6. ASSUME NEW todo \in SUBSET Asked, AddNext(Below, todo) PROVE StackFits'
    <2>1. ASSUME NEW r, stack' = Append(Below, [NewFrame("add") EXCEPT !.request = r, !.todo = todo \ {r}])
          PROVE  StackFits'
        <3> DEFINE f == [NewFrame("add") EXCEPT !.request = r, !.todo = todo \ {r}]
        <3>1. f.op = "add" /\ "add" \notin ScanOp
            BY DEF NewFrame, ScanOp
        <3> HIDE DEF f
        <3>2. Fits(f.op)'
            BY <3>1, OthersFit
        <3> QED
            BY <1>4, <2>1, <3>2 DEF f
    <2> QED
        BY <1>3, <1>6, <2>1 DEF AddNext
<1> QED
    BY <1>3, <1>4, <1>5, <1>6

\* The only handler is called.
LEMMA PatientCalls ==
    ASSUME stack = <<>>
    PROVE  /\ stack' = stack => StackFits'
           /\ \A f : stack' = Append(stack, f) /\ Fits(f.op)' => StackFits'
<1>1. ASSUME stack' = stack PROVE StackFits'
    BY <1>1 DEF StackFits
<1>2. ASSUME NEW f, stack' = Append(stack, f), Fits(f.op)' PROVE StackFits'
    <2>1. stack' = <<f>> /\ Len(stack') = 1 /\ stack'[Len(stack')] = f
        BY <1>2
    <2>2. Top' = f
        BY <2>1 DEF Top
    <2> QED
        BY <1>2, <2>1, <2>2 DEF StackFits
<1> QED
    BY <1>1, <1>2

\* No icons are all right.
LEMMA NoIcons == (\A d \in Drives : icons'[d] = 0) => ShowInv'
BY DEF ShowInv, IconsAreListed, ShownOnce

\* Nor does it harm to show fewer of the same drives.
LEMMA FewerIcons ==
    ASSUME IconType, ShowInv, drives' = drives,
           \A d \in Drives : icons'[d] = icons[d] \/ (icons'[d] \in Nat /\ icons'[d] < icons[d]),
           \A d \in Drives : object'[d].kind = "detected" =>
               object[d].kind = "detected" /\ object'[d].name = object[d].name
    PROVE  ShowInv'
<1>1. \A d \in Drives : icons[d] \in Nat
    BY DEF IconType
<1>2. \A d \in Drives : icons'[d] <= icons[d] /\ (icons'[d] > 0 => icons[d] > 0)
    BY <1>1
<1>3. IconsAreListed'
    BY <1>2 DEF ShowInv, IconsAreListed
<1>4. \A d \in Drives : icons'[d] <= 1
    BY <1>1, <1>2 DEF ShowInv, ShownOnce
<1>5. ShownOnce'
    BY <1>2, <1>4 DEF ShowInv, ShownOnce
<1> QED
    BY <1>3, <1>5 DEF ShowInv

\* An object that joins the list had no icon.
LEMMA AddedIsShownOnce ==
    ASSUME ListType, ShowInv, NEW o, o.kind # "detected", AddDrive(o)
    PROVE  ShowInv'
<1>1. NewDrive \in Drives /\ ~(icons[NewDrive] > 0)
    BY DEF AddDrive, NewDrive, Unused, Held
<1>2. \A d \in Drives : icons[d] \in Nat
    BY DEF ListType, IconType
<1>3. icons'[NewDrive] = 1 /\ \A d \in Drives : d # NewDrive => icons'[d] = icons[d]
    BY <1>1, <1>2 DEF AddDrive, AddIcons
<1>4. object'[NewDrive] = o /\ \A d \in Drives : d # NewDrive => object'[d] = object[d]
    BY <1>1 DEF AddDrive, ListType, ObjectType
<1>5. drives' = drives \cup {NewDrive}
    BY DEF AddDrive
<1> HIDE DEF NewDrive
<1>6. IconsAreListed'
    BY <1>3, <1>5 DEF ShowInv, IconsAreListed
<1>7. ShownOnce'
    BY <1>1, <1>3, <1>4 DEF ShowInv, ShownOnce
<1> QED
    BY <1>6, <1>7 DEF ShowInv

\* What the detection has found is shown once, where nothing was shown before.
LEMMA DetectedIsShownOnce ==
    ASSUME ListType, DetectReturns, drives = {}, \A d \in Drives : icons[d] = 0
    PROVE  ShowInv'
<1>1. ObjectType
    BY DEF ListType
<1>2. PICK new \in SUBSET Unused :
          /\ \A d, e \in new : object'[d].name = object'[e].name => d = e
          /\ drives' = drives \cup new
          /\ ListDrives(drives')
    BY <1>1, Detected
<1>3. PICK shown \in SUBSET drives' : \A d \in Drives : icons'[d] = IF d \in shown THEN 1 ELSE 0
    BY <1>2 DEF ListDrives, AddIcons
<1> QED
    BY <1>2, <1>3 DEF ShowInv, IconsAreListed, ShownOnce

\* Only when nothing runs does this user click.
LEMMA PatientClick ==
    ASSUME TypeInv, PatientInv, User, ~Hasty
    PROVE  PatientInv'
<1>1. stack = <<>>
    BY DEF User, UserActs, ClickAdd, ClickRemove, ClickRemoveVirtual, RemoveIcon, LoadVirtual,
           ClickRescan, PrefsUpdated, ClickToggle, ClickReread, ClickDetails, ClickQuit, Select,
           TestStarts, WindowCloses
<1>2. IconType /\ ListType /\ ShowInv
    BY DEF TypeInv, ListType, PatientInv
<1>3. ASSUME NEW op, op \notin ScanOp, NEW f, f.op = op,
             Push(f) \/ stack' = Append(stack, f)
      PROVE  StackFits'
    BY <1>1, <1>3, OthersFit, PatientCalls DEF Push
<1>4. {"dialog", "addNew", "add", "check", "toggle", "reread", "open", "askEnable", "askQuit"}
          \cap ScanOp = {}
    BY DEF ScanOp
<1>5. ASSUME NEW op \in {"dialog", "check", "askQuit"}, Push(NewFrame(op)) PROVE StackFits'
    <2>1. NewFrame(op).op = op
        BY DEF NewFrame
    <2> QED
        BY <1>3, <1>4, <1>5, <2>1
<1>6. ASSUME UNCHANGED listVars PROVE ShowInv'
    BY <1>2, <1>6 DEF ShowInv, IconsAreListed, ShownOnce, listVars, iconVars
<1>7. stack' = stack => StackFits'
    BY <1>1, PatientCalls
<1>9. ASSUME NEW name, NEW type, NEW auto, ClickAdd(<<name, type>>, auto) PROVE PatientInv'
    <2>1. CASE Push(NewFrame("dialog"))
        BY <1>5, <1>6, <1>9, <2>1 DEF ClickAdd, PatientInv
    <2>2. CASE Push([NewFrame("addNew") EXCEPT !.request = <<name, type>>, !.flag = auto])
        <3> DEFINE f == [NewFrame("addNew") EXCEPT !.request = <<name, type>>, !.flag = auto]
        <3>1. f.op = "addNew"
            BY DEF NewFrame
        <3> HIDE DEF f
        <3>2. StackFits'
            BY <1>3, <1>4, <2>2, <3>1 DEF f
        <3> QED
            BY <1>6, <1>9, <3>2 DEF ClickAdd, PatientInv
    <2> QED
        BY <1>9, <2>1, <2>2 DEF ClickAdd
<1>10. CASE ClickRemove \/ ClickRemoveVirtual
    <2>1. RemoveIcon
        BY <1>10 DEF ClickRemove, ClickRemoveVirtual
    <2>2. icons \in [Drives -> Nat] /\ selected \in Drives /\ icons[selected] > 0
        BY <1>2, <2>1 DEF RemoveIcon, IconType
    <2>3. /\ icons'[selected] \in Nat /\ icons'[selected] < icons[selected]
          /\ \A d \in Drives : d # selected => icons'[d] = icons[d]
        BY <2>1, <2>2 DEF RemoveIcon
    <2>4. ShowInv'
        BY <1>2, <2>1, <2>3, FewerIcons DEF RemoveIcon
    <2> QED
        BY <1>1, <1>7, <2>1, <2>4 DEF RemoveIcon, PatientInv
<1>11. CASE LoadVirtual
    <2>1. CASE AddDrive(NewDevice("virtual", <<"file", "">>)) /\ UNCHANGED stack
        BY <1>2, <1>7, <1>11, <2>1, AddedIsShownOnce, NewDevices DEF LoadVirtual, PatientInv
    <2>2. CASE Push(NewFrame("dialog")) /\ UNCHANGED listVars
        BY <1>5, <1>6, <1>11, <2>2 DEF LoadVirtual, PatientInv
    <2> QED
        BY <1>11, <2>1, <2>2 DEF LoadVirtual
<1>12. CASE ClickRescan
    <2>1. CASE stack' = stack \/ Push(NewFrame("check"))
        BY <1>5, <1>6, <1>7, <1>12, <2>1 DEF ClickRescan, PatientInv
    <2>2. ASSUME NEW r, NEW todo,
                 stack' = Append(stack, [NewFrame("add") EXCEPT !.request = r, !.todo = todo])
          PROVE  PatientInv'
        <3> DEFINE f == [NewFrame("add") EXCEPT !.request = r, !.todo = todo]
        <3>1. f.op = "add"
            BY DEF NewFrame
        <3> HIDE DEF f
        <3>2. StackFits'
            BY <1>3, <1>4, <2>2, <3>1 DEF f
        <3> QED
            BY <1>6, <1>12, <3>2 DEF ClickRescan, PatientInv
    <2> QED
        BY <1>12, <2>1, <2>2 DEF ClickRescan, AddNext
<1>13. CASE PrefsUpdated
    <2>1. ShowInv'
        BY <1>13, NoIcons DEF PrefsUpdated, ClearIcons
    <2> QED
        BY <1>7, <1>13, <2>1 DEF PrefsUpdated, PatientInv
<1>8. ASSUME NEW op \in {"toggle", "reread", "open", "askEnable"},
             stack' = Append(stack, [NewFrame(op) EXCEPT !.drive = selected]), UNCHANGED listVars
      PROVE  PatientInv'
    <2> DEFINE f == [NewFrame(op) EXCEPT !.drive = selected]
    <2>1. f.op = op
        BY DEF NewFrame
    <2> HIDE DEF f
    <2>2. StackFits'
        BY <1>3, <1>4, <1>8, <2>1 DEF f
    <2> QED
        BY <1>6, <1>8, <2>2 DEF PatientInv
<1>14. CASE ClickToggle
    BY <1>8, <1>14 DEF ClickToggle, Push
<1>15. CASE ClickReread
    <2>1. UNCHANGED listVars
        BY <1>15 DEF ClickReread, Reread
    <2> QED
        BY <1>6, <1>7, <1>8, <1>15, <2>1 DEF ClickReread, Reread, PatientInv
<1>16. CASE ClickDetails
    <2>1. UNCHANGED listVars
        BY <1>16 DEF ClickDetails, ShowDetails, ShowWindow
    <2>2. \/ stack' = stack \/ Push(NewFrame("dialog"))
          \/ \E op \in {"open", "askEnable"} :
                stack' = Append(stack, [NewFrame(op) EXCEPT !.drive = selected])
        BY <1>16 DEF ClickDetails, ShowDetails, ShowWindow, Push
    <2> QED
        BY <1>5, <1>6, <1>7, <1>8, <2>1, <2>2 DEF PatientInv
<1>17. CASE ClickQuit
    <2>1. CASE Push(NewFrame("askQuit")) /\ UNCHANGED <<listVars, restVars>>
        BY <1>5, <1>6, <2>1 DEF PatientInv
    <2>2. CASE Quit /\ UNCHANGED stack
        BY <1>6, <1>7, <2>2 DEF Quit, PatientInv
    <2> QED
        BY <1>17, <2>1, <2>2 DEF ClickQuit
<1>18. ASSUME NEW d \in Drives, Select(d) PROVE PatientInv'
    <2>1. ShowInv'
        BY <1>2, <1>18 DEF Select, ShowInv, IconsAreListed, ShownOnce
    <2> QED
        BY <1>7, <1>18, <2>1 DEF Select, PatientInv
<1>19. ASSUME NEW d \in Drives, TestStarts(d) \/ WindowCloses(d) PROVE PatientInv'
    BY <1>1, <1>6, <1>7, <1>19 DEF TestStarts, WindowCloses, PatientInv
<1> QED
    BY <1>9, <1>10, <1>11, <1>12, <1>13, <1>14, <1>15, <1>16, <1>17, <1>18, <1>19 DEF User

\* The only handler goes on.
LEMMA PatientResume ==
    ASSUME TypeInv, PatientInv, Resume
    PROVE  PatientInv'
<1>0. stack # <<>> /\ startupDevices \in SUBSET Asked
    BY DEF Resume, Ready, StartCheckReturns, StartPumpReturns, StartErrorClosed, AddReturns,
           AddNewReturns, CheckReturns, PumpReturns, DetectReturns, DetectFails, FetchReturns,
           ToggleReturns, RereadReturns, EnableReturns, OpenReturns, AddErrorClosed,
           AskRescanAnswered, CheckErrorClosed, ScanErrorClosed, PermissionErrorClosed,
           ToggleErrorClosed, AskEnableAnswered, EnableErrorClosed, AskQuitAnswered, DialogClosed, TypeInv, RestType
<1>1. /\ StackType /\ ListType /\ IconType /\ ObjectType /\ ShowInv
      /\ Top \in GoodFrame /\ Fits(Top.op)
    BY <1>0, TopAndBelow DEF TypeInv, ListType, PatientInv, StackFits
<1>2. ASSUME NEW op \in {"startError", "askRescan", "startPump", "checkError", "dialog", "addError",
                         "toggleError", "enable", "enableError"},
             ReplaceTop(op)
      PROVE  StackFits'
    <2>1. op \notin ScanOp
        BY DEF ScanOp
    <2> QED
        BY <1>0, <1>1, <1>2, <2>1, OthersFit, PatientReturns DEF PatientInv
<1>3. stack' = Below \/ AddNext(Below, startupDevices) => StackFits'
    BY <1>0, <1>1, PatientReturns DEF PatientInv
<1>4. ASSUME NEW op, ReplaceTop(op), Fits(op)' PROVE StackFits'
    BY <1>0, <1>1, <1>4, PatientReturns DEF PatientInv
<1>5. ASSUME UNCHANGED listVars PROVE ShowInv'
    BY <1>1, <1>5 DEF ShowInv, IconsAreListed, ShownOnce, listVars, iconVars
<1>7. ClearIcons => ShowInv'
    BY NoIcons DEF ClearIcons
<1>8. ASSUME StartScan PROVE ShowInv' /\ StackFits'
    <2>1. \A d \in Drives : icons'[d] = 0
        BY <1>8 DEF StartScan, ClearIcons
    <2>2. Fits("pump")'
        BY <2>1 DEF Fits
    <2> QED
        BY <1>4, <1>7, <1>8, <2>2 DEF StartScan
<1>9. ASSUME NEW result, ObjectType, result \in Fetched(object[Top.drive]),
             object' = [object EXCEPT ![Top.drive] = result.device], UNCHANGED <<drives, iconVars>>
      PROVE  ShowInv'
    <2>1. ASSUME NEW d \in Drives
          PROVE  /\ object'[d].kind = object[d].kind
                 /\ object[d].kind = "detected" => object'[d].name = object[d].name
        <3>1. CASE d = Top.drive
            <4>1. object'[d] = result.device /\ GoodObject(object[Top.drive])
                BY <1>9, <3>1 DEF ObjectType
            <4>2. /\ result.device.kind = object[Top.drive].kind
                  /\ object[Top.drive].kind # "none" => result.device.name = object[Top.drive].name
                BY <1>9, <4>1, ReadDevice
            <4> QED
                BY <3>1, <4>1, <4>2
        <3>2. CASE d # Top.drive
            BY <1>9, <3>2 DEF ObjectType
        <3> QED
            BY <3>1, <3>2
    <2> QED
        BY <1>1, <1>9, <2>1, FewerIcons DEF iconVars
<1>10. ASSUME NEW r \in Asked, NEW result \in Fetched(NewDevice("manual", r)), AddDrive(result.device)
       PROVE  ShowInv'
    <2>1. GoodObject(NewDevice("manual", r)) /\ NewDevice("manual", r).kind = "manual"
        BY NewDevices
    <2>2. result.device.kind = "manual"
        BY <1>10, <2>1, ReadDevice
    <2> QED
        BY <1>1, <1>10, <2>2, AddedIsShownOnce
<1>11. CASE StartCheckReturns
    <2>1. CASE StartScan
        BY <1>8, <1>11, <2>1 DEF StartCheckReturns, PatientInv
    <2>2. CASE ClearIcons /\ ReplaceTop("startPump")
        BY <1>2, <1>7, <1>11, <2>2 DEF StartCheckReturns, PatientInv
    <2>3. CASE (ReplaceTop("startError") \/ ReplaceTop("askRescan")) /\ UNCHANGED listVars
        BY <1>2, <1>5, <1>11, <2>3 DEF StartCheckReturns, PatientInv
    <2> QED
        BY <1>11, <2>1, <2>2, <2>3 DEF StartCheckReturns
<1>12. CASE StartPumpReturns \/ CheckErrorClosed \/ DialogClosed
    BY <1>3, <1>5, <1>12 DEF StartPumpReturns, CheckErrorClosed, DialogClosed, PatientInv
<1>13. CASE StartErrorClosed
    BY <1>3, <1>7, <1>13 DEF StartErrorClosed, PatientInv
<1>14. CASE AddReturns
    <2>1. Top.request \in Asked /\ Top.todo \in SUBSET Asked
        BY <1>1, <1>14 DEF AddReturns, Ready, AddOp, GoodFrame
    <2>2. ShowInv'
        BY <1>10, <1>14, <2>1 DEF AddReturns
    <2>3. StackFits'
        BY <1>0, <1>1, <1>14, <2>1, PatientReturns DEF AddReturns, PatientInv
    <2> QED
        BY <1>14, <2>2, <2>3 DEF AddReturns, PatientInv
<1>15. CASE AddNewReturns
    <2>1. Top.request \in Asked
        BY <1>1, <1>15 DEF AddNewReturns, Ready, AddOp, GoodFrame
    <2>2. PICK result \in Fetched(NewDevice("manual", Top.request)) :
              IF result.ok
              THEN AddDrive(result.device) /\ SaveStartupDevice /\ stack' = Below
              ELSE ReplaceTop("addError") /\ UNCHANGED <<listVars, restVars>>
        BY <1>15 DEF AddNewReturns
    <2>3. CASE result.ok
        BY <1>0, <1>3, <1>10, <2>1, <2>2, <2>3 DEF SaveStartupDevice, PatientInv
    <2>4. CASE ~result.ok
        BY <1>2, <1>5, <2>2, <2>4 DEF PatientInv
    <2> QED
        BY <2>3, <2>4
<1>16. CASE AddErrorClosed
    BY <1>0, <1>3, <1>5, <1>16 DEF AddErrorClosed, SaveStartupDevice, PatientInv
<1>17. CASE CheckReturns
    <2>1. CASE StartScan
        BY <1>8, <1>17, <2>1 DEF CheckReturns, PatientInv
    <2>2. CASE (ReplaceTop("checkError") \/ ReplaceTop("askRescan")) /\ UNCHANGED listVars
        BY <1>2, <1>5, <1>17, <2>2 DEF CheckReturns, PatientInv
    <2> QED
        BY <1>17, <2>1, <2>2 DEF CheckReturns
<1>18. CASE AskRescanAnswered
    BY <1>3, <1>5, <1>8, <1>18 DEF AskRescanAnswered, PatientInv
<1>19. CASE PumpReturns
    <2>1. \A d \in Drives : icons'[d] = 0
        BY <1>1, <1>19 DEF PumpReturns, Ready, Fits, ScanOp, iconVars
    <2>2. Fits("detect")'
        BY <1>19, <2>1 DEF Fits, PumpReturns
    <2> QED
        BY <1>4, <1>19, <2>1, <2>2, NoIcons DEF PumpReturns, PatientInv
<1>20. CASE DetectReturns
    <2>1. drives = {} /\ \A d \in Drives : icons[d] = 0
        BY <1>1, <1>20 DEF DetectReturns, Ready, Fits, ScanOp
    <2>2. ShowInv'
        BY <1>1, <1>20, <2>1, DetectedIsShownOnce
    <2>3. AddNext(Below, startupDevices) /\ UNCHANGED restVars
        BY <1>20 DEF DetectReturns, ListDrives
    <2> QED
        BY <1>3, <2>2, <2>3 DEF PatientInv
<1>21. CASE DetectFails
    <2>1. drives = {} /\ \A d \in Drives : icons[d] = 0
        BY <1>1, <1>21 DEF DetectFails, Ready, Fits, ScanOp
    <2>2. ReplaceTop("scanError")
        BY <1>21, <2>1 DEF DetectFails, FetchNext
    <2>3. Fits("scanError")'
        BY <1>21, <2>1 DEF Fits, DetectFails, listVars, iconVars
    <2> QED
        BY <1>4, <1>5, <1>21, <2>2, <2>3 DEF DetectFails, PatientInv
<1>22. ~FetchReturns /\ ~PermissionErrorClosed
    BY <1>1 DEF FetchReturns, PermissionErrorClosed, Ready, Fits
<1>23. CASE ScanErrorClosed
    <2>1. \A d \in Drives : icons[d] = 0
        BY <1>1, <1>23 DEF ScanErrorClosed, Ready, Fits, ScanOp
    <2>2. \A d \in Drives : icons'[d] = 0
        BY <1>23, <2>1 DEF ScanErrorClosed, ListDrives, AddIcons
    <2> QED
        BY <1>3, <1>23, <2>2, NoIcons DEF ScanErrorClosed, ListDrives, PatientInv
<1>24. ASSUME NEW f \in GoodFrame, f.op \in {"reread", "open", "dialog"},
              stack' = Append(Below, f)
       PROVE  StackFits'
    <2>1. {"reread", "open", "dialog"} \cap ScanOp = {}
        BY DEF ScanOp
    <2>2. Fits(f.op)'
        BY <1>24, <2>1, OthersFit
    <2> QED
        BY <1>0, <1>1, <1>24, <2>2, PatientReturns DEF PatientInv
<1>25. ASSUME Reread(Below) PROVE PatientInv'
    <2>1. UNCHANGED listVars
        BY <1>25 DEF Reread
    <2>2. CASE stack' = Below
        BY <1>3, <1>5, <2>1, <2>2 DEF PatientInv
    <2>3. CASE selected # 0 /\ stack' = Append(Below, [NewFrame("reread") EXCEPT !.drive = selected])
        <3>1. [NewFrame("reread") EXCEPT !.drive = selected] \in GoodFrame
            BY <1>1, <2>3, DriveFrames DEF IconType
        <3>2. [NewFrame("reread") EXCEPT !.drive = selected].op = "reread"
            BY DEF NewFrame
        <3> QED
            BY <1>5, <1>24, <2>1, <2>3, <3>1, <3>2 DEF PatientInv
    <2> QED
        BY <1>25, <2>2, <2>3 DEF Reread
<1>26. CASE ToggleReturns \/ ToggleErrorClosed
    BY <1>2, <1>5, <1>25, <1>26 DEF ToggleReturns, ToggleErrorClosed, PatientInv
<1>27. CASE RereadReturns
    <2>1. PICK result \in Fetched(object[Top.drive]) :
              /\ object' = [object EXCEPT ![Top.drive] = result.device]
              /\ IF result.ok THEN stack' = Below ELSE ReplaceTop("dialog")
        BY <1>27 DEF RereadReturns
    <2>2. ShowInv'
        BY <1>1, <1>9, <1>27, <2>1 DEF RereadReturns
    <2> QED
        BY <1>2, <1>3, <1>27, <2>1, <2>2 DEF RereadReturns, PatientInv
<1>28. CASE OpenReturns \/ AskEnableAnswered \/ EnableReturns \/ EnableErrorClosed
    <2>1. Top.drive \in Drives
        BY <1>1, <1>28 DEF OpenReturns, AskEnableAnswered, EnableReturns, EnableErrorClosed, Ready,
                           OpenOp, GoodFrame, Frame
    <2>2. CASE ShowDetails(Below, Top.drive) \/ ShowWindow(Below, Top.drive)
        <3>1. UNCHANGED listVars
            BY <2>2 DEF ShowDetails, ShowWindow
        <3>2. [NewFrame("open") EXCEPT !.drive = Top.drive] \in GoodFrame
            BY <2>1, DriveFrames
        <3>3. NewFrame("dialog") \in GoodFrame
            BY NewFrames DEF DialogOp, AddOp, OpenOp
        <3>4. [NewFrame("open") EXCEPT !.drive = Top.drive].op = "open" /\ NewFrame("dialog").op = "dialog"
            BY DEF NewFrame
        <3>5. \/ stack' = Below \/ stack' = Append(Below, NewFrame("dialog"))
              \/ stack' = Append(Below, [NewFrame("open") EXCEPT !.drive = Top.drive])
            BY <2>2 DEF ShowDetails, ShowWindow
        <3>6. StackFits'
            BY <1>3, <1>24, <3>2, <3>3, <3>4, <3>5
        <3> QED
            BY <1>5, <3>1, <3>6 DEF PatientInv
    <2>3. CASE \E op \in {"dialog", "enable", "enableError"} :
                  ReplaceTop(op) /\ UNCHANGED <<listVars, restVars>>
        BY <1>2, <1>5, <2>3 DEF PatientInv
    <2> QED
        BY <1>28, <2>2, <2>3 DEF OpenReturns, AskEnableAnswered, EnableReturns, EnableErrorClosed
<1>29. CASE AskQuitAnswered
    <2>1. UNCHANGED listVars
        BY <1>29 DEF AskQuitAnswered, Quit
    <2> QED
        BY <1>3, <1>5, <1>29, <2>1 DEF AskQuitAnswered, PatientInv
<1> QED
    BY <1>11, <1>12, <1>13, <1>14, <1>15, <1>16, <1>17, <1>18, <1>19, <1>20, <1>21, <1>22, <1>23,
       <1>26, <1>27, <1>28, <1>29 DEF Resume

\* Every step of a patient user's program keeps the invariant.
LEMMA PatientStep == TypeInv /\ PatientInv /\ ~Hasty /\ [Next]_allVars => PatientInv'
<1> SUFFICES ASSUME TypeInv, PatientInv, ~Hasty, [Next]_allVars PROVE PatientInv'
    OBVIOUS
<1>1. CASE Resume
    BY <1>1, PatientResume
<1>2. CASE User
    BY <1>2, PatientClick
<1>3. CASE EnterMainLoop \/ (\E d \in Drives : TestEnds(d)) \/ UNCHANGED allVars
    <2>1. UNCHANGED <<listVars, stack>>
        BY <1>3 DEF EnterMainLoop, TestEnds, allVars
    <2> QED
        BY <2>1 DEF PatientInv, ShowInv, IconsAreListed, ShownOnce, StackFits, Fits, Top, listVars,
                    iconVars
<1> QED
    BY <1>1, <1>2, <1>3 DEF Next

LEMMA PatientInit == Init => PatientInv
<1> SUFFICES ASSUME Init PROVE PatientInv
    OBVIOUS
<1>1. ShowInv
    BY DEF Init, ShowInv, IconsAreListed, ShownOnce
<1>2. Len(stack) = 1 /\ Top = NewFrame("startCheck")
    BY DEF Init, Top
<1>3. Fits("startCheck")
    BY DEF Fits, ScanOp
<1> QED
    BY <1>1, <1>2, <1>3 DEF PatientInv, StackFits, NewFrame

\* While the user waits for commands, the invariant holds.
LEMMA PatientHolds == ASSUME ~Hasty PROVE Spec => []PatientInv
<1>1. TypeInv /\ PatientInv /\ [Next]_allVars => PatientInv'
    BY PatientStep
<1> QED
    BY <1>1, TypeInit, TypeStep, PatientInit, PTL DEF Spec

\* Every icon shows a drive of the list while the user waits for commands.
THEOREM IconsStayListed == ASSUME ~Hasty PROVE Spec => []IconsAreListed
<1>1. PatientInv => IconsAreListed
    BY DEF PatientInv, ShowInv
<1> QED
    BY <1>1, PatientHolds, PTL

\* So is every drive shown once, whatever scans find and however often.
THEOREM DrivesAreShownOnce == ASSUME ~Hasty PROVE Spec => []ShownOnce
<1>1. PatientInv => ShownOnce
    BY DEF PatientInv, ShowInv
<1> QED
    BY <1>1, PatientHolds, PTL

-----------------------------------------------------------------------------
(* Devices that are removed, whatever nests.                               *)

\* Where the user gives a type, no fetch changes it.
KeepsEntered(o) == o.kind = "manual" /\ o.entered # "" => o.type = o.entered

RemovalInv == \A d \in Drives : KeepsEntered(object[d])

\* An object that is added by hand, or read, keeps what was entered.
LEMMA ReadingKeepsEntered ==
    ASSUME NEW o, GoodObject(o), KeepsEntered(o), NEW result \in Fetched(o)
    PROVE  KeepsEntered(result.device)
<1>1. CASE o.kind = "manual" /\ o.entered # ""
    <2>1. o.type # ""
        BY <1>1 DEF KeepsEntered
    <2>2. result.device.type = o.type /\ result.device.entered = o.entered
        BY <1>1, <2>1, ReadDevice
    <2> QED
        BY <1>1, <2>2 DEF KeepsEntered
<1>2. CASE ~(o.kind = "manual" /\ o.entered # "")
    <2>1. result.device.kind = o.kind /\ (o.kind = "manual" => result.device.entered = o.entered)
        BY ReadDevice
    <2> QED
        BY <1>2, <2>1 DEF KeepsEntered
<1> QED
    BY <1>1, <1>2

\* What happens to the objects keeps them so.
LEMMA ObjectsKeepEntered ==
    ASSUME TypeInv, RemovalInv
    PROVE  /\ object' = object => \A d \in Drives : KeepsEntered(object'[d])
           /\ \A o : AddDrive(o) /\ KeepsEntered(o) => \A d \in Drives : KeepsEntered(object'[d])
           /\ \A r \in Asked : \A result \in Fetched(NewDevice("manual", r)) : KeepsEntered(result.device)
           /\ \A result \in Fetched(object[Top.drive]) :
                 object' = [object EXCEPT ![Top.drive] = result.device]
                     => \A d \in Drives : KeepsEntered(object'[d])
<1>1. ObjectType /\ \A d \in Drives : GoodObject(object[d])
    BY DEF TypeInv, ListType, ObjectType
<1>2. ASSUME NEW o, NEW i, object' = [object EXCEPT ![i] = o], i \in Drives => KeepsEntered(o)
      PROVE  \A d \in Drives : KeepsEntered(object'[d])
    <2> HIDE DEF KeepsEntered
    <2> QED
        BY <1>1, <1>2 DEF ObjectType, RemovalInv
<1>3. ASSUME NEW o, AddDrive(o), KeepsEntered(o) PROVE \A d \in Drives : KeepsEntered(object'[d])
    BY <1>2, <1>3 DEF AddDrive
<1>4. ASSUME NEW r \in Asked, NEW result \in Fetched(NewDevice("manual", r))
      PROVE  KeepsEntered(result.device)
    <2> DEFINE o == NewDevice("manual", r)
    <2>1. GoodObject(o) /\ o.entered = r[2] /\ o.type = r[2]
        BY Zenon, NewDevices
    <2> HIDE DEF o
    <2>2. KeepsEntered(o)
        BY <2>1 DEF KeepsEntered
    <2> QED
        BY <1>4, <2>1, <2>2, ReadingKeepsEntered DEF o
<1>5. ASSUME NEW result \in Fetched(object[Top.drive]),
             object' = [object EXCEPT ![Top.drive] = result.device]
      PROVE  \A d \in Drives : KeepsEntered(object'[d])
    <2>1. Top.drive \in Drives => KeepsEntered(result.device)
        BY <1>1, <1>5, ReadingKeepsEntered DEF RemovalInv
    <2> QED
        BY <1>2, <1>5, <2>1
<1>6. object' = object => \A d \in Drives : KeepsEntered(object'[d])
    BY DEF RemovalInv
<1> QED
    BY <1>3, <1>4, <1>5, <1>6

\* A click leaves the objects alone, or adds one.
LEMMA RemovalClick ==
    ASSUME TypeInv, RemovalInv, User
    PROVE  RemovalInv'
<1>1. CASE object' = object
    BY <1>1 DEF RemovalInv
<1>2. CASE ClickRemove \/ ClickRemoveVirtual
    BY <1>1, <1>2 DEF ClickRemove, ClickRemoveVirtual, RemoveIcon
<1>3. CASE LoadVirtual
    <2>1. KeepsEntered(NewDevice("virtual", <<"file", "">>))
        BY NewDevices DEF KeepsEntered
    <2>2. CASE AddDrive(NewDevice("virtual", <<"file", "">>))
        BY <2>1, <2>2, ObjectsKeepEntered DEF RemovalInv
    <2> QED
        BY <1>1, <1>3, <2>2 DEF LoadVirtual, listVars
<1>4. ASSUME NEW name, NEW type, NEW auto, ClickAdd(<<name, type>>, auto) PROVE RemovalInv'
    BY <1>1, <1>4 DEF ClickAdd, listVars
<1>5. CASE ClickRescan \/ PrefsUpdated \/ ClickToggle \/ ClickDetails
    BY <1>1, <1>5 DEF ClickRescan, PrefsUpdated, ClickToggle, ClickDetails, ShowDetails, ShowWindow,
                      listVars
<1>6. CASE ClickReread \/ ClickQuit
    BY <1>1, <1>6 DEF ClickReread, Reread, ClickQuit, Quit, listVars
<1>7. ASSUME NEW d \in Drives, Select(d) \/ TestStarts(d) \/ WindowCloses(d) PROVE RemovalInv'
    BY <1>1, <1>7 DEF Select, TestStarts, WindowCloses, listVars
<1> QED
    BY <1>2, <1>3, <1>4, <1>5, <1>6, <1>7 DEF User

\* A handler that goes on adds objects that keep it, reads them, or drops them.
LEMMA RemovalResume ==
    ASSUME TypeInv, RemovalInv, Resume
    PROVE  RemovalInv'
<1> DEFINE Kept == \A d \in Drives : KeepsEntered(object'[d])
<1>0. stack # <<>> => Top \in GoodFrame
    BY TopAndBelow DEF TypeInv
<1>1. object' = object => Kept
    BY DEF RemovalInv
<1>5. CASE AddReturns
    <2>1. Top.request \in Asked
        BY <1>0, <1>5 DEF AddReturns, Ready, AddOp, GoodFrame
    <2> QED
        BY <1>5, <2>1, ObjectsKeepEntered DEF AddReturns, RemovalInv
<1>6. CASE AddNewReturns
    <2>1. Top.request \in Asked
        BY <1>0, <1>6 DEF AddNewReturns, Ready, AddOp, GoodFrame
    <2>2. PICK result \in Fetched(NewDevice("manual", Top.request)) :
              IF result.ok
              THEN AddDrive(result.device) /\ SaveStartupDevice /\ stack' = Below
              ELSE ReplaceTop("addError") /\ UNCHANGED <<listVars, restVars>>
        BY <1>6 DEF AddNewReturns
    <2>3. CASE result.ok
        BY <2>1, <2>2, <2>3, ObjectsKeepEntered DEF RemovalInv
    <2>4. CASE ~result.ok
        BY <1>1, <2>2, <2>4 DEF listVars, RemovalInv
    <2> QED
        BY <2>3, <2>4
<1>7. CASE AddErrorClosed
    BY <1>1, <1>7 DEF AddErrorClosed, listVars, RemovalInv
<1>8. CASE PumpReturns
    <2>1. \A d \in Drives : object'[d] = object[d] \/ object'[d] = noDevice
        BY <1>8 DEF PumpReturns
    <2>2. KeepsEntered(noDevice)
        BY DEF KeepsEntered, noDevice
    <2> QED
        BY <2>1, <2>2 DEF RemovalInv
<1>9. CASE DetectReturns
    <2>1. PICK new \in SUBSET Unused :
              /\ \A d \in Drives : d \notin new => object'[d] = object[d]
              /\ \A d \in new : object'[d].kind = "detected"
        BY <1>9, Detected DEF TypeInv, ListType
    <2> QED
        BY <2>1 DEF KeepsEntered, RemovalInv
<1>10. CASE FetchReturns \/ RereadReturns
    BY <1>10, ObjectsKeepEntered DEF FetchReturns, RereadReturns, RemovalInv
<1>11. CASE \/ StartCheckReturns \/ StartPumpReturns \/ StartErrorClosed \/ CheckReturns
             \/ DetectFails \/ AskRescanAnswered \/ CheckErrorClosed
    BY <1>1, <1>11 DEF StartCheckReturns, StartPumpReturns, StartErrorClosed, CheckReturns,
                       DetectFails, AskRescanAnswered, CheckErrorClosed, StartScan, listVars,
                       RemovalInv
<1>12. CASE \/ OpenReturns \/ AskEnableAnswered \/ EnableReturns \/ EnableErrorClosed
            \/ ScanErrorClosed \/ PermissionErrorClosed
    BY <1>1, <1>12 DEF OpenReturns, AskEnableAnswered, EnableReturns, EnableErrorClosed,
                       ShowDetails, ShowWindow, ScanErrorClosed, PermissionErrorClosed, listVars,
                       RemovalInv
<1>13. CASE ToggleReturns \/ ToggleErrorClosed \/ AskQuitAnswered \/ DialogClosed
    BY <1>1, <1>13 DEF ToggleReturns, ToggleErrorClosed, Reread, AskQuitAnswered, Quit,
                       DialogClosed, listVars, RemovalInv
<1> QED
    BY <1>5, <1>6, <1>7, <1>8, <1>9, <1>10, <1>11, <1>12, <1>13 DEF Resume

\* A startup device that was entered with a type is forgotten when the user removes it,
\* however the handlers nest and whatever fetches have made of its object before.
THEOREM RemovedStaysForgotten == Spec => TypedIsForgotten
<1>1. Init => RemovalInv
    <2> SUFFICES ASSUME Init PROVE RemovalInv
        OBVIOUS
    <2>1. KeepsEntered(noDevice)
        BY DEF KeepsEntered, noDevice
    <2> QED
        BY <2>1 DEF Init, RemovalInv
<1>2. TypeInv /\ RemovalInv /\ [Next]_allVars => RemovalInv'
    <2> SUFFICES ASSUME TypeInv, RemovalInv, [Next]_allVars PROVE RemovalInv'
        OBVIOUS
    <2>1. CASE EnterMainLoop \/ (\E d \in Drives : TestEnds(d)) \/ UNCHANGED allVars
        <3>1. object' = object
            BY <2>1 DEF EnterMainLoop, TestEnds, allVars, listVars
        <3> QED
            BY <3>1 DEF RemovalInv
    <2> QED
        BY <2>1, RemovalClick, RemovalResume DEF Next
<1>3. ASSUME TypeInv, RemovalInv, ClickRemove, object[selected].entered # ""
      PROVE  EntryOf(selected) \notin startupDevices'
    <2>1. selected \in Drives /\ object[selected].kind = "manual"
        BY <1>3 DEF ClickRemove, RemoveIcon, TypeInv, ListType, IconType
    <2>2. object[selected].type = object[selected].entered
        BY <1>3, <2>1 DEF RemovalInv, KeepsEntered
    <2> QED
        BY <1>3, <2>2 DEF ClickRemove, EntryOf
<1>4. Spec => [](TypeInv /\ RemovalInv)
    BY <1>1, <1>2, TypeInit, TypeStep, PTL DEF Spec
<1>5. TypeInv /\ RemovalInv =>
          [ClickRemove /\ object[selected].entered # ""
               => EntryOf(selected) \notin startupDevices']_allVars
    BY <1>3
<1> QED
    BY <1>4, <1>5, PTL DEF TypedIsForgotten
=============================================================================
