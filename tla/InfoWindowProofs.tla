-------------------------- MODULE InfoWindowProofs --------------------------
(***************************************************************************)
(* Proofs about InfoWindow, for any windows on the drive, any number of    *)
(* tests and any depth of nesting.  With any user: every variable keeps    *)
(* its type, and a Stop button that works has a callback behind it.  With  *)
(* a patient one: the windows run tests one after another, read no data    *)
(* while one runs, and nothing of a closed window goes on.                 *)
(***************************************************************************)
EXTENDS InfoWindow, FiniteSetTheorems, SequenceTheorems, TLAPS

FrameType(n) == [win : Window, op : Op, test : 0 .. n, reply : Reply]

DriveType == [testing : BOOLEAN, last : Status \ {"InProgress"}]

-----------------------------------------------------------------------------
(* Commands and the stack.                                                 *)

\* The handlers that run a command, and all handlers.
LEMMA Ops ==
    /\ DOMAIN CommandOf = {"start", "poll", "pollAbort", "pollAbortUpdate", "stop",
                           "stopUpdate", "refresh", "refill", "open"}
    /\ Op = {"start", "poll", "pollAbort", "pollAbortUpdate", "stop", "stopUpdate", "refresh",
             "refill", "open", "dialog", "refreshDialog"}
    /\ \A op \in DOMAIN CommandOf : CommandOf[op] \in Command
<1>1. DOMAIN CommandOf = {"start", "poll", "pollAbort", "pollAbortUpdate", "stop",
                          "stopUpdate", "refresh", "refill", "open"}
    BY DEF CommandOf
<1>2. /\ CommandOf["start"] \in Command /\ CommandOf["poll"] \in Command
      /\ CommandOf["pollAbort"] \in Command /\ CommandOf["pollAbortUpdate"] \in Command
      /\ CommandOf["stop"] \in Command /\ CommandOf["stopUpdate"] \in Command
      /\ CommandOf["refresh"] \in Command /\ CommandOf["refill"] \in Command
      /\ CommandOf["open"] \in Command
    BY DEF CommandOf, Command
<1>3. \A op \in DOMAIN CommandOf : CommandOf[op] \in Command
    BY <1>1, <1>2
<1> QED
    BY <1>1, <1>3 DEF Op, DialogOp

\* What a command replies is a reply, and leaves a drive.
LEMMA RepliesType ==
    ASSUME drive \in DriveType, NEW cmd \in Command, NEW r \in Replies(cmd)
    PROVE  r.reply \in Reply \ {"none"} /\ r.drive \in DriveType
<1>1. Executed(cmd).reply \in Reply \ {"none"} /\ Executed(cmd).drive \in DriveType
    <2>1. CASE cmd = "--test"
        <3>1. Executed(cmd) = [reply |-> IF drive.testing THEN "busy" ELSE "begun",
                               drive |-> [drive EXCEPT !.testing = TRUE]]
            BY <2>1 DEF Executed
        <3>2. [drive EXCEPT !.testing = TRUE] \in DriveType
            BY DEF DriveType
        <3> QED
            BY <3>1, <3>2 DEF Reply
    <2>2. CASE cmd = "--abort"
        <3>1. Executed(cmd) = [reply |-> "aborted",
                               drive |-> IF drive.testing
                                         THEN [testing |-> FALSE, last |-> "ManuallyAborted"]
                                         ELSE drive]
            BY <2>2 DEF Executed
        <3>2. [testing |-> FALSE, last |-> "ManuallyAborted"] \in DriveType
            BY DEF DriveType, Status
        <3> QED
            BY <3>1, <3>2 DEF Reply
    <2>3. CASE cmd = "--capabilities"
        <3>1. Executed(cmd) = [reply |-> IF drive.testing THEN "InProgress" ELSE drive.last,
                               drive |-> drive]
            BY <2>3 DEF Executed
        <3>2. "InProgress" \in Status /\ drive.last \in Status /\ "none" \notin Status
            BY DEF DriveType, Status
        <3> QED
            BY <3>1, <3>2 DEF Reply
    <2>4. CASE cmd = "--xall"
        BY <2>4 DEF Executed, Reply
    <2> QED
        BY <2>1, <2>2, <2>3, <2>4 DEF Command
<1>2. \/ r = Executed(cmd)
      \/ r \in {[reply |-> "error", drive |-> d] : d \in {drive, Executed(cmd).drive}}
    BY DEF Replies
<1>3. "error" \in Reply \ {"none"}
    BY DEF Reply
<1> QED
    BY <1>1, <1>2, <1>3

\* A handler begins on top of the others,
LEMMA Pushed ==
    ASSUME NEW S, NEW s \in Seq(S), NEW f \in S
    PROVE  /\ Append(s, f) \in Seq(S) /\ Len(Append(s, f)) = Len(s) + 1
           /\ Append(s, f)[Len(s) + 1] = f /\ Len(s) \in Nat
           /\ DOMAIN Append(s, f) = 1 .. Len(s) + 1 /\ DOMAIN s = 1 .. Len(s)
           /\ \A i \in 1 .. Len(s) : Append(s, f)[i] = s[i]
OBVIOUS

\* one ends,
LEMMA Popped ==
    ASSUME NEW S, NEW s \in Seq(S), s # <<>>
    PROVE  LET b == SubSeq(s, 1, Len(s) - 1)
           IN  /\ b \in Seq(S) /\ Len(b) = Len(s) - 1 /\ Len(s) \in Nat \ {0}
               /\ DOMAIN b = 1 .. Len(s) - 1 /\ DOMAIN s = 1 .. Len(s)
               /\ \A i \in 1 .. Len(s) - 1 : b[i] = s[i]
               /\ s[Len(s)] \in S
<1> DEFINE b == SubSeq(s, 1, Len(s) - 1)
<1>1. Len(s) \in Nat \ {0} /\ DOMAIN s = 1 .. Len(s)
    OBVIOUS
<1>2. s[Len(s)] \in S
    BY <1>1
<1>3. 1 \in 1 .. Len(s) + 1 /\ Len(s) - 1 \in 1 - 1 .. Len(s)
    BY <1>1
<1>4. /\ b \in Seq(S) /\ Len(b) = Len(s) - 1
      /\ \A i \in 1 .. Len(s) - 1 : b[i] = s[i]
    BY <1>1, <1>3, SubSeqProperties
<1>5. DOMAIN b = 1 .. Len(s) - 1
    BY <1>1, <1>4
<1> QED
    BY <1>1, <1>2, <1>4, <1>5

\* or goes on as another.
LEMMA Replaced ==
    ASSUME NEW S, NEW s \in Seq(S), s # <<>>, NEW f \in S
    PROVE  LET r == Append(SubSeq(s, 1, Len(s) - 1), f)
           IN  /\ r \in Seq(S) /\ Len(r) = Len(s) /\ Len(s) \in Nat \ {0}
               /\ DOMAIN r = 1 .. Len(s) /\ DOMAIN s = 1 .. Len(s)
               /\ r[Len(s)] = f
               /\ \A i \in 1 .. Len(s) - 1 : r[i] = s[i]
<1> DEFINE b == SubSeq(s, 1, Len(s) - 1)
<1>1. /\ b \in Seq(S) /\ Len(b) = Len(s) - 1 /\ Len(s) \in Nat \ {0}
      /\ DOMAIN b = 1 .. Len(s) - 1 /\ DOMAIN s = 1 .. Len(s)
      /\ \A i \in 1 .. Len(s) - 1 : b[i] = s[i]
    BY Popped
<1> HIDE DEF b
<1>2. /\ Append(b, f) \in Seq(S) /\ Len(Append(b, f)) = Len(b) + 1
      /\ Append(b, f)[Len(b) + 1] = f
      /\ DOMAIN Append(b, f) = 1 .. Len(b) + 1
      /\ \A i \in 1 .. Len(b) : Append(b, f)[i] = b[i]
    BY <1>1, Pushed
<1>3. Len(b) + 1 = Len(s)
    BY <1>1
<1>4. /\ Append(b, f) \in Seq(S) /\ Len(Append(b, f)) = Len(s) /\ Append(b, f)[Len(s)] = f
      /\ DOMAIN Append(b, f) = 1 .. Len(s)
    BY <1>2, <1>3
<1>5. \A i \in 1 .. Len(s) - 1 : Append(b, f)[i] = s[i]
    BY <1>1, <1>2
<1> QED
    BY <1>1, <1>4, <1>5 DEF b

\* A status is set of a test, if there is such a test.
LEMMA StatusSet ==
    ASSUME NEW S, NEW s \in Seq(S), NEW t, NEW x, t \in DOMAIN s => x \in S
    PROVE  [s EXCEPT ![t] = x] \in Seq(S) /\ Len([s EXCEPT ![t] = x]) = Len(s)
           /\ DOMAIN [s EXCEPT ![t] = x] = DOMAIN s
<1>1. CASE t \in DOMAIN s
    BY <1>1
<1>2. CASE t \notin DOMAIN s
    <2>1. [s EXCEPT ![t] = x] = s
        BY <1>2
    <2> QED
        BY <2>1
<1> QED
    BY <1>1, <1>2

-----------------------------------------------------------------------------
(* Types.                                                                  *)

\* The handlers that n tests allow: one that starts a test has one.
FrameSet(n) == {f \in FrameType(n) : f.op = "start" => f.test # 0}

SelfType ==
    /\ testIsActive \in BOOLEAN /\ hasProperties \in BOOLEAN
    /\ tests \in Seq(Status) /\ Len(tests) <= MaxTests
    /\ drive \in DriveType

WinType ==
    /\ window \in [Window -> {"new", "open", "destroyed"}]
    /\ sensitive \in [Window -> BOOLEAN] /\ executeOn \in [Window -> BOOLEAN]
    /\ stopOn \in [Window -> BOOLEAN] /\ timers \in [Window -> Nat] /\ crashed \in BOOLEAN

TestType ==
    /\ currentTest \in [Window -> 0 .. Len(tests)]
    /\ begun \subseteq Test

StackType == stack \in Seq(FrameSet(Len(tests))) /\ Len(stack) <= MaxDepth

TypeInv == SelfType /\ WinType /\ TestType /\ StackType

\* Frames are built of a window, a handler and a test.
LEMMA FrameFits ==
    ASSUME NEW n \in Nat, NEW w \in Window, NEW op \in Op, NEW t \in 0 .. n,
           op = "start" => t # 0
    PROVE  /\ Frame(w, op, t) \in FrameSet(n)
           /\ Frame(w, op, t).op = op /\ Frame(w, op, t).win = w /\ Frame(w, op, t).test = t
           /\ Frame(w, op, t).reply = "none"
BY DEF Frame, FrameSet, FrameType, Reply

\* More tests allow more handlers.
LEMMA FramesGrow ==
    ASSUME NEW m \in Nat, NEW n \in Nat, m <= n
    PROVE  FrameSet(m) \subseteq FrameSet(n) /\ Seq(FrameSet(m)) \subseteq Seq(FrameSet(n))
<1>1. 0 .. m \subseteq 0 .. n
    OBVIOUS
<1>2. FrameSet(m) \subseteq FrameSet(n)
    BY <1>1 DEF FrameSet, FrameType
<1> QED
    BY <1>2

\* The topmost handler.
LEMMA TopFits ==
    ASSUME TypeInv, stack # <<>>
    PROVE  /\ Top \in FrameSet(Len(tests)) /\ Top.win \in Window /\ Top.op \in Op
           /\ Top.test \in 0 .. Len(tests) /\ Top.reply \in Reply
           /\ Top.op = "start" => Top.test # 0
           /\ Len(stack) \in Nat \ {0} /\ DOMAIN stack = 1 .. Len(stack)
<1>1. stack \in Seq(FrameSet(Len(tests)))
    BY DEF TypeInv, StackType
<1> DEFINE S == FrameSet(Len(tests))
<1> HIDE DEF S
<1>2. stack[Len(stack)] \in S /\ Len(stack) \in Nat \ {0} /\ DOMAIN stack = 1 .. Len(stack)
    BY <1>1, Popped DEF S
<1> QED
    BY <1>2 DEF S, Top, FrameSet, FrameType

\* Any handler.
LEMMA FrameFacts ==
    ASSUME TypeInv
    PROVE  /\ Len(stack) \in Nat /\ DOMAIN stack = 1 .. Len(stack) /\ Len(tests) \in Nat
           /\ Test = 1 .. Len(tests)
           /\ \A i \in 1 .. Len(stack) :
                 /\ stack[i] \in FrameSet(Len(tests)) /\ stack[i].win \in Window
                 /\ stack[i].op \in Op /\ stack[i].test \in 0 .. Len(tests)
<1>1. stack \in Seq(FrameSet(Len(tests))) /\ tests \in Seq(Status)
    BY DEF TypeInv, StackType, SelfType
<1>2. /\ Len(stack) \in Nat /\ DOMAIN stack = 1 .. Len(stack) /\ Len(tests) \in Nat
      /\ Test = 1 .. Len(tests)
    BY <1>1 DEF Test
<1>3. \A i \in 1 .. Len(stack) : stack[i] \in FrameSet(Len(tests))
    BY <1>1, <1>2
<1> QED
    BY <1>2, <1>3 DEF FrameSet, FrameType

\* What may happen to the stack: nothing; a handler begins; the topmost one ends; it goes on
\* as another one; or a command gets its reply.
Begins(f) == stack' = Append(stack, f) /\ Len(stack) < MaxDepth
Ends == stack # <<>> /\ stack' = Below
GoesOn(f) == stack # <<>> /\ stack' = Append(Below, f)
Answered(i, r) == i \in DOMAIN stack /\ stack' = [stack EXCEPT ![i].reply = r]

LEMMA StackKept ==
    ASSUME TypeInv, Len(tests') \in Nat, Len(tests) <= Len(tests'),
           \/ stack' = stack
           \/ Ends
           \/ \E f \in FrameSet(Len(tests')) : Begins(f) \/ GoesOn(f)
    PROVE  StackType'
<1> DEFINE S == FrameSet(Len(tests'))
<1>1. Len(tests) \in Nat
    BY FrameFacts
<1>2. stack \in Seq(S) /\ Len(stack) <= MaxDepth
    BY <1>1, FramesGrow DEF TypeInv, StackType
<1> HIDE DEF S
<1>3. Len(stack) \in Nat /\ MaxDepth \in Nat
    BY <1>2, WindowBoundsAssumption
<1>4. stack' \in Seq(S) /\ Len(stack') <= MaxDepth
    <2>1. CASE stack' = stack
        BY <1>2, <2>1
    <2>2. CASE Ends
        <3>1. Below \in Seq(S) /\ Len(Below) = Len(stack) - 1
            BY <1>2, <2>2, Popped DEF Ends, Below
        <3> QED
            BY <1>2, <1>3, <2>2, <3>1 DEF Ends
    <2>3. ASSUME NEW f \in S, Begins(f) PROVE stack' \in Seq(S) /\ Len(stack') <= MaxDepth
        <3>1. Append(stack, f) \in Seq(S) /\ Len(Append(stack, f)) = Len(stack) + 1
            BY <1>2, Pushed
        <3> QED
            BY <1>3, <2>3, <3>1 DEF Begins
    <2>4. ASSUME NEW f \in S, GoesOn(f) PROVE stack' \in Seq(S) /\ Len(stack') <= MaxDepth
        <3>1. Append(Below, f) \in Seq(S) /\ Len(Append(Below, f)) = Len(stack)
            BY <1>2, <2>4, Replaced DEF Below, GoesOn
        <3> QED
            BY <1>2, <2>4, <3>1 DEF GoesOn
    <2> QED
        BY <2>1, <2>2, <2>3, <2>4 DEF S
<1> QED
    BY <1>4 DEF StackType, S

\* The same of a reply.
LEMMA StackAnswered ==
    ASSUME TypeInv, tests' = tests, NEW i, NEW r \in Reply, Answered(i, r)
    PROVE  /\ StackType' /\ Len(stack') = Len(stack) /\ DOMAIN stack' = DOMAIN stack
           /\ \A j \in 1 .. Len(stack) :
                 /\ stack'[j].win = stack[j].win /\ stack'[j].op = stack[j].op
                 /\ stack'[j].test = stack[j].test
                 /\ stack'[j].reply = IF j = i THEN r ELSE stack[j].reply
<1> DEFINE S == FrameSet(Len(tests))
           f == [stack[i] EXCEPT !.reply = r]
<1>1. /\ stack \in Seq(S) /\ Len(stack) <= MaxDepth /\ DOMAIN stack = 1 .. Len(stack)
      /\ i \in 1 .. Len(stack) /\ stack[i] \in S
    BY FrameFacts DEF TypeInv, StackType, Answered
<1>2. /\ f \in S /\ f.win = stack[i].win /\ f.op = stack[i].op /\ f.test = stack[i].test
      /\ f.reply = r
    BY <1>1 DEF FrameSet, FrameType
<1>3. stack' = [stack EXCEPT ![i] = f]
    BY DEF Answered
<1> HIDE DEF S, f
<1>4. /\ stack' \in Seq(S) /\ Len(stack') = Len(stack) /\ DOMAIN stack' = DOMAIN stack
      /\ \A j \in 1 .. Len(stack) : stack'[j] = IF j = i THEN f ELSE stack[j]
    BY <1>1, <1>2, <1>3
<1> QED
    BY <1>1, <1>2, <1>4 DEF StackType, S

\* Timeout callbacks are counted.
LEMMA Counted ==
    ASSUME NEW S, NEW f \in [S -> Nat], NEW s \in S
    PROVE  /\ [f EXCEPT ![s] = @ + 1] \in [S -> Nat]
           /\ f[s] > 0 => [f EXCEPT ![s] = @ - 1] \in [S -> Nat]
<1>1. f[s] \in Nat
    OBVIOUS
<1>2. f[s] + 1 \in Nat /\ (f[s] > 0 => f[s] - 1 \in Nat)
    BY <1>1
<1> QED
    BY <1>2

\* The variables that begin with a new object.
LEMMA TypeInit == Init => TypeInv
<1> SUFFICES ASSUME Init PROVE TypeInv
    OBVIOUS
<1>1. <<>> \in Seq(Status) /\ Len(<<>>) = 0
    OBVIOUS
<1>2. MaxTests \in Nat /\ MaxDepth \in Nat
    BY WindowBoundsAssumption
<1>3. SelfType
    <2>1. [testing : {FALSE}, last : Outcomes] \subseteq DriveType
        BY OutcomesAssumption DEF DriveType
    <2>2. drive \in DriveType
        BY <2>1 DEF Init
    <2>3. tests = <<>> /\ testIsActive = FALSE /\ hasProperties = FALSE
        BY DEF Init
    <2>4. tests \in Seq(Status) /\ Len(tests) = 0 /\ 0 <= MaxTests
        BY <1>1, <1>2, <2>3
    <2> QED
        BY <2>2, <2>3, <2>4 DEF SelfType
<1>4. WinType
    BY DEF Init, WinType
<1>5. TestType
    BY <1>1 DEF Init, TestType
<1>6. StackType
    BY <1>2 DEF Init, StackType
<1> QED
    BY <1>3, <1>4, <1>5, <1>6 DEF TypeInv

\* What a handler that returns knows.
LEMMA ReadyFits ==
    ASSUME TypeInv, NEW op, Ready(op)
    PROVE  /\ stack # <<>> /\ Top.op = op /\ Top.reply \in Reply \ {"none"}
           /\ Top.win \in Window /\ Top.test \in 0 .. Len(tests) /\ Len(tests) \in Nat
           /\ op = "start" => Top.test \in Test
BY TopFits, FrameFacts DEF Ready

\* A handler begins in a window, or the topmost one goes on in its window.
LEMMA NewFrame ==
    ASSUME TypeInv, NEW w \in Window, NEW op \in Op, NEW t, Len(tests') \in Nat,
           t \in 0 .. Len(tests'), op = "start" => t # 0, Push(w, op, t)
    PROVE  Frame(w, op, t) \in FrameSet(Len(tests')) /\ Begins(Frame(w, op, t))
BY FrameFits DEF Push, Begins

LEMMA NextFrame ==
    ASSUME TypeInv, stack # <<>>, NEW op \in Op, op # "start", NEW t, Len(tests') \in Nat,
           t \in 0 .. Len(tests'), ReplaceTop(op, t)
    PROVE  \E f \in FrameSet(Len(tests')) : f = Frame(Top.win, op, t) /\ GoesOn(f)
BY TopFits, FrameFits DEF ReplaceTop, GoesOn

\* A handler cleans up after its test, or a window is refreshed.
LEMMA RefetchFrame ==
    ASSUME TypeInv, NEW w \in Window, NEW op \in Op, op # "start", NEW below, Len(tests') \in Nat,
           testIsActive' \in BOOLEAN,
           \/ below = stack /\ Len(stack) < MaxDepth
           \/ below = Below /\ stack # <<>> /\ w = Top.win,
           Refetch(w, op, below)
    PROVE  \E f \in FrameSet(Len(tests')) :
              /\ f = Frame(w, IF testIsActive' THEN "refreshDialog" ELSE op, 0)
              /\ IF below = stack THEN Begins(f) ELSE GoesOn(f)
<1> DEFINE o == IF testIsActive' THEN "refreshDialog" ELSE op
<1>1. o \in Op /\ o # "start" /\ 0 \in 0 .. Len(tests')
    BY Ops
<1>2. Frame(w, o, 0) \in FrameSet(Len(tests'))
    BY <1>1, FrameFits
<1>3. stack' = Append(below, Frame(w, o, 0))
    BY DEF Refetch
<1>4. ASSUME below = stack, Len(stack) < MaxDepth PROVE Begins(Frame(w, o, 0))
    BY <1>3, <1>4 DEF Begins
<1>5. ASSUME below = Below, stack # <<>> PROVE GoesOn(Frame(w, o, 0)) /\ below # stack
    <2>1. stack \in Seq(FrameSet(Len(tests)))
        BY DEF TypeInv, StackType
    <2>2. Len(Below) = Len(stack) - 1 /\ Len(stack) \in Nat
        BY <1>5, <2>1, Popped DEF Below
    <2>3. below # stack
        BY <1>5, <2>2
    <2> QED
        BY <1>3, <1>5, <2>3 DEF GoesOn
<1>6. IF below = stack THEN Begins(Frame(w, o, 0)) ELSE GoesOn(Frame(w, o, 0))
    BY <1>4, <1>5
<1> QED
    BY <1>2, <1>6

\* A stopped or an updated test gets a status.
LEMMA StoppedType ==
    ASSUME TypeInv, NEW t, NEW reply, Stopped(t, reply)
    PROVE  /\ tests' \in Seq(Status) /\ Len(tests') = Len(tests) /\ DOMAIN tests' = DOMAIN tests
           /\ testIsActive' \in BOOLEAN
<1> DEFINE reported == IF reply \in Status THEN reply ELSE tests[t]
           ended == IF reported = "InProgress" THEN "ManuallyAborted" ELSE reported
<1>1. t \in DOMAIN tests => tests[t] \in Status
    BY DEF TypeInv, SelfType
<1>2. t \in DOMAIN tests => ended \in Status
    BY <1>1 DEF Status
<1>3. tests' = [tests EXCEPT ![t] = ended]
    BY DEF Stopped
<1>4. testIsActive' \in BOOLEAN
    BY DEF Stopped
<1> HIDE DEF ended
<1> QED
    BY <1>2, <1>3, <1>4, StatusSet DEF TypeInv, SelfType

LEMMA UpdatedType ==
    ASSUME TypeInv, NEW t, NEW reply, Updated(t, reply)
    PROVE  /\ tests' \in Seq(Status) /\ Len(tests') = Len(tests) /\ DOMAIN tests' = DOMAIN tests
           /\ testIsActive' \in BOOLEAN
BY StatusSet DEF Updated, TypeInv, SelfType

-----------------------------------------------------------------------------
(* Every step keeps the types.                                             *)

LEMMA TypeUser ==
    ASSUME TypeInv, NEW w \in Window,
           Open(w) \/ Close(w) \/ ClickRefresh(w) \/ ClickExecute(w) \/ ClickStop(w)
    PROVE  TypeInv'
<1>1. Len(tests) \in Nat /\ Test = 1 .. Len(tests) /\ 0 \in 0 .. Len(tests)
    BY FrameFacts
<1>2. "dialog" \in Op /\ "open" \in Op /\ "refresh" \in Op /\ "stop" \in Op /\ "start" \in Op
    BY Ops
<1>3. CASE Open(w)
    <2>1. SelfType' /\ WinType' /\ TestType'
        BY <1>3 DEF Open, TypeInv, SelfType, WinType, TestType, Test
    <2>2. Frame(w, IF testIsActive THEN "dialog" ELSE "open", 0) \in FrameSet(Len(tests'))
          /\ Begins(Frame(w, IF testIsActive THEN "dialog" ELSE "open", 0))
        <3>1. (IF testIsActive THEN "dialog" ELSE "open") \in Op \ {"start"}
            BY <1>2
        <3> QED
            BY <1>1, <1>3, <3>1, NewFrame DEF Open
    <2> QED
        BY <1>1, <1>3, <2>1, <2>2, StackKept DEF TypeInv, Open
<1>4. CASE Close(w)
    <2>1. SelfType' /\ WinType' /\ TestType'
        BY <1>4 DEF Close, TypeInv, SelfType, WinType, TestType, Test, selfTestVars
    <2>2. tests' = tests
        BY <1>4 DEF Close, selfTestVars
    <2>3. CASE stack' = stack
        BY <1>1, <2>1, <2>2, <2>3, StackKept DEF TypeInv
    <2>4. CASE Push(w, "dialog", 0)
        <3>1. Frame(w, "dialog", 0) \in FrameSet(Len(tests')) /\ Begins(Frame(w, "dialog", 0))
            BY <1>1, <1>2, <2>2, <2>4, NewFrame
        <3> QED
            BY <1>1, <2>1, <2>2, <3>1, StackKept DEF TypeInv
    <2> QED
        BY <1>4, <2>3, <2>4 DEF Close
<1>5. CASE ClickRefresh(w)
    <2>1. SelfType' /\ WinType' /\ TestType'
        BY <1>5 DEF ClickRefresh, Refetch, TypeInv, SelfType, WinType, TestType, Test
    <2>2. \E f \in FrameSet(Len(tests')) : Begins(f)
        BY <1>1, <1>2, <1>5, <2>1, RefetchFrame DEF ClickRefresh, SelfType
    <2> QED
        BY <1>1, <1>5, <2>1, <2>2, StackKept DEF TypeInv, ClickRefresh
<1>6. CASE ClickExecute(w) /\ StartAllowed
    <2>1. tests' = Append(tests, "Unknown") /\ Len(tests) < MaxTests
          /\ Push(w, "start", Len(tests) + 1)
        BY <1>6 DEF ClickExecute, Construct
    <2>2. /\ tests' \in Seq(Status) /\ Len(tests') = Len(tests) + 1
          /\ DOMAIN tests' = 1 .. Len(tests) + 1
        BY <1>1, <2>1, Pushed DEF TypeInv, SelfType, Status
    <2>3. Len(tests') <= MaxTests /\ Len(tests') \in Nat /\ Len(tests) <= Len(tests')
          /\ Len(tests) + 1 \in 0 .. Len(tests') /\ Len(tests) + 1 # 0
          /\ 0 .. Len(tests) \subseteq 0 .. Len(tests')
        BY <1>1, <2>1, <2>2, WindowBoundsAssumption
    <2>4. SelfType' /\ WinType'
        BY <1>6, <2>2, <2>3 DEF ClickExecute, TypeInv, SelfType, WinType
    <2>5. TestType'
        <3>1. currentTest' \in [Window -> 0 .. Len(tests')]
            BY <1>6, <2>3 DEF ClickExecute, TypeInv, TestType
        <3>2. begun' \subseteq Test'
            BY <1>1, <1>6, <2>2 DEF ClickExecute, TypeInv, TestType, Test
        <3> QED
            BY <3>1, <3>2 DEF TestType
    <2>6. \E f \in FrameSet(Len(tests')) : Begins(f)
        BY <1>2, <2>1, <2>3, NewFrame
    <2> QED
        BY <2>3, <2>4, <2>5, <2>6, StackKept DEF TypeInv
<1>7. CASE ClickExecute(w) /\ ~StartAllowed
    <2>1. SelfType' /\ WinType' /\ TestType'
        BY <1>7 DEF ClickExecute, TypeInv, SelfType, WinType, TestType, Test
    <2>2. tests' = tests /\ Push(w, "dialog", 0)
        BY <1>7 DEF ClickExecute
    <2>3. \E f \in FrameSet(Len(tests')) : Begins(f)
        BY <1>1, <1>2, <2>2, NewFrame
    <2> QED
        BY <1>1, <2>1, <2>2, <2>3, StackKept DEF TypeInv
<1>8. CASE ClickStop(w)
    <2>1. SelfType' /\ WinType' /\ TestType'
        BY <1>8 DEF ClickStop, TypeInv, SelfType, WinType, TestType, Test, selfTestVars
    <2>2. tests' = tests /\ currentTest[w] \in 0 .. Len(tests')
        BY <1>8 DEF ClickStop, selfTestVars, TypeInv, TestType
    <2>3. \E f \in FrameSet(Len(tests')) : Begins(f)
        <3>1. (IF StopAllowed THEN "stop" ELSE "dialog") \in Op \ {"start"}
            BY <1>2
        <3> QED
            BY <1>1, <1>8, <2>2, <3>1, NewFrame DEF ClickStop
    <2> QED
        BY <1>1, <2>1, <2>2, <2>3, StackKept DEF TypeInv
<1> QED
    BY <1>3, <1>4, <1>5, <1>6, <1>7, <1>8

\* Nothing changes but what no type of the stack or of the tests is about.
LEMMA TypeReturns ==
    ASSUME TypeInv,
           OpenReturns \/ RefreshReturns \/ StartReturns \/ StopReturns \/ StopUpdateReturns
    PROVE  TypeInv'
<1>1. Len(tests) \in Nat /\ Test = 1 .. Len(tests) /\ 0 \in 0 .. Len(tests)
    BY FrameFacts
<1>2. /\ "dialog" \in Op \ {"start"} /\ "refreshDialog" \in Op \ {"start"}
      /\ "stopUpdate" \in Op \ {"start"}
    BY Ops
<1>3. CASE OpenReturns
    <2>1. SelfType' /\ WinType' /\ TestType' /\ tests' = tests
        BY <1>3 DEF OpenReturns, TypeInv, SelfType, WinType, TestType, Test
    <2>2. stack # <<>>
        BY <1>3 DEF OpenReturns, Ready
    <2>3. Ends \/ \E f \in FrameSet(Len(tests')) : GoesOn(f)
        BY <1>1, <1>2, <1>3, <2>1, <2>2, NextFrame DEF OpenReturns, Ends
    <2> QED
        BY <1>1, <2>1, <2>3, StackKept DEF TypeInv
<1>4. CASE RefreshReturns
    <2>1. SelfType' /\ WinType' /\ TestType' /\ tests' = tests
        <3>1. Top.win \in Window
            BY <1>4, ReadyFits DEF RefreshReturns
        <3>2. executeOn' \in [Window -> BOOLEAN]
            BY <1>4, <3>1 DEF RefreshReturns, TypeInv, WinType
        <3> QED
            BY <1>4, <3>2 DEF RefreshReturns, TypeInv, SelfType, WinType, TestType, Test
    <2>2. stack # <<>>
        BY <1>4 DEF RefreshReturns, Ready
    <2>3. Ends \/ \E f \in FrameSet(Len(tests')) : GoesOn(f)
        BY <1>1, <1>2, <1>4, <2>1, <2>2, NextFrame DEF RefreshReturns, Ends
    <2> QED
        BY <1>1, <2>1, <2>3, StackKept DEF TypeInv
<1>5. CASE StartReturns
    <2>1. /\ stack # <<>> /\ Top.win \in Window /\ Top.test \in Test
          /\ Ready("start")
        BY <1>5, ReadyFits DEF StartReturns
    <2>2. CASE Started(Top.test, Top.reply) /\ stack' = Below
               /\ currentTest' = [currentTest EXCEPT ![Top.win] = Top.test]
               /\ begun' = begun \cup {Top.test}
               /\ timers' = [timers EXCEPT ![Top.win] = @ + 1]
               /\ executeOn' = [executeOn EXCEPT ![Top.win] = FALSE]
               /\ stopOn' = [stopOn EXCEPT ![Top.win] = TRUE]
        <3>1. /\ tests' \in Seq(Status) /\ Len(tests') = Len(tests) /\ DOMAIN tests' = DOMAIN tests
            <4>1. "InProgress" \in Status /\ tests \in Seq(Status)
                BY DEF Status, TypeInv, SelfType
            <4>2. tests' = [tests EXCEPT ![Top.test] = "InProgress"]
                BY <2>2 DEF Started
            <4> QED
                BY <4>1, <4>2, StatusSet
        <3>2. SelfType'
            BY <1>5, <2>2, <3>1 DEF StartReturns, Started, TypeInv, SelfType
        <3>3. WinType'
            <4>1. timers' \in [Window -> Nat]
                BY <2>1, <2>2, Counted DEF TypeInv, WinType
            <4> QED
                BY <1>5, <2>2, <4>1 DEF StartReturns, TypeInv, WinType
        <3>4. TestType'
            BY <1>1, <2>1, <2>2, <3>1 DEF TypeInv, TestType, Test
        <3> QED
            BY <1>1, <2>1, <2>2, <3>1, <3>2, <3>3, <3>4, StackKept DEF TypeInv, Ends
    <2>3. CASE /\ ReplaceTop("dialog", 0)
               /\ UNCHANGED <<testIsActive, tests, currentTest, executeOn, stopOn, timers, begun>>
        <3>1. SelfType' /\ WinType' /\ TestType' /\ tests' = tests
            BY <1>5, <2>3 DEF StartReturns, TypeInv, SelfType, WinType, TestType, Test
        <3>2. \E f \in FrameSet(Len(tests')) : GoesOn(f)
            BY <1>1, <1>2, <2>1, <2>3, <3>1, NextFrame
        <3> QED
            BY <1>1, <3>1, <3>2, StackKept DEF TypeInv
    <2> QED
        BY <1>5, <2>2, <2>3 DEF StartReturns
<1>6. CASE StopReturns
    <2>1. SelfType' /\ WinType' /\ TestType' /\ tests' = tests
        BY <1>6 DEF StopReturns, TypeInv, SelfType, WinType, TestType, Test, selfTestVars
    <2>2. stack # <<>> /\ Top.test \in 0 .. Len(tests)
        BY <1>6, ReadyFits DEF StopReturns
    <2>3. \E f \in FrameSet(Len(tests')) : GoesOn(f)
        <3>1. (IF Top.reply = "aborted" THEN "stopUpdate" ELSE "dialog") \in Op \ {"start"}
            BY <1>2
        <3> QED
            BY <1>1, <1>6, <2>1, <2>2, <3>1, NextFrame DEF StopReturns
    <2> QED
        BY <1>1, <2>1, <2>3, StackKept DEF TypeInv
<1>7. CASE StopUpdateReturns
    <2>1. /\ tests' \in Seq(Status) /\ Len(tests') = Len(tests) /\ DOMAIN tests' = DOMAIN tests
          /\ testIsActive' \in BOOLEAN
        BY <1>7, StoppedType DEF StopUpdateReturns
    <2>2. SelfType' /\ WinType' /\ TestType'
        BY <1>7, <2>1 DEF StopUpdateReturns, TypeInv, SelfType, WinType, TestType, Test
    <2>3. stack # <<>>
        BY <1>7 DEF StopUpdateReturns, Ready
    <2>4. Ends \/ \E f \in FrameSet(Len(tests')) : GoesOn(f)
        BY <1>1, <1>2, <1>7, <2>1, <2>3, NextFrame DEF StopUpdateReturns, Ends
    <2> QED
        BY <1>1, <2>1, <2>2, <2>4, StackKept DEF TypeInv
<1> QED
    BY <1>3, <1>4, <1>5, <1>6, <1>7

LEMMA TypePolls ==
    ASSUME TypeInv, PollReturns \/ PollGivesUp \/ PollAbortReturns \/ PollAbortUpdateReturns
    PROVE  TypeInv'
<1>1. Len(tests) \in Nat /\ Test = 1 .. Len(tests) /\ 0 \in 0 .. Len(tests)
    BY FrameFacts
<1>2. /\ "pollAbort" \in Op \ {"start"} /\ "pollAbortUpdate" \in Op \ {"start"}
      /\ "refill" \in Op \ {"start"}
    BY Ops
<1>3. stack # <<>> /\ Top.win \in Window /\ Top.test \in 0 .. Len(tests)
    BY ReadyFits DEF PollReturns, PollGivesUp, PollAbortReturns, PollAbortUpdateReturns
<1>4. ASSUME CleanUp(Top.win, Below), UNCHANGED timers,
             tests' \in Seq(Status), Len(tests') = Len(tests), DOMAIN tests' = DOMAIN tests,
             testIsActive' \in BOOLEAN
      PROVE  TypeInv'
    <2>1. SelfType' /\ WinType' /\ TestType'
        BY <1>4 DEF CleanUp, Refetch, TypeInv, SelfType, WinType, TestType, Test
    <2>2. \E f \in FrameSet(Len(tests')) : Begins(f) \/ GoesOn(f)
        BY <1>1, <1>2, <1>3, <1>4, RefetchFrame DEF CleanUp
    <2> QED
        BY <1>1, <1>4, <2>1, <2>2, StackKept DEF TypeInv
<1>5. CASE PollReturns
    <2>1. CASE /\ Updated(Top.test, Top.reply) /\ stack' = Below
               /\ timers' = [timers EXCEPT ![Top.win] = @ + 1]
        <3>1. /\ tests' \in Seq(Status) /\ Len(tests') = Len(tests) /\ DOMAIN tests' = DOMAIN tests
              /\ testIsActive' \in BOOLEAN
            BY <2>1, UpdatedType
        <3>2. SelfType' /\ TestType'
            BY <1>5, <3>1 DEF PollReturns, TypeInv, SelfType, TestType, Test
        <3>3. timers' \in [Window -> Nat]
            BY <1>3, <2>1, Counted DEF TypeInv, WinType
        <3>4. WinType'
            BY <1>5, <3>3 DEF PollReturns, TypeInv, WinType
        <3> QED
            BY <1>1, <1>3, <2>1, <3>1, <3>2, <3>4, StackKept DEF TypeInv, Ends
    <2>2. CASE /\ ReplaceTop("pollAbort", currentTest[Top.win])
               /\ UNCHANGED <<testIsActive, tests, timers>>
        <3>1. SelfType' /\ WinType' /\ TestType'
            BY <1>5, <2>2 DEF PollReturns, TypeInv, SelfType, WinType, TestType, Test
        <3>2. currentTest[Top.win] \in 0 .. Len(tests')
            BY <1>3, <2>2 DEF TypeInv, TestType
        <3>3. \E f \in FrameSet(Len(tests')) : GoesOn(f)
            BY <1>1, <1>2, <1>3, <2>2, <3>2, NextFrame
        <3> QED
            BY <1>1, <2>2, <3>1, <3>3, StackKept DEF TypeInv
    <2> QED
        BY <1>5, <2>1, <2>2 DEF PollReturns
<1>6. CASE PollGivesUp
    <2>1. /\ CleanUp(Top.win, Below) /\ UNCHANGED timers /\ tests' = tests
          /\ testIsActive' = testIsActive
        BY <1>6 DEF PollGivesUp
    <2> QED
        BY <1>4, <2>1 DEF TypeInv, SelfType
<1>7. CASE PollAbortReturns /\ Top.reply = "aborted"
    <2>1. /\ ReplaceTop("pollAbortUpdate", Top.test) /\ tests' = tests
        BY <1>7 DEF PollAbortReturns
    <2>2. SelfType' /\ WinType' /\ TestType'
        BY <1>7 DEF PollAbortReturns, TypeInv, SelfType, WinType, TestType, Test
    <2>3. \E f \in FrameSet(Len(tests')) : GoesOn(f)
        BY <1>1, <1>2, <1>3, <2>1, NextFrame
    <2> QED
        BY <1>1, <2>1, <2>2, <2>3, StackKept DEF TypeInv
<1>8. CASE PollAbortReturns /\ Top.reply # "aborted"
    <2>1. /\ CleanUp(Top.win, Below) /\ UNCHANGED timers /\ tests' = tests
          /\ testIsActive' = testIsActive
        BY <1>8 DEF PollAbortReturns
    <2> QED
        BY <1>4, <2>1 DEF TypeInv, SelfType
<1>9. CASE PollAbortUpdateReturns
    <2>1. /\ CleanUp(Top.win, Below) /\ UNCHANGED timers /\ Stopped(Top.test, Top.reply)
        BY <1>9 DEF PollAbortUpdateReturns
    <2>2. /\ tests' \in Seq(Status) /\ Len(tests') = Len(tests) /\ DOMAIN tests' = DOMAIN tests
          /\ testIsActive' \in BOOLEAN
        BY <2>1, StoppedType
    <2> QED
        BY <1>4, <2>1, <2>2
<1> QED
    BY <1>5, <1>6, <1>7, <1>8, <1>9

LEMMA TypeTick ==
    ASSUME TypeInv, NEW w \in Window, Tick(w)
    PROVE  TypeInv'
<1>1. Len(tests) \in Nat /\ Test = 1 .. Len(tests)
    BY FrameFacts
<1>2. "poll" \in Op \ {"start"} /\ "refill" \in Op \ {"start"}
    BY Ops
<1>3. ASSUME timers' = [timers EXCEPT ![w] = @ - 1], timers[w] > 0
      PROVE  timers' \in [Window -> Nat]
    BY <1>3, Counted DEF TypeInv, WinType
<1>4. CASE Poll(w)
    <2>1. tests' = tests /\ timers' \in [Window -> Nat]
        BY <1>3, <1>4 DEF Poll, Due, selfTestVars
    <2>2. SelfType' /\ WinType' /\ TestType'
        BY <1>4, <2>1 DEF Poll, TypeInv, SelfType, WinType, TestType, Test, selfTestVars
    <2>3. currentTest[w] \in 0 .. Len(tests')
        BY <2>1 DEF TypeInv, TestType
    <2>4. \E f \in FrameSet(Len(tests')) : Begins(f)
        BY <1>1, <1>2, <1>4, <2>1, <2>3, NewFrame DEF Poll
    <2> QED
        BY <1>1, <2>1, <2>2, <2>4, StackKept DEF TypeInv
<1>5. CASE TestOver(w)
    <2>1. tests' = tests /\ testIsActive' = testIsActive /\ timers' \in [Window -> Nat]
        BY <1>3, <1>5 DEF TestOver, Due
    <2>2. SelfType' /\ WinType' /\ TestType'
        BY <1>5, <2>1 DEF TestOver, CleanUp, Refetch, TypeInv, SelfType, WinType, TestType, Test
    <2>3. \E f \in FrameSet(Len(tests')) : Begins(f) \/ GoesOn(f)
        BY <1>1, <1>2, <1>5, <2>1, <2>2, RefetchFrame DEF TestOver, Due, CleanUp, SelfType
    <2> QED
        BY <1>1, <2>1, <2>2, <2>3, StackKept DEF TypeInv
<1> QED
    BY <1>4, <1>5 DEF Tick

\* The command of a handler on the stack ends, the topmost handler's or another one's.
LEMMA CommandAnswers ==
    ASSUME TypeInv, NEW i, CommandRuns(i)
    PROVE  /\ \E r \in Reply \ {"none"} : Answered(i, r)
           /\ drive' \in DriveType /\ i \in 1 .. Len(stack) /\ stack[i].op \notin DialogOp
<1>1. /\ i \in DOMAIN stack /\ stack[i].op \notin DialogOp
      /\ \E r \in Replies(CommandOf[stack[i].op]) :
            /\ stack' = [stack EXCEPT ![i].reply = r.reply]
            /\ drive' = r.drive
    BY DEF CommandRuns
<1>2. i \in 1 .. Len(stack) /\ stack[i].op \in Op
    BY <1>1, FrameFacts
<1>3. CommandOf[stack[i].op] \in Command
    BY <1>1, <1>2, Ops DEF Op
<1>4. PICK r \in Replies(CommandOf[stack[i].op]) :
            /\ stack' = [stack EXCEPT ![i].reply = r.reply]
            /\ drive' = r.drive
    BY <1>1
<1>5. r.reply \in Reply \ {"none"} /\ r.drive \in DriveType
    BY <1>3, <1>4, RepliesType DEF TypeInv, SelfType
<1> QED
    BY <1>1, <1>2, <1>4, <1>5 DEF Answered

LEMMA TypeNext == TypeInv /\ [Next]_allVars => TypeInv'
<1> SUFFICES ASSUME TypeInv, [Next]_allVars PROVE TypeInv'
    OBVIOUS
<1>1. Len(tests) \in Nat
    BY FrameFacts
<1>2. CASE User
    BY <1>2, TypeUser DEF User
<1>3. CASE Resume
    BY <1>3, TypeReturns, TypePolls DEF Resume
<1>4. CASE DialogClosed
    <2>1. SelfType' /\ WinType' /\ TestType' /\ tests' = tests
        <3>1. Top.win \in Window
            BY <1>4, TopFits DEF DialogClosed
        <3>2. sensitive' \in [Window -> BOOLEAN]
            BY <1>4, <3>1 DEF DialogClosed, TypeInv, WinType
        <3> QED
            BY <1>4, <3>2
            DEF DialogClosed, TypeInv, SelfType, WinType, TestType, Test, selfTestVars
    <2> QED
        BY <1>1, <1>4, <2>1, StackKept DEF TypeInv, DialogClosed, Ends
<1>5. CASE UseDestroyed
    <2>1. SelfType' /\ WinType' /\ TestType' /\ tests' = tests /\ stack' = stack
        BY <1>5 DEF UseDestroyed, TypeInv, SelfType, WinType, TestType, Test, selfTestVars
    <2> QED
        BY <1>1, <2>1, StackKept DEF TypeInv
<1>6. CASE DriveSteps
    <2>1. drive' \in DriveType
        <3>1. PICK result \in Outcomes : drive' = [testing |-> FALSE, last |-> result]
            BY <1>6 DEF DriveSteps, DriveEndsTest
        <3> QED
            BY <3>1, OutcomesAssumption DEF DriveType
    <2>2. SelfType' /\ WinType' /\ TestType' /\ tests' = tests /\ stack' = stack
        BY <1>6, <2>1
        DEF DriveSteps, DriveEndsTest, windowVars, TypeInv, SelfType, WinType, TestType, Test
    <2> QED
        BY <1>1, <2>2, StackKept DEF TypeInv
<1>7. CASE \E w \in Window : Tick(w)
    BY <1>7, TypeTick
<1>8. CASE \E i \in 1 .. MaxDepth : CommandRuns(i)
    <2>1. PICK i \in 1 .. MaxDepth : CommandRuns(i)
        BY <1>8
    <2>2. drive' \in DriveType /\ tests' = tests
        BY <2>1, CommandAnswers DEF CommandRuns
    <2>3. PICK r \in Reply : Answered(i, r)
        BY <2>1, CommandAnswers
    <2>4. SelfType' /\ WinType' /\ TestType'
        BY <2>1, <2>2 DEF CommandRuns, TypeInv, SelfType, WinType, TestType, Test
    <2>5. StackType'
        BY <2>2, <2>3, StackAnswered
    <2> QED
        BY <2>4, <2>5 DEF TypeInv
<1>9. CASE UNCHANGED allVars
    <2>1. SelfType' /\ WinType' /\ TestType' /\ tests' = tests /\ stack' = stack
        BY <1>9 DEF allVars, selfTestVars, windowVars, TypeInv, SelfType, WinType, TestType, Test
    <2> QED
        BY <1>1, <2>1, StackKept DEF TypeInv
<1> QED
    BY <1>2, <1>3, <1>4, <1>5, <1>6, <1>7, <1>8, <1>9 DEF Next

\* The type invariant itself.
LEMMA TypeFits == TypeInv => TypeOK
<1> SUFFICES ASSUME TypeInv PROVE TypeOK
    OBVIOUS
<1>1. FrameSet(Len(tests)) \subseteq [win : Window, op : Op, test : 0 .. Len(tests), reply : Reply]
    BY DEF FrameSet, FrameType
<1>2. stack \in Seq([win : Window, op : Op, test : 0 .. Len(tests), reply : Reply])
    <2> DEFINE S == FrameSet(Len(tests))
               T == [win : Window, op : Op, test : 0 .. Len(tests), reply : Reply]
    <2>1. stack \in Seq(S) /\ S \subseteq T
        BY <1>1 DEF TypeInv, StackType
    <2> HIDE DEF S, T
    <2>2. stack \in Seq(T)
        BY <2>1
    <2> QED
        BY <2>2 DEF T
<1> QED
    BY <1>2 DEF TypeInv, TypeOK, SelfType, WinType, TestType, StackType, DriveType

\* Every variable keeps its type, whatever the user does and however deep the handlers of
\* src/gui/gsc_info_window.cpp nest.
THEOREM TypeCorrect == Spec => []TypeOK
<1>1. Spec => []TypeInv
    BY TypeInit, TypeNext, PTL DEF Spec
<1> QED
    BY <1>1, TypeFits, PTL

-----------------------------------------------------------------------------
(* A step keeps what the handlers below the topmost one are.               *)

LEMMA StackBegins ==
    ASSUME TypeInv, NEW f, Begins(f)
    PROVE  /\ Len(stack) \in Nat /\ DOMAIN stack = 1 .. Len(stack)
           /\ Len(stack') = Len(stack) + 1 /\ DOMAIN stack' = 1 .. Len(stack')
           /\ stack'[Len(stack')] = f
           /\ \A i \in 1 .. Len(stack) : stack'[i] = stack[i]
<1> DEFINE S == FrameSet(Len(tests))
           T == S \cup {f}
<1>1. stack \in Seq(S) /\ S \subseteq T /\ f \in T
    BY DEF TypeInv, StackType
<1> HIDE DEF S, T
<1>2. stack \in Seq(T)
    BY <1>1
<1> QED
    BY <1>1, <1>2, Pushed DEF Begins

LEMMA StackGoesOn ==
    ASSUME TypeInv, NEW f, GoesOn(f)
    PROVE  /\ Len(stack) \in Nat \ {0} /\ DOMAIN stack = 1 .. Len(stack)
           /\ Len(stack') = Len(stack) /\ DOMAIN stack' = DOMAIN stack
           /\ stack'[Len(stack)] = f
           /\ \A i \in 1 .. Len(stack) - 1 : stack'[i] = stack[i]
<1> DEFINE S == FrameSet(Len(tests))
           T == S \cup {f}
<1>1. stack \in Seq(S) /\ S \subseteq T /\ f \in T
    BY DEF TypeInv, StackType
<1> HIDE DEF S, T
<1>2. stack \in Seq(T) /\ stack # <<>> /\ stack' = Append(SubSeq(stack, 1, Len(stack) - 1), f)
    BY <1>1 DEF GoesOn, Below
<1> QED
    BY <1>1, <1>2, Replaced

LEMMA StackEnds ==
    ASSUME TypeInv, Ends
    PROVE  /\ Len(stack) \in Nat \ {0} /\ DOMAIN stack = 1 .. Len(stack)
           /\ Len(stack') = Len(stack) - 1 /\ DOMAIN stack' = 1 .. Len(stack) - 1
           /\ \A i \in 1 .. Len(stack) - 1 : stack'[i] = stack[i]
<1>1. stack \in Seq(FrameSet(Len(tests))) /\ stack # <<>>
    BY DEF TypeInv, StackType, Ends
<1>2. stack' = SubSeq(stack, 1, Len(stack) - 1)
    BY DEF Ends, Below
<1> QED
    BY <1>1, <1>2, Popped

\* What the steps that begin a handler, or go on as another one, have pushed.
LEMMA PushBegins ==
    ASSUME NEW w, NEW op, NEW t, Push(w, op, t)
    PROVE  Begins(Frame(w, op, t))
BY DEF Push, Begins

LEMMA ReplaceGoesOn ==
    ASSUME stack # <<>>, NEW op, NEW t, ReplaceTop(op, t)
    PROVE  GoesOn(Frame(Top.win, op, t))
BY DEF ReplaceTop, GoesOn

LEMMA FrameFields ==
    \A w, op, t :
        /\ Frame(w, op, t).win = w /\ Frame(w, op, t).op = op
        /\ Frame(w, op, t).test = t /\ Frame(w, op, t).reply = "none"
BY DEF Frame

-----------------------------------------------------------------------------
(* Callbacks.                                                              *)

\* A window has a timeout callback, attached or being dispatched.
HasCallback(w) ==
    timers[w] > 0 \/ \E i \in DOMAIN stack : stack[i].win = w /\ stack[i].op \in PollOp

CallbackInv == \A w \in Window : stopOn[w] => HasCallback(w)

\* A callback stays unless the handler it is in ends.
LEMMA CallbackKept ==
    ASSUME TypeInv, NEW w, HasCallback(w), timers'[w] = timers[w],
           \/ stack' = stack
           \/ \E i, r : Answered(i, r)
           \/ \E f : Begins(f)
           \/ Ends /\ ~(Top.win = w /\ Top.op \in PollOp)
           \/ \E f : GoesOn(f) /\ (Top.win = w /\ Top.op \in PollOp => f.win = w /\ f.op \in PollOp)
    PROVE  HasCallback(w)'
<1>1. CASE timers[w] > 0
    BY <1>1 DEF HasCallback
<1>2. CASE \E i \in DOMAIN stack : stack[i].win = w /\ stack[i].op \in PollOp
    <2>1. PICK i \in DOMAIN stack : stack[i].win = w /\ stack[i].op \in PollOp
        BY <1>2
    <2> SUFFICES \E j \in DOMAIN stack' : stack'[j].win = w /\ stack'[j].op \in PollOp
        BY DEF HasCallback
    <2>2. i \in 1 .. Len(stack) /\ Len(stack) \in Nat
        BY <2>1, FrameFacts
    <2>3. CASE stack' = stack
        BY <2>1, <2>3
    <2>4. CASE \E j, r : Answered(j, r)
        <3>1. PICK j, r : Answered(j, r)
            BY <2>4
        <3>2. stack[j] \in FrameSet(Len(tests)) /\ stack[i] \in FrameSet(Len(tests))
            BY <2>2, <3>1, FrameFacts DEF Answered
        <3>3. /\ DOMAIN stack' = DOMAIN stack
              /\ stack'[i].win = stack[i].win /\ stack'[i].op = stack[i].op
            BY <2>1, <3>1, <3>2 DEF Answered, FrameSet, FrameType
        <3> QED
            BY <2>1, <3>3
    <2>5. CASE \E f : Begins(f)
        <3>1. PICK f : Begins(f)
            BY <2>5
        <3>2. i \in DOMAIN stack' /\ stack'[i] = stack[i]
            BY <2>2, <3>1, StackBegins
        <3> QED
            BY <2>1, <3>2
    <2>6. CASE Ends /\ ~(Top.win = w /\ Top.op \in PollOp)
        <3>1. i # Len(stack)
            BY <2>1, <2>6 DEF Top
        <3>2. i \in DOMAIN stack' /\ stack'[i] = stack[i]
            BY <2>2, <2>6, <3>1, StackEnds
        <3> QED
            BY <2>1, <3>2
    <2>7. CASE \E f : /\ GoesOn(f)
                      /\ Top.win = w /\ Top.op \in PollOp => f.win = w /\ f.op \in PollOp
        <3>1. PICK f : /\ GoesOn(f)
                       /\ Top.win = w /\ Top.op \in PollOp => f.win = w /\ f.op \in PollOp
            BY <2>7
        <3>2. CASE i = Len(stack)
            <4>1. f.win = w /\ f.op \in PollOp
                BY <2>1, <3>1, <3>2 DEF Top
            <4>2. i \in DOMAIN stack' /\ stack'[i] = f
                BY <2>1, <3>1, <3>2, StackGoesOn
            <4> QED
                BY <4>1, <4>2
        <3>3. CASE i # Len(stack)
            <4>1. i \in DOMAIN stack' /\ stack'[i] = stack[i]
                BY <2>2, <3>1, <3>3, StackGoesOn
            <4> QED
                BY <2>1, <4>1
        <3> QED
            BY <3>2, <3>3
    <2> QED
        BY <2>3, <2>4, <2>5, <2>6, <2>7
<1> QED
    BY <1>1, <1>2 DEF HasCallback

\* A handler that is about no test ends or goes on.
LEMMA CallbackOthers ==
    ASSUME TypeInv, CallbackInv, UNCHANGED <<timers, stopOn>>,
           \/ stack' = stack
           \/ \E i, r : Answered(i, r)
           \/ \E f : Begins(f)
           \/ stack # <<>> /\ Top.op \notin PollOp /\ (Ends \/ \E f : GoesOn(f))
    PROVE  CallbackInv'
<1> SUFFICES ASSUME NEW w \in Window, stopOn'[w] PROVE HasCallback(w)'
    BY DEF CallbackInv
<1>1. HasCallback(w) /\ timers'[w] = timers[w]
    BY DEF CallbackInv
<1> QED
    BY <1>1, CallbackKept

\* A window cleans up: its Stop button is no longer sensitive.
LEMMA CallbackCleaned ==
    ASSUME TypeInv, CallbackInv, NEW w \in Window, NEW below, CleanUp(w, below),
           \A v \in Window : v # w => timers'[v] = timers[v],
           \/ below = stack /\ Len(stack) < MaxDepth
           \/ below = Below /\ stack # <<>> /\ w = Top.win
    PROVE  CallbackInv'
<1> SUFFICES ASSUME NEW v \in Window, stopOn'[v] PROVE HasCallback(v)'
    BY DEF CallbackInv
<1>1. v # w /\ stopOn[v]
    BY DEF CleanUp, TypeInv, WinType
<1>2. HasCallback(v) /\ timers'[v] = timers[v]
    BY <1>1 DEF CallbackInv
<1> DEFINE f == Frame(w, IF testIsActive' THEN "refreshDialog" ELSE "refill", 0)
<1>3. stack' = Append(below, f)
    BY DEF CleanUp, Refetch
<1>4. Begins(f) \/ (GoesOn(f) /\ w = Top.win)
    BY <1>3 DEF Begins, GoesOn
<1> HIDE DEF f
<1> QED
    BY <1>1, <1>2, <1>4, CallbackKept

\* A handler that may begin with an insensitive Stop button, or with none changed.
LEMMA CallbackUser ==
    ASSUME TypeInv, CallbackInv, NEW w \in Window,
           Open(w) \/ Close(w) \/ ClickRefresh(w) \/ ClickExecute(w) \/ ClickStop(w)
    PROVE  CallbackInv'
<1>1. timers' = timers
    BY DEF Open, Close, ClickRefresh, ClickExecute, ClickStop
<1>2. stack' = stack \/ \E f : Begins(f)
    BY PushBegins DEF Open, Close, ClickRefresh, Refetch, ClickExecute, ClickStop, Begins
<1>3. \A v \in Window : stopOn'[v] => stopOn[v]
    BY DEF Open, Close, ClickRefresh, ClickExecute, ClickStop, TypeInv, WinType
<1> SUFFICES ASSUME NEW v \in Window, stopOn'[v] PROVE HasCallback(v)'
    BY DEF CallbackInv
<1>4. HasCallback(v)
    BY <1>3 DEF CallbackInv
<1> QED
    BY <1>1, <1>2, <1>4, CallbackKept

LEMMA CallbackReturns ==
    ASSUME TypeInv, CallbackInv,
           OpenReturns \/ RefreshReturns \/ StartReturns \/ StopReturns \/ StopUpdateReturns
    PROVE  CallbackInv'
<1>1. stack # <<>> /\ Top.op \notin PollOp /\ Top.win \in Window
    <2>1. Top.op \in {"open", "refresh", "refill", "start", "stop", "stopUpdate"} /\ stack # <<>>
        BY DEF OpenReturns, RefreshReturns, StartReturns, StopReturns, StopUpdateReturns, Ready
    <2> QED
        BY <2>1, TopFits DEF PollOp
<1>2. Ends \/ \E f : GoesOn(f)
    BY <1>1, ReplaceGoesOn
    DEF OpenReturns, RefreshReturns, StartReturns, StopReturns, StopUpdateReturns, Ends
<1>3. CASE UNCHANGED <<timers, stopOn>>
    BY <1>1, <1>2, <1>3, CallbackOthers
<1>4. CASE /\ timers' = [timers EXCEPT ![Top.win] = @ + 1]
           /\ stopOn' = [stopOn EXCEPT ![Top.win] = TRUE]
    <2> SUFFICES ASSUME NEW v \in Window, stopOn'[v] PROVE HasCallback(v)'
        BY DEF CallbackInv
    <2>1. CASE v = Top.win
        <3>1. timers'[v] = timers[v] + 1 /\ timers[v] \in Nat
            BY <1>1, <1>4, <2>1 DEF TypeInv, WinType
        <3> QED
            BY <3>1 DEF HasCallback
    <2>2. CASE v # Top.win
        <3>1. stopOn[v] /\ timers'[v] = timers[v]
            BY <1>1, <1>4, <2>2 DEF TypeInv, WinType
        <3> QED
            BY <1>2, <2>2, <3>1, CallbackKept DEF CallbackInv
    <2> QED
        BY <2>1, <2>2
<1> QED
    BY <1>3, <1>4
    DEF OpenReturns, RefreshReturns, StartReturns, StopReturns, StopUpdateReturns

LEMMA CallbackPolls ==
    ASSUME TypeInv, CallbackInv,
           PollReturns \/ PollGivesUp \/ PollAbortReturns \/ PollAbortUpdateReturns
    PROVE  CallbackInv'
<1>1. stack # <<>> /\ Top.win \in Window
    BY ReadyFits DEF PollReturns, PollGivesUp, PollAbortReturns, PollAbortUpdateReturns
<1>2. CASE CleanUp(Top.win, Below) /\ UNCHANGED timers
    BY <1>1, <1>2, CallbackCleaned
<1>3. CASE /\ UNCHANGED <<timers, stopOn>>
           /\ \E op, t : op \in PollOp /\ ReplaceTop(op, t)
    <2>1. PICK op, t : op \in PollOp /\ ReplaceTop(op, t)
        BY <1>3
    <2>2. GoesOn(Frame(Top.win, op, t))
        BY <1>1, <2>1, ReplaceGoesOn
    <2>3. \E f : GoesOn(f) /\ f.win = Top.win /\ f.op \in PollOp
        BY <2>1, <2>2, FrameFields
    <2> SUFFICES ASSUME NEW v \in Window, stopOn'[v] PROVE HasCallback(v)'
        BY DEF CallbackInv
    <2>4. HasCallback(v) /\ timers'[v] = timers[v]
        BY <1>3 DEF CallbackInv
    <2> QED
        BY <2>3, <2>4, CallbackKept
<1>4. CASE PollReturns /\ stack' = Below /\ timers' = [timers EXCEPT ![Top.win] = @ + 1]
    <2> SUFFICES ASSUME NEW v \in Window, stopOn'[v] PROVE HasCallback(v)'
        BY DEF CallbackInv
    <2>1. CASE v = Top.win
        <3>1. timers'[v] = timers[v] + 1 /\ timers[v] \in Nat
            BY <1>1, <1>4, <2>1 DEF TypeInv, WinType
        <3> QED
            BY <3>1 DEF HasCallback
    <2>2. CASE v # Top.win
        <3>1. stopOn[v] /\ timers'[v] = timers[v]
            BY <1>1, <1>4, <2>2 DEF PollReturns, TypeInv, WinType
        <3>2. Ends
            BY <1>1, <1>4 DEF Ends
        <3> QED
            BY <2>2, <3>1, <3>2, CallbackKept DEF CallbackInv
    <2> QED
        BY <2>1, <2>2
<1>5. "pollAbort" \in PollOp /\ "pollAbortUpdate" \in PollOp
    BY DEF PollOp
<1> QED
    BY <1>2, <1>3, <1>4, <1>5
    DEF PollReturns, PollGivesUp, PollAbortReturns, PollAbortUpdateReturns

LEMMA CallbackTick ==
    ASSUME TypeInv, CallbackInv, NEW w \in Window, Tick(w)
    PROVE  CallbackInv'
<1>1. CASE Poll(w)
    <2>1. Begins(Frame(w, "poll", currentTest[w])) /\ stopOn' = stopOn
          /\ timers' = [timers EXCEPT ![w] = @ - 1]
        BY <1>1, PushBegins DEF Poll
    <2> DEFINE f == Frame(w, "poll", currentTest[w])
    <2>2. f.win = w /\ f.op = "poll"
        BY FrameFields
    <2> HIDE DEF f
    <2> SUFFICES ASSUME NEW v \in Window, stopOn'[v] PROVE HasCallback(v)'
        BY DEF CallbackInv
    <2>3. CASE v = w
        <3>1. Len(stack') \in DOMAIN stack' /\ stack'[Len(stack')] = f
            BY <2>1, StackBegins DEF f
        <3> QED
            BY <2>2, <2>3, <3>1 DEF HasCallback, PollOp
    <2>4. CASE v # w
        <3>1. HasCallback(v) /\ timers'[v] = timers[v]
            BY <2>1, <2>4 DEF CallbackInv, TypeInv, WinType
        <3> QED
            BY <2>1, <3>1, CallbackKept
    <2> QED
        BY <2>3, <2>4
<1>2. CASE TestOver(w)
    <2>1. /\ CleanUp(w, stack) /\ Len(stack) < MaxDepth
          /\ \A v \in Window : v # w => timers'[v] = timers[v]
        BY <1>2 DEF TestOver, Due, TypeInv, WinType
    <2> QED
        BY <2>1, CallbackCleaned
<1> QED
    BY <1>1, <1>2 DEF Tick

LEMMA CallbackNext == TypeInv /\ CallbackInv /\ [Next]_allVars => CallbackInv'
<1> SUFFICES ASSUME TypeInv, CallbackInv, [Next]_allVars PROVE CallbackInv'
    OBVIOUS
<1>1. CASE User
    BY <1>1, CallbackUser DEF User
<1>2. CASE Resume
    BY <1>2, CallbackReturns, CallbackPolls DEF Resume
<1>3. CASE DialogClosed
    <2>1. Ends /\ Top.op \notin PollOp /\ UNCHANGED <<timers, stopOn>>
        BY <1>3 DEF DialogClosed, Ends, DialogOp, PollOp
    <2> QED
        BY <2>1, CallbackOthers DEF Ends
<1>4. CASE UseDestroyed
    BY <1>4, CallbackOthers DEF UseDestroyed
<1>5. CASE DriveSteps
    BY <1>5, CallbackOthers DEF DriveSteps, windowVars
<1>6. CASE \E w \in Window : Tick(w)
    BY <1>6, CallbackTick
<1>7. CASE \E i \in 1 .. MaxDepth : CommandRuns(i)
    <2>1. PICK i \in 1 .. MaxDepth : CommandRuns(i)
        BY <1>7
    <2>2. \E r : Answered(i, r)
        BY <2>1, CommandAnswers
    <2>3. UNCHANGED <<timers, stopOn>>
        BY <2>1 DEF CommandRuns
    <2> QED
        BY <2>2, <2>3, CallbackOthers
<1>8. CASE UNCHANGED allVars
    BY <1>8, CallbackOthers DEF allVars, windowVars
<1> QED
    BY <1>1, <1>2, <1>3, <1>4, <1>5, <1>6, <1>7, <1>8 DEF Next

LEMMA CallbackThere == TypeInv /\ CallbackInv => StopButtonHasCallback
<1> SUFFICES ASSUME TypeInv, CallbackInv, NEW w \in Window, stopOn[w]
             PROVE  timers[w] + Cardinality({i \in DOMAIN stack : /\ stack[i].win = w
                                                                  /\ stack[i].op \in PollOp}) > 0
    BY DEF StopButtonHasCallback
<1> DEFINE P == {i \in DOMAIN stack : stack[i].win = w /\ stack[i].op \in PollOp}
<1>1. timers[w] \in Nat /\ DOMAIN stack = 1 .. Len(stack) /\ Len(stack) \in Nat
    BY FrameFacts DEF TypeInv, WinType
<1>2. IsFiniteSet(1 .. Len(stack))
    BY <1>1, FS_Interval
<1>3. IsFiniteSet(P)
    BY <1>1, <1>2, FS_Subset
<1>4. Cardinality(P) \in Nat /\ (Cardinality(P) = 0 <=> P = {})
    BY <1>3, FS_CardinalityType, FS_EmptySet
<1>5. timers[w] > 0 \/ P # {}
    BY DEF CallbackInv, HasCallback
<1>6. timers[w] + Cardinality(P) > 0
    <2> HIDE DEF P
    <2> QED
        BY <1>1, <1>4, <1>5
<1> QED
    BY <1>6

\* A Stop button that works has a timeout callback behind it, attached or being dispatched,
\* which brings the other buttons back when the test ends (test_idle_callback() of
\* src/gui/gsc_info_window.cpp), however the handlers nest.
THEOREM StopButtonAlwaysHasCallback == Spec => []StopButtonHasCallback
<1>1. Init => CallbackInv
    BY DEF Init, CallbackInv
<1>2. Spec => [](TypeInv /\ CallbackInv)
    BY <1>1, TypeInit, TypeNext, CallbackNext, PTL DEF Spec
<1> QED
    BY <1>2, CallbackThere, PTL

-----------------------------------------------------------------------------
(* A patient user.                                                         *)

\* The handlers others may run above, and the handlers that may run above others.
Waiting == {"dialog", "stop", "stopUpdate"}
Nested == PollOp \cup {"refill", "refreshDialog"}

\* The order of the handlers on the stack.
OrderInv ==
    \A i \in DOMAIN stack :
        /\ i = 1 \/ stack[i].op \in Nested
        /\ i < Len(stack) => stack[i].op \in Waiting

\* The lock is held by the one test that runs.
LockInv ==
    /\ ~testIsActive => \A t \in Test : tests[t] # "InProgress"
    /\ testIsActive => \E t \in Test : tests[t] = "InProgress"
    /\ \A t, u \in Test : tests[t] = "InProgress" /\ tests[u] = "InProgress" => t = u

\* There is one timeout callback at most, of the window that has begun the last test.
TimerInv ==
    /\ \A w \in Window : timers[w] <= 1 /\ (timers[w] > 0 => currentTest[w] \in Test)
    /\ \A w, v \in Window : timers[w] > 0 /\ timers[v] > 0 => w = v

StopInv ==
    \A w \in Window :
        stopOn[w] => timers[w] > 0 \/ (stack # <<>> /\ Top.win = w /\ Top.op \in PollOp)

DeadInv == ~crashed /\ \A w \in Window : window[w] = "destroyed" => timers[w] = 0

\* What holds while the handler f is on the stack.
FrameInv(f) ==
    /\ f.op \notin Waiting => \A w \in Window : timers[w] = 0
    /\ f.op \in PollOp => /\ f.test = currentTest[f.win] /\ f.test \in Test
                          /\ tests[f.test] = "InProgress"
    /\ f.op \in {"start", "refresh", "refill", "open"} => ~testIsActive
    /\ f.op = "start" => f.test \notin begun
    /\ f.op \in {"stop", "stopUpdate"} /\ testIsActive =>
        f.test \in Test /\ tests[f.test] = "InProgress"
    /\ window[f.win] # "destroyed"

\* Everything that a patient user's steps keep, given the types.
PatientInv ==
    /\ OrderInv /\ LockInv /\ TimerInv /\ StopInv /\ DeadInv
    /\ \A i \in DOMAIN stack : FrameInv(stack[i])

\* The handlers that stay are ones that wait.
LEMMA Survivors ==
    ASSUME TypeInv, OrderInv, NEW f,
           \/ Begins(f) /\ (stack = <<>> \/ (Top.op \in Waiting /\ f.op \in Nested))
           \/ GoesOn(f) /\ (f.op \in Nested \/ Top.op \notin Nested)
           \/ Ends
    PROVE  /\ OrderInv'
           /\ \A i \in DOMAIN stack' :
                 \/ i = Len(stack') /\ stack'[i] = f /\ ~Ends
                 \/ /\ i \in DOMAIN stack /\ stack'[i] = stack[i] /\ stack[i].op \in Waiting
                    /\ stack # <<>> /\ (Begins(f) \/ Len(stack) > 1)
<1>1. Len(stack) \in Nat /\ DOMAIN stack = 1 .. Len(stack)
    BY FrameFacts
<1>2. \A i \in 1 .. Len(stack) : (i = 1 \/ stack[i].op \in Nested)
                                 /\ (i < Len(stack) => stack[i].op \in Waiting)
    BY <1>1 DEF OrderInv
<1>3. CASE Begins(f) /\ (stack = <<>> \/ (Top.op \in Waiting /\ f.op \in Nested))
    <2>1. /\ Len(stack') = Len(stack) + 1 /\ DOMAIN stack' = 1 .. Len(stack) + 1
          /\ stack'[Len(stack) + 1] = f
          /\ \A i \in 1 .. Len(stack) : stack'[i] = stack[i]
        BY <1>3, StackBegins
    <2>2. CASE stack = <<>>
        <3>1. Len(stack) = 0
            BY <2>2
        <3>2. DOMAIN stack' = 1 .. 1 /\ stack'[1] = f /\ Len(stack') = 1 /\ stack' # <<>>
            BY <2>1, <3>1
        <3>3. ~Ends
            BY <2>2 DEF Ends
        <3> QED
            BY <3>2, <3>3 DEF OrderInv
    <2>3. CASE stack # <<>> /\ Top.op \in Waiting /\ f.op \in Nested
        <3>1. \A i \in 1 .. Len(stack) : stack[i].op \in Waiting
            BY <1>1, <1>2, <2>3 DEF Top
        <3>2. OrderInv'
            BY <1>1, <1>2, <2>1, <2>3, <3>1 DEF OrderInv
        <3>3. ~Ends
            <4> SUFFICES ASSUME Ends PROVE FALSE
                OBVIOUS
            <4>1. Len(stack') = Len(stack) - 1
                BY StackEnds
            <4> QED
                BY <1>1, <2>1, <4>1
        <3> QED
            BY <1>1, <1>3, <2>1, <2>3, <3>1, <3>2, <3>3
    <2> QED
        BY <1>3, <2>2, <2>3
<1>4. CASE GoesOn(f) /\ (f.op \in Nested \/ Top.op \notin Nested)
    <2>1. /\ Len(stack') = Len(stack) /\ DOMAIN stack' = 1 .. Len(stack) /\ Len(stack) # 0
          /\ stack'[Len(stack)] = f
          /\ \A i \in 1 .. Len(stack) - 1 : stack'[i] = stack[i]
        BY <1>4, StackGoesOn
    <2>2. Len(stack) = 1 \/ f.op \in Nested
        BY <1>1, <1>2, <1>4, <2>1 DEF Top
    <2>3. OrderInv'
        BY <1>1, <1>2, <2>1, <2>2 DEF OrderInv
    <2>4. ~Ends
        <3> SUFFICES ASSUME Ends PROVE FALSE
            OBVIOUS
        <3>1. Len(stack') = Len(stack) - 1
            BY StackEnds
        <3> QED
            BY <1>1, <2>1, <3>1
    <2>5. ASSUME NEW i \in DOMAIN stack', i # Len(stack')
          PROVE  /\ i \in DOMAIN stack /\ stack'[i] = stack[i] /\ stack[i].op \in Waiting
                 /\ Len(stack) > 1
        <3>1. i \in 1 .. Len(stack) - 1 /\ Len(stack) > 1 /\ i \in 1 .. Len(stack) /\ i < Len(stack)
            BY <1>1, <2>1, <2>5
        <3> QED
            BY <1>1, <1>2, <2>1, <3>1
    <2>6. stack # <<>> /\ stack'[Len(stack')] = f
        BY <1>4, <2>1 DEF GoesOn
    <2> QED
        BY <2>3, <2>4, <2>5, <2>6
<1>5. CASE Ends
    <2>1. /\ Len(stack') = Len(stack) - 1 /\ DOMAIN stack' = 1 .. Len(stack) - 1
          /\ \A i \in 1 .. Len(stack) - 1 : stack'[i] = stack[i]
        BY <1>5, StackEnds
    <2>2. OrderInv'
        BY <1>1, <1>2, <2>1 DEF OrderInv
    <2> QED
        BY <1>1, <1>2, <1>5, <2>1, <2>2 DEF Ends
<1> QED
    BY <1>3, <1>4, <1>5

\* What holds of the handlers that stay goes on holding if the lock is released or kept as
\* it is, and what holds of the new one.
LEMMA FramesKept ==
    ASSUME TypeInv, OrderInv, \A i \in DOMAIN stack : FrameInv(stack[i]), NEW f,
           \/ Begins(f) /\ (stack = <<>> \/ (Top.op \in Waiting /\ f.op \in Nested))
           \/ GoesOn(f) /\ (f.op \in Nested \/ Top.op \notin Nested)
           \/ Ends,
           Ends \/ FrameInv(f)',
           \A w \in Window : window[w] # "destroyed" => window'[w] # "destroyed",
           \/ stack = <<>>
           \/ Top.op \notin Nested /\ ~Begins(f)
           \/ testIsActive' => /\ testIsActive
                               /\ \A t \in Test : tests[t] = "InProgress" =>
                                     t \in Test' /\ tests'[t] = "InProgress"
    PROVE  OrderInv' /\ (\A i \in DOMAIN stack : FrameInv(stack[i]))'
<1>1. Len(stack) \in Nat /\ DOMAIN stack = 1 .. Len(stack)
    BY FrameFacts
<1>2. OrderInv'
    BY Survivors
<1> SUFFICES ASSUME NEW i \in DOMAIN stack' PROVE FrameInv(stack[i])'
    BY <1>2
<1>3. CASE i = Len(stack') /\ stack'[i] = f /\ ~Ends
    BY <1>3 DEF FrameInv
<1>4. CASE /\ i \in DOMAIN stack /\ stack'[i] = stack[i] /\ stack[i].op \in Waiting
           /\ stack # <<>> /\ (Begins(f) \/ Len(stack) > 1)
    <2>1. FrameInv(stack[i]) /\ stack[i].win \in Window /\ stack[i].op \in Waiting
        BY <1>1, <1>4, FrameFacts
    <2>2. testIsActive' => /\ testIsActive
                           /\ \A t \in Test : tests[t] = "InProgress" =>
                                 t \in Test' /\ tests'[t] = "InProgress"
        <3>1. ASSUME Top.op \notin Nested PROVE Len(stack) <= 1
            BY <1>1, <1>4, <3>1 DEF OrderInv, Top
        <3> QED
            BY <1>1, <1>4, <3>1
    <2>3. stack[i].op \notin PollOp \cup {"start", "refresh", "refill", "open"}
        BY <1>4 DEF Waiting, PollOp
    <2> QED
        BY <1>4, <2>1, <2>2, <2>3 DEF FrameInv
<1> QED
    BY <1>3, <1>4, Survivors

\* force_stop() of the test that runs, or of one when none does, leaves none.
LEMMA StoppedFrees ==
    ASSUME TypeInv, LockInv, NEW t, NEW reply, Stopped(t, reply),
           testIsActive => t \in Test /\ tests[t] = "InProgress"
    PROVE  /\ testIsActive' = FALSE /\ Test' = Test
           /\ \A u \in Test : tests'[u] # "InProgress"
<1> DEFINE reported == IF reply \in Status THEN reply ELSE tests[t]
           ended == IF reported = "InProgress" THEN "ManuallyAborted" ELSE reported
<1>1. tests' = [tests EXCEPT ![t] = ended] /\ ended # "InProgress"
    BY DEF Stopped
<1>2. testIsActive' = (testIsActive /\ reply \notin Status /\ reported # "InProgress")
    BY DEF Stopped
<1>3. testIsActive' = FALSE
    BY <1>2
<1>4. Test' = Test
    BY <1>1 DEF Test
<1>5. \A u \in Test : u # t => tests'[u] = tests[u]
    BY <1>1 DEF Test
<1>6. t \in Test => tests'[t] = ended
    BY <1>1 DEF Test
<1>7. \A u \in Test : u # t => tests[u] # "InProgress"
    BY DEF LockInv
<1> HIDE DEF ended
<1> QED
    BY <1>1, <1>3, <1>4, <1>5, <1>6, <1>7

\* The lock with all tests ended.
LEMMA LockFree ==
    ASSUME testIsActive' = FALSE, Test' = Test, \A u \in Test : tests'[u] # "InProgress"
    PROVE  LockInv'
BY DEF LockInv

\* What the topmost handler of a patient user's program knows.
LEMMA TopInv ==
    ASSUME TypeInv, PatientInv, stack # <<>>
    PROVE  FrameInv(Top)
BY TopFits DEF PatientInv, Top

\* What a patient user waits for.
LEMMA PatientUser ==
    ASSUME TypeInv, PatientInv, Pace = "patient", UserActs
    PROVE  /\ stack = <<>>
           /\ \A w \in Window : timers[w] > 0 =>
                 currentTest[w] \in Test /\ tests[currentTest[w]] = "InProgress"
           /\ ~testIsActive => \A w \in Window : timers[w] = 0
           /\ \A w \in Window : stopOn[w] => timers[w] > 0
<1>1. stack = <<>>
    BY DEF UserActs
<1>2. \A w \in Window : timers[w] > 0 =>
         currentTest[w] \in Test /\ tests[currentTest[w]] = "InProgress"
    BY DEF UserActs, Lagging, PatientInv, TimerInv
<1>3. ~testIsActive => \A w \in Window : ~(timers[w] > 0)
    BY <1>2 DEF PatientInv, LockInv
<1>4. \A w \in Window : timers[w] \in Nat
    BY DEF TypeInv, WinType
<1>5. \A w \in Window : stopOn[w] => timers[w] > 0
    BY <1>1 DEF PatientInv, StopInv
<1> QED
    BY <1>1, <1>2, <1>3, <1>4, <1>5

\* The user begins a handler.
LEMMA PatientBegins ==
    ASSUME TypeInv, PatientInv, Pace = "patient", UserActs, NEW f, Begins(f), FrameInv(f)',
           UNCHANGED <<timers, window, crashed, currentTest>>,
           \A w \in Window : stopOn'[w] => stopOn[w],
           LockInv', Test \subseteq Test'
    PROVE  PatientInv'
<1>1. stack = <<>> /\ \A w \in Window : stopOn[w] => timers[w] > 0
    BY PatientUser
<1>2. OrderInv' /\ (\A i \in DOMAIN stack : FrameInv(stack[i]))'
    BY <1>1, FramesKept DEF PatientInv
<1>3. TimerInv'
    BY DEF PatientInv, TimerInv
<1>4. StopInv'
    BY <1>1 DEF StopInv
<1>5. DeadInv'
    BY DEF PatientInv, DeadInv
<1> QED
    BY <1>2, <1>3, <1>4, <1>5 DEF PatientInv

\* A handler that does not poll ends or goes on, and leaves the lock, or releases it.
LEMMA PatientReturns ==
    ASSUME TypeInv, PatientInv, stack # <<>>, Top.op \notin PollOp, NEW f,
           Ends \/ (GoesOn(f) /\ (f.op \in Nested \/ Top.op \notin Nested) /\ FrameInv(f)'),
           UNCHANGED <<timers, stopOn, crashed, currentTest>>,
           \A w \in Window : window'[w] = "destroyed" => window[w] = "destroyed",
           LockInv', Test \subseteq Test',
           testIsActive' => testIsActive /\ tests' = tests
    PROVE  PatientInv'
<1>1. OrderInv' /\ (\A i \in DOMAIN stack : FrameInv(stack[i]))'
    <2>1. testIsActive' => /\ testIsActive
                           /\ \A t \in Test : tests[t] = "InProgress" =>
                                 t \in Test' /\ tests'[t] = "InProgress"
        OBVIOUS
    <2>2. OrderInv /\ (\A i \in DOMAIN stack : FrameInv(stack[i]))
        BY DEF PatientInv
    <2> QED
        BY <2>1, <2>2, FramesKept
<1>2. TimerInv'
    BY DEF PatientInv, TimerInv
<1>3. StopInv'
    BY DEF PatientInv, StopInv
<1>4. DeadInv'
    BY DEF PatientInv, DeadInv
<1> QED
    BY <1>1, <1>2, <1>3, <1>4 DEF PatientInv

\* The lock stays as it is.
LEMMA LockKept ==
    ASSUME LockInv, UNCHANGED <<tests, testIsActive>>
    PROVE  LockInv' /\ Test' = Test
BY DEF LockInv, Test

LEMMA PatientClicks ==
    ASSUME TypeInv, PatientInv, Pace = "patient", NEW w \in Window,
           Open(w) \/ Close(w) \/ ClickRefresh(w) \/ ClickExecute(w) \/ ClickStop(w)
    PROVE  PatientInv'
<1>1. UserActs
    BY DEF Open, Close, ClickRefresh, ClickExecute, ClickStop, Clickable
<1>2. /\ stack = <<>>
      /\ \A v \in Window : timers[v] > 0 =>
            currentTest[v] \in Test /\ tests[currentTest[v]] = "InProgress"
      /\ ~testIsActive => \A v \in Window : timers[v] = 0
      /\ \A v \in Window : stopOn[v] => timers[v] > 0
    BY <1>1, PatientUser
<1>3. LockInv
    BY DEF PatientInv
<1>4. CASE Open(w)
    <2> DEFINE f == Frame(w, IF testIsActive THEN "dialog" ELSE "open", 0)
    <2>1. PICK g : g = f
        OBVIOUS
    <2>2. /\ g.win = w /\ (testIsActive => g.op = "dialog") /\ (~testIsActive => g.op = "open")
        BY <2>1, FrameFields
    <2>3. Begins(g)
        BY <1>4, <2>1, PushBegins DEF Open
    <2>4. FrameInv(g)'
        BY <1>2, <1>4, <2>2 DEF Open, FrameInv, Waiting, PollOp
    <2>5. LockInv' /\ Test' = Test
        BY <1>3, <1>4, LockKept DEF Open
    <2> HIDE DEF f
    <2> QED
        BY <1>1, <1>4, <2>3, <2>4, <2>5, PatientBegins DEF Open
<1>5. CASE Close(w) /\ testIsActive
    <2>1. PICK g : g = Frame(w, "dialog", 0)
        OBVIOUS
    <2>2. g.win = w /\ g.op = "dialog"
        BY <2>1, FrameFields
    <2>3. Begins(g)
        BY <1>5, <2>1, PushBegins DEF Close
    <2>4. FrameInv(g)'
        BY <1>5, <2>2 DEF Close, FrameInv, Waiting, PollOp
    <2>5. LockInv' /\ Test' = Test
        BY <1>3, <1>5, LockKept DEF Close, selfTestVars
    <2> QED
        BY <1>1, <1>5, <2>3, <2>4, <2>5, PatientBegins DEF Close
<1>6. CASE Close(w) /\ ~testIsActive
    <2>1. /\ stack' = stack /\ window' = [window EXCEPT ![w] = "destroyed"]
          /\ UNCHANGED <<tests, testIsActive, stopOn, currentTest, timers, crashed>>
        BY <1>6 DEF Close, selfTestVars
    <2>2. LockInv' /\ Test' = Test
        BY <1>3, <2>1, LockKept
    <2>3. OrderInv' /\ (\A i \in DOMAIN stack : FrameInv(stack[i]))'
        BY <1>2, <2>1 DEF OrderInv
    <2>4. TimerInv' /\ StopInv'
        BY <1>2, <2>1, <2>2 DEF PatientInv, TimerInv, StopInv
    <2>5. DeadInv'
        BY <1>2, <1>6, <2>1 DEF PatientInv, DeadInv
    <2> QED
        BY <2>2, <2>3, <2>4, <2>5 DEF PatientInv
<1>7. CASE ClickRefresh(w)
    <2>1. /\ ~testIsActive /\ ~testIsActive' /\ Refetch(w, "refresh", stack)
          /\ Len(stack) < MaxDepth /\ tests' = tests
        BY <1>7 DEF ClickRefresh
    <2>2. PICK g : g = Frame(w, "refresh", 0)
        OBVIOUS
    <2>3. g.win = w /\ g.op = "refresh"
        BY <2>2, FrameFields
    <2>4. Begins(g)
        BY <2>1, <2>2 DEF Refetch, Begins
    <2>5. FrameInv(g)'
        BY <1>2, <1>7, <2>1, <2>3 DEF ClickRefresh, Clickable, FrameInv, Waiting, PollOp
    <2>6. LockInv' /\ Test' = Test
        BY <1>3, <1>7, <2>1, LockKept DEF ClickRefresh
    <2>7. \A v \in Window : stopOn'[v] => stopOn[v]
        BY <1>7 DEF ClickRefresh, TypeInv, WinType
    <2> QED
        BY <1>1, <1>7, <2>4, <2>5, <2>6, <2>7, PatientBegins DEF ClickRefresh
<1>8. CASE ClickExecute(w) /\ StartAllowed
    <2>1. /\ ~testIsActive /\ tests' = Append(tests, "Unknown") /\ Push(w, "start", Len(tests) + 1)
          /\ testIsActive' = testIsActive /\ window[w] = "open"
          /\ UNCHANGED <<timers, window, crashed, currentTest, stopOn, begun>>
        BY <1>8 DEF ClickExecute, StartAllowed, Construct, Clickable
    <2>2. PICK g : g = Frame(w, "start", Len(tests) + 1)
        OBVIOUS
    <2>3. g.win = w /\ g.op = "start" /\ g.test = Len(tests) + 1
        BY <2>2, FrameFields
    <2>4. Begins(g)
        BY <2>1, <2>2, PushBegins
    <2>5. Len(tests) \in Nat /\ Test = 1 .. Len(tests) /\ Len(tests) + 1 \notin begun
        BY FrameFacts DEF TypeInv, TestType
    <2>6. FrameInv(g)'
        BY <1>2, <2>1, <2>3, <2>5 DEF FrameInv, Waiting, PollOp
    <2>7. /\ Test' = 1 .. Len(tests) + 1 /\ tests'[Len(tests) + 1] = "Unknown"
          /\ \A t \in Test : tests'[t] = tests[t]
        BY <2>1, <2>5, Pushed DEF TypeInv, SelfType, Status, Test
    <2>8. LockInv'
        <3>1. \A t \in Test' : tests'[t] # "InProgress"
            BY <1>3, <2>1, <2>5, <2>7 DEF LockInv
        <3> QED
            BY <2>1, <3>1 DEF LockInv
    <2>9. Test \subseteq Test'
        BY <2>5, <2>7
    <2> QED
        BY <1>1, <2>1, <2>4, <2>6, <2>8, <2>9, PatientBegins
<1>9. CASE ClickExecute(w) /\ ~StartAllowed
    <2>1. /\ Push(w, "dialog", 0) /\ window[w] = "open"
          /\ UNCHANGED <<tests, testIsActive, timers, window, crashed, currentTest, stopOn>>
        BY <1>9 DEF ClickExecute, Clickable
    <2>2. PICK g : g = Frame(w, "dialog", 0)
        OBVIOUS
    <2>3. g.win = w /\ g.op = "dialog"
        BY <2>2, FrameFields
    <2>4. Begins(g)
        BY <2>1, <2>2, PushBegins
    <2>5. FrameInv(g)'
        BY <2>1, <2>3 DEF FrameInv, Waiting, PollOp
    <2>6. LockInv' /\ Test' = Test
        BY <1>3, <2>1, LockKept
    <2> QED
        BY <1>1, <2>1, <2>4, <2>5, <2>6, PatientBegins
<1>10. CASE ClickStop(w)
    <2>1. /\ Push(w, IF StopAllowed THEN "stop" ELSE "dialog", currentTest[w])
          /\ window[w] = "open" /\ stopOn[w]
          /\ UNCHANGED <<tests, testIsActive, timers, window, crashed, currentTest, stopOn>>
        BY <1>10 DEF ClickStop, Clickable, selfTestVars
    <2>2. PICK g : g = Frame(w, IF StopAllowed THEN "stop" ELSE "dialog", currentTest[w])
        OBVIOUS
    <2>3. g.win = w /\ g.op \in {"stop", "dialog"} /\ g.test = currentTest[w]
        BY <2>2, FrameFields
    <2>4. Begins(g)
        BY <2>1, <2>2, PushBegins
    <2>5. g.test \in Test /\ tests[g.test] = "InProgress"
        BY <1>2, <2>1, <2>3
    <2>6. LockInv' /\ Test' = Test
        BY <1>3, <2>1, LockKept
    <2>7. FrameInv(g)'
        BY <2>1, <2>3, <2>5, <2>6 DEF FrameInv, Waiting, PollOp
    <2> QED
        BY <1>1, <2>1, <2>4, <2>6, <2>7, PatientBegins
<1> QED
    BY <1>4, <1>5, <1>6, <1>7, <1>8, <1>9, <1>10

\* The topmost handler goes on as one that any handler may go on as.
LEMMA GoesOnAs ==
    ASSUME stack # <<>>, NEW op, NEW t, ReplaceTop(op, t)
    PROVE  \E g : GoesOn(g) /\ g.win = Top.win /\ g.op = op /\ g.test = t
BY ReplaceGoesOn, FrameFields

LEMMA PatientFetched ==
    ASSUME TypeInv, PatientInv, OpenReturns \/ RefreshReturns \/ StopReturns
    PROVE  PatientInv'
<1>1. /\ stack # <<>> /\ Top.op \in {"open", "refresh", "refill", "stop"}
      /\ UNCHANGED <<tests, testIsActive, timers, stopOn, crashed, currentTest>>
    BY DEF OpenReturns, RefreshReturns, StopReturns, Ready, selfTestVars
<1>2. Top.op \notin PollOp /\ FrameInv(Top) /\ Top.win \in Window
    BY <1>1, TopInv, TopFits DEF PollOp
<1>3. LockInv' /\ Test' = Test
    BY <1>1, LockKept DEF PatientInv
<1>4. \A w \in Window : window'[w] = "destroyed" => window[w] = "destroyed"
    BY DEF OpenReturns, RefreshReturns, StopReturns, TypeInv, WinType
<1>5. \E g : Ends \/ (GoesOn(g) /\ (g.op \in Nested \/ Top.op \notin Nested) /\ FrameInv(g)')
    <2>1. CASE stack' = Below
        BY <1>1, <2>1 DEF Ends
    <2>2. CASE OpenReturns /\ ReplaceTop("dialog", 0) /\ UNCHANGED window
        <3>1. PICK g : GoesOn(g) /\ g.win = Top.win /\ g.op = "dialog" /\ g.test = 0
            BY <1>1, <2>2, GoesOnAs
        <3>2. FrameInv(g)'
            BY <1>2, <2>2, <3>1 DEF FrameInv, Waiting, PollOp
        <3>3. Top.op \notin Nested
            BY <2>2 DEF OpenReturns, Ready, Nested, PollOp
        <3> QED
            BY <3>1, <3>2, <3>3
    <2>3. CASE RefreshReturns /\ ReplaceTop("refreshDialog", 0)
        <3>1. PICK g : GoesOn(g) /\ g.win = Top.win /\ g.op = "refreshDialog" /\ g.test = 0
            BY <1>1, <2>3, GoesOnAs
        <3>2. /\ Top.op \in {"refresh", "refill"} /\ window' = window /\ timers' = timers
              /\ testIsActive' = testIsActive
            BY <2>3 DEF RefreshReturns, Ready
        <3>3. FrameInv(g)'
            BY <1>2, <3>1, <3>2 DEF FrameInv, Waiting, PollOp
        <3> QED
            BY <3>1, <3>3 DEF Nested
    <2>4. CASE StopReturns
        <3>1. PICK op \in {"stopUpdate", "dialog"} : ReplaceTop(op, Top.test)
            BY <2>4 DEF StopReturns
        <3>2. PICK g : GoesOn(g) /\ g.win = Top.win /\ g.op = op /\ g.test = Top.test
            BY <1>1, <3>1, GoesOnAs
        <3>3. Top.op = "stop" /\ window' = window
            BY <2>4 DEF StopReturns, Ready
        <3>4. FrameInv(g)'
            BY <1>1, <1>2, <1>3, <3>1, <3>2, <3>3 DEF FrameInv, Waiting, PollOp
        <3>5. Top.op \notin Nested
            BY <3>3 DEF Nested, PollOp
        <3> QED
            BY <3>2, <3>4, <3>5
    <2> QED
        BY <2>1, <2>2, <2>3, <2>4 DEF OpenReturns, RefreshReturns
<1> QED
    BY <1>1, <1>2, <1>3, <1>4, <1>5, PatientReturns

\* A test begins: no test ran, and none begins with it.
LEMMA BegunLocks ==
    ASSUME TypeInv, LockInv, ~testIsActive, NEW t \in Test, NEW reply, Started(t, reply)
    PROVE  /\ Test' = Test /\ tests'[t] = "InProgress" /\ LockInv' /\ testIsActive' = TRUE
           /\ \A u \in Test : u # t => tests'[u] # "InProgress"
<1>1. tests' = [tests EXCEPT ![t] = "InProgress"] /\ testIsActive' = TRUE
    BY DEF Started
<1>2. Test' = Test /\ tests'[t] = "InProgress" /\ \A u \in Test : u # t => tests'[u] = tests[u]
    BY <1>1 DEF Test
<1>3. \A u \in Test : u # t => tests'[u] # "InProgress"
    BY <1>2 DEF LockInv
<1>4. LockInv'
    BY <1>1, <1>2, <1>3 DEF LockInv
<1> QED
    BY <1>1, <1>2, <1>3, <1>4

LEMMA PatientStarts ==
    ASSUME TypeInv, PatientInv, StartReturns
    PROVE  PatientInv'
<1>1. Ready("start") /\ UNCHANGED <<window, crashed>>
    BY DEF StartReturns
<1>2. stack # <<>> /\ Top.op = "start" /\ Top.win \in Window /\ Top.test \in Test
    BY <1>1, ReadyFits
<1>3. Top.op \notin PollOp /\ Top.op \notin Nested /\ Top.op \notin Waiting
    BY <1>2 DEF Nested, PollOp, Waiting
<1>4. FrameInv(Top)
    BY <1>2, TopInv
<1>5. ~testIsActive /\ \A w \in Window : timers[w] = 0
    BY <1>2, <1>3, <1>4 DEF FrameInv
<1>6. CASE /\ Started(Top.test, Top.reply) /\ stack' = Below
           /\ currentTest' = [currentTest EXCEPT ![Top.win] = Top.test]
           /\ stopOn' = [stopOn EXCEPT ![Top.win] = TRUE]
           /\ timers' = [timers EXCEPT ![Top.win] = @ + 1]
    <2>1. LockInv' /\ Test' = Test
        BY <1>2, <1>5, <1>6, BegunLocks DEF PatientInv
    <2>2. /\ timers'[Top.win] = 1 /\ currentTest'[Top.win] = Top.test
          /\ \A w \in Window : w # Top.win => timers'[w] = 0
        BY <1>2, <1>5, <1>6 DEF TypeInv, WinType, TestType
    <2>3. TimerInv'
        BY <1>2, <2>1, <2>2 DEF TimerInv
    <2>4. \A w \in Window : stopOn'[w] => w = Top.win
        BY <1>3, <1>5, <1>6 DEF PatientInv, StopInv, TypeInv, WinType
    <2>5. StopInv'
        BY <2>2, <2>4 DEF StopInv
    <2>6. DeadInv'
        BY <1>1, <1>2, <1>4, <2>2 DEF PatientInv, DeadInv, FrameInv
    <2>7. Ends
        BY <1>2, <1>6 DEF Ends
    <2>8. \A i \in DOMAIN stack : i = 1
        BY <1>3, FrameFacts DEF PatientInv, OrderInv, Top
    <2>9. stack' = <<>> /\ DOMAIN stack' = {}
        <3>1. Len(stack) \in Nat \ {0} /\ DOMAIN stack = 1 .. Len(stack)
              /\ DOMAIN stack' = 1 .. Len(stack) - 1
            BY <2>7, StackEnds
        <3>2. Len(stack) = 1
            BY <2>8, <3>1
        <3>3. DOMAIN stack' = {}
            BY <3>1, <3>2
        <3>4. stack' = <<>>
            BY <1>2, <1>6, <3>2 DEF Below
        <3> QED
            BY <3>3, <3>4
    <2>10. OrderInv' /\ (\A i \in DOMAIN stack : FrameInv(stack[i]))'
        BY <2>9 DEF OrderInv
    <2> QED
        BY <2>1, <2>3, <2>5, <2>6, <2>10 DEF PatientInv
<1>7. CASE /\ ReplaceTop("dialog", 0)
           /\ UNCHANGED <<testIsActive, tests, currentTest, executeOn, stopOn, timers, begun>>
    <2>1. PICK g : GoesOn(g) /\ g.win = Top.win /\ g.op = "dialog" /\ g.test = 0
        BY <1>2, <1>7, GoesOnAs
    <2>2. FrameInv(g)'
        BY <1>1, <1>4, <2>1 DEF FrameInv, Waiting, PollOp
    <2>3. LockInv' /\ Test' = Test
        BY <1>7, LockKept DEF PatientInv
    <2> QED
        BY <1>1, <1>2, <1>3, <1>7, <2>1, <2>2, <2>3, PatientReturns
<1> QED
    BY <1>6, <1>7 DEF StartReturns

LEMMA PatientStops ==
    ASSUME TypeInv, PatientInv, StopUpdateReturns
    PROVE  PatientInv'
<1>1. /\ Ready("stopUpdate") /\ Stopped(Top.test, Top.reply)
      /\ UNCHANGED <<window, crashed, timers, stopOn, currentTest>>
    BY DEF StopUpdateReturns
<1>2. stack # <<>> /\ Top.op = "stopUpdate"
    BY <1>1, ReadyFits
<1>3. Top.op \notin PollOp /\ Top.op \notin Nested
    BY <1>2 DEF Nested, PollOp
<1>4. FrameInv(Top)
    BY <1>2, TopInv
<1>5. /\ testIsActive' = FALSE /\ Test' = Test
      /\ \A u \in Test : tests'[u] # "InProgress"
    BY <1>1, <1>2, <1>4, StoppedFrees DEF PatientInv, FrameInv
<1>6. LockInv'
    BY <1>5, LockFree
<1>7. \E g : Ends \/ (GoesOn(g) /\ FrameInv(g)')
    <2>1. CASE stack' = Below
        BY <1>2, <2>1 DEF Ends
    <2>2. CASE ReplaceTop("dialog", 0)
        <3>1. PICK g : GoesOn(g) /\ g.win = Top.win /\ g.op = "dialog" /\ g.test = 0
            BY <1>2, <2>2, GoesOnAs
        <3>2. FrameInv(g)'
            BY <1>1, <1>4, <3>1 DEF FrameInv, Waiting, PollOp
        <3> QED
            BY <3>1, <3>2
    <2> QED
        BY <2>1, <2>2 DEF StopUpdateReturns
<1> QED
    BY <1>1, <1>2, <1>3, <1>5, <1>6, <1>7, PatientReturns

\* A window cleans up while it has no timeout callback left.
LEMMA PatientCleansUp ==
    ASSUME TypeInv, PatientInv, NEW w \in Window, window[w] # "destroyed", NEW below,
           CleanUp(w, below), \A v \in Window : timers'[v] = 0,
           \/ below = stack /\ Len(stack) < MaxDepth /\ (stack = <<>> \/ Top.op \in Waiting)
           \/ below = Below /\ stack # <<>> /\ w = Top.win,
           \A v \in Window : stopOn[v] => v = w,
           LockInv', Test \subseteq Test', testIsActive' \in BOOLEAN,
           testIsActive' => testIsActive /\ tests' = tests
    PROVE  PatientInv'
<1>1. UNCHANGED <<window, currentTest, begun, crashed>> /\ stopOn' = [stopOn EXCEPT ![w] = FALSE]
    BY DEF CleanUp
<1>2. PICK g : g = Frame(w, IF testIsActive' THEN "refreshDialog" ELSE "refill", 0)
    OBVIOUS
<1>3. /\ g.win = w /\ (testIsActive' => g.op = "refreshDialog")
      /\ (~testIsActive' => g.op = "refill")
    BY <1>2, FrameFields
<1>4. stack' = Append(below, g)
    BY <1>2 DEF CleanUp, Refetch
<1>5. \/ Begins(g) /\ (stack = <<>> \/ Top.op \in Waiting)
      \/ GoesOn(g)
    BY <1>4 DEF Begins, GoesOn
<1>6. g.op \in Nested
    BY <1>3 DEF Nested
<1>7. FrameInv(g)'
    BY <1>1, <1>3 DEF FrameInv, Waiting, PollOp
<1>8. OrderInv' /\ (\A i \in DOMAIN stack : FrameInv(stack[i]))'
    <2>1. testIsActive' => /\ testIsActive
                           /\ \A t \in Test : tests[t] = "InProgress" =>
                                 t \in Test' /\ tests'[t] = "InProgress"
        OBVIOUS
    <2>2. OrderInv /\ (\A i \in DOMAIN stack : FrameInv(stack[i]))
        BY DEF PatientInv
    <2>3. \A v \in Window : window[v] # "destroyed" => window'[v] # "destroyed"
        BY <1>1
    <2> QED
        BY <1>5, <1>6, <1>7, <2>1, <2>2, <2>3, FramesKept
<1>9. TimerInv'
    BY DEF TimerInv
<1>10. StopInv'
    BY <1>1 DEF StopInv, TypeInv, WinType
<1>11. DeadInv'
    BY <1>1 DEF PatientInv, DeadInv
<1> QED
    BY <1>8, <1>9, <1>10, <1>11 DEF PatientInv

LEMMA PatientPolls ==
    ASSUME TypeInv, PatientInv,
           PollReturns \/ PollGivesUp \/ PollAbortReturns \/ PollAbortUpdateReturns
    PROVE  PatientInv'
<1>1. stack # <<>> /\ Top.op \in PollOp /\ Top.win \in Window
    BY ReadyFits DEF PollReturns, PollGivesUp, PollAbortReturns, PollAbortUpdateReturns, PollOp
<1>2. Top.op \notin Waiting /\ Top.op \in Nested
    BY <1>1 DEF Waiting, Nested, PollOp
<1>3. /\ FrameInv(Top) /\ \A w \in Window : timers[w] = 0
      /\ Top.test = currentTest[Top.win] /\ Top.test \in Test /\ tests[Top.test] = "InProgress"
      /\ window[Top.win] # "destroyed" /\ testIsActive
    <2>1. FrameInv(Top)
        BY <1>1, TopInv
    <2> QED
        BY <1>1, <1>2, <2>1 DEF FrameInv, PatientInv, LockInv
<1>4. \A w \in Window : stopOn[w] => w = Top.win
    BY <1>3 DEF PatientInv, StopInv
<1>5. ASSUME CleanUp(Top.win, Below), UNCHANGED timers, LockInv', Test' = Test,
             testIsActive' \in BOOLEAN, testIsActive' => testIsActive /\ tests' = tests
      PROVE  PatientInv'
    BY <1>1, <1>3, <1>4, <1>5, PatientCleansUp
<1>6. ASSUME NEW op \in PollOp, ReplaceTop(op, Top.test),
             UNCHANGED <<testIsActive, tests, timers, window, stopOn, currentTest, crashed>>
      PROVE  PatientInv'
    <2>1. PICK g : GoesOn(g) /\ g.win = Top.win /\ g.op = op /\ g.test = Top.test
        BY <1>1, <1>6, GoesOnAs
    <2>2. op \in Nested /\ op \notin {"start", "refresh", "refill", "open", "stop", "stopUpdate"}
        BY DEF PollOp, Nested
    <2>3. LockInv' /\ Test' = Test
        BY <1>6, LockKept DEF PatientInv
    <2>4. FrameInv(g)'
        BY <1>3, <1>6, <2>1, <2>2, <2>3 DEF FrameInv
    <2>5. OrderInv' /\ (\A i \in DOMAIN stack : FrameInv(stack[i]))'
        BY <1>6, <2>1, <2>2, <2>3, <2>4, FramesKept DEF PatientInv
    <2>6. TimerInv' /\ DeadInv'
        BY <1>6, <2>3 DEF PatientInv, TimerInv, DeadInv
    <2>7. StopInv'
        <3>1. stack' # <<>> /\ Top' = g
            BY <2>1, StackGoesOn DEF Top
        <3> QED
            BY <1>4, <1>6, <2>1, <3>1 DEF StopInv
    <2> QED
        BY <2>3, <2>5, <2>6, <2>7 DEF PatientInv
<1>7. CASE PollReturns /\ Updated(Top.test, Top.reply)
    <2>1. /\ tests' = [tests EXCEPT ![Top.test] = Top.reply] /\ stack' = Below
          /\ testIsActive' = (Top.reply = "InProgress")
          /\ timers' = [timers EXCEPT ![Top.win] = @ + 1]
          /\ UNCHANGED <<window, stopOn, currentTest, crashed>>
        <3>1. Top.reply # "error"
            BY <1>7 DEF Updated, Status
        <3> QED
            BY <1>7, <3>1 DEF PollReturns, Updated
    <2>2. /\ Test' = Test /\ tests'[Top.test] = Top.reply
          /\ \A u \in Test : u # Top.test => tests'[u] = tests[u]
        BY <1>3, <2>1 DEF Test
    <2>3. \A u \in Test : u # Top.test => tests'[u] # "InProgress"
        BY <1>3, <2>2 DEF PatientInv, LockInv
    <2>4. LockInv'
        BY <1>3, <2>1, <2>2, <2>3 DEF LockInv
    <2>5. Ends
        BY <1>1, <2>1 DEF Ends
    <2>6. testIsActive' => /\ testIsActive
                           /\ \A t \in Test : tests[t] = "InProgress" =>
                                 t \in Test' /\ tests'[t] = "InProgress"
        BY <1>3, <2>1, <2>2
    <2>7. OrderInv' /\ (\A i \in DOMAIN stack : FrameInv(stack[i]))'
        BY <2>1, <2>5, <2>6, FramesKept DEF PatientInv
    <2>8. /\ timers'[Top.win] = 1 /\ \A w \in Window : w # Top.win => timers'[w] = 0
        BY <1>1, <1>3, <2>1 DEF TypeInv, WinType
    <2>9. TimerInv'
        BY <1>3, <2>1, <2>2, <2>8 DEF TimerInv
    <2>10. StopInv'
        BY <1>4, <2>1, <2>8 DEF StopInv
    <2>11. DeadInv'
        BY <1>3, <2>1, <2>8 DEF PatientInv, DeadInv
    <2> QED
        BY <2>4, <2>7, <2>9, <2>10, <2>11 DEF PatientInv
<1>8. CASE PollReturns /\ ~Updated(Top.test, Top.reply)
    <2>1. /\ ReplaceTop("pollAbort", Top.test)
          /\ UNCHANGED <<testIsActive, tests, timers, window, stopOn, currentTest, crashed>>
        BY <1>3, <1>8 DEF PollReturns
    <2> QED
        BY <1>6, <2>1 DEF PollOp
<1>9. CASE PollGivesUp
    BY <1>3, <1>9 DEF PollGivesUp, StopAllowed
<1>10. CASE PollAbortReturns
    <2>1. CASE ReplaceTop("pollAbortUpdate", Top.test)
               /\ UNCHANGED <<testIsActive, tests, timers, window, stopOn, currentTest, crashed>>
        BY <1>6, <2>1 DEF PollOp
    <2>2. CASE CleanUp(Top.win, Below) /\ UNCHANGED <<testIsActive, tests, timers>>
        <3>1. LockInv' /\ Test' = Test
            BY <2>2, LockKept DEF PatientInv
        <3> QED
            BY <1>3, <1>5, <2>2, <3>1
    <2> QED
        BY <1>10, <2>1, <2>2 DEF PollAbortReturns
<1>11. CASE PollAbortUpdateReturns
    <2>1. CleanUp(Top.win, Below) /\ UNCHANGED timers /\ Stopped(Top.test, Top.reply)
        BY <1>11 DEF PollAbortUpdateReturns
    <2>2. /\ testIsActive' = FALSE /\ Test' = Test
          /\ \A u \in Test : tests'[u] # "InProgress"
        BY <1>3, <2>1, StoppedFrees DEF PatientInv
    <2>3. LockInv'
        BY <2>2, LockFree
    <2> QED
        BY <1>5, <2>1, <2>2, <2>3
<1> QED
    BY <1>7, <1>8, <1>9, <1>10, <1>11

LEMMA PatientTicks ==
    ASSUME TypeInv, PatientInv, NEW w \in Window, Tick(w)
    PROVE  PatientInv'
<1>1. /\ window[w] = "open" /\ timers[w] > 0 /\ Len(stack) < MaxDepth
      /\ timers' = [timers EXCEPT ![w] = @ - 1]
      /\ UNCHANGED <<testIsActive, tests, window, currentTest, crashed>>
    BY DEF Tick, Poll, TestOver, Due, CleanUp, selfTestVars
<1>2. LockInv' /\ Test' = Test
    BY <1>1, LockKept DEF PatientInv
<1>3. stack = <<>> \/ Top.op \in Waiting
    <2> SUFFICES ASSUME stack # <<>> PROVE Top.op \in Waiting
        OBVIOUS
    <2>1. FrameInv(Top)
        BY TopInv
    <2> QED
        BY <1>1, <2>1 DEF FrameInv
<1>4. timers[w] = 1 /\ \A v \in Window : v # w => timers[v] = 0
    <2>1. \A v \in Window : timers[v] \in Nat /\ timers[v] <= 1
        BY DEF PatientInv, TimerInv, TypeInv, WinType
    <2> QED
        BY <1>1, <2>1 DEF PatientInv, TimerInv
<1>5. \A v \in Window : timers'[v] = 0
    BY <1>1, <1>4 DEF TypeInv, WinType
<1>6. \A v \in Window : stopOn[v] => v = w
    <2>1. stack # <<>> => Top.op \notin PollOp
        BY <1>3 DEF Waiting, PollOp
    <2> QED
        BY <1>4, <2>1 DEF PatientInv, StopInv
<1>7. CASE Poll(w)
    <2>1. Push(w, "poll", currentTest[w]) /\ stopOn' = stopOn /\ ~Lagging(w)
        BY <1>7 DEF Poll
    <2>2. PICK g : g = Frame(w, "poll", currentTest[w])
        OBVIOUS
    <2>3. g.win = w /\ g.op = "poll" /\ g.test = currentTest[w]
        BY <2>2, FrameFields
    <2>4. Begins(g)
        BY <2>1, <2>2, PushBegins
    <2>5. g.test \in Test /\ tests[g.test] = "InProgress"
        BY <1>1, <2>1, <2>3 DEF Lagging, PatientInv, TimerInv
    <2>6. FrameInv(g)'
        BY <1>1, <1>2, <1>5, <2>3, <2>5 DEF FrameInv
    <2>7. OrderInv' /\ (\A i \in DOMAIN stack : FrameInv(stack[i]))'
        BY <1>1, <1>2, <1>3, <2>3, <2>4, <2>6, FramesKept DEF PatientInv, Nested, PollOp
    <2>8. TimerInv'
        BY <1>5 DEF TimerInv
    <2>9. DeadInv'
        BY <1>1, <1>5 DEF PatientInv, DeadInv
    <2>10. StopInv'
        <3>1. stack' # <<>> /\ Top' = g
            BY <2>4, StackBegins DEF Top
        <3> QED
            BY <1>6, <2>1, <2>3, <3>1 DEF StopInv, PollOp
    <2> QED
        BY <1>2, <2>7, <2>8, <2>9, <2>10 DEF PatientInv
<1>8. CASE TestOver(w)
    <2>1. CleanUp(w, stack)
        BY <1>8 DEF TestOver
    <2>2. testIsActive' \in BOOLEAN /\ (testIsActive' => testIsActive /\ tests' = tests)
        BY <1>1 DEF TypeInv, SelfType
    <2> QED
        BY <1>1, <1>2, <1>3, <1>5, <1>6, <2>1, <2>2, PatientCleansUp
<1> QED
    BY <1>7, <1>8 DEF Tick

\* A step that no handler takes.
LEMMA PatientElse ==
    ASSUME TypeInv, PatientInv,
           UNCHANGED <<testIsActive, tests, window, stopOn, currentTest, timers, begun, crashed>>,
           stack' = stack \/ \E i, r : Answered(i, r)
    PROVE  PatientInv'
<1>1. /\ Len(stack) \in Nat /\ DOMAIN stack = 1 .. Len(stack)
      /\ \A i \in 1 .. Len(stack) : stack[i] \in FrameSet(Len(tests)) /\ stack[i].win \in Window
    BY FrameFacts
<1>2. /\ Len(stack') = Len(stack) /\ DOMAIN stack' = DOMAIN stack
      /\ \A j \in 1 .. Len(stack) :
            /\ stack'[j].win = stack[j].win /\ stack'[j].op = stack[j].op
            /\ stack'[j].test = stack[j].test
    <2>1. CASE stack' = stack
        BY <2>1
    <2>2. CASE \E i, r : Answered(i, r)
        <3>1. PICK i, r : Answered(i, r)
            BY <2>2
        <3>2. stack \in Seq(FrameSet(Len(tests))) /\ i \in 1 .. Len(stack)
              /\ stack' = [stack EXCEPT ![i].reply = r]
            BY <1>1, <3>1 DEF Answered, TypeInv, StackType
        <3>3. DOMAIN stack' = DOMAIN stack /\ Len(stack') = Len(stack)
            BY <3>2
        <3>4. \A j \in 1 .. Len(stack) :
                 stack'[j] = IF j = i THEN [stack[j] EXCEPT !.reply = r] ELSE stack[j]
            BY <1>1, <3>2
        <3> QED
            BY <1>1, <3>3, <3>4 DEF FrameSet, FrameType
    <2> QED
        BY <2>1, <2>2
<1>3. LockInv' /\ Test' = Test
    BY LockKept DEF PatientInv
<1>4. OrderInv'
    BY <1>1, <1>2 DEF PatientInv, OrderInv
<1>5. TimerInv' /\ DeadInv'
    BY <1>3 DEF PatientInv, TimerInv, DeadInv
<1>6. StopInv'
    <2> SUFFICES ASSUME NEW w \in Window, stopOn[w], ~(timers[w] > 0)
                 PROVE  stack' # <<>> /\ Top'.win = w /\ Top'.op \in PollOp
        BY DEF StopInv
    <2>1. stack # <<>> /\ Top.win = w /\ Top.op \in PollOp
        BY DEF PatientInv, StopInv
    <2>2. Len(stack) # 0 /\ Len(stack) \in 1 .. Len(stack)
        BY <2>1, TopFits
    <2>3. stack' # <<>>
        BY <1>2, <2>2
    <2> QED
        BY <1>2, <2>1, <2>2, <2>3 DEF Top
<1>7. (\A i \in DOMAIN stack : FrameInv(stack[i]))'
    <2> SUFFICES ASSUME NEW i \in 1 .. Len(stack) PROVE FrameInv(stack[i])'
        BY <1>1, <1>2
    <2>1. FrameInv(stack[i])
        BY <1>1 DEF PatientInv
    <2> QED
        BY <1>2, <1>3, <2>1 DEF FrameInv
<1> QED
    BY <1>3, <1>4, <1>5, <1>6, <1>7 DEF PatientInv

LEMMA PatientNext ==
    ASSUME Pace = "patient", TypeInv, PatientInv, [Next]_allVars
    PROVE  PatientInv'
<1>1. CASE User
    BY <1>1, PatientClicks DEF User
<1>2. CASE Resume
    BY <1>2, PatientFetched, PatientStarts, PatientStops, PatientPolls DEF Resume
<1>3. CASE DialogClosed
    <2>1. /\ Ends /\ stack # <<>> /\ Top.op \notin PollOp
          /\ UNCHANGED <<timers, stopOn, crashed, currentTest, window, tests, testIsActive>>
        BY <1>3 DEF DialogClosed, Ends, DialogOp, PollOp, selfTestVars
    <2>2. LockInv' /\ Test' = Test
        BY <2>1, LockKept DEF PatientInv
    <2> QED
        BY <2>1, <2>2, PatientReturns
<1>4. CASE UseDestroyed
    <2>1. \A w \in Window : window[w] = "destroyed" => timers[w] = 0
        BY DEF PatientInv, DeadInv
    <2>2. stack # <<>> => window[Top.win] # "destroyed"
        BY TopInv DEF FrameInv
    <2> QED
        BY <1>4, <2>1, <2>2 DEF UseDestroyed
<1>5. CASE DriveSteps
    BY <1>5, PatientElse DEF DriveSteps, DriveEndsTest, windowVars
<1>6. CASE \E w \in Window : Tick(w)
    BY <1>6, PatientTicks
<1>7. CASE \E i \in 1 .. MaxDepth : CommandRuns(i)
    <2>1. PICK i \in 1 .. MaxDepth : CommandRuns(i)
        BY <1>7
    <2>2. \E r : Answered(i, r)
        BY <2>1, CommandAnswers
    <2>3. UNCHANGED <<testIsActive, tests, window, stopOn, currentTest, timers, begun, crashed>>
        BY <2>1 DEF CommandRuns
    <2> QED
        BY <2>2, <2>3, PatientElse
<1>8. CASE UNCHANGED allVars
    BY <1>8, PatientElse DEF allVars, selfTestVars, windowVars
<1> QED
    BY <1>1, <1>2, <1>3, <1>4, <1>5, <1>6, <1>7, <1>8 DEF Next

LEMMA PatientInit == Init => PatientInv
<1> SUFFICES ASSUME Init PROVE PatientInv
    OBVIOUS
<1>1. DOMAIN stack = {} /\ Test = {}
    BY DEF Init, Test
<1>2. OrderInv /\ LockInv /\ TimerInv /\ StopInv /\ DeadInv
    BY <1>1 DEF Init, OrderInv, LockInv, TimerInv, StopInv, DeadInv
<1> QED
    BY <1>1, <1>2 DEF PatientInv

LEMMA Patience ==
    ASSUME Pace = "patient"
    PROVE  Spec => [](TypeInv /\ PatientInv)
<1>1. TypeInv /\ PatientInv /\ [Next]_allVars => PatientInv'
    BY PatientNext
<1> QED
    BY <1>1, TypeInit, TypeNext, PatientInit, PTL DEF Spec

\* No window reads the data of the drive while a test holds its lock, though refresh_info()
\* and show_device_info_window() look at the lock before they fetch.
THEOREM FetchesWait ==
    ASSUME Pace = "patient"
    PROVE  Spec => []NoFetchWhileTesting
<1>1. TypeInv /\ PatientInv => NoFetchWhileTesting
    <2> SUFFICES ASSUME TypeInv, PatientInv, NEW i \in DOMAIN stack,
                        CommandOfFrame(stack[i]) = "--xall"
                 PROVE  ~testIsActive
        BY DEF NoFetchWhileTesting
    <2>1. stack[i].op \in {"refresh", "refill", "open"}
        BY DEF CommandOfFrame, CommandOf
    <2> QED
        BY <2>1 DEF PatientInv, FrameInv
<1> QED
    BY <1>1, Patience, PTL

-----------------------------------------------------------------------------
(* The windows and the promise of SelfTest.                                *)

\* The lock and the tests that run, seen by TestRun.
LEMMA RunningTests ==
    ASSUME LockInv
    PROVE  /\ ~testIsActive => Running = {}
           /\ \A t \in Test : tests[t] = "InProgress" => Running = {t} /\ testIsActive
           /\ testIsActive => Running # {}
BY DEF LockInv, Running

LEMMA NothingRuns ==
    ASSUME Test' = Test, \A u \in Test : tests'[u] # "InProgress"
    PROVE  Running' = {}
BY DEF Running

LEMMA PromiseKept ==
    ASSUME TypeInv, PatientInv, [Next]_allVars
    PROVE  [Promise!Next]_(Promise!vars)
<1>1. LockInv
    BY DEF PatientInv
<1>2. ASSUME UNCHANGED <<testIsActive, tests, begun>>
      PROVE  UNCHANGED Promise!vars
    BY <1>2 DEF Promise!vars, Running, Test
<1>3. ASSUME testIsActive' = FALSE, Test' = Test, \A u \in Test : tests'[u] # "InProgress",
             begun' = begun
      PROVE  [Promise!Next]_(Promise!vars)
    <2>1. Running' = {}
        BY <1>3, NothingRuns
    <2>2. CASE testIsActive
        <3>1. Running # {}
            BY <1>1, <2>2, RunningTests
        <3> QED
            BY <1>3, <2>1, <3>1 DEF Promise!Next, Promise!End
    <2>3. CASE ~testIsActive
        <3>1. Running = {} /\ testIsActive = FALSE
            BY <1>1, <2>3, RunningTests DEF TypeInv, SelfType
        <3> QED
            BY <1>3, <2>1, <3>1 DEF Promise!vars
    <2> QED
        BY <2>2, <2>3
<1>4. CASE \E w \in Window : ClickExecute(w)
    <2>1. PICK w \in Window : ClickExecute(w)
        BY <1>4
    <2>2. UNCHANGED <<testIsActive, begun>>
        BY <2>1 DEF ClickExecute
    <2>3. CASE tests' = tests
        BY <1>2, <2>2, <2>3
    <2>4. CASE tests' = Append(tests, "Unknown")
        <3>1. /\ Test = 1 .. Len(tests) /\ Test' = 1 .. Len(tests) + 1 /\ Len(tests) \in Nat
              /\ tests'[Len(tests) + 1] = "Unknown" /\ \A t \in Test : tests'[t] = tests[t]
            BY <2>4, FrameFacts, Pushed DEF TypeInv, SelfType, Status, Test
        <3>2. Running' = Running
            BY <3>1 DEF Running
        <3> QED
            BY <2>2, <3>2 DEF Promise!vars
    <2> QED
        BY <2>1, <2>3, <2>4 DEF ClickExecute, Construct
<1>5. CASE StartReturns
    <2>1. Ready("start")
        BY <1>5 DEF StartReturns
    <2>2. stack # <<>> /\ Top.op = "start" /\ Top.test \in Test
        BY <2>1, ReadyFits
    <2>3. FrameInv(Top)
        BY <2>2, TopInv
    <2>4. ~testIsActive /\ Top.test \notin begun
        BY <2>2, <2>3 DEF FrameInv
    <2>5. CASE Started(Top.test, Top.reply) /\ begun' = begun \cup {Top.test}
        <3> DEFINE t == Top.test
        <3>1. /\ Test' = Test /\ tests'[t] = "InProgress" /\ testIsActive' = TRUE
              /\ \A u \in Test : u # t => tests'[u] # "InProgress"
            BY <1>1, <2>2, <2>4, <2>5, BegunLocks
        <3>2. Running' = {t}
            BY <2>2, <3>1 DEF Running
        <3>3. Running = {} /\ t \in begun' \ begun /\ begun' = begun \cup {t}
            BY <1>1, <2>4, <2>5, RunningTests
        <3> HIDE DEF t
        <3>4. Promise!Begin
            BY <3>1, <3>2, <3>3 DEF Promise!Begin
        <3> QED
            BY <3>4 DEF Promise!Next
    <2>6. CASE UNCHANGED <<testIsActive, tests, begun>>
        BY <1>2, <2>6
    <2> QED
        BY <1>5, <2>5, <2>6 DEF StartReturns
<1>6. CASE StopUpdateReturns \/ PollAbortUpdateReturns
    <2>1. /\ Ready("stopUpdate") \/ Ready("pollAbortUpdate")
          /\ Stopped(Top.test, Top.reply) /\ begun' = begun
        BY <1>6 DEF StopUpdateReturns, PollAbortUpdateReturns, CleanUp
    <2>2. stack # <<>> /\ Top.op \in {"stopUpdate", "pollAbortUpdate"}
        BY <2>1, ReadyFits
    <2>3. FrameInv(Top)
        BY <2>2, TopInv
    <2>4. testIsActive => Top.test \in Test /\ tests[Top.test] = "InProgress"
        BY <2>2, <2>3 DEF FrameInv, PollOp
    <2>5. testIsActive' = FALSE /\ Test' = Test /\ \A u \in Test : tests'[u] # "InProgress"
        BY <1>1, <2>1, <2>4, StoppedFrees
    <2> QED
        BY <1>3, <2>1, <2>5
<1>7. CASE PollReturns
    <2>1. stack # <<>> /\ Top.op = "poll"
        BY <1>7, ReadyFits DEF PollReturns
    <2>2. FrameInv(Top)
        BY <2>1, TopInv
    <2>3. Top.test \in Test /\ tests[Top.test] = "InProgress" /\ testIsActive
        BY <1>1, <2>1, <2>2, RunningTests DEF FrameInv, PollOp
    <2>4. CASE Updated(Top.test, Top.reply) /\ Top.reply = "InProgress"
        <3>1. /\ tests' = [tests EXCEPT ![Top.test] = "InProgress"]
              /\ testIsActive' = TRUE /\ begun' = begun
            BY <1>7, <2>4 DEF Updated, PollReturns
        <3>2. tests' = tests
            BY <2>3, <3>1 DEF Test, TypeInv, SelfType
        <3>3. testIsActive = TRUE
            BY <2>3 DEF TypeInv, SelfType
        <3> QED
            BY <1>2, <3>1, <3>2, <3>3
    <2>5. CASE Updated(Top.test, Top.reply) /\ Top.reply # "InProgress"
        <3>1. tests' = [tests EXCEPT ![Top.test] = Top.reply] /\ testIsActive' = FALSE
              /\ begun' = begun
            BY <1>7, <2>5 DEF Updated, PollReturns
        <3>2. /\ Test' = Test /\ tests'[Top.test] = Top.reply
              /\ \A u \in Test : u # Top.test => tests'[u] = tests[u]
            BY <2>3, <3>1 DEF Test
        <3>3. \A u \in Test : u # Top.test => tests[u] # "InProgress"
            BY <1>1, <2>3 DEF LockInv
        <3> QED
            BY <1>3, <2>5, <3>1, <3>2, <3>3
    <2>6. CASE UNCHANGED <<testIsActive, tests>>
        BY <1>2, <1>7, <2>6 DEF PollReturns
    <2> QED
        BY <1>7, <2>4, <2>5, <2>6 DEF PollReturns
<1>8. CASE \/ \E w \in Window : Open(w) \/ Close(w) \/ ClickRefresh(w) \/ ClickStop(w) \/ Tick(w)
           \/ OpenReturns \/ RefreshReturns \/ StopReturns \/ PollGivesUp \/ PollAbortReturns
           \/ DialogClosed \/ UseDestroyed \/ DriveSteps
           \/ \E i \in 1 .. MaxDepth : CommandRuns(i)
           \/ UNCHANGED allVars
    <2>1. UNCHANGED <<testIsActive, tests, begun>>
        BY <1>8
        DEF Open, Close, ClickRefresh, ClickStop, Tick, Poll, TestOver, OpenReturns, RefreshReturns,
            StopReturns, PollGivesUp, PollAbortReturns, CleanUp, DialogClosed, UseDestroyed,
            DriveSteps, DriveEndsTest, CommandRuns, selfTestVars, windowVars, allVars
    <2> QED
        BY <1>2, <2>1
<1> QED
    BY <1>4, <1>5, <1>6, <1>7, <1>8 DEF Next, User, Resume

\* What SelfTest promises (src/applib/selftest.h) is kept by all windows of a drive
\* together: one test at a time, each once, and the lock of StorageDevice held exactly
\* while one runs.
THEOREM TestsRunInTurn ==
    ASSUME Pace = "patient"
    PROVE  Spec => RunsTestsInTurn
<1>1. Init => Promise!Init
    BY DEF Init, Promise!Init, Running, Test
<1>2. TypeInv /\ PatientInv /\ [Next]_allVars => [Promise!Next]_(Promise!vars)
    BY PromiseKept
<1>3. Spec => Promise!Spec
    BY <1>1, <1>2, Patience, PTL DEF Spec, Promise!Spec
<1> QED
    BY <1>3 DEF RunsTestsInTurn

-----------------------------------------------------------------------------
(* A window and its test.                                                  *)

\* The window of a test that runs is there, and its test was begun.
KeepInv == TestKeepsItsWindow /\ \A w \in Window : currentTest[w] # 0 => currentTest[w] \in begun

\* Only on_test_execute_button_clicked() gives a window another test, one that is new.
LEMMA CurrentTestChanges ==
    ASSUME TypeInv, PatientInv, [Next]_allVars
    PROVE  \/ UNCHANGED <<currentTest, begun>>
           \/ /\ stack # <<>> /\ Top.win \in Window /\ window[Top.win] # "destroyed"
              /\ Top.test \notin begun /\ UNCHANGED window
              /\ currentTest' = [currentTest EXCEPT ![Top.win] = Top.test]
              /\ begun' = begun \cup {Top.test}
<1>1. CASE StartReturns
    <2>1. Ready("start") /\ UNCHANGED window
        BY <1>1 DEF StartReturns
    <2>2. stack # <<>> /\ Top.op = "start" /\ Top.win \in Window
        BY <2>1, ReadyFits
    <2>3. Top.test \notin begun /\ window[Top.win] # "destroyed"
        BY <2>2, TopInv DEF FrameInv
    <2> QED
        BY <1>1, <2>1, <2>2, <2>3 DEF StartReturns
<1>2. CASE ~StartReturns
    BY <1>2, Zenon
    DEF Next, User, Resume, Tick, Open, Close, ClickRefresh, ClickExecute, ClickStop, Poll, TestOver,
        OpenReturns, RefreshReturns, StopReturns, StopUpdateReturns, PollReturns, PollGivesUp,
        PollAbortReturns, PollAbortUpdateReturns, CleanUp, DialogClosed, UseDestroyed, DriveSteps,
        CommandRuns, windowVars, allVars
<1> QED
    BY <1>1, <1>2

\* Only on_delete_event() destroys a window, and not while a test runs.
LEMMA WindowChanges ==
    ASSUME TypeInv, PatientInv, [Next]_allVars
    PROVE  \/ \A w \in Window : window'[w] = "destroyed" => window[w] = "destroyed"
           \/ Running = {} /\ UNCHANGED <<currentTest, begun, tests>>
<1>w. window \in [Window -> {"new", "open", "destroyed"}]
    BY DEF TypeInv, WinType
<1>1. CASE \E w \in Window : Close(w)
    <2>1. PICK w \in Window : Close(w)
        BY <1>1
    <2>2. CASE testIsActive
        BY <2>1, <2>2 DEF Close
    <2>3. CASE ~testIsActive
        <3>1. Running = {}
            BY <2>3 DEF PatientInv, LockInv, Running
        <3> QED
            BY <2>1, <3>1 DEF Close, selfTestVars
    <2> QED
        BY <2>2, <2>3
<1>2. CASE OpenReturns
    <2>1. UNCHANGED window \/ window' = [window EXCEPT ![Top.win] = "open"]
        BY <1>2 DEF OpenReturns
    <2> QED
        BY <1>w, <2>1
<1>3. CASE ~OpenReturns /\ ~\E w \in Window : Close(w)
    <2>1. UNCHANGED window
        BY <1>3, Zenon
        DEF Next, User, Resume, Tick, Open, ClickRefresh, ClickExecute, ClickStop, Poll, TestOver,
            RefreshReturns, StartReturns, StopReturns, StopUpdateReturns, PollReturns, PollGivesUp,
            PollAbortReturns, PollAbortUpdateReturns, CleanUp, DialogClosed, UseDestroyed,
            DriveSteps, CommandRuns, windowVars, allVars
    <2> QED
        BY <2>1
<1> QED
    BY <1>1, <1>2, <1>3

LEMMA KeepStep == TypeInv /\ PatientInv /\ KeepInv /\ [Next]_allVars => KeepInv'
<1> SUFFICES ASSUME TypeInv, PatientInv, KeepInv, [Next]_allVars PROVE KeepInv'
    OBVIOUS
<1>1. currentTest \in [Window -> 0 .. Len(tests)]
    BY DEF TypeInv, TestType
<1>2. [Promise!Next]_(Promise!vars)
    BY PromiseKept
<1>3. CASE UNCHANGED <<currentTest, begun>>
    <2>1. Running' \subseteq Running
        BY <1>2, <1>3 DEF Promise!Next, Promise!Begin, Promise!End, Promise!vars
    <2>2. Running = {} \/ \A w \in Window : window'[w] = "destroyed" => window[w] = "destroyed"
        BY WindowChanges
    <2> QED
        BY <1>3, <2>1, <2>2 DEF KeepInv, TestKeepsItsWindow
<1>4. CASE /\ stack # <<>> /\ Top.win \in Window /\ window[Top.win] # "destroyed"
           /\ Top.test \notin begun /\ UNCHANGED window
           /\ currentTest' = [currentTest EXCEPT ![Top.win] = Top.test]
           /\ begun' = begun \cup {Top.test}
    <2>0. \/ \E t \in begun' \ begun : Running' = {t}
          \/ Running' = {}
          \/ Running' = Running
        BY <1>2, Zenon DEF Promise!Next, Promise!Begin, Promise!End, Promise!vars
    <2>1. Running' \subseteq Running \cup {Top.test}
        BY <1>4, <2>0
    <2>2. 0 \notin Running' /\ 0 \notin Running
        <3>1. TypeInv'
            BY TypeNext
        <3>2. tests \in Seq(Status) /\ tests' \in Seq(Status)
            BY <3>1 DEF TypeInv, SelfType
        <3> QED
            BY <3>2 DEF Running, Test
    <2>3. ASSUME NEW w \in Window, currentTest'[w] \in Running' PROVE window'[w] # "destroyed"
        BY <1>1, <1>4, <2>1, <2>2, <2>3 DEF KeepInv, TestKeepsItsWindow
    <2>4. ASSUME NEW w \in Window, currentTest'[w] # 0 PROVE currentTest'[w] \in begun'
        BY <1>1, <1>4, <2>4 DEF KeepInv
    <2> QED
        BY <2>3, <2>4 DEF KeepInv, TestKeepsItsWindow
<1> QED
    BY <1>3, <1>4, CurrentTestChanges

\* A window whose test is in progress stays, whatever else the user does once the windows have
\* caught up, and whichever command fails: the lock that on_close_window_button_clicked() looks
\* at is held for as long as the test is.
THEOREM TestsKeepTheirWindows ==
    ASSUME Pace = "patient"
    PROVE  Spec => []TestKeepsItsWindow
<1>1. Init => KeepInv
    BY DEF Init, KeepInv, TestKeepsItsWindow, Running, Test
<1>2. TypeInv /\ PatientInv /\ KeepInv /\ [Next]_allVars => KeepInv'
    BY KeepStep
<1>3. KeepInv => TestKeepsItsWindow
    BY DEF KeepInv
<1> QED
    BY <1>1, <1>2, <1>3, Patience, PTL DEF Spec
=============================================================================
