-------------------------- MODULE JmpContextProofs --------------------------
(***************************************************************************)
(* The switch of contexts gives every task its own registers, for every    *)
(* set of tasks, of words, and of registers that the programs write; rsp   *)
(* is not among those it gives back (see StackPointerFalls).               *)
(***************************************************************************)
EXTENDS JmpContext, TLAPS

\* The inductive invariant: types, a saved context that holds, where the rdi
\* was saved, the address it is saved at, and the flag that says zero from the
\* test of timer_settime's answer on.
ContextInv ==
    /\ alive \subseteq Task
    /\ running \in alive \cup {NoTask}
    /\ chosen # NoTask => running = NoTask /\ zf = TRUE
    /\ cpu \in [Register -> Value] /\ cpu["rsp"] \in Address
    /\ zf \in BOOLEAN
    /\ context \in [Task -> [1 .. 17 -> Value]]
    /\ \A t \in Task : context[t][7] \in Address
    /\ \A t \in alive : t # running => context[t][5] = t

LEMMA Words ==
    /\ 0 \in Value /\ 1 \in Value /\ 0 \in Word /\ 1 \in Word
    /\ 0 \in Address /\ StackWords \in Address /\ Address \subseteq Value
    /\ Word \subseteq Value /\ Task \subseteq Value
    /\ \A sp \in Address : sp > 0 => /\ sp - 1 \in Address
                                    /\ (sp - 1) + 1 = sp
    /\ \A sp \in Address \ {0} : sp > 0
  BY WordAssumption, StackAssumption DEF Value, Address

-----------------------------------------------------------------------------
\* Every register has a word of the context, and longjmp2 takes it from the
\* word where setjmp2 puts it.
LEMMA SavedWhereLoaded ==
    \A r \in Register : Place(r) \in 1 .. 17 /\ Saves[Place(r)] = r
<1> SUFFICES ASSUME NEW r \in Register
             PROVE  Place(r) \in 1 .. 17 /\ Saves[Place(r)] = r
  OBVIOUS
<1>1. \E i \in 1 .. 17 : Loads[i] = r
  BY DEF Register, Loads
<1>2. Place(r) \in 1 .. 17 /\ Loads[Place(r)] = r
  BY <1>1 DEF Place
<1>3. Saves = Loads
  BY DEF Saves, Loads
<1> QED
  BY <1>2, <1>3

\* setjmp2 stores words, and the argument where longjmp2 looks for it.
LEMMA SavedTyped ==
    ASSUME NEW f \in [Register -> Value]
    PROVE  setjmp2(f) \in [1 .. 17 -> Value] /\ setjmp2(f)[5] = f["rdi"]
<1>1. \A i \in 1 .. 17 : Saves[i] \in Register
  BY DEF Saves, Register
<1>2. Saves[5] = "rdi"
  BY DEF Saves
<1> QED
  BY <1>1, <1>2 DEF setjmp2

\* The registers inside a call of setjmp2.
LEMMA CallTyped ==
    ASSUME NEW f \in [Register -> Value], f["rsp"] \in Address, f["rsp"] > 0,
           NEW t \in Task
    PROVE  /\ Calls(f, t) \in [Register -> Value]
           /\ Calls(f, t)["rdi"] = t /\ Calls(f, t)["rsp"] \in Address
           /\ Visible(Calls(f, t)) = Visible(f)
           /\ Calls(f, t)["r15"] = f["r15"]
<1>1. f["rsp"] - 1 \in Address /\ f["rsp"] - 1 \in Value /\ t \in Value
  BY Words
<1> DEFINE sp == f["rsp"] - 1
<1>2. Calls(f, t) = [f EXCEPT !["rdi"] = t, !["rsp"] = sp]
  BY DEF Calls, Register
<1> HIDE DEF sp
<1>3. /\ "rdi" \in Register /\ "rsp" \in Register /\ "r15" \in Register
      /\ sp \in Address /\ sp \in Value
  BY <1>1 DEF Register, sp
<1>4. \A r \in Kept : r \in Register /\ r # "rdi" /\ r # "rsp"
  BY DEF Kept
<1> QED
  BY <1>1, <1>2, <1>3, <1>4 DEF Visible

\* Its first answer leaves the registers that the call found.
LEMMA ReturnTyped ==
    ASSUME NEW f \in [Register -> Value], f["rsp"] \in Address, f["rsp"] > 0,
           NEW t \in Task
    PROVE  /\ Returns(Calls(f, t)) \in [Register -> Value]
           /\ Returns(Calls(f, t))["rsp"] \in Address
<1> DEFINE g == Calls(f, t)
<1>1. g \in [Register -> Value] /\ g["rsp"] = f["rsp"] - 1
  BY CallTyped DEF Calls, Register
<1>2. g["rsp"] + 1 \in Address /\ g["rsp"] + 1 \in Value /\ 0 \in Value
  BY <1>1, Words
<1> HIDE DEF g
<1> DEFINE sp == g["rsp"] + 1
<1>3. Returns(g) = [g EXCEPT !["rax"] = 0, !["rsp"] = sp]
  BY DEF Returns, Register
<1> HIDE DEF sp
<1>4. /\ "rax" \in Register /\ "rsp" \in Register
      /\ sp \in Address /\ sp \in Value /\ 0 \in Value
  BY <1>2 DEF Register, sp
<1>5. Returns(g) \in [Register -> Value] /\ Returns(g)["rsp"] \in Address
  BY <1>1, <1>3, <1>4
<1> QED
  BY <1>5 DEF g

\* What a step that saves one context does to them all.
LEMMA OneContextWritten ==
    ASSUME ContextInv, NEW t \in Task, NEW f \in [Register -> Value],
           f["rdi"] = t, f["rsp"] \in Address,
           context' = [context EXCEPT ![t] = setjmp2(f)]
    PROVE  /\ context' \in [Task -> [1 .. 17 -> Value]]
           /\ \A u \in Task : context'[u][7] \in Address
           /\ context'[t] = setjmp2(f) /\ context'[t][5] = t
           /\ \A u \in Task \ {t} : context'[u] = context[u]
<1>1. context \in [Task -> [1 .. 17 -> Value]] /\ \A u \in Task : context[u][7] \in Address
  BY DEF ContextInv
<1>2. setjmp2(f) \in [1 .. 17 -> Value] /\ setjmp2(f)[5] = t
  BY SavedTyped
<1>3. setjmp2(f)[7] = f["rsp"]
  BY DEF setjmp2, Saves
<1> QED
  BY <1>1, <1>2, <1>3

\* A saved task finds in each register what its context holds for it.
LEMMA ResumedFile ==
    ASSUME ContextInv, NEW t \in alive, t # running
    PROVE  File[t] = [r \in Kept |-> context[t][Place(r)]]
<1>1. \A r \in Kept : longjmp2(t, 1)[r] = context[t][Place(r)]
  BY DEF ContextInv, longjmp2, Source, Kept
<1> QED
  BY <1>1 DEF File, Visible

\* What it finds is what setjmp2 was called with.
LEMMA RoundTrip ==
    ASSUME NEW f \in [Register -> Value]
    PROVE  [r \in Kept |-> setjmp2(f)[Place(r)]] = Visible(f)
  BY SavedWhereLoaded DEF setjmp2, Visible, Kept

LEMMA LoadedTyped ==
    ASSUME ContextInv, NEW t \in alive, t # running, NEW answer \in Word
    PROVE  /\ longjmp2(t, answer) \in [Register -> Value]
           /\ longjmp2(t, answer)["rsp"] \in Address
<1>1. answer \in Value
  BY DEF Value
<1>2. \A r \in Register : context[Source(t, Place(r))][Place(r)] \in Value
  BY SavedWhereLoaded DEF Source, ContextInv
<1>3. longjmp2(t, answer) \in [Register -> Value]
  BY <1>1, <1>2 DEF longjmp2
<1>4. longjmp2(t, answer)["rsp"] \in Address
  <2>1. Place("rsp") = 7
    <3>1. \A i \in 1 .. 17 : Loads[i] = "rsp" <=> i = 7
      BY DEF Loads
    <3> QED
      BY <3>1 DEF Place
  <2>2. longjmp2(t, answer)["rsp"] = context[Source(t, 7)][7]
    BY <2>1 DEF longjmp2, Register
  <2>3. Source(t, 7) \in Task
    BY DEF Source, ContextInv
  <2> QED
    BY <2>2, <2>3 DEF ContextInv
<1> QED
  BY <1>3, <1>4

\* The creator's registers, with the new task's address and stack.
LEMMA NewFile ==
    ASSUME ContextInv, NEW t \in Task, NEW sp \in Address \ {0}
    PROVE  LET f == [cpu EXCEPT !["r15"] = t, !["rsp"] = sp]
           IN  /\ f \in [Register -> Value] /\ f["rsp"] \in Address /\ f["rsp"] > 0
               /\ f["r15"] = t
<1>1. cpu \in [Register -> Value] /\ t \in Value /\ sp \in Value /\ sp > 0
  BY Words DEF ContextInv
<1>2. "r15" \in Register /\ "rsp" \in Register
  BY DEF Register
<1> QED
  BY <1>1, <1>2

-----------------------------------------------------------------------------
\* A context is only written by its own task, or for it before it starts.
THEOREM ContextsInvariant == Spec => []ContextInv
<1>1. Init => ContextInv
  BY Words, TaskAssumption DEF Init, ContextInv, Register
<1>2. ContextInv /\ [Next]_vars => ContextInv'
  <2> SUFFICES ASSUME ContextInv, [Next]_vars
               PROVE  ContextInv'
    OBVIOUS
  <2>1. CASE Work
    <3>1. /\ cpu \in [Register -> Value] /\ cpu["rsp"] \in Address
          /\ "rsp" \in Register /\ UNCHANGED <<alive, running, chosen, context>>
          /\ chosen = NoTask /\ zf' \in BOOLEAN
      BY <2>1 DEF Work, ContextInv, Register
    <3>2. cpu' \in [Register -> Value] /\ cpu'["rsp"] \in Address
      BY <2>1, <3>1, Words, WrittenAssumption DEF Work
    <3> QED
      BY <3>1, <3>2 DEF ContextInv
  <2>2. ASSUME NEW t \in Task, CreateTask(t)
        PROVE  ContextInv'
    <3>1. PICK sp \in Address \ {0} :
             context' = [context EXCEPT ![t] =
                            setjmp2(Calls([cpu EXCEPT !["r15"] = t, !["rsp"] = sp], t))]
      BY <2>2 DEF CreateTask
    <3> DEFINE f == [cpu EXCEPT !["r15"] = t, !["rsp"] = sp]
    <3>2. f \in [Register -> Value] /\ f["rsp"] \in Address /\ f["rsp"] > 0
      BY NewFile
    <3>3. context' = [context EXCEPT ![t] = setjmp2(Calls(f, t))]
      BY <3>1
    <3> HIDE DEF f
    <3> DEFINE g == Calls(f, t)
    <3>4. g \in [Register -> Value] /\ g["rdi"] = t /\ g["rsp"] \in Address
      BY <3>2, CallTyped
    <3> HIDE DEF g
    <3>5. /\ context' \in [Task -> [1 .. 17 -> Value]]
          /\ \A u \in Task : context'[u][7] \in Address
          /\ context'[t][5] = t
          /\ \A u \in Task \ {t} : context'[u] = context[u]
      BY <3>3, <3>4, OneContextWritten DEF g
    <3>6. /\ alive' = alive \cup {t} /\ UNCHANGED <<running, chosen, cpu>>
          /\ running # NoTask /\ zf' \in BOOLEAN
      BY <2>2 DEF CreateTask
    <3> QED
      BY <3>5, <3>6 DEF ContextInv
  <2>3. CASE Yield
    <3>1. /\ running \in Task /\ running # NoTask /\ chosen = NoTask
          /\ cpu \in [Register -> Value] /\ cpu["rsp"] \in Address /\ cpu["rsp"] > 0
          /\ alive' = alive /\ running' = NoTask /\ chosen' = NoTask /\ zf' = TRUE
      BY <2>3, TaskAssumption DEF Yield, ContextInv
    <3> DEFINE g == Calls(cpu, running)
    <3>2. g \in [Register -> Value] /\ g["rdi"] = running /\ g["rsp"] \in Address
      BY <3>1, CallTyped
    <3>3. context' = [context EXCEPT ![running] = setjmp2(g)]
      BY <2>3 DEF Yield
    <3>4. cpu' \in [Register -> Value] /\ cpu'["rsp"] \in Address
      BY <2>3, <3>1, ReturnTyped DEF Yield
    <3> HIDE DEF g
    <3>5. /\ context' \in [Task -> [1 .. 17 -> Value]]
          /\ \A u \in Task : context'[u][7] \in Address
          /\ context'[running][5] = running
          /\ \A u \in Task \ {running} : context'[u] = context[u]
      BY <3>1, <3>2, <3>3, OneContextWritten
    <3> QED
      BY <3>1, <3>4, <3>5 DEF ContextInv
  <2>4. CASE End
    BY <2>4 DEF End, ContextInv
  <2>5. ASSUME NEW t \in Task, ArmTimer(t)
        PROVE  ContextInv'
    BY <2>5 DEF ArmTimer, ContextInv
  <2>6. ASSUME NEW t \in Task, Activate(t)
        PROVE  ContextInv'
    <3>1. t \in alive /\ t # running /\ t # NoTask /\ zf = TRUE
      BY <2>6, TaskAssumption DEF Activate, ContextInv
    <3>2. cpu' = longjmp2(t, 1)
      BY <2>6, <3>1 DEF Activate, Answers
    <3>3. cpu' \in [Register -> Value] /\ cpu'["rsp"] \in Address
      BY <3>1, <3>2, Words, LoadedTyped
    <3> QED
      BY <2>6, <3>1, <3>3, TaskAssumption DEF Activate, ContextInv
  <2>7. CASE UNCHANGED vars
    BY <2>7 DEF vars, ContextInv
  <2> QED
    BY <2>1, <2>2, <2>3, <2>4, <2>5, <2>6, <2>7 DEF Next
<1> QED
  BY <1>1, <1>2, PTL DEF Spec

-----------------------------------------------------------------------------
\* The same of the state that a step leads to.
LEMMA ResumedFilePrimed ==
    ASSUME ContextInv', NEW t \in alive', t # running'
    PROVE  File'[t] = [r \in Kept |-> context'[t][Place(r)]]
<1>1. \A r \in Kept : (longjmp2(t, 1)')[r] = context'[t][Place(r)]
  BY DEF ContextInv, longjmp2, Source, Kept
<1> QED
  BY <1>1 DEF File, Visible

\* The registers of the tasks that neither run nor are written to.
LEMMA OthersKeepTheirs ==
    ASSUME ContextInv, ContextInv', NEW u \in alive, u \in alive',
           u # running, u # running', context'[u] = context[u]
    PROVE  File'[u] = File[u]
  BY ResumedFile, ResumedFilePrimed

\* Files are what Processors takes them for.
LEMMA FileTyped == ContextInv => File \in [alive -> [Kept -> Value]]
<1> SUFFICES ASSUME ContextInv, NEW t \in alive
             PROVE  File[t] \in [Kept -> Value]
  BY DEF File
<1>1. CASE t = running
  BY <1>1 DEF File, Visible, ContextInv, Kept
<1>2. CASE t # running
  BY <1>2, Words, LoadedTyped DEF File, Visible, Kept
<1> QED
  BY <1>1, <1>2

\* Each task's registers but rsp, and the place where it goes on, are its own,
\* whatever the scheduler and the others do in between.
THEOREM ContextSwitchRefines == Spec => ProcessorsSpec
<1>1. Init => OwnProcessor!Init
  <2> SUFFICES ASSUME Init
               PROVE  OwnProcessor!Init
    OBVIOUS
  <2>1. PICK t \in Task : alive = {t} /\ running = t
    BY DEF Init
  <2>2. ContextInv
    BY Words, TaskAssumption DEF Init, ContextInv, Register
  <2> QED
    BY <2>1, <2>2, FileTyped DEF OwnProcessor!Init
<1>2. (ContextInv => File \in [alive -> [Kept -> Value]])'
  BY FileTyped, PTL
<1>3. ContextInv /\ ContextInv' /\ [Next]_vars
      => [OwnProcessor!Next]_(OwnProcessor!vars)
  <2> SUFFICES ASSUME ContextInv, ContextInv', [Next]_vars
               PROVE  [OwnProcessor!Next]_(OwnProcessor!vars)
    OBVIOUS
  <2> USE DEF OwnProcessor!Next
  <2>0. /\ File' \in [alive' -> [Kept -> Value]]
        /\ File \in [alive -> [Kept -> Value]]
    BY <1>2, FileTyped
  <2>1. CASE Work
    <3>1. UNCHANGED <<alive, running, context>>
      BY <2>1 DEF Work
    <3>2. \A u \in alive : u # running => File'[u] = File[u]
      BY <3>1, OthersKeepTheirs DEF ContextInv
    <3>3. CASE running = NoTask
      <4>1. \A u \in alive : File'[u] = File[u]
        BY <3>2, <3>3, TaskAssumption DEF ContextInv
      <4>2. File' = File
        BY <2>0, <3>1, <4>1
      <4> QED
        BY <3>1, <4>2 DEF OwnProcessor!vars
    <3>4. CASE running # NoTask
      <4>1. OwnProcessor!Work
        BY <2>0, <3>1, <3>2, <3>4
        DEF OwnProcessor!Work, OwnProcessor!Files, OwnProcessor!OnlyFileOf
      <4> QED
        BY <4>1
    <3> QED
      BY <3>3, <3>4
  <2>2. ASSUME NEW t \in Task, CreateTask(t)
        PROVE  OwnProcessor!Next
    <3>1. PICK sp \in Address \ {0} :
             context' = [context EXCEPT ![t] =
                            setjmp2(Calls([cpu EXCEPT !["r15"] = t, !["rsp"] = sp], t))]
      BY <2>2 DEF CreateTask
    <3> DEFINE f == [cpu EXCEPT !["r15"] = t, !["rsp"] = sp]
    <3>2. /\ f \in [Register -> Value] /\ f["rsp"] \in Address /\ f["rsp"] > 0
          /\ f["r15"] = t
      BY NewFile
    <3> DEFINE g == Calls(f, t)
    <3>9. context' = [context EXCEPT ![t] = setjmp2(g)]
      BY <3>1
    <3> HIDE DEF f
    <3>10. /\ g \in [Register -> Value] /\ g["rdi"] = t /\ g["rsp"] \in Address
           /\ g["r15"] = t
      BY <3>2, CallTyped
    <3> HIDE DEF g
    <3>3. /\ context'[t] = setjmp2(g)
          /\ \A u \in Task \ {t} : context'[u] = context[u]
      BY <3>9, <3>10, OneContextWritten
    <3>4. /\ running # NoTask /\ t \notin alive
          /\ alive' = alive \cup {t} /\ UNCHANGED <<running, cpu>>
      BY <2>2 DEF CreateTask
    <3>5. File'[t]["r15"] = t
      <4>1. t \in alive' /\ t # running'
        BY <3>4 DEF ContextInv
      <4>2. File'[t] = [r \in Kept |-> context'[t][Place(r)]]
        BY <4>1, ResumedFilePrimed
      <4>3. File'[t] = Visible(g)
        BY <3>3, <3>10, <4>2, RoundTrip
      <4> QED
        BY <3>10, <4>3 DEF Visible, Kept, Register
    <3>6. File'[running] = File[running]
      BY <3>4 DEF File, ContextInv
    <3>7. \A u \in alive \ {t} : File'[u] = File[u]
      BY <3>3, <3>4, <3>6, OthersKeepTheirs DEF ContextInv
    <3>8. OwnProcessor!Create(t)
      BY <2>0, <3>4, <3>5, <3>7
      DEF OwnProcessor!Create, OwnProcessor!Files, OwnProcessor!OnlyFileOf
    <3> QED
      BY <3>8
  <2>3. CASE Yield
    <3>1. /\ running \in Task /\ running \in alive /\ running # NoTask
          /\ cpu \in [Register -> Value] /\ cpu["rsp"] \in Address /\ cpu["rsp"] > 0
          /\ alive' = alive /\ running' = NoTask
      BY <2>3 DEF Yield, ContextInv
    <3> DEFINE g == Calls(cpu, running)
    <3>2. /\ g \in [Register -> Value] /\ g["rdi"] = running /\ g["rsp"] \in Address
          /\ Visible(g) = Visible(cpu)
      BY <3>1, CallTyped
    <3>3. context' = [context EXCEPT ![running] = setjmp2(g)]
      BY <2>3 DEF Yield
    <3> HIDE DEF g
    <3>5. /\ context'[running] = setjmp2(g)
          /\ \A u \in Task \ {running} : context'[u] = context[u]
      BY <3>1, <3>2, <3>3, OneContextWritten
    <3>7. File'[running] = File[running]
      <4>1. File'[running] = [r \in Kept |-> context'[running][Place(r)]]
        BY <3>1, ResumedFilePrimed
      <4>2. File'[running] = Visible(g)
        BY <3>2, <3>5, <4>1, RoundTrip
      <4> QED
        BY <3>1, <3>2, <4>2 DEF File
    <3>8. \A u \in alive \ {running} : File'[u] = File[u]
      BY <3>1, <3>5, OthersKeepTheirs, TaskAssumption DEF ContextInv
    <3>9. File' = File
      BY <2>0, <3>1, <3>7, <3>8
    <3>10. OwnProcessor!Switch
      BY <3>1, <3>9 DEF OwnProcessor!Switch
    <3> QED
      BY <3>10
  <2>4. CASE End
    <3>1. /\ running # NoTask /\ alive' = alive \ {running}
          /\ running' = NoTask /\ UNCHANGED <<cpu, context>>
      BY <2>4 DEF End
    <3>2. \A u \in alive' : File'[u] = File[u]
      BY <3>1, OthersKeepTheirs, TaskAssumption DEF ContextInv
    <3>3. OwnProcessor!End
      BY <2>0, <3>1, <3>2 DEF OwnProcessor!End
    <3> QED
      BY <3>3
  <2>5. ASSUME NEW t \in Task, ArmTimer(t)
        PROVE  [OwnProcessor!Next]_(OwnProcessor!vars)
    <3>1. UNCHANGED <<alive, running, cpu, context>>
      BY <2>5 DEF ArmTimer
    <3>2. File' = File
      BY <3>1 DEF File, longjmp2, Source
    <3> QED
      BY <3>1, <3>2 DEF OwnProcessor!vars
  <2>6. ASSUME NEW t \in Task, Activate(t)
        PROVE  OwnProcessor!Next
    <3>1. /\ running = NoTask /\ t \in alive /\ running' = t
          /\ cpu' = longjmp2(t, 1) /\ UNCHANGED <<alive, context>>
      BY <2>6, TaskAssumption DEF Activate, Answers, ContextInv
    <3>2. File'[t] = File[t]
      BY <3>1, TaskAssumption DEF File
    <3>3. \A u \in alive \ {t} : File'[u] = File[u]
      BY <3>1, OthersKeepTheirs, TaskAssumption DEF ContextInv
    <3>4. File' = File
      BY <2>0, <3>1, <3>2, <3>3
    <3>5. OwnProcessor!Switch
      BY <3>1, <3>4 DEF OwnProcessor!Switch
    <3> QED
      BY <3>5
  <2>7. CASE UNCHANGED vars
    <3>1. File' = File
      BY <2>7 DEF vars, File, longjmp2, Source
    <3> QED
      BY <2>7, <3>1 DEF vars, OwnProcessor!vars
  <2> QED
    BY <2>1, <2>2, <2>3, <2>4, <2>5, <2>6, <2>7 DEF Next
<1> QED
  BY <1>1, <1>3, ContextsInvariant, PTL
  DEF Spec, ProcessorsSpec, OwnProcessor!Spec

-----------------------------------------------------------------------------
\* A resumed task never takes setjmp2's answer for a first one: the flag that
\* longjmp2 tests is that of the scheduler's last test.
THEOREM ResumesOnceHolds == Spec => ResumesOnce
<1>1. ContextInv /\ [Next]_vars
      => [running = NoTask /\ running' # NoTask => cpu'["rax"] # 0]_vars
  <2> SUFFICES ASSUME ContextInv, [Next]_vars, running = NoTask, running' # NoTask
               PROVE  cpu'["rax"] # 0
    OBVIOUS
  <2>1. ASSUME NEW t \in Task, Activate(t)
        PROVE  cpu'["rax"] # 0
    <3>1. zf = TRUE
      BY <2>1, TaskAssumption DEF Activate, ContextInv
    <3>2. cpu' = longjmp2(t, 1)
      BY <2>1, <3>1 DEF Activate, Answers
    <3> QED
      BY <3>2 DEF longjmp2, Register
  <2> QED
    BY <2>1 DEF Next, Work, Yield, End, CreateTask, ArmTimer, vars
<1> QED
  BY <1>1, ContextsInvariant, PTL DEF Spec, ResumesOnce
-----------------------------------------------------------------------------
\* rsp is the seventh word of a context.
LEMMA RspPlace == "rsp" \in Register /\ Place("rsp") = 7 /\ Saves[7] = "rsp"
<1>1. \A i \in 1 .. 17 : Loads[i] = "rsp" <=> i = 7
  BY DEF Loads
<1> QED
  BY <1>1 DEF Place, Saves, Register

LEMMA SavedPointer ==
    ASSUME ContextInv, NEW t \in alive, t # running
    PROVE  StackPointer(t) = context[t][7]
<1>1. longjmp2(t, 1)["rsp"] = context[Source(t, 7)][7]
  BY RspPlace DEF longjmp2
<1>2. Source(t, 7) = t
  BY DEF Source, ContextInv
<1> QED
  BY <1>1, <1>2 DEF StackPointer

LEMMA SavedPointerPrimed ==
    ASSUME ContextInv', NEW t \in alive', t # running'
    PROVE  StackPointer(t)' = context'[t][7]
<1>1. (longjmp2(t, 1)')["rsp"] = context'[Source(t, 7)'][7]
  BY RspPlace DEF longjmp2
<1>2. Source(t, 7)' = t
  BY DEF Source, ContextInv
<1> QED
  BY <1>1, <1>2 DEF StackPointer

\* The word that jmp.s leaves on the stack at each resumption is the only one:
\* no other task's stack pointer gets into a context.
THEOREM StackPointerFallsByOne == Spec => StackPointerFalls
<1> DEFINE Falls(t) ==
       \/ running = t /\ running' = t
       \/ StackPointer(t)' = StackPointer(t) - (IF running = t THEN 1 ELSE 0)
<1>1. ContextInv /\ ContextInv' /\ [Next]_vars
      => [\A t \in alive \cap alive' : Falls(t)]_vars
  <2> SUFFICES ASSUME ContextInv, ContextInv', [Next]_vars, NEW t \in alive, t \in alive'
               PROVE  Falls(t)
    OBVIOUS
  <2>0. t \in Task /\ t # NoTask /\ context[t][7] \in Int
    BY TaskAssumption DEF ContextInv, Address
  <2>1. ASSUME t # running, t # running', context'[t] = context[t]
        PROVE  Falls(t)
    BY <2>0, <2>1, SavedPointer, SavedPointerPrimed
  <2>2. ASSUME UNCHANGED <<running, context>>
        PROVE  Falls(t)
    BY <2>1, <2>2
  <2>3. ASSUME NEW u \in Task, CreateTask(u)
        PROVE  Falls(t)
    <3>1. u # t /\ running' = running
      BY <2>3 DEF CreateTask
    <3>2. context'[t] = context[t]
      BY <2>0, <2>3, <3>1 DEF CreateTask, ContextInv
    <3> QED
      BY <2>1, <3>1, <3>2
  <2>4. CASE Yield
    <3>1. running' = NoTask /\ context' = [context EXCEPT ![running] =
                                              setjmp2(Calls(cpu, running))]
      BY <2>4 DEF Yield
    <3>2. CASE t # running
      BY <2>0, <2>1, <3>1, <3>2 DEF ContextInv
    <3>3. CASE t = running
      <4>1. context'[t] = setjmp2(Calls(cpu, t))
        BY <2>0, <3>1, <3>3 DEF ContextInv
      <4>2. setjmp2(Calls(cpu, t))[7] = cpu["rsp"] - 1
        BY RspPlace DEF setjmp2, Calls, ContextInv
      <4>3. StackPointer(t)' = cpu["rsp"] - 1
        BY <2>0, <3>1, <4>1, <4>2, SavedPointerPrimed
      <4> QED
        BY <3>3, <4>3 DEF StackPointer
    <3> QED
      BY <3>2, <3>3
  <2>5. CASE End
    <3>1. t # running /\ running' = NoTask /\ context' = context
      BY <2>5 DEF End
    <3> QED
      BY <2>0, <2>1, <3>1
  <2>6. ASSUME NEW u \in Task, Activate(u)
        PROVE  Falls(t)
    <3>1. /\ running = NoTask /\ running' = u /\ context' = context
          /\ cpu' = longjmp2(u, 1)
      BY <2>6, TaskAssumption DEF Activate, Answers, ContextInv
    <3>2. CASE t # u
      BY <2>0, <2>1, <3>1, <3>2
    <3>3. CASE t = u
      <4>1. StackPointer(t)' = longjmp2(t, 1)["rsp"] /\ t # running
        BY <2>0, <3>1, <3>3 DEF StackPointer
      <4>2. StackPointer(t) = longjmp2(t, 1)["rsp"]
        BY <4>1 DEF StackPointer
      <4> QED
        BY <2>0, <4>1, <4>2, SavedPointer
    <3> QED
      BY <3>2, <3>3
  <2> QED
    BY <2>2, <2>3, <2>4, <2>5, <2>6 DEF Next, Work, ArmTimer, vars
<1> QED
  BY <1>1, ContextsInvariant, PTL DEF Spec, StackPointerFalls
=============================================================================
