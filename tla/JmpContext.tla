----------------------------- MODULE JmpContext -----------------------------
(***************************************************************************)
(* jmp.s: the registers setjmp2 saves in a task's context and longjmp2     *)
(* loads from it, with the calls scheduler.c makes of them.  Between the   *)
(* two, the scheduler and the other tasks use the one processor as they    *)
(* please.                                                                 *)
(*                                                                         *)
(* A register file is a function on the names of the registers; "rip" is   *)
(* the word on top of the stack, the address that the call returns to.  A  *)
(* context's address is its task; rsp counts the words that are free on    *)
(* the stack.  Of the flags there is ZF, which longjmp2 tests.             *)
(***************************************************************************)
EXTENDS Integers, Sequences

CONSTANTS
    Task,
    NoTask,     \* the scheduler runs
    Word,       \* the words that are no context's address
    StackWords, \* bound: the size of a stack
    Written     \* bound: the registers that programs write, rsp apart

ASSUME WordAssumption == {0, 1} \subseteq Word
ASSUME StackAssumption == StackWords \in Nat \ {0}
ASSUME TaskAssumption == NoTask \notin Task /\ Word \cap Task = {}

Register ==
    {"rax", "rbx", "rcx", "rdx", "rsi", "rdi", "rbp", "rsp", "r8", "r9", "r10",
     "r11", "r12", "r13", "r14", "r15", "rip"}

ASSUME WrittenAssumption == Written \subseteq Register \ {"rsp"}

Address == 0 .. StackWords
Value == Word \cup Address \cup Task

\* The registers a resumed task finds as they were: rax is the call's answer,
\* rdi its argument, and for rsp see StackPointerFalls.
Kept == Register \ {"rax", "rdi", "rsp"}

VARIABLES
    alive,      \* the tasks created and not ended
    running,    \* the task that runs, or NoTask
    chosen,     \* the task that the scheduler is about to resume, or NoTask
    cpu,        \* the registers
    zf,         \* the flag
    context     \* each task's context: CONTEXT_S bytes, 17 words

vars == <<alive, running, chosen, cpu, zf, context>>

\* Mutant of Saves: r12 is forgotten, as it is in plancha2/ej5.s.
SavesLess ==
    <<"rbx", "rcx", "rdx", "rsi", "rdi", "rbp", "rsp", "r8", "r9", "r10",
      "r11", "r11", "r13", "r14", "r15", "rax", "rip">>

\* What setjmp2 stores in each word of the context.
Saves ==
    <<"rbx", "rcx", "rdx", "rsi", "rdi", "rbp", "rsp", "r8", "r9", "r10",
      "r11", "r12", "r13", "r14", "r15", "rax", "rip">>

\* Where longjmp2 puts each word.  The rax it loads is overwritten.
Loads ==
    <<"rbx", "rcx", "rdx", "rsi", "rdi", "rbp", "rsp", "r8", "r9", "r10",
      "r11", "r12", "r13", "r14", "r15", "rax", "rip">>

setjmp2(f) == [i \in 1 .. 17 |-> f[Saves[i]]]

\* The call of setjmp2 for t's context, which pushes the return address.
Calls(f, t) == [f EXCEPT !["rdi"] = t, !["rsp"] = @ - 1]

\* Its first answer is 0, and its ret pops the address.
Returns(f) == [f EXCEPT !["rax"] = 0, !["rsp"] = @ + 1]

Place(r) == CHOOSE i \in 1 .. 17 : Loads[i] = r

\* The first five words are read through longjmp2's argument, the others
\* through the rdi that the fifth one holds.
Source(p, i) == IF i =< 5 THEN p ELSE context[p][5]

\* What longjmp2 leaves in rax: unless the flag says zero, the lower half of
\* the rsi just loaded, which is any word.
Answers == IF zf THEN {1} ELSE Word

\* Mutant of longjmp2: the return address is taken from the stack.
longjmp2Pops(p, answer) ==
    [r \in Register |->
        IF r = "rax" THEN answer
        ELSE IF r = "rsp" THEN context[Source(p, 7)][7] + 1
        ELSE context[Source(p, Place(r))][Place(r)]]

\* It jumps to the return address, and leaves it on the stack.
longjmp2(p, answer) ==
    [r \in Register |->
        IF r = "rax" THEN answer ELSE context[Source(p, Place(r))][Place(r)]]

Init ==
    \E t \in Task :
        /\ alive = {t} /\ running = t /\ chosen = NoTask
        /\ cpu = [r \in Register |-> IF r = "rsp" THEN StackWords ELSE 0]
        /\ zf \in BOOLEAN
        /\ context \in [Task -> [1 .. 17 -> {0}]]

-----------------------------------------------------------------------------
\* A task, or the scheduler, computes: the flag is that of its last test.
Work ==
    /\ chosen = NoTask
    /\ \/ \E r \in Written, v \in Word : cpu' = [cpu EXCEPT ![r] = v]
       \/ \E sp \in Address : cpu' = [cpu EXCEPT !["rsp"] = sp]
    /\ zf' \in BOOLEAN
    /\ UNCHANGED <<alive, running, chosen, context>>

\* _start_task, on the new task's stack: r15 holds its address.  The creator
\* goes on where it was, as longjmp(*b, 1) gives its registers back.
CreateTask(t) ==
    /\ running # NoTask /\ t \notin alive
    /\ \E sp \in Address \ {0} :
          context' = [context EXCEPT ![t] =
                         setjmp2(Calls([cpu EXCEPT !["r15"] = t, !["rsp"] = sp], t))]
    /\ alive' = alive \cup {t}
    /\ zf' \in BOOLEAN
    /\ UNCHANGED <<running, chosen, cpu>>

\* YIELD: setjmp2 answers 0, which sets the flag, and the scheduler goes on.
Yield ==
    /\ running # NoTask /\ cpu["rsp"] > 0
    /\ context' = [context EXCEPT ![running] = setjmp2(Calls(cpu, running))]
    /\ cpu' = Returns(Calls(cpu, running))
    /\ zf' = TRUE
    /\ running' = NoTask
    /\ UNCHANGED <<alive, chosen>>

\* FINALIZE: the context is not saved.
End ==
    /\ running # NoTask
    /\ alive' = alive \ {running}
    /\ running' = NoTask
    /\ UNCHANGED <<chosen, cpu, zf, context>>

\* Mutant of ArmTimer: the answer of timer_settime is not tested.
ArmTimerUntested(t) ==
    /\ running = NoTask /\ chosen = NoTask /\ t \in alive
    /\ chosen' = t
    /\ UNCHANGED <<alive, running, cpu, zf, context>>

\* The quantum's timer is armed for t.  That its answer is tested, and was zero,
\* is what the flag says from here to longjmp2: there are only moves between.
ArmTimer(t) ==
    /\ running = NoTask /\ chosen = NoTask /\ t \in alive
    /\ chosen' = t
    /\ zf' = TRUE
    /\ UNCHANGED <<alive, running, cpu, context>>

\* ACTIVATE.
Activate(t) ==
    /\ chosen = t /\ t \in alive
    /\ \E answer \in Answers : cpu' = longjmp2(t, answer)
    /\ running' = t /\ chosen' = NoTask
    /\ UNCHANGED <<alive, zf, context>>

Next ==
    \/ Work \/ Yield \/ End
    \/ \E t \in Task : CreateTask(t) \/ ArmTimer(t) \/ Activate(t)

Spec == Init /\ [][Next]_vars

-----------------------------------------------------------------------------
Visible(f) == [r \in Kept |-> f[r]]

\* What each task's registers are, or will be when it is resumed.
File == [t \in alive |-> Visible(IF t = running THEN cpu ELSE longjmp2(t, 1))]

OwnProcessor == INSTANCE Processors WITH file <- File

\* However the tasks and the scheduler use the processor between a setjmp2
\* and the longjmp2 that answers it, each task's registers but rsp, and the
\* place where it goes on, are what it left there.
ProcessorsSpec == OwnProcessor!Spec

\* setjmp2 does not answer 0 a second time: a resumed task would take YIELD
\* for a first answer and run the scheduler again on its own stack.
ResumesOnce ==
    [][running = NoTask /\ running' # NoTask => cpu'["rax"] # 0]_vars

\* The rsp of t, or the one it is going to be resumed with.
StackPointer(t) == IF t = running THEN cpu["rsp"] ELSE longjmp2(t, 1)["rsp"]

\* Whatever stacks the others use meanwhile, a task is resumed on its own, one
\* word below where it called setjmp2: the return address is still there, so
\* that its function may find its frame through rbp but not through rsp.
StackPointerFalls ==
    [][\A t \in alive \cap alive' :
          \/ running = t /\ running' = t
          \/ StackPointer(t)' = StackPointer(t)
                                   - (IF running = t THEN 1 ELSE 0)]_vars
=============================================================================
