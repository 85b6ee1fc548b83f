------------------------------- MODULE Shmem -------------------------------
(***************************************************************************)
(* shmem.c: the table of shared regions and the connections of the tasks.  *)
(* Opening a region is a section of block_sched; closing, reading, writing *)
(* and seeking are not, so that the quantum may run out between any two    *)
(* statements of theirs: each access to the table is a step of its own.    *)
(*                                                                         *)
(* The processor is the scheduler's promise: one task runs, and after a    *)
(* yield or the end of its quantum any task runs, with its timer armed.    *)
(* A byte is told from another only by whether it was written since its    *)
(* region was allocated; each task has one connection at a time.  The      *)
(* address of the table, which realloc may move, is not kept across steps. *)
(***************************************************************************)
EXTENDS Integers, FiniteSets

CONSTANTS
    Client,             \* the tasks
    Alias,              \* the names they use for regions
    NoAlias,            \* alias 0, of a free place in the table
    SHMEM_ARR_LEAP,
    SHMEM_REGION_SIZE,
    REGIONS_MAX,        \* bound: regions_size stays a char (see Connect)
    CountMax,           \* bound: bytes asked for in one call
    Liberties,          \* what the program allows itself (see LibertyNames)
    PreemptPoints       \* where the quantum may run out

ASSUME SizeAssumption ==
    /\ SHMEM_ARR_LEAP \in Nat \ {0} /\ SHMEM_REGION_SIZE \in 1 .. 255
    /\ REGIONS_MAX \in Nat /\ CountMax \in 1 .. 255
ASSUME AliasAssumption == NoAlias \notin Alias

\* A task may close a region that others are connected to; open one that
\* another task is closing; use or close the connection it has closed; read
\* and seek in a region that nobody has written to.
LibertyNames == {"close_shared", "open_closing", "use_closed", "read_empty"}
ASSUME LibertyAssumption == Liberties \subseteq LibertyNames

Offset == 0 .. SHMEM_REGION_SIZE - 1
Count == 1 .. CountMax

VARIABLES
    regions_size,
    shmem_reg_arr,  \* a place for each of 0 .. regions_size
    reg_next_free,
    sh,             \* each task's shmem_t
    pc,             \* where each task is: in the program or inside a call
    n,              \* how many bytes that call has left
    current,        \* the task that runs
    armed,          \* its quantum's timer is counting down
    phase           \* "on" until shmem_destroy, an error or a read out of bounds

tableVars == <<regions_size, shmem_reg_arr, reg_next_free>>
processorVars == <<current, armed>>
vars == <<tableVars, sh, pc, n, processorVars, phase>>

\* A place of the table; bytes are the offsets of its region written to.
ZeroReg == [alias |-> NoAlias, writen |-> 0, connections |-> 0,
            region |-> "NULL", bytes |-> {}]

\* A task's connection: its pointer and index, the name it was asked for, and
\* whether the task has opened and not yet closed it.
NoConnection == [pointer |-> 0, index |-> 0, alias |-> NoAlias, open |-> FALSE]

\* Inside shmem_close, by the line that comes next: 78 to 83.
Closing == {"drop", "unname", "clear", "zero", "compare", "offer"}

ProgramCounter ==
    {"user", "write", "mark", "seek", "poll", "ask", "check", "read", "min",
     "count", "bytes"} \cup Closing

Init ==
    /\ regions_size = 0
    /\ shmem_reg_arr = <<>>
    /\ reg_next_free = 0
    /\ sh = [c \in Client |-> NoConnection]
    /\ pc = [c \in Client |-> "user"]
    /\ n = [c \in Client |-> 0]
    /\ current \in Client
    /\ armed = TRUE
    /\ phase = "on"

Runs(c, p) == phase = "on" /\ current = c /\ pc[c] = p

Goes(c, p) == pc' = [pc EXCEPT ![c] = p]

\* Some task gets the processor, and a quantum with it.
Dispatch == current' \in Client /\ armed' = TRUE

\* The place c's connection leads to.
place(c) == shmem_reg_arr[sh[c].index]

-----------------------------------------------------------------------------
(* shmem_region_manager                                                    *)

\* Mutant of Existing: the scan of line 38 starts one place late.
ExistingButFirst(a) ==
    {i \in DOMAIN shmem_reg_arr : i \in 1 .. regions_size - 1 /\ shmem_reg_arr[i].alias = a}

Existing(a) ==
    {i \in DOMAIN shmem_reg_arr : i < regions_size /\ shmem_reg_arr[i].alias = a}

\* Some task is in shmem_close for place i, which still has its name.
BeingClosed(i) ==
    \E d \in Client : pc[d] \in {"drop", "unname"} /\ sh[d].index = i

\* A second task connects: lines 36-43, which return from inside the section.
ConnectExisting(c, a) ==
    /\ Runs(c, "user") /\ ~sh[c].open
    /\ \E i \in Existing(a) :
          /\ BeingClosed(i) => "open_closing" \in Liberties
          /\ sh' = [sh EXCEPT ![c] = [pointer |-> 0, index |-> i, alias |-> a,
                                      open |-> TRUE]]
    /\ armed' = FALSE
    /\ UNCHANGED <<tableVars, pc, n, current, phase>>

\* Mutant of Kept: the loop of line 55 starts at 0.
KeptNone(i) == FALSE

\* The places that the loop of line 55 does not set to zero.
Kept(i) == i < regions_size

\* Lines 50-57.
Grown(size) ==
    [i \in 0 .. size |->
        IF i \in DOMAIN shmem_reg_arr /\ Kept(i) THEN shmem_reg_arr[i] ELSE ZeroReg]

\* Mutant of NextFree: the scan takes the last place, free or not.
NextAny(arr) == CHOOSE i \in DOMAIN arr : \A j \in DOMAIN arr : j =< i + 1

\* Lines 65-68: the last free place.
NextFree(arr) ==
    CHOOSE i \in DOMAIN arr :
        /\ arr[i].alias = NoAlias
        /\ \A j \in DOMAIN arr : arr[j].alias = NoAlias => j =< i

\* Lines 61-63: the place's region is new, its counter goes on.
Allocated(r, a) ==
    [alias |-> a, writen |-> r.writen, connections |-> r.connections + 1,
     region |-> "malloc", bytes |-> {}]

\* A region is allocated.  A table that outgrows the char regions_size is
\* undefined: the bound stands in the guard.
ConnectNew(c, a) ==
    /\ Runs(c, "user") /\ ~sh[c].open
    /\ Existing(a) = {}
    /\ LET full == reg_next_free >= regions_size
           size == IF full THEN regions_size + SHMEM_ARR_LEAP ELSE regions_size
           table == IF full THEN Grown(size) ELSE shmem_reg_arr
           arr == [table EXCEPT ![reg_next_free] = Allocated(@, a)]
       IN  /\ size =< REGIONS_MAX
           /\ regions_size' = size
           /\ shmem_reg_arr' = arr
           /\ reg_next_free' = NextFree(arr)
    /\ sh' = [sh EXCEPT ![c] = [pointer |-> 0, index |-> reg_next_free,
                                alias |-> a, open |-> TRUE]]
    /\ UNCHANGED <<pc, n, processorVars, phase>>

\* The other tasks whose connections lead to c's place.
Sharing(c) ==
    {d \in Client \ {c} : sh[d].open /\ sh[d].index = sh[c].index}

\* The connection a task goes on with.
Has(c) == sh[c].open \/ ("use_closed" \in Liberties /\ sh[c].alias # NoAlias)

\* shmem_close up to the test of line 76: a place without a name ends the
\* program, through __error.
CloseCall(c) ==
    /\ Runs(c, "user") /\ Has(c)
    /\ Sharing(c) = {} \/ "close_shared" \in Liberties
    /\ sh' = [sh EXCEPT ![c].open = FALSE]
    /\ IF place(c).alias = NoAlias
       THEN phase' = "exited" /\ pc' = pc
       ELSE phase' = phase /\ Goes(c, "drop")
    /\ UNCHANGED <<tableVars, n, processorVars>>

\* Mutant of Last: < for =<.
LastButOne(count) == count - 1 < 0

\* The test of line 78.  As connections to an existing region are not counted,
\* the first close ends it for all.
Last(count) == count - 1 =< 0

\* A statement of shmem_close that makes c's place r.
PlaceBecomes(c, p, r, q) ==
    /\ Runs(c, p) /\ Goes(c, q)
    /\ shmem_reg_arr' = [shmem_reg_arr EXCEPT ![sh[c].index] = r]
    /\ UNCHANGED <<regions_size, reg_next_free, sh, n, processorVars, phase>>

Drop(c) ==
    PlaceBecomes(c, "drop", [place(c) EXCEPT !.connections = @ - 1],
                 IF Last(place(c).connections) THEN "unname" ELSE "user")

Unname(c) ==
    PlaceBecomes(c, "unname", [place(c) EXCEPT !.alias = NoAlias], "clear")

\* Mutant of ClearWriten: line 80 is missing.
ClearNothing(c) == PlaceBecomes(c, "clear", place(c), "zero")

ClearWriten(c) ==
    PlaceBecomes(c, "clear", [place(c) EXCEPT !.writen = 0], "zero")

ClearConnections(c) ==
    PlaceBecomes(c, "zero", [place(c) EXCEPT !.connections = 0], "compare")

\* Lines 82-83: the test, and the place is the next one that is given away.
Compare(c) ==
    /\ Runs(c, "compare")
    /\ Goes(c, IF sh[c].index < reg_next_free THEN "offer" ELSE "user")
    /\ UNCHANGED <<tableVars, sh, n, processorVars, phase>>

Offer(c) ==
    /\ Runs(c, "offer") /\ Goes(c, "user")
    /\ reg_next_free' = sh[c].index
    /\ UNCHANGED <<regions_size, shmem_reg_arr, sh, n, processorVars, phase>>

\* shmem_destroy, when no task uses a region: lines 90-94.
DestroyAll(c) ==
    /\ Runs(c, "user")
    /\ \A d \in Client : ~sh[d].open /\ pc[d] = "user"
    /\ phase' = "destroyed"
    /\ shmem_reg_arr' = <<>>
    /\ UNCHANGED <<regions_size, reg_next_free, sh, pc, n, processorVars>>

-----------------------------------------------------------------------------
(* shmem_check, shmem_write, shmem_seek                                    *)

\* SHMEM_OK; the calls answer SHMEM_CLOSED and do nothing otherwise.
shmem_check(c) ==
    /\ sh[c].index < regions_size
    /\ place(c).alias # NoAlias
    /\ place(c).region # "NULL"

\* The program uses its connection, which passes the check.
Uses(c) == Runs(c, "user") /\ Has(c) /\ shmem_check(c)

\* Something has been written where a task reads or moves its pointer.
Begun(c) == "read_empty" \in Liberties \/ 0 \in place(c).bytes

Smaller(x, y) == IF x < y THEN x ELSE y

\* Mutant of Room: one byte too many.
RoomTooMuch(p) == SHMEM_REGION_SIZE - p + 1

\* What is left of the region from p on.
Room(p) == SHMEM_REGION_SIZE - p

WriteCall(c, k) ==
    /\ Uses(c)
    /\ n' = [n EXCEPT ![c] = Smaller(k, Room(sh[c].pointer))]
    /\ pc' = [pc EXCEPT ![c] = "write"]
    /\ UNCHANGED <<tableVars, sh, processorVars, phase>>

\* One byte of the loop of line 130.
WriteByte(c) ==
    /\ Runs(c, "write") /\ n[c] > 0
    /\ shmem_reg_arr' = [shmem_reg_arr EXCEPT
                            ![sh[c].index].bytes = @ \cup {sh[c].pointer}]
    /\ sh' = [sh EXCEPT ![c].pointer = @ + 1]
    /\ n' = [n EXCEPT ![c] = @ - 1]
    /\ UNCHANGED <<regions_size, reg_next_free, pc, processorVars, phase>>

\* The test of line 135.
WriteEnds(c) ==
    /\ Runs(c, "write") /\ n[c] = 0
    /\ pc' = [pc EXCEPT ![c] = IF sh[c].pointer > place(c).writen
                               THEN "mark" ELSE "user"]
    /\ UNCHANGED <<tableVars, sh, n, processorVars, phase>>

\* Mutant of LastWriten: writen is set to the next byte.
NextWriten(p) == p

\* Line 136.
LastWriten(p) == p - 1

WriteMarks(c) ==
    /\ Runs(c, "mark")
    /\ shmem_reg_arr' = [shmem_reg_arr EXCEPT
                            ![sh[c].index].writen = LastWriten(sh[c].pointer)]
    /\ pc' = [pc EXCEPT ![c] = "user"]
    /\ UNCHANGED <<regions_size, reg_next_free, sh, n, processorVars, phase>>

SeekCall(c) ==
    /\ Uses(c) /\ Begun(c)
    /\ Goes(c, "seek")
    /\ UNCHANGED <<tableVars, sh, n, processorVars, phase>>

\* shmem_seek, absolute or from where the pointer is: it goes to p if lines
\* 177 and 185 admit p, and otherwise stays.
Seek(c) ==
    /\ Runs(c, "seek") /\ Goes(c, "user")
    /\ \/ \E p \in 0 .. place(c).writen + 1 : sh' = [sh EXCEPT ![c].pointer = p]
       \/ sh' = sh
    /\ UNCHANGED <<tableVars, n, processorVars, phase>>

-----------------------------------------------------------------------------
(* shmem_read, shmem_poll, shmem_block_read                                *)

ReadCall(c, k) ==
    /\ Uses(c) /\ Begun(c)
    /\ n' = [n EXCEPT ![c] = k]
    /\ pc' = [pc EXCEPT ![c] = "read"]
    /\ UNCHANGED <<tableVars, sh, processorVars, phase>>

BlockReadCall(c, k) ==
    /\ Uses(c) /\ Begun(c)
    /\ n' = [n EXCEPT ![c] = k]
    /\ pc' = [pc EXCEPT ![c] = "poll"]
    /\ UNCHANGED <<tableVars, sh, processorVars, phase>>

\* A check inside a call: SHMEM_CLOSED ends it.
Checks(c, p, q) ==
    /\ Runs(c, p)
    /\ Goes(c, IF shmem_check(c) THEN q ELSE "user")
    /\ UNCHANGED <<tableVars, sh, n, processorVars, phase>>

\* The check of shmem_poll, and that of the shmem_read of line 219.
PollChecks(c) == Checks(c, "poll", "ask")
ReadChecks(c) == Checks(c, "check", "read")

\* The test of line 205.
shmem_poll(c) == place(c).writen >= sh[c].pointer

PollYields(c) ==
    /\ Runs(c, "ask") /\ ~shmem_poll(c) /\ Goes(c, "poll")
    /\ Dispatch
    /\ UNCHANGED <<tableVars, sh, n, phase>>

PollAnswers(c) ==
    /\ Runs(c, "ask") /\ shmem_poll(c) /\ Goes(c, "check")
    /\ UNCHANGED <<tableVars, sh, n, processorVars, phase>>

\* What there is to read, as lines 149, 152 and 153 each compute it again.
Left(c) == place(c).writen - sh[c].pointer + 1

\* The test of line 149.
ReadTests(c) ==
    /\ Runs(c, "read")
    /\ Goes(c, IF Left(c) < 1 THEN "user" ELSE "min")
    /\ UNCHANGED <<tableVars, sh, n, processorVars, phase>>

\* The test of line 152.
ReadCompares(c) ==
    /\ Runs(c, "min")
    /\ Goes(c, IF Left(c) < n[c] THEN "count" ELSE "bytes")
    /\ UNCHANGED <<tableVars, sh, n, processorVars, phase>>

\* Line 153: n is an unsigned char, and what it counts may lie outside.
ReadCounts(c) ==
    /\ Runs(c, "count") /\ Goes(c, "bytes")
    /\ n' = [n EXCEPT ![c] = Left(c) % 256]
    /\ phase' = IF sh[c].pointer + (Left(c) % 256) > SHMEM_REGION_SIZE
                THEN "undefined" ELSE phase
    /\ UNCHANGED <<tableVars, sh, processorVars>>

ReadByte(c) ==
    /\ Runs(c, "bytes") /\ n[c] > 0
    /\ sh' = [sh EXCEPT ![c].pointer = @ + 1]
    /\ n' = [n EXCEPT ![c] = @ - 1]
    /\ UNCHANGED <<tableVars, pc, processorVars, phase>>

ReadEnds(c) ==
    /\ Runs(c, "bytes") /\ n[c] = 0
    /\ pc' = [pc EXCEPT ![c] = "user"]
    /\ UNCHANGED <<tableVars, sh, n, processorVars, phase>>

-----------------------------------------------------------------------------
\* The program yields, or its quantum runs out.
GiveUp(c) ==
    /\ \/ Runs(c, "user")
       \/ armed /\ \E p \in PreemptPoints : Runs(c, p)
    /\ Dispatch
    /\ UNCHANGED <<tableVars, sh, pc, n, phase>>

\* The steps a call takes on its own.
CallStep(c) ==
    \/ Drop(c) \/ Unname(c) \/ ClearWriten(c) \/ ClearConnections(c)
    \/ Compare(c) \/ Offer(c)
    \/ WriteByte(c) \/ WriteEnds(c) \/ WriteMarks(c) \/ Seek(c)
    \/ PollChecks(c) \/ PollYields(c) \/ PollAnswers(c)
    \/ ReadChecks(c) \/ ReadTests(c) \/ ReadCompares(c) \/ ReadCounts(c)
    \/ ReadByte(c) \/ ReadEnds(c)

ClientCall(c) ==
    \/ \E a \in Alias : ConnectExisting(c, a) \/ ConnectNew(c, a)
    \/ CloseCall(c) \/ DestroyAll(c) \/ SeekCall(c)
    \/ \E k \in Count : WriteCall(c, k) \/ ReadCall(c, k) \/ BlockReadCall(c, k)

Next == \E c \in Client : CallStep(c) \/ ClientCall(c) \/ GiveUp(c)

Spec == Init /\ [][Next]_vars

-----------------------------------------------------------------------------
IsPlace(r) ==
    /\ r.alias \in Alias \cup {NoAlias}
    /\ r.writen \in Offset
    /\ r.connections \in Int
    /\ r.region \in {"NULL", "malloc"}
    /\ r.bytes \subseteq Offset

\* The unsigned chars writen and pointer keep to the region and the table to
\* its places, for any history of any program.
TypeOK ==
    /\ regions_size \in 0 .. REGIONS_MAX
    /\ \A i \in DOMAIN shmem_reg_arr : IsPlace(shmem_reg_arr[i])
    /\ phase \in {"on", "destroyed", "exited", "undefined"}
    /\ DOMAIN shmem_reg_arr =
          IF regions_size = 0 \/ phase = "destroyed" THEN {} ELSE 0 .. regions_size
    /\ reg_next_free \in 0 .. regions_size
    /\ sh \in [Client -> [pointer : 0 .. SHMEM_REGION_SIZE,
                          index : 0 .. REGIONS_MAX,
                          alias : Alias \cup {NoAlias}, open : BOOLEAN]]
    /\ pc \in [Client -> ProgramCounter]
    /\ n \in [Client -> 0 .. 255]
    /\ current \in Client /\ armed \in BOOLEAN

\* No name is in two places and the place past the last, which ends the scans
\* and which shmem_destroy does not free, is never used: whatever the tasks
\* close, and whenever they are preempted.
NamesDistinct ==
    phase = "on" /\ regions_size > 0 =>
        /\ \A i, j \in DOMAIN shmem_reg_arr :
              /\ shmem_reg_arr[i].alias = shmem_reg_arr[j].alias
              /\ shmem_reg_arr[i].alias # NoAlias
              => i = j
        /\ shmem_reg_arr[regions_size] = ZeroReg

\* The next region that is opened does not go where one is (lines 61-62).
TableSound ==
    phase = "on" /\ regions_size > 0 =>
        shmem_reg_arr[reg_next_free].alias = NoAlias

\* An open connection leads to the region of its name, through every growth of
\* the table, close and reuse of a place by the other tasks.
ConnectionServed ==
    phase = "on" =>
        \A c \in Client :
            sh[c].open => shmem_check(c) /\ place(c).alias = sh[c].alias

\* A region keeps its name only while a task is connected to it or closes it.
NamesHeld ==
    phase = "on" =>
        \A i \in DOMAIN shmem_reg_arr :
            shmem_reg_arr[i].alias # NoAlias =>
                BeingClosed(i) \/ \E c \in Client : sh[c].open /\ sh[c].index = i

\* No byte outside a region is read or written, and a write leaves room for
\* what is left of it.
InBounds ==
    /\ phase # "undefined"
    /\ \A c \in Client :
          pc[c] \in {"write", "bytes"} => sh[c].pointer + n[c] =< SHMEM_REGION_SIZE

\* When no write to it is under way, a region is written up to writen and not
\* beyond.
WrittenWhole ==
    phase = "on" =>
        \A c \in Client :
            \/ ~sh[c].open
            \/ \E d \in Client :
                  pc[d] \in {"write", "mark"} /\ sh[d].index = sh[c].index
            \/ place(c).bytes \in {{}, 0 .. place(c).writen}

\* What a task reads has been written since the region was opened, whatever
\* other tasks write or seek between its steps.
ReadsWritten ==
    [][\A c \in Client : ReadByte(c) => sh[c].pointer \in place(c).bytes]_vars
=============================================================================
