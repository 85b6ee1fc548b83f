---------------------------- MODULE ShmemProofs ----------------------------
(***************************************************************************)
(* The table of shared regions, for every set of tasks and names, every    *)
(* size of its growth and of the regions, and every choice of places where *)
(* the quantum runs out.                                                   *)
(*                                                                         *)
(* For every program, whatever it closes and uses: the types, and no name  *)
(* in two places.  For one that takes care of what it closes and opens     *)
(* (CarefulUse): no region is given away while it has a name, and an open  *)
(* connection leads to the region of its name.  If moreover its quantum    *)
(* does not run out at line 136 of shmem.c (MarkAtomic): no access leaves  *)
(* its region, and, if no task starts to read an empty region (ReadsBegun),*)
(* what is read is written.                                                *)
(***************************************************************************)
EXTENDS Shmem, TLAPS

Place ==
    [alias : Alias \cup {NoAlias}, writen : Offset, connections : Int,
     region : {"NULL", "malloc"}, bytes : SUBSET Offset]

Connection ==
    [pointer : 0 .. SHMEM_REGION_SIZE, index : 0 .. REGIONS_MAX,
     alias : Alias \cup {NoAlias}, open : BOOLEAN]

Table == 0 .. regions_size

\* The places of a table that is there: one with a name has a region, no name
\* is in two, and the last, which ends the scans, is never used.
PlacesTyped ==
    /\ shmem_reg_arr \in [Table -> Place]
    /\ \A i \in Table :
          shmem_reg_arr[i].alias # NoAlias => shmem_reg_arr[i].region # "NULL"
    /\ \A i, j \in Table :
          /\ shmem_reg_arr[i].alias = shmem_reg_arr[j].alias
          /\ shmem_reg_arr[i].alias # NoAlias
          => i = j
    /\ shmem_reg_arr[regions_size] = ZeroReg

TableTyped ==
    /\ regions_size \in Nat /\ regions_size =< REGIONS_MAX
    /\ reg_next_free \in 0 .. regions_size
    /\ regions_size = 0 \/ phase = "destroyed" => shmem_reg_arr = <<>>
    /\ regions_size > 0 /\ phase # "destroyed" => PlacesTyped

\* What a task that has opened a region, and a call it is in, rely on.
ClientTyped(c) ==
    /\ sh[c].open \/ pc[c] # "user" => sh[c].alias # NoAlias
    /\ sh[c].alias # NoAlias => sh[c].index < regions_size
    /\ pc[c] = "write" => sh[c].pointer + n[c] =< SHMEM_REGION_SIZE
    /\ pc[c] = "mark" => sh[c].pointer > 0
    /\ pc[c] = "bytes" /\ phase # "undefined" =>
          sh[c].pointer + n[c] =< SHMEM_REGION_SIZE

VariablesTyped ==
    /\ sh \in [Client -> Connection] /\ pc \in [Client -> ProgramCounter]
    /\ n \in [Client -> 0 .. 255]
    /\ current \in Client /\ armed \in BOOLEAN
    /\ phase \in {"on", "destroyed", "exited", "undefined"}

\* The inductive invariant of every program.
AnyInv == VariablesTyped /\ TableTyped /\ \A c \in Client : ClientTyped(c)

\* A step of c changes no other task's connection, call or count.
OthersKept(c) ==
    \A d \in Client \ {c} : sh'[d] = sh[d] /\ pc'[d] = pc[d] /\ n'[d] = n[d]

-----------------------------------------------------------------------------
LEMMA Sizes ==
    /\ SHMEM_REGION_SIZE \in Nat /\ SHMEM_REGION_SIZE > 0 /\ SHMEM_REGION_SIZE =< 255
    /\ REGIONS_MAX \in Nat /\ CountMax \in Nat /\ CountMax > 0 /\ CountMax =< 255
    /\ 0 \in Offset /\ Offset \subseteq Int
  BY SizeAssumption DEF Offset

\* The types of one task's variables.
LEMMA TaskTypes ==
    ASSUME AnyInv, NEW c \in Client
    PROVE  /\ sh[c] \in Connection /\ pc[c] \in ProgramCounter /\ n[c] \in 0 .. 255
           /\ sh[c].pointer \in 0 .. SHMEM_REGION_SIZE /\ sh[c].pointer \in Int
           /\ sh[c].index \in 0 .. REGIONS_MAX /\ sh[c].index \in Int
           /\ sh[c].open \in BOOLEAN /\ sh[c].alias \in Alias \cup {NoAlias}
           /\ n[c] \in Int /\ regions_size \in Nat
<1>1. /\ sh[c] \in Connection /\ pc[c] \in ProgramCounter /\ n[c] \in 0 .. 255
      /\ regions_size \in Nat
  BY DEF AnyInv, VariablesTyped, TableTyped
<1>2. /\ sh[c].pointer \in 0 .. SHMEM_REGION_SIZE /\ sh[c].index \in 0 .. REGIONS_MAX
      /\ sh[c].open \in BOOLEAN /\ sh[c].alias \in Alias \cup {NoAlias}
  BY <1>1 DEF Connection
<1> QED
  BY <1>1, <1>2, Sizes

\* The place that a task's connection leads to.
LEMMA LeadsTo ==
    ASSUME AnyInv, NEW c \in Client, phase = "on", sh[c].alias # NoAlias
    PROVE  /\ regions_size > 0 /\ PlacesTyped
           /\ sh[c].index \in Table /\ sh[c].index \in 0 .. regions_size - 1
           /\ place(c) = shmem_reg_arr[sh[c].index] /\ place(c) \in Place
           /\ place(c).writen \in Offset /\ place(c).writen \in Int
           /\ place(c).writen >= 0 /\ place(c).writen < SHMEM_REGION_SIZE
<1> DEFINE i == sh[c].index
<1>1. /\ i < regions_size /\ i \in 0 .. REGIONS_MAX
      /\ regions_size \in Nat
  BY TaskTypes DEF AnyInv, ClientTyped
<1>2. regions_size > 0 /\ i \in Table /\ i \in 0 .. regions_size - 1
  <2> HIDE DEF i
  <2> QED
    BY <1>1, Sizes DEF Table
<1>3. PlacesTyped
  BY <1>2 DEF AnyInv, TableTyped
<1>4. place(c) = shmem_reg_arr[sh[c].index] /\ place(c) \in Place
  BY <1>2, <1>3 DEF PlacesTyped, place
<1>5. place(c).writen \in Offset
  BY <1>4 DEF Place
<1> QED
  BY <1>2, <1>3, <1>4, <1>5, Sizes DEF Offset

\* One task's step keeps what the others rely on.
LEMMA TypesKept ==
    ASSUME AnyInv, phase = "on", NEW c \in Client, OthersKept(c),
           VariablesTyped', TableTyped', ClientTyped(c)',
           regions_size' >= regions_size
    PROVE  AnyInv'
<1>1. ASSUME NEW d \in Client \ {c} PROVE ClientTyped(d)'
  <2>1. ClientTyped(d) /\ regions_size \in Nat /\ regions_size' \in Nat
    BY DEF AnyInv, TableTyped
  <2>2. sh'[d] = sh[d] /\ pc'[d] = pc[d] /\ n'[d] = n[d] /\ sh[d].index \in Int
    BY TaskTypes DEF OthersKept
  <2> QED
    BY <2>1, <2>2 DEF ClientTyped
<1> QED
  BY <1>1 DEF AnyInv

\* A table that a step leaves alone.
LEMMA TableLeft ==
    ASSUME AnyInv, UNCHANGED tableVars,
           phase' = "destroyed" <=> phase = "destroyed"
    PROVE  TableTyped'
  BY DEF AnyInv, TableTyped, PlacesTyped, Table, tableVars

\* A table of which the place of c becomes r.
LEMMA TableRewritten ==
    ASSUME AnyInv, phase = "on", phase' = "on", NEW c \in Client,
           sh[c].alias # NoAlias, NEW r \in Place,
           r.alias \in {place(c).alias, NoAlias}, r.region = place(c).region,
           shmem_reg_arr' = [shmem_reg_arr EXCEPT ![sh[c].index] = r],
           UNCHANGED <<regions_size, reg_next_free>>
    PROVE  TableTyped'
<1> DEFINE i == sh[c].index
<1>1. /\ regions_size > 0 /\ PlacesTyped /\ i \in Table /\ i # regions_size
      /\ place(c) = shmem_reg_arr[i] /\ regions_size \in Nat
  BY LeadsTo, TaskTypes
<1>2. /\ shmem_reg_arr' \in [Table -> Place] /\ shmem_reg_arr'[i] = r
      /\ \A j \in Table : j # i => shmem_reg_arr'[j] = shmem_reg_arr[j]
  BY <1>1 DEF PlacesTyped
<1>3. \A j \in Table : shmem_reg_arr'[j].alias # NoAlias =>
         /\ shmem_reg_arr'[j].alias = shmem_reg_arr[j].alias
         /\ shmem_reg_arr'[j].region = shmem_reg_arr[j].region
  BY <1>1, <1>2
<1>4. regions_size \in Table
  BY <1>1 DEF Table
<1>5. PlacesTyped'
  BY <1>1, <1>2, <1>3, <1>4 DEF PlacesTyped, Table
<1> QED
  BY <1>1, <1>5 DEF AnyInv, TableTyped

-----------------------------------------------------------------------------
(* Every program.                                                          *)

\* The steps that only move a task on, in a call or between tasks.
Moves(c) ==
    \/ WriteEnds(c) \/ PollChecks(c) \/ PollYields(c) \/ PollAnswers(c)
    \/ ReadChecks(c) \/ ReadTests(c) \/ ReadCompares(c) \/ ReadEnds(c)
    \/ SeekCall(c) \/ Compare(c) \/ GiveUp(c)

\* What they have in common.
LEMMA MovesFacts ==
    ASSUME AnyInv, NEW c \in Client, Moves(c)
    PROVE  /\ phase = "on" /\ phase' = "on" /\ current = c
           /\ UNCHANGED <<tableVars, sh, n>>
           /\ OthersKept(c) /\ VariablesTyped'
           /\ pc' = [pc EXCEPT ![c] = pc'[c]]
<1>1. phase = "on" /\ phase' = "on" /\ current = c /\ UNCHANGED <<tableVars, sh, n>>
  BY DEF Moves, WriteEnds, PollChecks, PollYields, PollAnswers, ReadChecks, ReadTests,
         ReadCompares, ReadEnds, SeekCall, Compare, GiveUp, Checks, Uses, Runs
<1>2. \E p \in ProgramCounter : pc' = [pc EXCEPT ![c] = p]
  <2>1. CASE GiveUp(c)
    BY <2>1 DEF GiveUp, AnyInv, VariablesTyped
  <2> QED
    BY <2>1
    DEF Moves, WriteEnds, PollChecks, PollYields, PollAnswers, ReadChecks, ReadTests,
        ReadCompares, ReadEnds, SeekCall, Compare, Checks, Goes, ProgramCounter, Closing
<1>3. /\ pc' \in [Client -> ProgramCounter] /\ pc' = [pc EXCEPT ![c] = pc'[c]]
      /\ \A d \in Client \ {c} : pc'[d] = pc[d]
  BY <1>2 DEF AnyInv, VariablesTyped
<1>4. current' \in Client /\ armed' \in BOOLEAN
  BY DEF Moves, WriteEnds, PollChecks, PollYields, PollAnswers, ReadChecks, ReadTests,
         ReadCompares, ReadEnds, SeekCall, Compare, GiveUp, Checks, Dispatch,
         processorVars, AnyInv, VariablesTyped
<1> QED
  BY <1>1, <1>3, <1>4 DEF OthersKept, AnyInv, VariablesTyped

LEMMA MovesTyped ==
    ASSUME AnyInv, NEW c \in Client, Moves(c)
    PROVE  AnyInv'
<1>1. /\ phase = "on" /\ phase' = "on" /\ UNCHANGED <<tableVars, sh, n>>
      /\ OthersKept(c) /\ VariablesTyped' /\ regions_size' = regions_size
  BY MovesFacts DEF tableVars
<1>2. TableTyped'
  BY <1>1, TableLeft
<1>3. ClientTyped(c)'
  <2> DEFINE x == sh[c].pointer
             w == place(c).writen
             m == n[c]
  <2>1. /\ x \in 0 .. SHMEM_REGION_SIZE /\ m \in 0 .. 255
        /\ ClientTyped(c)
    BY TaskTypes DEF AnyInv
  <2>2. sh[c].alias # NoAlias => w \in Int /\ w >= 0 /\ w < SHMEM_REGION_SIZE
    BY <1>1, LeadsTo
  <2>3. CASE GiveUp(c)
    BY <1>1, <2>1, <2>3 DEF GiveUp, ClientTyped
  <2>4. CASE WriteEnds(c)
    <3>1. pc[c] = "write" /\ pc'[c] = IF x > w THEN "mark" ELSE "user"
      BY <2>4 DEF WriteEnds, Runs, Goes, AnyInv, VariablesTyped
    <3>2. sh[c].alias # NoAlias
      BY <2>1, <3>1 DEF ClientTyped
    <3>3. x > w => x > 0
      BY <2>1, <2>2, <3>2, Sizes
    <3> QED
      BY <1>1, <2>1, <3>1, <3>2, <3>3 DEF ClientTyped
  <2>5. CASE ReadCompares(c)
    <3>1. /\ pc[c] = "min"
          /\ pc'[c] = IF w - x + 1 < m THEN "count" ELSE "bytes"
      BY <2>5 DEF ReadCompares, Runs, Goes, Left, AnyInv, VariablesTyped
    <3>2. sh[c].alias # NoAlias
      BY <2>1, <3>1 DEF ClientTyped
    <3>3. ~(w - x + 1 < m) => x + m =< SHMEM_REGION_SIZE
      BY <2>1, <2>2, <3>2, Sizes
    <3> QED
      BY <1>1, <2>1, <3>1, <3>2, <3>3 DEF ClientTyped
  <2>6. CASE SeekCall(c)
    <3>1. sh[c].alias # NoAlias
      BY <2>1, <2>6 DEF SeekCall, Uses, Has, ClientTyped
    <3>2. pc'[c] = "seek"
      BY <2>6 DEF SeekCall, Goes, AnyInv, VariablesTyped
    <3> QED
      BY <1>1, <2>1, <3>1, <3>2 DEF ClientTyped
  <2>7. ASSUME PollChecks(c) \/ PollYields(c) \/ PollAnswers(c) \/ ReadChecks(c)
               \/ ReadTests(c) \/ ReadEnds(c) \/ Compare(c)
        PROVE  ClientTyped(c)'
    <3>1. /\ pc[c] # "user"
          /\ pc'[c] \notin {"write", "mark", "bytes"}
      BY <2>7 DEF PollChecks, PollYields, PollAnswers, ReadChecks, ReadTests, ReadEnds,
                  Compare, Checks, Runs, Goes, AnyInv, VariablesTyped
    <3> QED
      BY <1>1, <2>1, <3>1 DEF ClientTyped
  <2> QED
    BY <2>3, <2>4, <2>5, <2>6, <2>7 DEF Moves
<1>4. regions_size' >= regions_size
  BY <1>1, TaskTypes
<1> QED
  BY <1>1, <1>2, <1>3, <1>4, TypesKept

\* The steps that change how many bytes a call has left: its beginning, and
\* line 153.
Counts(c) ==
    \/ \E k \in Count : WriteCall(c, k) \/ ReadCall(c, k) \/ BlockReadCall(c, k)
    \/ ReadCounts(c)

\* What they have in common.
LEMMA CountsFacts ==
    ASSUME AnyInv, NEW c \in Client, Counts(c)
    PROVE  /\ phase = "on" /\ phase' \in {"on", "undefined"} /\ current = c
           /\ UNCHANGED <<tableVars, sh, processorVars>>
           /\ sh[c].alias # NoAlias
           /\ n'[c] \in 0 .. 255 /\ OthersKept(c) /\ VariablesTyped'
<1>1. /\ phase = "on" /\ phase' \in {"on", "undefined"} /\ current = c
      /\ UNCHANGED <<tableVars, sh, processorVars>>
  BY DEF Counts, WriteCall, ReadCall, BlockReadCall, ReadCounts, Uses, Runs
<1>2. sh[c].alias # NoAlias
  <2>1. CASE ReadCounts(c)
    BY <2>1 DEF ReadCounts, Runs, AnyInv, ClientTyped
  <2>2. CASE \E k \in Count : WriteCall(c, k) \/ ReadCall(c, k) \/ BlockReadCall(c, k)
    BY <2>2 DEF WriteCall, ReadCall, BlockReadCall, Uses, Has, AnyInv, ClientTyped
  <2> QED
    BY <2>1, <2>2 DEF Counts
<1>3. \E k \in 0 .. 255 : n' = [n EXCEPT ![c] = k]
  <2>1. ASSUME NEW k \in Count, WriteCall(c, k)
        PROVE  \E m \in 0 .. 255 : n' = [n EXCEPT ![c] = m]
    <3> DEFINE x == sh[c].pointer
               m == Smaller(k, Room(x))
    <3>1. k \in 0 .. 255 /\ x \in 0 .. SHMEM_REGION_SIZE
      BY TaskTypes, Sizes DEF Count
    <3> HIDE DEF x
    <3>2. m \in 0 .. 255
      BY <3>1, Sizes DEF Smaller, Room
    <3>3. n' = [n EXCEPT ![c] = m]
      BY <2>1 DEF WriteCall, x
    <3> HIDE DEF m
    <3> QED
      BY <3>2, <3>3
  <2>2. ASSUME NEW k \in Count, ReadCall(c, k) \/ BlockReadCall(c, k)
        PROVE  \E m \in 0 .. 255 : n' = [n EXCEPT ![c] = m]
    <3>1. k \in 0 .. 255
      BY Sizes DEF Count
    <3> QED
      BY <2>2, <3>1 DEF ReadCall, BlockReadCall
  <2>3. CASE ReadCounts(c)
    <3>1. Left(c) \in Int
      BY <1>1, <1>2, LeadsTo, TaskTypes DEF Left
    <3> DEFINE m == Left(c) % 256
    <3>2. m \in 0 .. 255
      BY <3>1
    <3>3. n' = [n EXCEPT ![c] = m]
      BY <2>3 DEF ReadCounts
    <3> HIDE DEF m
    <3> QED
      BY <3>2, <3>3
  <2> QED
    BY <2>1, <2>2, <2>3 DEF Counts
<1>4. \E p \in ProgramCounter : pc' = [pc EXCEPT ![c] = p]
  BY DEF Counts, WriteCall, ReadCall, BlockReadCall, ReadCounts, Goes, ProgramCounter
<1>5. /\ n' \in [Client -> 0 .. 255] /\ n'[c] \in 0 .. 255
      /\ pc' \in [Client -> ProgramCounter]
      /\ \A d \in Client \ {c} : pc'[d] = pc[d] /\ n'[d] = n[d]
  BY <1>3, <1>4 DEF AnyInv, VariablesTyped
<1> QED
  BY <1>1, <1>2, <1>5 DEF OthersKept, AnyInv, VariablesTyped, processorVars

LEMMA CountsTyped ==
    ASSUME AnyInv, NEW c \in Client, Counts(c)
    PROVE  AnyInv'
<1>1. /\ phase = "on" /\ phase' \in {"on", "undefined"}
      /\ UNCHANGED <<tableVars, sh>> /\ sh[c].alias # NoAlias
      /\ OthersKept(c) /\ VariablesTyped' /\ regions_size' = regions_size
  BY CountsFacts DEF tableVars
<1>2. TableTyped'
  BY <1>1, TableLeft
<1>3. ClientTyped(c)'
  <2>1. ClientTyped(c) /\ sh[c].pointer \in 0 .. SHMEM_REGION_SIZE
    BY TaskTypes DEF AnyInv
  <2>2. ASSUME NEW k \in Count, WriteCall(c, k) PROVE ClientTyped(c)'
    <3>1. pc'[c] = "write" /\ n'[c] = Smaller(k, Room(sh[c].pointer))
      BY <2>2 DEF WriteCall, AnyInv, VariablesTyped, Goes
    <3>2. k \in Int
      BY Sizes DEF Count
    <3>3. sh[c].pointer + Smaller(k, Room(sh[c].pointer)) =< SHMEM_REGION_SIZE
      BY <2>1, <3>2, Sizes DEF Smaller, Room
    <3> QED
      BY <1>1, <2>1, <3>1, <3>3 DEF ClientTyped
  <2>3. ASSUME NEW k \in Count, ReadCall(c, k) \/ BlockReadCall(c, k)
        PROVE  ClientTyped(c)'
    <3>1. pc'[c] \in {"read", "poll"}
      BY <2>3 DEF ReadCall, BlockReadCall, AnyInv, VariablesTyped, Goes
    <3> QED
      BY <1>1, <2>1, <3>1 DEF ClientTyped
  <2>4. CASE ReadCounts(c)
    <3> DEFINE m == Left(c) % 256
    <3>1. /\ pc'[c] = "bytes" /\ n'[c] = m
          /\ phase' = IF sh[c].pointer + m > SHMEM_REGION_SIZE
                      THEN "undefined" ELSE phase
      BY <2>4 DEF ReadCounts, AnyInv, VariablesTyped, Goes
    <3>2. Left(c) \in Int
      BY <1>1, LeadsTo, TaskTypes DEF Left
    <3>3. m \in Int
      BY <3>2
    <3> HIDE DEF m
    <3>4. phase' # "undefined" => sh[c].pointer + m =< SHMEM_REGION_SIZE
      BY <2>1, <3>1, <3>3, Sizes
    <3> QED
      BY <1>1, <2>1, <3>1, <3>4 DEF ClientTyped
  <2> QED
    BY <2>2, <2>3, <2>4 DEF Counts
<1>4. /\ regions_size' >= regions_size
      /\ phase' = "destroyed" <=> phase = "destroyed"
  BY <1>1, TaskTypes
<1> QED
  BY <1>1, <1>2, <1>3, <1>4, TypesKept

\* Setting a pointer leaves the rest of the connections.
LEMMA PointerSet ==
    ASSUME AnyInv, NEW c \in Client, NEW x \in 0 .. SHMEM_REGION_SIZE,
           sh' = [sh EXCEPT ![c].pointer = x]
    PROVE  /\ sh' \in [Client -> Connection]
           /\ sh'[c].pointer = x /\ sh'[c].index = sh[c].index
           /\ sh'[c].alias = sh[c].alias /\ sh'[c].open = sh[c].open
           /\ \A d \in Client \ {c} : sh'[d] = sh[d]
  BY DEF AnyInv, VariablesTyped, Connection

\* shmem_seek goes no further than the byte behind writen.
LEMMA SeekFacts ==
    ASSUME AnyInv, NEW c \in Client, Seek(c)
    PROVE  /\ phase = "on" /\ phase' = "on" /\ current = c /\ pc[c] = "seek"
           /\ UNCHANGED <<tableVars, n, processorVars>>
           /\ pc'[c] = "user" /\ sh[c].alias # NoAlias
           /\ sh'[c].pointer = sh[c].pointer
              \/ sh'[c].pointer \in 0 .. place(c).writen + 1
           /\ sh'[c].index = sh[c].index /\ sh'[c].alias = sh[c].alias
           /\ sh'[c].open = sh[c].open
           /\ OthersKept(c) /\ VariablesTyped'
<1>1. /\ phase = "on" /\ phase' = "on" /\ current = c /\ pc[c] = "seek"
      /\ UNCHANGED <<tableVars, n, processorVars>> /\ pc' = [pc EXCEPT ![c] = "user"]
  BY DEF Seek, Runs, Goes
<1>2. sh[c].alias # NoAlias
  BY <1>1 DEF AnyInv, ClientTyped
<1>3. place(c).writen + 1 \in 0 .. SHMEM_REGION_SIZE
  BY <1>1, <1>2, LeadsTo, Sizes
<1>4. \A p \in 0 .. place(c).writen + 1 : p \in 0 .. SHMEM_REGION_SIZE
  BY <1>3, Sizes
<1>5. /\ sh' \in [Client -> Connection]
      /\ sh'[c].pointer = sh[c].pointer \/ sh'[c].pointer \in 0 .. place(c).writen + 1
      /\ sh'[c].index = sh[c].index /\ sh'[c].alias = sh[c].alias
      /\ sh'[c].open = sh[c].open
      /\ \A d \in Client \ {c} : sh'[d] = sh[d]
  <2>1. CASE sh' = sh
    BY <2>1 DEF AnyInv, VariablesTyped
  <2>2. ASSUME NEW p \in 0 .. place(c).writen + 1, sh' = [sh EXCEPT ![c].pointer = p]
        PROVE  <1>5!:
    BY <1>4, <2>2, PointerSet
  <2> QED
    BY <2>1, <2>2 DEF Seek
<1>6. /\ pc' \in [Client -> ProgramCounter] /\ pc'[c] = "user"
      /\ \A d \in Client \ {c} : pc'[d] = pc[d]
  BY <1>1 DEF AnyInv, VariablesTyped, ProgramCounter
<1> QED
  BY <1>1, <1>2, <1>5, <1>6 DEF OthersKept, AnyInv, VariablesTyped, processorVars

\* A byte is read, and there are fewer left.
LEMMA ReadByteFacts ==
    ASSUME AnyInv, NEW c \in Client, ReadByte(c)
    PROVE  /\ phase = "on" /\ phase' = "on" /\ current = c
           /\ pc[c] = "bytes" /\ pc'[c] = "bytes"
           /\ UNCHANGED <<tableVars, processorVars>>
           /\ sh[c].alias # NoAlias /\ n[c] > 0
           /\ sh'[c].pointer = sh[c].pointer + 1 /\ n'[c] = n[c] - 1
           /\ sh'[c].pointer + n'[c] = sh[c].pointer + n[c]
           /\ sh'[c].index = sh[c].index /\ sh'[c].alias = sh[c].alias
           /\ sh'[c].open = sh[c].open
           /\ OthersKept(c) /\ VariablesTyped'
<1> DEFINE x == sh[c].pointer
           m == n[c]
<1>1. /\ phase = "on" /\ phase' = "on" /\ current = c /\ pc[c] = "bytes" /\ m > 0
      /\ UNCHANGED <<tableVars, processorVars, pc>>
      /\ sh' = [sh EXCEPT ![c].pointer = x + 1] /\ n' = [n EXCEPT ![c] = m - 1]
  BY DEF ReadByte, Runs
<1>2. /\ x + m =< SHMEM_REGION_SIZE /\ sh[c].alias # NoAlias
      /\ x \in 0 .. SHMEM_REGION_SIZE /\ m \in 0 .. 255
  BY <1>1, TaskTypes DEF AnyInv, ClientTyped
<1> HIDE DEF x, m
<1>3. /\ x + 1 \in 0 .. SHMEM_REGION_SIZE /\ m - 1 \in 0 .. 255
      /\ (x + 1) + (m - 1) = x + m
  BY <1>1, <1>2, Sizes
<1>4. /\ sh' \in [Client -> Connection] /\ sh'[c].pointer = x + 1
      /\ sh'[c].index = sh[c].index /\ sh'[c].alias = sh[c].alias
      /\ sh'[c].open = sh[c].open
      /\ \A d \in Client \ {c} : sh'[d] = sh[d]
  BY <1>1, <1>3, PointerSet
<1>5. /\ n' \in [Client -> 0 .. 255] /\ n'[c] = m - 1
      /\ \A d \in Client \ {c} : n'[d] = n[d]
  BY <1>1, <1>3 DEF AnyInv, VariablesTyped
<1> QED
  BY <1>1, <1>2, <1>3, <1>4, <1>5
  DEF OthersKept, AnyInv, VariablesTyped, processorVars, x, m

LEMMA PointersTyped ==
    ASSUME AnyInv, NEW c \in Client, Seek(c) \/ ReadByte(c)
    PROVE  AnyInv'
<1>1. /\ phase = "on" /\ phase' = "on" /\ UNCHANGED tableVars
      /\ sh[c].alias # NoAlias /\ OthersKept(c) /\ VariablesTyped'
      /\ sh'[c].index = sh[c].index /\ sh'[c].alias = sh[c].alias
  BY SeekFacts, ReadByteFacts
<1>2. TableTyped' /\ regions_size' >= regions_size
  BY <1>1, TableLeft, TaskTypes DEF tableVars
<1>3. ClientTyped(c) /\ regions_size' = regions_size
  BY <1>1 DEF AnyInv, tableVars
<1>4. ClientTyped(c)'
  <2>1. CASE Seek(c)
    BY <1>1, <1>3, <2>1, SeekFacts DEF ClientTyped
  <2>2. CASE ReadByte(c)
    BY <1>1, <1>3, <2>2, ReadByteFacts DEF ClientTyped
  <2> QED
    BY <2>1, <2>2
<1> QED
  BY <1>1, <1>2, <1>4, TypesKept

-----------------------------------------------------------------------------
\* What a statement leaves of the place of c, which it makes r.
Becomes(c, r) ==
    /\ r \in Place
    /\ r.alias \in {place(c).alias, NoAlias} /\ r.region = place(c).region
    /\ shmem_reg_arr' = [shmem_reg_arr EXCEPT ![sh[c].index] = r]
    /\ UNCHANGED <<regions_size, reg_next_free>>
    /\ phase = "on" /\ phase' = "on" /\ current = c
    /\ sh[c].alias # NoAlias

\* The statements of shmem_close that write to the place.
LEMMA CloseWrites ==
    ASSUME AnyInv, NEW c \in Client,
           Drop(c) \/ Unname(c) \/ ClearWriten(c) \/ ClearConnections(c)
    PROVE  /\ UNCHANGED <<sh, n>> /\ OthersKept(c) /\ VariablesTyped'
           /\ pc[c] \in Closing /\ pc'[c] \in Closing \cup {"user"}
           /\ \E r \in Place :
                 /\ Becomes(c, r) /\ r.bytes = place(c).bytes
                 /\ Drop(c) => /\ pc[c] = "drop" /\ pc'[c] \in {"unname", "user"}
                               /\ r.alias = place(c).alias
                               /\ r.writen = place(c).writen
                 /\ Unname(c) => /\ pc[c] = "unname" /\ pc'[c] = "clear"
                                 /\ r.alias = NoAlias
                                 /\ r.writen = place(c).writen
                 /\ ClearWriten(c) => /\ pc[c] = "clear" /\ pc'[c] = "zero"
                                      /\ r.alias = place(c).alias /\ r.writen = 0
                 /\ ClearConnections(c) => /\ pc[c] = "zero" /\ pc'[c] = "compare"
                                           /\ r.alias = place(c).alias
                                           /\ r.writen = place(c).writen
<1>1. ASSUME NEW p, NEW r \in Place, NEW q \in Closing \cup {"user"},
             p \in Closing, r.alias \in {place(c).alias, NoAlias},
             r.region = place(c).region, PlaceBecomes(c, p, r, q)
      PROVE  /\ UNCHANGED <<sh, n>> /\ OthersKept(c) /\ VariablesTyped'
             /\ pc[c] = p /\ pc'[c] = q /\ Becomes(c, r)
  <2>1. /\ phase = "on" /\ phase' = "on" /\ current = c /\ pc[c] = p
        /\ UNCHANGED <<sh, n, processorVars>>
        /\ UNCHANGED <<regions_size, reg_next_free>>
        /\ pc' = [pc EXCEPT ![c] = q]
        /\ shmem_reg_arr' = [shmem_reg_arr EXCEPT ![sh[c].index] = r]
    BY <1>1 DEF PlaceBecomes, Runs, Goes
  <2>2. sh[c].alias # NoAlias
    BY <1>1, <2>1 DEF AnyInv, ClientTyped, Closing
  <2>3. /\ pc' \in [Client -> ProgramCounter] /\ pc'[c] = q
        /\ \A d \in Client \ {c} : pc'[d] = pc[d]
    BY <2>1 DEF AnyInv, VariablesTyped, ProgramCounter
  <2> QED
    BY <1>1, <2>1, <2>2, <2>3
    DEF Becomes, OthersKept, AnyInv, VariablesTyped, processorVars
<1>2. /\ phase = "on" /\ sh[c].alias # NoAlias
  BY DEF Drop, Unname, ClearWriten, ClearConnections, PlaceBecomes, Runs, AnyInv,
         ClientTyped, Closing
<1>3. place(c) \in Place
  BY <1>2, LeadsTo
<1> DEFINE v == place(c)
<1>4. CASE Drop(c)
  <2> DEFINE r == [v EXCEPT !.connections = @ - 1]
             q == IF Last(v.connections) THEN "unname" ELSE "user"
  <2>1. /\ r \in Place /\ r.alias = v.alias /\ r.region = v.region
        /\ r.writen = v.writen /\ r.bytes = v.bytes
    BY <1>3 DEF Place
  <2>2. q \in Closing \cup {"user"} /\ q \in {"unname", "user"} /\ "drop" \in Closing
    BY DEF Closing
  <2>3. PlaceBecomes(c, "drop", r, q)
    BY <1>4 DEF Drop
  <2> HIDE DEF r, q
  <2>4. /\ UNCHANGED <<sh, n>> /\ OthersKept(c) /\ VariablesTyped'
        /\ pc[c] = "drop" /\ pc'[c] = q /\ Becomes(c, r)
    BY <1>1, <2>1, <2>2, <2>3
  <2>5. ~Unname(c) /\ ~ClearWriten(c) /\ ~ClearConnections(c)
    BY <2>4 DEF Unname, ClearWriten, ClearConnections, PlaceBecomes, Runs
  <2> QED
    BY <2>1, <2>2, <2>4, <2>5
<1>5. CASE Unname(c)
  <2> DEFINE r == [v EXCEPT !.alias = NoAlias]
  <2>1. /\ r \in Place /\ r.alias = NoAlias /\ r.region = v.region
        /\ r.writen = v.writen /\ r.bytes = v.bytes
    BY <1>3 DEF Place
  <2>2. "clear" \in Closing /\ "unname" \in Closing
    BY DEF Closing
  <2>3. PlaceBecomes(c, "unname", r, "clear")
    BY <1>5 DEF Unname
  <2> HIDE DEF r
  <2>4. /\ UNCHANGED <<sh, n>> /\ OthersKept(c) /\ VariablesTyped'
        /\ pc[c] = "unname" /\ pc'[c] = "clear" /\ Becomes(c, r)
    BY <1>1, <2>1, <2>2, <2>3
  <2>5. ~Drop(c) /\ ~ClearWriten(c) /\ ~ClearConnections(c)
    BY <2>4 DEF Drop, ClearWriten, ClearConnections, PlaceBecomes, Runs
  <2> QED
    BY <2>1, <2>2, <2>4, <2>5
<1>6. CASE ClearWriten(c)
  <2> DEFINE r == [v EXCEPT !.writen = 0]
  <2>1. /\ r \in Place /\ r.alias = v.alias /\ r.region = v.region
        /\ r.writen = 0 /\ r.bytes = v.bytes
    BY <1>3, Sizes DEF Place
  <2>2. "clear" \in Closing /\ "zero" \in Closing
    BY DEF Closing
  <2>3. PlaceBecomes(c, "clear", r, "zero")
    BY <1>6 DEF ClearWriten
  <2> HIDE DEF r
  <2>4. /\ UNCHANGED <<sh, n>> /\ OthersKept(c) /\ VariablesTyped'
        /\ pc[c] = "clear" /\ pc'[c] = "zero" /\ Becomes(c, r)
    BY <1>1, <2>1, <2>2, <2>3
  <2>5. ~Drop(c) /\ ~Unname(c) /\ ~ClearConnections(c)
    BY <2>4 DEF Drop, Unname, ClearConnections, PlaceBecomes, Runs
  <2> QED
    BY <2>1, <2>2, <2>4, <2>5
<1>7. CASE ClearConnections(c)
  <2> DEFINE r == [v EXCEPT !.connections = 0]
  <2>1. /\ r \in Place /\ r.alias = v.alias /\ r.region = v.region
        /\ r.writen = v.writen /\ r.bytes = v.bytes
    BY <1>3 DEF Place
  <2>2. "compare" \in Closing /\ "zero" \in Closing
    BY DEF Closing
  <2>3. PlaceBecomes(c, "zero", r, "compare")
    BY <1>7 DEF ClearConnections
  <2> HIDE DEF r
  <2>4. /\ UNCHANGED <<sh, n>> /\ OthersKept(c) /\ VariablesTyped'
        /\ pc[c] = "zero" /\ pc'[c] = "compare" /\ Becomes(c, r)
    BY <1>1, <2>1, <2>2, <2>3
  <2>5. ~Drop(c) /\ ~Unname(c) /\ ~ClearWriten(c)
    BY <2>4 DEF Drop, Unname, ClearWriten, PlaceBecomes, Runs
  <2> QED
    BY <2>1, <2>2, <2>4, <2>5
<1> QED
  BY <1>4, <1>5, <1>6, <1>7

\* A byte is written, and there are fewer left.
LEMMA WriteByteFacts ==
    ASSUME AnyInv, NEW c \in Client, WriteByte(c)
    PROVE  /\ pc[c] = "write" /\ pc'[c] = "write" /\ sh[c].alias # NoAlias
           /\ UNCHANGED processorVars
           /\ sh[c].pointer \in Offset
           /\ sh'[c].pointer = sh[c].pointer + 1 /\ sh'[c].index = sh[c].index
           /\ sh'[c].alias = sh[c].alias /\ sh'[c].open = sh[c].open
           /\ sh'[c].pointer + n'[c] = sh[c].pointer + n[c]
           /\ OthersKept(c) /\ VariablesTyped'
           /\ \E r \in Place :
                 /\ Becomes(c, r) /\ r.alias = place(c).alias
                 /\ r.writen = place(c).writen
                 /\ r.bytes = place(c).bytes \cup {sh[c].pointer}
<1> DEFINE x == sh[c].pointer
           m == n[c]
           v == place(c)
           r == [v EXCEPT !.bytes = @ \cup {x}]
<1>1. /\ phase = "on" /\ phase' = "on" /\ current = c /\ pc[c] = "write" /\ m > 0
      /\ UNCHANGED <<regions_size, reg_next_free, processorVars, pc>>
      /\ sh' = [sh EXCEPT ![c].pointer = x + 1] /\ n' = [n EXCEPT ![c] = m - 1]
      /\ shmem_reg_arr' = [shmem_reg_arr EXCEPT ![sh[c].index] = r]
  BY DEF WriteByte, Runs, place
<1>2. /\ x + m =< SHMEM_REGION_SIZE /\ sh[c].alias # NoAlias
      /\ x \in 0 .. SHMEM_REGION_SIZE /\ m \in 0 .. 255
  BY <1>1, TaskTypes DEF AnyInv, ClientTyped
<1>3. v \in Place
  BY <1>1, <1>2, LeadsTo
<1> HIDE DEF x, m
<1>4. /\ x + 1 \in 0 .. SHMEM_REGION_SIZE /\ m - 1 \in 0 .. 255 /\ x \in Offset
      /\ (x + 1) + (m - 1) = x + m
  BY <1>1, <1>2, Sizes DEF Offset
<1>5. /\ r \in Place /\ r.alias = v.alias /\ r.region = v.region
      /\ r.writen = v.writen /\ r.bytes = v.bytes \cup {x}
  BY <1>3, <1>4 DEF Place
<1>6. /\ sh' \in [Client -> Connection] /\ sh'[c].pointer = x + 1
      /\ sh'[c].index = sh[c].index /\ sh'[c].alias = sh[c].alias
      /\ sh'[c].open = sh[c].open
      /\ \A d \in Client \ {c} : sh'[d] = sh[d]
  BY <1>1, <1>4, PointerSet
<1>7. /\ n' \in [Client -> 0 .. 255] /\ n'[c] = m - 1
      /\ \A d \in Client \ {c} : n'[d] = n[d]
  BY <1>1, <1>4 DEF AnyInv, VariablesTyped
<1>8. OthersKept(c) /\ VariablesTyped'
  BY <1>1, <1>6, <1>7 DEF OthersKept, AnyInv, VariablesTyped, processorVars
<1> HIDE DEF r
<1>9. Becomes(c, r)
  BY <1>1, <1>2, <1>5 DEF Becomes
<1> QED
  BY <1>1, <1>2, <1>4, <1>5, <1>6, <1>7, <1>8, <1>9 DEF x, m

\* Line 136.
LEMMA WriteMarksFacts ==
    ASSUME AnyInv, NEW c \in Client, WriteMarks(c)
    PROVE  /\ pc[c] = "mark" /\ pc'[c] = "user" /\ sh[c].alias # NoAlias
           /\ UNCHANGED <<sh, n, processorVars>>
           /\ OthersKept(c) /\ VariablesTyped'
           /\ \E r \in Place :
                 /\ Becomes(c, r) /\ r.alias = place(c).alias
                 /\ r.writen = sh[c].pointer - 1 /\ r.bytes = place(c).bytes
<1> DEFINE x == sh[c].pointer
           v == place(c)
           r == [v EXCEPT !.writen = x - 1]
<1>1. /\ phase = "on" /\ phase' = "on" /\ current = c /\ pc[c] = "mark"
      /\ UNCHANGED <<regions_size, reg_next_free, processorVars, sh, n>>
      /\ pc' = [pc EXCEPT ![c] = "user"]
      /\ shmem_reg_arr' = [shmem_reg_arr EXCEPT ![sh[c].index] = r]
  BY DEF WriteMarks, Runs, place, LastWriten
<1>2. x > 0 /\ sh[c].alias # NoAlias /\ x \in 0 .. SHMEM_REGION_SIZE
  BY <1>1, TaskTypes DEF AnyInv, ClientTyped
<1>3. v \in Place
  BY <1>1, <1>2, LeadsTo
<1> HIDE DEF x
<1>4. x - 1 \in Offset
  BY <1>2, Sizes DEF Offset
<1>5. /\ r \in Place /\ r.alias = v.alias /\ r.region = v.region
      /\ r.writen = x - 1 /\ r.bytes = v.bytes
  BY <1>3, <1>4 DEF Place
<1>6. /\ pc' \in [Client -> ProgramCounter] /\ pc'[c] = "user"
      /\ \A d \in Client \ {c} : pc'[d] = pc[d]
  BY <1>1 DEF AnyInv, VariablesTyped, ProgramCounter
<1>7. OthersKept(c) /\ VariablesTyped'
  BY <1>1, <1>6 DEF OthersKept, AnyInv, VariablesTyped, processorVars
<1> HIDE DEF r
<1>8. Becomes(c, r)
  BY <1>1, <1>2, <1>5 DEF Becomes
<1> QED
  BY <1>1, <1>2, <1>5, <1>6, <1>7, <1>8 DEF x

LEMMA WritesTyped ==
    ASSUME AnyInv, NEW c \in Client,
           \/ WriteByte(c) \/ WriteMarks(c)
           \/ Drop(c) \/ Unname(c) \/ ClearWriten(c) \/ ClearConnections(c)
    PROVE  AnyInv'
<1>1. /\ OthersKept(c) /\ VariablesTyped'
      /\ sh'[c].index = sh[c].index /\ sh'[c].alias = sh[c].alias
      /\ \E r \in Place : Becomes(c, r)
  BY CloseWrites, WriteByteFacts, WriteMarksFacts
<1>2. PICK r \in Place : Becomes(c, r)
  BY <1>1
<1>3. /\ phase = "on" /\ phase' = "on" /\ regions_size' = regions_size
      /\ sh[c].alias # NoAlias
  BY <1>2 DEF Becomes
<1>4. TableTyped'
  BY <1>2, TableRewritten DEF Becomes
<1>5. ClientTyped(c) /\ regions_size' >= regions_size
  BY <1>3, TaskTypes DEF AnyInv
<1>6. ClientTyped(c)'
  <2>1. CASE WriteByte(c)
    BY <1>1, <1>3, <1>5, <2>1, WriteByteFacts DEF ClientTyped
  <2>2. CASE WriteMarks(c)
    BY <1>1, <1>3, <1>5, <2>2, WriteMarksFacts DEF ClientTyped
  <2>3. CASE Drop(c) \/ Unname(c) \/ ClearWriten(c) \/ ClearConnections(c)
    BY <1>1, <1>3, <1>5, <2>3, CloseWrites DEF ClientTyped, Closing
  <2> QED
    BY <2>1, <2>2, <2>3
<1> QED
  BY <1>1, <1>3, <1>4, <1>5, <1>6, TypesKept

-----------------------------------------------------------------------------
\* The place is offered.
LEMMA OfferFacts ==
    ASSUME AnyInv, NEW c \in Client, Offer(c)
    PROVE  /\ phase = "on" /\ phase' = "on" /\ pc[c] = "offer" /\ pc'[c] = "user"
           /\ UNCHANGED <<regions_size, shmem_reg_arr, sh, n, processorVars>>
           /\ reg_next_free' = sh[c].index
           /\ OthersKept(c) /\ VariablesTyped'
<1>1. /\ phase = "on" /\ phase' = "on" /\ pc[c] = "offer"
      /\ UNCHANGED <<regions_size, shmem_reg_arr, sh, n, processorVars>>
      /\ pc' = [pc EXCEPT ![c] = "user"] /\ reg_next_free' = sh[c].index
  BY DEF Offer, Runs, Goes
<1>2. /\ pc' \in [Client -> ProgramCounter] /\ pc'[c] = "user"
      /\ \A d \in Client \ {c} : pc'[d] = pc[d]
  BY <1>1 DEF AnyInv, VariablesTyped, ProgramCounter
<1> QED
  BY <1>1, <1>2 DEF OthersKept, AnyInv, VariablesTyped, processorVars

LEMMA OfferTyped ==
    ASSUME AnyInv, NEW c \in Client, Offer(c)
    PROVE  AnyInv'
<1>1. /\ phase = "on" /\ phase' = "on" /\ pc[c] = "offer" /\ pc'[c] = "user"
      /\ UNCHANGED <<regions_size, shmem_reg_arr, sh, n>>
      /\ reg_next_free' = sh[c].index /\ OthersKept(c) /\ VariablesTyped'
  BY OfferFacts
<1>2. /\ ClientTyped(c) /\ sh[c].alias # NoAlias /\ sh[c].index < regions_size
      /\ sh[c].index \in 0 .. REGIONS_MAX /\ regions_size \in Nat
  BY <1>1, TaskTypes DEF AnyInv, ClientTyped
<1>3. reg_next_free' \in 0 .. regions_size
  <2> DEFINE i == sh[c].index
  <2> HIDE DEF i
  <2>1. i < regions_size /\ i \in 0 .. REGIONS_MAX /\ reg_next_free' = i
    BY <1>1, <1>2 DEF i
  <2> QED
    BY <1>2, <2>1, Sizes
<1>4. TableTyped'
  BY <1>1, <1>3 DEF AnyInv, TableTyped, PlacesTyped, Table
<1>5. ClientTyped(c)' /\ regions_size' >= regions_size
  BY <1>1, <1>2 DEF ClientTyped
<1> QED
  BY <1>1, <1>4, <1>5, TypesKept

\* shmem_close begins: the task is no longer connected.
LEMMA CloseCallFacts ==
    ASSUME AnyInv, NEW c \in Client, CloseCall(c)
    PROVE  /\ phase = "on" /\ pc[c] = "user" /\ current = c
           /\ UNCHANGED <<tableVars, n, processorVars>>
           /\ \/ phase' = "exited" /\ place(c).alias = NoAlias
              \/ phase' = "on" /\ pc'[c] = "drop" /\ place(c).alias # NoAlias
           /\ pc'[c] \in {"user", "drop"}
           /\ sh[c].alias # NoAlias /\ sh'[c].alias = sh[c].alias
           /\ sh'[c].index = sh[c].index /\ sh'[c].pointer = sh[c].pointer
           /\ ~sh'[c].open
           /\ OthersKept(c) /\ VariablesTyped'
<1>1. /\ phase = "on" /\ pc[c] = "user" /\ current = c
      /\ UNCHANGED <<tableVars, n, processorVars>>
      /\ sh' = [sh EXCEPT ![c].open = FALSE]
      /\ \/ phase' = "exited" /\ pc' = pc /\ place(c).alias = NoAlias
         \/ phase' = "on" /\ pc' = [pc EXCEPT ![c] = "drop"] /\ place(c).alias # NoAlias
  BY DEF CloseCall, Runs, Goes
<1>2. sh[c].alias # NoAlias
  BY DEF CloseCall, Has, AnyInv, ClientTyped
<1>3. /\ sh' \in [Client -> Connection] /\ ~sh'[c].open
      /\ sh'[c].alias = sh[c].alias /\ sh'[c].index = sh[c].index
      /\ sh'[c].pointer = sh[c].pointer
      /\ \A d \in Client \ {c} : sh'[d] = sh[d]
  <2>1. sh \in [Client -> Connection] /\ sh[c] \in Connection
    BY DEF AnyInv, VariablesTyped
  <2> DEFINE r == [sh[c] EXCEPT !.open = FALSE]
  <2>2. /\ r \in Connection /\ r.open = FALSE /\ r.alias = sh[c].alias
        /\ r.index = sh[c].index /\ r.pointer = sh[c].pointer
    BY <2>1 DEF Connection
  <2>3. sh' = [sh EXCEPT ![c] = r]
    BY <1>1
  <2> HIDE DEF r
  <2> QED
    BY <2>1, <2>2, <2>3
<1>4. /\ pc' \in [Client -> ProgramCounter] /\ pc'[c] \in {"user", "drop"}
      /\ pc' = [pc EXCEPT ![c] = "drop"] => pc'[c] = "drop"
      /\ \A d \in Client \ {c} : pc'[d] = pc[d]
  BY <1>1 DEF AnyInv, VariablesTyped, ProgramCounter, Closing
<1>5. OthersKept(c) /\ VariablesTyped'
  BY <1>1, <1>3, <1>4 DEF OthersKept, AnyInv, VariablesTyped, processorVars
<1> QED
  BY <1>1, <1>2, <1>3, <1>4, <1>5

LEMMA CloseCallTyped ==
    ASSUME AnyInv, NEW c \in Client, CloseCall(c)
    PROVE  AnyInv'
<1>1. /\ phase = "on" /\ phase' \in {"on", "exited"} /\ UNCHANGED tableVars
      /\ OthersKept(c) /\ VariablesTyped'
  BY CloseCallFacts
<1>2. TableTyped'
  BY <1>1, TableLeft
<1>3. regions_size' = regions_size /\ regions_size' >= regions_size
  BY <1>1, TaskTypes DEF tableVars
<1>4. ClientTyped(c)'
  BY <1>3, CloseCallFacts DEF AnyInv, ClientTyped
<1> QED
  BY <1>1, <1>2, <1>3, <1>4, TypesKept

\* A second connection to a region that is open.
LEMMA ConnectExistingFacts ==
    ASSUME AnyInv, NEW c \in Client, NEW a \in Alias, ConnectExisting(c, a)
    PROVE  /\ phase = "on" /\ phase' = "on" /\ pc[c] = "user" /\ current = c
           /\ UNCHANGED <<tableVars, pc, n, current>> /\ ~sh[c].open
           /\ sh'[c].index \in Table /\ sh'[c].index < regions_size
           /\ shmem_reg_arr[sh'[c].index].alias = a /\ a # NoAlias
           /\ BeingClosed(sh'[c].index) => "open_closing" \in Liberties
           /\ sh'[c].alias = a /\ sh'[c].open /\ sh'[c].pointer = 0
           /\ regions_size > 0
           /\ OthersKept(c) /\ VariablesTyped'
<1>1. /\ phase = "on" /\ phase' = "on" /\ pc[c] = "user" /\ ~sh[c].open
      /\ current = c /\ armed' = FALSE
      /\ UNCHANGED <<tableVars, pc, n, current>>
  BY DEF ConnectExisting, Runs
<1>2. PICK i \in Existing(a) :
         /\ BeingClosed(i) => "open_closing" \in Liberties
         /\ sh' = [sh EXCEPT ![c] = [pointer |-> 0, index |-> i, alias |-> a,
                                     open |-> TRUE]]
  BY DEF ConnectExisting
<1>3. regions_size > 0
  <2>1. i \in DOMAIN shmem_reg_arr
    BY DEF Existing
  <2>2. regions_size = 0 => DOMAIN shmem_reg_arr = {}
    BY DEF AnyInv, TableTyped
  <2> QED
    BY <2>1, <2>2 DEF AnyInv, TableTyped
<1>4. /\ i \in Table /\ i < regions_size /\ i \in 0 .. REGIONS_MAX
      /\ shmem_reg_arr[i].alias = a /\ a # NoAlias
  <2>1. PlacesTyped /\ regions_size \in Nat /\ regions_size =< REGIONS_MAX
    BY <1>1, <1>3 DEF AnyInv, TableTyped
  <2>2. i \in Table /\ i < regions_size /\ shmem_reg_arr[i].alias = a
    BY <2>1 DEF PlacesTyped, Existing
  <2>3. i \in 0 .. REGIONS_MAX
    BY <2>1, <2>2, Sizes DEF Table
  <2> QED
    BY <2>2, <2>3, AliasAssumption
<1>5. /\ sh' \in [Client -> Connection]
      /\ sh'[c].index = i /\ sh'[c].alias = a /\ sh'[c].open /\ sh'[c].pointer = 0
      /\ \A d \in Client \ {c} : sh'[d] = sh[d]
  BY <1>2, <1>4, Sizes DEF AnyInv, VariablesTyped, Connection
<1>6. OthersKept(c) /\ VariablesTyped'
  BY <1>1, <1>5 DEF OthersKept, AnyInv, VariablesTyped
<1> QED
  BY <1>1, <1>2, <1>3, <1>4, <1>5, <1>6

LEMMA ConnectExistingTyped ==
    ASSUME AnyInv, NEW c \in Client, NEW a \in Alias, ConnectExisting(c, a)
    PROVE  AnyInv'
<1>1. /\ phase = "on" /\ phase' = "on" /\ UNCHANGED <<tableVars, pc>>
      /\ OthersKept(c) /\ VariablesTyped'
  BY ConnectExistingFacts
<1>2. TableTyped'
  BY <1>1, TableLeft
<1>3. regions_size' = regions_size /\ regions_size' >= regions_size
  BY <1>1, TaskTypes DEF tableVars
<1>4. ClientTyped(c)'
  BY <1>1, <1>3, ConnectExistingFacts DEF ClientTyped
<1> QED
  BY <1>1, <1>2, <1>3, <1>4, TypesKept

\* The place that a new region gets, its name and its memory.
LEMMA AllocatedTyped ==
    ASSUME NEW r \in Place, NEW a \in Alias
    PROVE  /\ Allocated(r, a) \in Place /\ Allocated(r, a).alias = a
           /\ Allocated(r, a).region = "malloc" /\ Allocated(r, a).bytes = {}
           /\ Allocated(r, a).writen = r.writen
  BY DEF Place, Allocated

\* The table a new region goes to: as it was, or grown by free places if it had
\* to grow; its last place is free.
LEMMA NewTable ==
    ASSUME AnyInv, NEW c \in Client, NEW a \in Alias, ConnectNew(c, a)
    PROVE  \E size \in Nat : \E table \in [0 .. size -> Place] :
              /\ size > 0 /\ size >= regions_size /\ size =< REGIONS_MAX
              /\ reg_next_free \in 0 .. size - 1
              /\ regions_size' = size
              /\ shmem_reg_arr' =
                    [table EXCEPT ![reg_next_free] =
                        Allocated(table[reg_next_free], a)]
              /\ table[size] = ZeroReg
              /\ \A i \in 0 .. regions_size - 1 : table[i] = shmem_reg_arr[i]
              /\ \A i \in 0 .. size :
                    \/ table[i] = ZeroReg
                    \/ /\ regions_size > 0 /\ i \in 0 .. regions_size - 1
                       /\ i \in Table /\ table[i] = shmem_reg_arr[i]
<1> DEFINE full == reg_next_free >= regions_size
           size == IF full THEN regions_size + SHMEM_ARR_LEAP ELSE regions_size
           table == IF full THEN Grown(size) ELSE shmem_reg_arr
           f == reg_next_free
<1>1. /\ phase = "on" /\ size =< REGIONS_MAX
      /\ regions_size' = size
      /\ shmem_reg_arr' = [table EXCEPT ![f] = Allocated(table[f], a)]
  <2>1. phase = "on" /\ size =< REGIONS_MAX
    BY DEF ConnectNew, Runs
  <2>2. regions_size' = size
    BY DEF ConnectNew
  <2>3. shmem_reg_arr' = [table EXCEPT ![f] = Allocated(table[f], a)]
    BY DEF ConnectNew
  <2> QED
    BY <2>1, <2>2, <2>3
<1>2. /\ regions_size \in Nat /\ f \in 0 .. regions_size /\ f \in Int
      /\ size \in Nat /\ size > 0 /\ size >= regions_size /\ f \in 0 .. size - 1
  BY SizeAssumption DEF AnyInv, TableTyped
<1>3. /\ regions_size > 0 => /\ shmem_reg_arr \in [Table -> Place]
                             /\ shmem_reg_arr[regions_size] = ZeroReg
      /\ \A i \in 0 .. regions_size - 1 :
            /\ i \in Table /\ regions_size > 0
            /\ i \in DOMAIN shmem_reg_arr /\ shmem_reg_arr[i] \in Place
      /\ \A i \in Table : i = regions_size \/ i \in 0 .. regions_size - 1
      /\ ZeroReg \in Place
  <2>1. regions_size > 0 => /\ shmem_reg_arr \in [Table -> Place]
                            /\ shmem_reg_arr[regions_size] = ZeroReg
    BY <1>1 DEF AnyInv, TableTyped, PlacesTyped
  <2>2. \A i \in 0 .. regions_size - 1 : i \in Table /\ regions_size > 0
    BY <1>2 DEF Table
  <2>3. \A i \in Table : i = regions_size \/ i \in 0 .. regions_size - 1
    BY <1>2 DEF Table
  <2>4. ZeroReg \in Place
    BY Sizes DEF ZeroReg, Place
  <2> QED
    BY <2>1, <2>2, <2>3, <2>4
<1>4. /\ table \in [0 .. size -> Place] /\ table[size] = ZeroReg
      /\ \A i \in 0 .. regions_size - 1 : table[i] = shmem_reg_arr[i]
      /\ \A i \in 0 .. size :
            \/ table[i] = ZeroReg
            \/ /\ regions_size > 0 /\ i \in 0 .. regions_size - 1
               /\ i \in Table /\ table[i] = shmem_reg_arr[i]
  <2>1. CASE full
    <3>1. f = regions_size /\ size > regions_size
      BY <1>2, <2>1, SizeAssumption
    <3>2. \A i \in 0 .. size :
             table[i] = IF i \in 0 .. regions_size - 1
                        THEN shmem_reg_arr[i] ELSE ZeroReg
      BY <1>2, <1>3, <2>1 DEF Grown, Kept
    <3>3. table = [i \in 0 .. size |-> table[i]]
      BY <2>1 DEF Grown
    <3> HIDE DEF table, size, full
    <3>4. \A i \in 0 .. size : table[i] \in Place
      BY <1>3, <3>2
    <3>5. table \in [0 .. size -> Place]
      BY <3>3, <3>4
    <3>6. \A i \in 0 .. regions_size - 1 : i \in 0 .. size
      BY <1>2, <3>1
    <3>7. size \in 0 .. size /\ size \notin 0 .. regions_size - 1
      BY <1>2, <3>1
    <3> QED
      BY <1>3, <3>2, <3>5, <3>6, <3>7
  <2>2. CASE ~full
    <3>1. size = regions_size /\ regions_size > 0 /\ table = shmem_reg_arr
      BY <1>2, <2>2
    <3>2. 0 .. size = Table
      BY <3>1 DEF Table
    <3> HIDE DEF table, size, full
    <3> QED
      BY <1>3, <3>1, <3>2
  <2> QED
    BY <2>1, <2>2
<1> HIDE DEF table, size, full
<1> QED
  BY <1>1, <1>2, <1>4

\* A region goes to the next free place, in a table that has grown if it had
\* to, and the next one will go to its last place.
LEMMA ConnectNewFacts ==
    ASSUME AnyInv, NEW c \in Client, NEW a \in Alias, ConnectNew(c, a)
    PROVE  /\ phase = "on" /\ phase' = "on" /\ pc[c] = "user" /\ current = c
           /\ UNCHANGED <<pc, n, processorVars>> /\ ~sh[c].open
           /\ Existing(a) = {} /\ a # NoAlias
           /\ regions_size' \in Nat /\ regions_size' > 0
           /\ regions_size' >= regions_size /\ regions_size' =< REGIONS_MAX
           /\ reg_next_free \in Table' /\ reg_next_free \in 0 .. REGIONS_MAX
           /\ reg_next_free < regions_size'
           /\ reg_next_free' = regions_size'
           /\ sh'[c].index = reg_next_free /\ sh'[c].pointer = 0
           /\ sh'[c].alias = a /\ sh'[c].open
           /\ OthersKept(c) /\ VariablesTyped'
           /\ shmem_reg_arr' \in [Table' -> Place]
           /\ shmem_reg_arr'[regions_size'] = ZeroReg
           /\ \A i \in 0 .. regions_size - 1 :
                 i \in Table' /\ (i # reg_next_free => shmem_reg_arr'[i] = shmem_reg_arr[i])
           /\ \A i \in Table' : i # reg_next_free =>
                 \/ shmem_reg_arr'[i] = ZeroReg
                 \/ /\ regions_size > 0 /\ i \in 0 .. regions_size - 1
                    /\ i \in Table /\ shmem_reg_arr'[i] = shmem_reg_arr[i]
           /\ shmem_reg_arr'[reg_next_free].alias = a
           /\ shmem_reg_arr'[reg_next_free].region = "malloc"
           /\ shmem_reg_arr'[reg_next_free].bytes = {}
           /\ \/ shmem_reg_arr'[reg_next_free].writen = 0
              \/ /\ regions_size > 0 /\ reg_next_free \in Table
                 /\ shmem_reg_arr'[reg_next_free].writen
                       = shmem_reg_arr[reg_next_free].writen
<1> DEFINE f == reg_next_free
<1>1. PICK size \in Nat : \E table \in [0 .. size -> Place] :
         /\ size > 0 /\ size >= regions_size /\ size =< REGIONS_MAX
         /\ f \in 0 .. size - 1
         /\ regions_size' = size
         /\ shmem_reg_arr' = [table EXCEPT ![f] = Allocated(table[f], a)]
         /\ table[size] = ZeroReg
         /\ \A i \in 0 .. regions_size - 1 : table[i] = shmem_reg_arr[i]
         /\ \A i \in 0 .. size :
               \/ table[i] = ZeroReg
               \/ /\ regions_size > 0 /\ i \in 0 .. regions_size - 1
                  /\ i \in Table /\ table[i] = shmem_reg_arr[i]
  BY NewTable
<1>2. PICK table \in [0 .. size -> Place] :
         /\ shmem_reg_arr' = [table EXCEPT ![f] = Allocated(table[f], a)]
         /\ table[size] = ZeroReg
         /\ \A i \in 0 .. regions_size - 1 : table[i] = shmem_reg_arr[i]
         /\ \A i \in 0 .. size :
               \/ table[i] = ZeroReg
               \/ /\ regions_size > 0 /\ i \in 0 .. regions_size - 1
                  /\ i \in Table /\ table[i] = shmem_reg_arr[i]
  BY <1>1
<1> DEFINE r == Allocated(table[f], a)
<1>3. /\ f \in 0 .. size - 1 /\ f \in 0 .. size /\ f < size /\ f # size
      /\ f \in 0 .. REGIONS_MAX /\ f \in Int /\ regions_size \in Nat
      /\ size > 0 /\ size >= regions_size /\ size =< REGIONS_MAX
      /\ Table' = 0 .. size /\ regions_size' = size /\ size \in 0 .. size
      /\ \A i \in 0 .. regions_size - 1 : i \in 0 .. size
  BY <1>1, Sizes DEF Table, AnyInv, TableTyped
<1>4. /\ phase = "on" /\ phase' = "on" /\ pc[c] = "user" /\ current = c
      /\ UNCHANGED <<pc, n, processorVars>> /\ ~sh[c].open
      /\ Existing(a) = {} /\ a # NoAlias
      /\ sh' = [sh EXCEPT ![c] = [pointer |-> 0, index |-> f, alias |-> a,
                                  open |-> TRUE]]
  BY AliasAssumption DEF ConnectNew, Runs
<1>5. /\ r \in Place /\ r.alias = a /\ r.region = "malloc" /\ r.bytes = {}
      /\ r.writen = table[f].writen
  <2>1. table[f] \in Place
    BY <1>2, <1>3
  <2> QED
    BY <2>1, AllocatedTyped
<1> HIDE DEF r
<1>6. /\ shmem_reg_arr' = [table EXCEPT ![f] = r]
      /\ shmem_reg_arr' \in [0 .. size -> Place] /\ shmem_reg_arr'[f] = r
      /\ \A i \in 0 .. size : i # f => shmem_reg_arr'[i] = table[i]
  <2>1. shmem_reg_arr' = [table EXCEPT ![f] = r]
    BY <1>2 DEF r
  <2> QED
    BY <2>1, <1>3, <1>5
<1>7. reg_next_free' = size
  <2>1. /\ size \in DOMAIN shmem_reg_arr' /\ DOMAIN shmem_reg_arr' = 0 .. size
        /\ shmem_reg_arr'[size].alias = NoAlias
    BY <1>2, <1>3, <1>6 DEF ZeroReg
  <2>2. \A i \in 0 .. size : i =< size /\ (size =< i => i = size)
    BY <1>3
  <2>3. reg_next_free' = NextFree(shmem_reg_arr')
    BY DEF ConnectNew
  <2> QED
    BY <2>1, <2>2, <2>3 DEF NextFree
<1>8. /\ sh' \in [Client -> Connection]
      /\ sh'[c].index = f /\ sh'[c].alias = a /\ sh'[c].open /\ sh'[c].pointer = 0
      /\ \A d \in Client \ {c} : sh'[d] = sh[d]
  BY <1>3, <1>4, Sizes DEF AnyInv, VariablesTyped, Connection
<1>9. OthersKept(c) /\ VariablesTyped'
  BY <1>4, <1>8 DEF OthersKept, AnyInv, VariablesTyped, processorVars
<1>10. /\ shmem_reg_arr'[size] = ZeroReg
       /\ \A i \in 0 .. regions_size - 1 :
             i \in 0 .. size /\ (i # f => shmem_reg_arr'[i] = shmem_reg_arr[i])
       /\ \A i \in 0 .. size : i # f =>
             \/ shmem_reg_arr'[i] = ZeroReg
             \/ /\ regions_size > 0 /\ i \in 0 .. regions_size - 1
                /\ i \in Table /\ shmem_reg_arr'[i] = shmem_reg_arr[i]
  BY <1>2, <1>3, <1>6
<1>11. \/ shmem_reg_arr'[f].writen = 0
       \/ /\ regions_size > 0 /\ f \in Table
          /\ shmem_reg_arr'[f].writen = shmem_reg_arr[f].writen
  <2>1. ZeroReg.writen = 0
    BY DEF ZeroReg
  <2> QED
    BY <2>1, <1>2, <1>3, <1>5, <1>6
<1> QED
  BY <1>3, <1>4, <1>5, <1>6, <1>7, <1>8, <1>9, <1>10, <1>11

LEMMA ConnectNewTyped ==
    ASSUME AnyInv, NEW c \in Client, NEW a \in Alias, ConnectNew(c, a)
    PROVE  AnyInv'
<1> DEFINE f == reg_next_free
<1>1. /\ phase = "on" /\ phase' = "on" /\ pc[c] = "user" /\ pc'[c] = "user"
      /\ regions_size' \in Nat /\ regions_size' > 0
      /\ regions_size' >= regions_size /\ regions_size' =< REGIONS_MAX
      /\ f \in Table' /\ f < regions_size' /\ reg_next_free' = regions_size'
      /\ OthersKept(c) /\ VariablesTyped'
      /\ shmem_reg_arr' \in [Table' -> Place]
      /\ shmem_reg_arr'[regions_size'] = ZeroReg
  BY ConnectNewFacts
<1>2. \A i \in Table' : i # f =>
         \/ shmem_reg_arr'[i] = ZeroReg
         \/ /\ regions_size > 0 /\ i \in 0 .. regions_size - 1
            /\ i \in Table /\ shmem_reg_arr'[i] = shmem_reg_arr[i]
  BY ConnectNewFacts
<1>3. /\ shmem_reg_arr'[f].alias = a /\ shmem_reg_arr'[f].region = "malloc"
      /\ Existing(a) = {} /\ a # NoAlias
  BY ConnectNewFacts
<1>4. ZeroReg.alias = NoAlias
  BY DEF ZeroReg
<1>5. regions_size > 0 => PlacesTyped /\ regions_size \in Nat
  BY <1>1 DEF AnyInv, TableTyped
<1>6. \A i \in Table' : i # f /\ shmem_reg_arr'[i].alias # NoAlias =>
         /\ i \in Table /\ shmem_reg_arr'[i] = shmem_reg_arr[i]
         /\ PlacesTyped /\ shmem_reg_arr[i].alias # a
  <2> SUFFICES ASSUME NEW i \in Table', i # f, shmem_reg_arr'[i].alias # NoAlias
               PROVE  /\ i \in Table /\ shmem_reg_arr'[i] = shmem_reg_arr[i]
                      /\ PlacesTyped /\ shmem_reg_arr[i].alias # a
    OBVIOUS
  <2>1. /\ regions_size > 0 /\ i \in 0 .. regions_size - 1 /\ i \in Table
        /\ shmem_reg_arr'[i] = shmem_reg_arr[i] /\ PlacesTyped
    BY <1>2, <1>4, <1>5
  <2>2. i < regions_size /\ i \in DOMAIN shmem_reg_arr
    BY <1>5, <2>1 DEF PlacesTyped
  <2> QED
    BY <1>3, <2>1, <2>2 DEF Existing
<1>7. PlacesTyped'
  <2>1. \A i \in Table' :
           shmem_reg_arr'[i].alias # NoAlias => shmem_reg_arr'[i].region # "NULL"
    BY <1>3, <1>6 DEF PlacesTyped
  <2>2. \A i, j \in Table' :
           /\ shmem_reg_arr'[i].alias = shmem_reg_arr'[j].alias
           /\ shmem_reg_arr'[i].alias # NoAlias
           => i = j
    BY <1>3, <1>6 DEF PlacesTyped
  <2> QED
    BY <1>1, <2>1, <2>2 DEF PlacesTyped
<1>8. TableTyped'
  <2>1. reg_next_free' \in 0 .. regions_size'
    BY <1>1
  <2> QED
    BY <1>1, <1>7, <2>1 DEF TableTyped
<1>9. ClientTyped(c)'
  <2>1. sh'[c].index = f
    BY ConnectNewFacts
  <2> QED
    BY <1>1, <1>3, <2>1, ConnectNewFacts DEF ClientTyped
<1> QED
  BY <1>1, <1>8, <1>9, TypesKept

\* The table is given back.
LEMMA DestroyAllTyped ==
    ASSUME AnyInv, NEW c \in Client, DestroyAll(c)
    PROVE  AnyInv'
<1>1. /\ phase' = "destroyed" /\ shmem_reg_arr' = <<>>
      /\ UNCHANGED <<regions_size, reg_next_free, sh, pc, n, processorVars>>
  BY DEF DestroyAll
<1>2. TableTyped'
  BY <1>1 DEF AnyInv, TableTyped
<1>3. VariablesTyped' /\ \A d \in Client : ClientTyped(d)'
  BY <1>1 DEF AnyInv, VariablesTyped, ClientTyped, processorVars, DestroyAll
<1> QED
  BY <1>2, <1>3 DEF AnyInv

LEMMA AnyStutter ==
    ASSUME AnyInv, UNCHANGED vars
    PROVE  AnyInv'
  BY DEF AnyInv, VariablesTyped, TableTyped, PlacesTyped, Table, ClientTyped, vars,
         tableVars, processorVars

LEMMA AnyStep ==
    ASSUME AnyInv, [Next]_vars
    PROVE  AnyInv'
<1>1. ASSUME NEW c \in Client, CallStep(c)
      PROVE  AnyInv'
  BY <1>1, MovesTyped, CountsTyped, PointersTyped, WritesTyped, OfferTyped
  DEF CallStep, Moves, Counts
<1>2. ASSUME NEW c \in Client, ClientCall(c)
      PROVE  AnyInv'
  BY <1>2, MovesTyped, CountsTyped, CloseCallTyped, ConnectExistingTyped,
     ConnectNewTyped, DestroyAllTyped
  DEF ClientCall, Moves, Counts
<1>3. ASSUME NEW c \in Client, GiveUp(c)
      PROVE  AnyInv'
  BY <1>3, MovesTyped DEF Moves
<1> QED
  BY <1>1, <1>2, <1>3, AnyStutter DEF Next

LEMMA AnyInit ==
    ASSUME Init
    PROVE  AnyInv
  BY Sizes DEF Init, AnyInv, VariablesTyped, TableTyped, ClientTyped, NoConnection,
               Connection, ProgramCounter

LEMMA AlwaysTyped == Spec => []AnyInv
<1>1. AnyInv /\ [Next]_vars => AnyInv'
  BY AnyStep
<1> QED
  BY <1>1, AnyInit, PTL DEF Spec

\* The unsigned chars writen and pointer keep to the region and the table to its
\* places, in every run of every program, wherever it is preempted and whatever
\* it closes or reads.
THEOREM ShmemTypeCorrect == Spec => []TypeOK
<1>1. AnyInv => TypeOK
  <2> SUFFICES ASSUME AnyInv PROVE TypeOK
    OBVIOUS
  <2>1. regions_size \in 0 .. REGIONS_MAX /\ reg_next_free \in 0 .. regions_size
    BY Sizes DEF AnyInv, TableTyped
  <2>2. CASE regions_size = 0 \/ phase = "destroyed"
    <3>1. DOMAIN shmem_reg_arr = {}
      <4>1. shmem_reg_arr = <<>>
        BY <2>2 DEF AnyInv, TableTyped
      <4> QED
        BY <4>1
    <3>2. /\ \A i \in DOMAIN shmem_reg_arr : IsPlace(shmem_reg_arr[i])
          /\ DOMAIN shmem_reg_arr =
                IF regions_size = 0 \/ phase = "destroyed" THEN {} ELSE 0 .. regions_size
      BY <2>2, <3>1
    <3> QED
      BY <2>1, <3>2 DEF AnyInv, VariablesTyped, Connection, TypeOK
  <2>3. CASE regions_size > 0 /\ phase # "destroyed"
    <3>1. shmem_reg_arr \in [Table -> Place]
      BY <2>3 DEF AnyInv, TableTyped, PlacesTyped
    <3>2. \A i \in DOMAIN shmem_reg_arr : IsPlace(shmem_reg_arr[i])
      BY <3>1 DEF Place, IsPlace
    <3>3. regions_size # 0
      BY <2>1, <2>3, Sizes
    <3> QED
      BY <2>1, <2>3, <3>1, <3>2, <3>3
      DEF AnyInv, VariablesTyped, Connection, TypeOK, Table
  <2> QED
    BY <2>1, <2>2, <2>3, Sizes
<1> QED
  BY <1>1, AlwaysTyped, PTL

\* No name is in two places and the place past the last is never used, in every
\* run of every program.
THEOREM NamesAreDistinct == Spec => []NamesDistinct
<1>1. AnyInv => NamesDistinct
  BY DEF AnyInv, TableTyped, PlacesTyped, NamesDistinct
<1> QED
  BY <1>1, AlwaysTyped, PTL

-----------------------------------------------------------------------------
(* A program that closes a region only when it alone is connected to it,   *)
(* opens none while it is being closed, and uses none that it has closed.  *)

CarefulUse == Liberties \cap {"close_shared", "open_closing", "use_closed"} = {}

\* shmem_close, before and after the place loses its name.
Early == {"drop", "unname"}
Late == {"clear", "zero", "compare", "offer"}

\* The next region goes to a free place.
FreeNext == regions_size > 0 => shmem_reg_arr[reg_next_free].alias = NoAlias

\* An open connection leads to its name; a call that is no close has one.
Served(c) ==
    /\ sh[c].open => place(c).alias = sh[c].alias
    /\ pc[c] \notin Closing \cup {"user"} => sh[c].open

\* A task that closes a place is alone there, and the place is not offered
\* before it is done with it.
ClosesAlone(c) ==
    pc[c] \in Closing =>
        /\ ~sh[c].open
        /\ pc[c] \in Early => place(c).alias # NoAlias
        /\ pc[c] \in Late => place(c).alias = NoAlias /\ sh[c].index # reg_next_free
        /\ \A d \in Client \ {c} :
              sh[d].open \/ pc[d] \in Closing => sh[d].index # sh[c].index

CarefulInv ==
    /\ AnyInv
    /\ phase = "on" => FreeNext /\ \A c \in Client : Served(c) /\ ClosesAlone(c)

LEMMA ClosingParts == Closing = Early \cup Late /\ Early \cap Late = {}
                      /\ "user" \notin Closing
  BY DEF Closing, Early, Late

\* A step that leaves the names and where the connections lead.
NamesLeft ==
    /\ UNCHANGED <<regions_size, reg_next_free>>
    /\ \A i \in Table : shmem_reg_arr'[i].alias = shmem_reg_arr[i].alias

ConnectionsLeft ==
    \A d \in Client : /\ sh'[d].index = sh[d].index /\ sh'[d].alias = sh[d].alias
                      /\ sh'[d].open = sh[d].open

\* And takes c on, but not into a close nor past the loss of the name.
GoesOn(c) ==
    /\ pc'[c] \notin Closing \cup {"user"} => sh[c].open
    /\ pc'[c] \in Early => pc[c] \in Early
    /\ pc'[c] \in Late => pc[c] \in Late

LEMMA CarefulKept ==
    ASSUME CarefulInv, AnyInv', phase = "on", NEW c \in Client,
           NamesLeft, ConnectionsLeft, GoesOn(c),
           \A d \in Client \ {c} : pc'[d] = pc[d]
    PROVE  CarefulInv'
<1>1. /\ FreeNext /\ AnyInv
      /\ \A d \in Client : Served(d) /\ ClosesAlone(d)
  BY DEF CarefulInv
<1>2. /\ UNCHANGED <<regions_size, reg_next_free>>
      /\ \A i \in Table : shmem_reg_arr'[i].alias = shmem_reg_arr[i].alias
      /\ reg_next_free \in Table
  BY <1>1 DEF NamesLeft, AnyInv, TableTyped, Table
<1>3. FreeNext'
  BY <1>1, <1>2 DEF FreeNext
<1>4. ASSUME NEW d \in Client PROVE
         /\ sh'[d].index = sh[d].index /\ sh'[d].alias = sh[d].alias
         /\ sh'[d].open = sh[d].open
         /\ sh[d].open \/ pc[d] # "user" => place(d)'.alias = place(d).alias
  <2>1. /\ sh'[d].index = sh[d].index /\ sh'[d].alias = sh[d].alias
        /\ sh'[d].open = sh[d].open
    BY DEF ConnectionsLeft
  <2>2. ASSUME sh[d].open \/ pc[d] # "user"
        PROVE  place(d)'.alias = place(d).alias
    <3>1. sh[d].index \in Table
      BY <1>1, <2>2, LeadsTo DEF AnyInv, ClientTyped
    <3> QED
      BY <1>2, <2>1, <3>1 DEF place
  <2> QED
    BY <2>1, <2>2
<1>5. \A d \in Client : /\ pc'[d] \in Early => pc[d] \in Early
                        /\ pc'[d] \in Late => pc[d] \in Late
                        /\ pc'[d] \in Closing => pc[d] \in Closing
                        /\ pc'[d] \notin Closing \cup {"user"} => sh[d].open
  BY <1>1, ClosingParts DEF GoesOn, Served
<1>6. ASSUME NEW d \in Client PROVE Served(d)'
  BY <1>1, <1>4, <1>5 DEF Served
<1>7. ASSUME NEW d \in Client PROVE ClosesAlone(d)'
  <2> SUFFICES ASSUME pc'[d] \in Closing
               PROVE  /\ ~sh'[d].open
                      /\ pc'[d] \in Early => place(d)'.alias # NoAlias
                      /\ pc'[d] \in Late => /\ place(d)'.alias = NoAlias
                                            /\ sh'[d].index # reg_next_free'
                      /\ \A e \in Client \ {d} :
                            sh'[e].open \/ pc'[e] \in Closing
                               => sh'[e].index # sh'[d].index
    BY DEF ClosesAlone
  <2>1. pc[d] \in Closing /\ pc[d] # "user" /\ ClosesAlone(d)
    BY <1>1, <1>5, ClosingParts
  <2>2. place(d)'.alias = place(d).alias
    BY <1>4, <2>1
  <2> QED
    BY <1>2, <1>4, <1>5, <2>1, <2>2 DEF ClosesAlone
<1> QED
  BY <1>3, <1>6, <1>7 DEF CarefulInv

\* A careful program uses only what it has open.
LEMMA CarefulHas ==
    ASSUME CarefulUse, NEW c \in Client, Has(c)
    PROVE  sh[c].open
  BY DEF CarefulUse, Has

\* All steps but those that give and take names and connections.
Ordinary(c) ==
    \/ Moves(c) \/ Counts(c) \/ Seek(c) \/ ReadByte(c) \/ WriteByte(c) \/ WriteMarks(c)
    \/ Drop(c) \/ ClearWriten(c) \/ ClearConnections(c)

\* A statement that makes c's place r leaves the others.
LEMMA OthersLeft ==
    ASSUME AnyInv, NEW c \in Client, NEW r \in Place, Becomes(c, r)
    PROVE  /\ place(c) \in Place /\ shmem_reg_arr'[sh[c].index] = r
           /\ PlacesTyped /\ sh[c].index \in Table
           /\ \A i \in Table : i # sh[c].index => shmem_reg_arr'[i] = shmem_reg_arr[i]
<1>1. /\ sh[c].index \in Table /\ PlacesTyped /\ place(c) \in Place
  BY LeadsTo DEF Becomes
<1> QED
  BY <1>1 DEF Becomes, PlacesTyped

LEMMA OrdinaryFacts ==
    ASSUME CarefulUse, CarefulInv, NEW c \in Client, Ordinary(c)
    PROVE  /\ phase = "on" /\ NamesLeft /\ ConnectionsLeft /\ GoesOn(c)
           /\ AnyInv' /\ OthersKept(c)
<1>1. AnyInv /\ (phase = "on" => Served(c))
  BY DEF CarefulInv
<1>2. CASE Moves(c)
  <2>1. /\ phase = "on" /\ UNCHANGED <<tableVars, sh>> /\ OthersKept(c)
    BY <1>1, <1>2, MovesFacts
  <2>2. GoesOn(c)
    <3>1. CASE GiveUp(c)
      BY <1>1, <2>1, <3>1 DEF GiveUp, GoesOn, Served
    <3>2. CASE SeekCall(c)
      <4>1. sh[c].open /\ pc'[c] = "seek"
        BY <1>1, <3>2, CarefulHas DEF SeekCall, Uses, Goes, AnyInv, VariablesTyped
      <4> QED
        BY <4>1 DEF GoesOn, Early, Late
    <3>3. CASE Compare(c)
      <4>1. pc[c] = "compare" /\ pc'[c] \in {"offer", "user"}
        BY <1>1, <3>3 DEF Compare, Runs, Goes, AnyInv, VariablesTyped
      <4> QED
        BY <4>1 DEF GoesOn, Early, Late, Closing
    <3>4. ASSUME \/ WriteEnds(c) \/ PollChecks(c) \/ PollYields(c) \/ PollAnswers(c)
                 \/ ReadChecks(c) \/ ReadTests(c) \/ ReadCompares(c) \/ ReadEnds(c)
          PROVE  GoesOn(c)
      <4>1. pc[c] \notin Closing \cup {"user"} /\ pc'[c] \notin Closing
        BY <1>1, <3>4
        DEF WriteEnds, PollChecks, PollYields, PollAnswers, ReadChecks, ReadTests,
            ReadCompares, ReadEnds, Checks, Runs, Goes, Closing, AnyInv, VariablesTyped
      <4> QED
        BY <1>1, <2>1, <4>1, ClosingParts DEF GoesOn, Served
    <3> QED
      BY <1>2, <3>1, <3>2, <3>3, <3>4 DEF Moves
  <2> QED
    BY <1>1, <1>2, <2>1, <2>2, MovesTyped DEF NamesLeft, ConnectionsLeft, tableVars
<1>3. CASE Counts(c)
  <2>1. /\ phase = "on" /\ UNCHANGED <<tableVars, sh>> /\ OthersKept(c)
    BY <1>1, <1>3, CountsFacts
  <2>2. sh[c].open
    <3>1. CASE ReadCounts(c)
      BY <1>1, <2>1, <3>1 DEF ReadCounts, Runs, Served, Closing
    <3>2. CASE \E k \in Count : WriteCall(c, k) \/ ReadCall(c, k) \/ BlockReadCall(c, k)
      BY <3>2, CarefulHas DEF WriteCall, ReadCall, BlockReadCall, Uses
    <3> QED
      BY <1>3, <3>1, <3>2 DEF Counts
  <2>3. pc'[c] \in {"write", "read", "poll", "bytes"}
    BY <1>1, <1>3
    DEF Counts, WriteCall, ReadCall, BlockReadCall, ReadCounts, Goes, AnyInv, VariablesTyped
  <2> QED
    BY <1>1, <1>3, <2>1, <2>2, <2>3, CountsTyped
    DEF NamesLeft, ConnectionsLeft, GoesOn, Early, Late, tableVars
<1>4. CASE Seek(c) \/ ReadByte(c)
  <2>1. /\ phase = "on" /\ UNCHANGED tableVars /\ OthersKept(c)
        /\ sh'[c].index = sh[c].index /\ sh'[c].alias = sh[c].alias
        /\ sh'[c].open = sh[c].open /\ pc[c] \in {"seek", "bytes"}
        /\ pc'[c] \in {"user", "bytes"}
    BY <1>1, <1>4, SeekFacts, ReadByteFacts
  <2> QED
    BY <1>1, <1>4, <2>1, PointersTyped
    DEF NamesLeft, ConnectionsLeft, GoesOn, Early, Late, Closing, Served, OthersKept,
        tableVars
<1>5. CASE WriteByte(c) \/ WriteMarks(c) \/ Drop(c) \/ ClearWriten(c)
           \/ ClearConnections(c)
  <2>1. /\ OthersKept(c) /\ AnyInv'
        /\ sh'[c].index = sh[c].index /\ sh'[c].alias = sh[c].alias
        /\ sh'[c].open = sh[c].open
    BY <1>1, <1>5, CloseWrites, WriteByteFacts, WriteMarksFacts, WritesTyped
  <2>2. PICK r \in Place : Becomes(c, r) /\ r.alias = place(c).alias
    BY <1>1, <1>5, CloseWrites, WriteByteFacts, WriteMarksFacts
  <2>3. phase = "on" /\ NamesLeft
    BY <1>1, <2>2, OthersLeft DEF NamesLeft, Becomes, place
  <2>4. GoesOn(c)
    <3>1. CASE WriteByte(c) \/ WriteMarks(c)
      <4>1. pc[c] \in {"write", "mark"} /\ pc'[c] \in {"write", "user"}
        BY <1>1, <3>1, WriteByteFacts, WriteMarksFacts
      <4> QED
        BY <1>1, <2>3, <4>1 DEF GoesOn, Early, Late, Closing, Served
    <3>2. CASE Drop(c) \/ ClearWriten(c) \/ ClearConnections(c)
      <4>1. \/ pc[c] = "drop" /\ pc'[c] \in {"unname", "user"}
            \/ pc[c] = "clear" /\ pc'[c] = "zero"
            \/ pc[c] = "zero" /\ pc'[c] = "compare"
        BY <1>1, <3>2, CloseWrites
      <4> QED
        BY <4>1 DEF GoesOn, Early, Late, Closing
    <3> QED
      BY <1>5, <3>1, <3>2
  <2> QED
    BY <2>1, <2>3, <2>4 DEF ConnectionsLeft, OthersKept
<1> QED
  BY <1>2, <1>3, <1>4, <1>5 DEF Ordinary

LEMMA OrdinaryCareful ==
    ASSUME CarefulUse, CarefulInv, NEW c \in Client, Ordinary(c)
    PROVE  CarefulInv'
  BY OrdinaryFacts, CarefulKept DEF OthersKept

LEMMA UnnameCareful ==
    ASSUME CarefulInv, NEW c \in Client, Unname(c)
    PROVE  CarefulInv'
<1> DEFINE i == sh[c].index
<1>1. /\ AnyInv /\ AnyInv' /\ UNCHANGED sh /\ OthersKept(c)
      /\ pc[c] = "unname" /\ pc'[c] = "clear"
  BY CloseWrites, WritesTyped DEF CarefulInv
<1>2. PICK r \in Place : Becomes(c, r) /\ r.alias = NoAlias
  BY <1>1, CloseWrites
<1>3. /\ phase = "on" /\ UNCHANGED <<regions_size, reg_next_free>>
      /\ i \in Table /\ PlacesTyped /\ shmem_reg_arr'[i].alias = NoAlias
      /\ place(c) = shmem_reg_arr[i] /\ regions_size > 0
      /\ \A j \in Table : j # i => shmem_reg_arr'[j] = shmem_reg_arr[j]
  BY <1>1, <1>2, OthersLeft, LeadsTo DEF Becomes, place
<1>4. /\ FreeNext /\ \A d \in Client : Served(d) /\ ClosesAlone(d)
  BY <1>3 DEF CarefulInv
<1>5. /\ place(c).alias # NoAlias /\ ~sh[c].open
      /\ \A d \in Client \ {c} :
            sh[d].open \/ pc[d] \in Closing => sh[d].index # i
  BY <1>1, <1>4 DEF ClosesAlone, Closing, Early
<1>6. reg_next_free # i /\ reg_next_free \in Table
  BY <1>1, <1>3, <1>4, <1>5 DEF FreeNext, AnyInv, TableTyped, Table
<1>7. FreeNext'
  BY <1>3, <1>4, <1>6 DEF FreeNext
<1>8. Served(c)' /\ ClosesAlone(c)'
  BY <1>1, <1>3, <1>5, <1>6 DEF Served, ClosesAlone, Closing, Early, place, OthersKept
<1>9. ASSUME NEW d \in Client \ {c} PROVE Served(d)' /\ ClosesAlone(d)'
  <2>1. sh'[d] = sh[d] /\ pc'[d] = pc[d]
    BY <1>1 DEF OthersKept
  <2>2. sh[d].open \/ pc[d] # "user" => place(d)' = place(d) \/ ~(sh[d].open \/ pc[d] \in Closing)
    <3> SUFFICES ASSUME sh[d].open \/ pc[d] \in Closing PROVE place(d)' = place(d)
      OBVIOUS
    <3>1. sh[d].index \in Table /\ sh[d].index # i
      BY <1>1, <1>3, <1>5, LeadsTo DEF AnyInv, ClientTyped, Closing
    <3> QED
      BY <1>3, <2>1, <3>1 DEF place
  <2>3. Served(d)'
    BY <1>4, <2>1, <2>2, ClosingParts DEF Served
  <2>4. \A e \in Client \ {d} :
           sh'[e].open \/ pc'[e] \in Closing => sh[e].open \/ pc[e] \in Closing
    BY <1>1 DEF OthersKept, Closing
  <2>5. ClosesAlone(d)'
    BY <1>1, <1>3, <1>4, <2>1, <2>2, <2>4, ClosingParts DEF ClosesAlone
  <2> QED
    BY <2>3, <2>5
<1> QED
  BY <1>1, <1>7, <1>8, <1>9 DEF CarefulInv

LEMMA OfferCareful ==
    ASSUME CarefulInv, NEW c \in Client, Offer(c)
    PROVE  CarefulInv'
<1>1. /\ phase = "on" /\ phase' = "on" /\ pc[c] = "offer"
      /\ UNCHANGED <<regions_size, shmem_reg_arr, sh>>
      /\ reg_next_free' = sh[c].index /\ AnyInv /\ AnyInv'
      /\ pc'[c] = "user" /\ \A d \in Client \ {c} : pc'[d] = pc[d]
  BY OfferTyped DEF Offer, Runs, Goes, CarefulInv, AnyInv, VariablesTyped
<1>2. FreeNext /\ \A d \in Client : Served(d) /\ ClosesAlone(d)
  BY <1>1 DEF CarefulInv
<1>3. /\ place(c).alias = NoAlias /\ ~sh[c].open
      /\ \A d \in Client \ {c} :
            sh[d].open \/ pc[d] \in Closing => sh[d].index # sh[c].index
  BY <1>1, <1>2 DEF ClosesAlone, Closing, Late
<1>4. FreeNext'
  BY <1>1, <1>3 DEF FreeNext, place
<1>5. \A d \in Client : Served(d)'
  BY <1>1, <1>2 DEF Served, place
<1>6. ASSUME NEW d \in Client PROVE ClosesAlone(d)'
  <2>1. pc'[d] \in Closing => d # c /\ pc'[d] = pc[d]
    BY <1>1, ClosingParts
  <2>2. \A e \in Client : pc'[e] \in Closing => pc[e] \in Closing
    BY <1>1, ClosingParts
  <2> QED
    BY <1>1, <1>2, <1>3, <2>1, <2>2 DEF ClosesAlone, place
<1> QED
  BY <1>1, <1>4, <1>5, <1>6 DEF CarefulInv

LEMMA CloseCallCareful ==
    ASSUME CarefulUse, CarefulInv, NEW c \in Client, CloseCall(c)
    PROVE  CarefulInv'
<1>1. /\ phase = "on" /\ pc[c] = "user" /\ AnyInv /\ AnyInv'
      /\ UNCHANGED tableVars /\ ~sh'[c].open
      /\ sh'[c].index = sh[c].index /\ sh'[c].alias = sh[c].alias
      /\ \A d \in Client \ {c} : sh'[d] = sh[d] /\ pc'[d] = pc[d]
      /\ phase' = "on" => pc'[c] = "drop" /\ place(c).alias # NoAlias
  BY CloseCallFacts, CloseCallTyped DEF CarefulInv, OthersKept
<1>2. FreeNext /\ \A d \in Client : Served(d) /\ ClosesAlone(d)
  BY <1>1 DEF CarefulInv
<1>3. sh[c].open
  BY CarefulHas DEF CloseCall
<1>4. \A d \in Client \ {c} : sh[d].open => sh[d].index # sh[c].index
  BY DEF CloseCall, CarefulUse, Sharing
<1>5. \A d \in Client \ {c} : pc[d] \in Closing => sh[d].index # sh[c].index
  BY <1>2, <1>3 DEF ClosesAlone
<1> SUFFICES ASSUME phase' = "on"
             PROVE  FreeNext' /\ \A d \in Client : Served(d)' /\ ClosesAlone(d)'
  BY <1>1 DEF CarefulInv
<1>6. FreeNext'
  BY <1>1, <1>2 DEF FreeNext, tableVars
<1>7. ASSUME NEW d \in Client PROVE Served(d)' /\ ClosesAlone(d)'
  <2>1. place(d)' = place(d)
    BY <1>1 DEF place, tableVars
  <2>2. CASE d = c
    BY <1>1, <1>4, <1>5, <2>1, <2>2 DEF Served, ClosesAlone, Closing, Early, Late
  <2>3. CASE d # c
    <3>1. /\ sh'[d] = sh[d] /\ pc'[d] = pc[d] /\ Served(d) /\ ClosesAlone(d)
      BY <1>1, <1>2, <2>3
    <3>2. \A e \in Client \ {d} :
             sh'[e].open \/ pc'[e] \in Closing =>
                /\ sh[e].open \/ pc[e] \in Closing
                /\ sh'[e].index = sh[e].index
      BY <1>1, <1>3
    <3> QED
      BY <1>1, <2>1, <3>1, <3>2 DEF Served, ClosesAlone, tableVars
  <2> QED
    BY <2>2, <2>3
<1> QED
  BY <1>6, <1>7

LEMMA ConnectExistingCareful ==
    ASSUME CarefulUse, CarefulInv, NEW c \in Client, NEW a \in Alias,
           ConnectExisting(c, a)
    PROVE  CarefulInv'
<1> DEFINE i == sh'[c].index
<1>1. /\ phase = "on" /\ phase' = "on" /\ pc[c] = "user"
      /\ UNCHANGED <<tableVars, pc>>
      /\ i \in Table /\ shmem_reg_arr[i].alias = a /\ a # NoAlias
      /\ BeingClosed(i) => "open_closing" \in Liberties
      /\ sh'[c].alias = a /\ sh'[c].open
      /\ \A d \in Client \ {c} : sh'[d] = sh[d]
      /\ AnyInv /\ AnyInv'
  BY ConnectExistingFacts, ConnectExistingTyped DEF CarefulInv, OthersKept
<1>2. FreeNext /\ \A d \in Client : Served(d) /\ ClosesAlone(d)
  BY <1>1 DEF CarefulInv
<1>3. ~BeingClosed(i)
  BY <1>1 DEF CarefulUse
<1>4. \A d \in Client : pc[d] \in Closing => sh[d].index # i
  <2> SUFFICES ASSUME NEW d \in Client, pc[d] \in Closing, sh[d].index = i
               PROVE  FALSE
    OBVIOUS
  <2>1. pc[d] \in Late
    BY <1>3, ClosingParts DEF BeingClosed, Early
  <2>2. place(d).alias = NoAlias
    BY <1>2, <2>1 DEF ClosesAlone
  <2> QED
    BY <1>1, <2>2 DEF place
<1>5. FreeNext'
  BY <1>1, <1>2 DEF FreeNext, tableVars
<1>6. Served(c)' /\ ClosesAlone(c)'
  BY <1>1, ClosingParts DEF Served, ClosesAlone, place, tableVars
<1>7. ASSUME NEW d \in Client \ {c} PROVE Served(d)' /\ ClosesAlone(d)'
  <2>1. /\ sh'[d] = sh[d] /\ pc'[d] = pc[d] /\ place(d)' = place(d)
    BY <1>1 DEF place, tableVars
  <2>2. Served(d)'
    BY <1>2, <2>1 DEF Served
  <2>3. ClosesAlone(d)'
    BY <1>1, <1>2, <1>4, <2>1 DEF ClosesAlone, tableVars
  <2> QED
    BY <2>2, <2>3
<1> QED
  BY <1>1, <1>5, <1>6, <1>7 DEF CarefulInv

LEMMA ConnectNewCareful ==
    ASSUME CarefulInv, NEW c \in Client, NEW a \in Alias, ConnectNew(c, a)
    PROVE  CarefulInv'
<1> DEFINE f == reg_next_free
<1>1. /\ phase = "on" /\ phase' = "on" /\ pc[c] = "user" /\ pc' = pc
      /\ reg_next_free' = regions_size' /\ regions_size' > 0
      /\ regions_size' >= regions_size /\ f < regions_size'
      /\ regions_size' \in Nat /\ regions_size \in Nat /\ f \in Int
      /\ sh'[c].index = f /\ sh'[c].alias = a /\ sh'[c].open
      /\ shmem_reg_arr'[f].alias = a /\ a # NoAlias
      /\ shmem_reg_arr'[regions_size'] = ZeroReg
      /\ \A d \in Client \ {c} : sh'[d] = sh[d]
      /\ AnyInv /\ AnyInv'
  BY ConnectNewFacts, ConnectNewTyped DEF CarefulInv, OthersKept, AnyInv, TableTyped
<1>2. \A j \in 0 .. regions_size - 1 : j # f => shmem_reg_arr'[j] = shmem_reg_arr[j]
  BY <1>1, ConnectNewFacts
<1>3. FreeNext /\ \A d \in Client : Served(d) /\ ClosesAlone(d)
  BY <1>1 DEF CarefulInv
<1>4. FreeNext'
  BY <1>1 DEF FreeNext, ZeroReg
<1>5. \A d \in Client :
         sh[d].open \/ pc[d] \in Closing =>
            /\ sh[d].index # f /\ sh[d].index < regions_size
            /\ place(d) = shmem_reg_arr'[sh[d].index]
  <2> SUFFICES ASSUME NEW d \in Client, sh[d].open \/ pc[d] \in Closing
               PROVE  /\ sh[d].index # f /\ sh[d].index < regions_size
                      /\ place(d) = shmem_reg_arr'[sh[d].index]
    OBVIOUS
  <2>1. sh[d].alias # NoAlias
    BY <1>1 DEF AnyInv, ClientTyped, Closing
  <2>2. /\ sh[d].index \in 0 .. regions_size - 1 /\ regions_size > 0
        /\ place(d) = shmem_reg_arr[sh[d].index] /\ sh[d].index \in Int
    BY <1>1, <2>1, LeadsTo, TaskTypes
  <2>3. sh[d].index # f
    <3>1. CASE sh[d].open \/ pc[d] \in Early
      BY <1>3, <2>1, <2>2, <3>1, ClosingParts DEF FreeNext, Served, ClosesAlone
    <3>2. CASE pc[d] \in Late
      BY <1>3, <3>2, ClosingParts DEF ClosesAlone
    <3> QED
      BY <3>1, <3>2, ClosingParts
  <2> QED
    BY <1>1, <1>2, <2>2, <2>3
<1>6. Served(c)' /\ ClosesAlone(c)'
  BY <1>1, ClosingParts DEF Served, ClosesAlone, place
<1>7. ASSUME NEW d \in Client \ {c} PROVE Served(d)' /\ ClosesAlone(d)'
  <2>1. /\ sh'[d] = sh[d] /\ pc'[d] = pc[d]
        /\ sh[d].open \/ pc[d] \in Closing =>
              /\ place(d)' = place(d) /\ sh[d].index # f
              /\ sh[d].index # regions_size'
    <3>1. sh'[d] = sh[d] /\ pc'[d] = pc[d] /\ sh[d].index \in Int
      BY <1>1, TaskTypes
    <3> QED
      BY <1>1, <1>5, <3>1 DEF place
  <2>2. Served(d)'
    BY <1>3, <2>1 DEF Served
  <2>3. ClosesAlone(d)'
    BY <1>1, <1>3, <2>1 DEF ClosesAlone
  <2> QED
    BY <2>2, <2>3
<1> QED
  BY <1>1, <1>4, <1>6, <1>7 DEF CarefulInv

LEMMA CarefulStep ==
    ASSUME CarefulUse, CarefulInv, [Next]_vars
    PROVE  CarefulInv'
<1>1. ASSUME NEW c \in Client, DestroyAll(c)
      PROVE  CarefulInv'
  BY <1>1, DestroyAllTyped DEF DestroyAll, CarefulInv
<1>2. ASSUME UNCHANGED vars
      PROVE  CarefulInv'
  BY <1>2, AnyStutter
  DEF CarefulInv, FreeNext, Served, ClosesAlone, place, vars, tableVars
<1>3. ASSUME NEW c \in Client, CallStep(c)
      PROVE  CarefulInv'
  BY <1>3, OrdinaryCareful, UnnameCareful, OfferCareful
  DEF CallStep, Ordinary, Moves, Counts
<1>4. ASSUME NEW c \in Client, ClientCall(c)
      PROVE  CarefulInv'
  BY <1>1, <1>4, OrdinaryCareful, CloseCallCareful, ConnectExistingCareful,
     ConnectNewCareful
  DEF ClientCall, Ordinary, Moves, Counts
<1>5. ASSUME NEW c \in Client, GiveUp(c)
      PROVE  CarefulInv'
  BY <1>5, OrdinaryCareful DEF Ordinary, Moves
<1> QED
  BY <1>2, <1>3, <1>4, <1>5 DEF Next

LEMMA CarefulInit ==
    ASSUME Init
    PROVE  CarefulInv
  BY AnyInit, ClosingParts
  DEF Init, CarefulInv, FreeNext, Served, ClosesAlone, NoConnection

LEMMA AlwaysCareful == CarefulUse => (Spec => []CarefulInv)
<1> SUFFICES ASSUME CarefulUse PROVE Spec => []CarefulInv
  OBVIOUS
<1>1. CarefulInv /\ [Next]_vars => CarefulInv'
  BY CarefulStep
<1> QED
  BY <1>1, CarefulInit, PTL DEF Spec

\* The next region that is opened does not go where one is, wherever the tasks
\* of a careful program are preempted.
THEOREM TableIsSound == CarefulUse => (Spec => []TableSound)
<1>1. CarefulInv => TableSound
  BY DEF CarefulInv, FreeNext, TableSound
<1> QED
  BY <1>1, AlwaysCareful, PTL

\* An open connection leads to the region of its name, wherever the tasks of a
\* careful program are preempted.
THEOREM ConnectionIsServed == CarefulUse => (Spec => []ConnectionServed)
<1>1. CarefulInv => ConnectionServed
  <2> SUFFICES ASSUME CarefulInv, phase = "on", NEW c \in Client, sh[c].open
               PROVE  shmem_check(c) /\ place(c).alias = sh[c].alias
    BY DEF ConnectionServed
  <2>1. /\ AnyInv /\ Served(c) /\ sh[c].alias # NoAlias
        /\ sh[c].index < regions_size
    BY DEF CarefulInv, AnyInv, ClientTyped
  <2>2. /\ place(c).alias = sh[c].alias /\ PlacesTyped
        /\ sh[c].index \in Table /\ place(c) = shmem_reg_arr[sh[c].index]
    BY <2>1, LeadsTo DEF Served
  <2> QED
    BY <2>1, <2>2 DEF shmem_check, PlacesTyped
<1> QED
  BY <1>1, AlwaysCareful, PTL

-----------------------------------------------------------------------------
(* Moreover the quantum does not run out before line 136.                  *)

MarkAtomic == "mark" \notin PreemptPoints

\* What the test of line 135 and those of a read have found still holds.
Bounded(c) ==
    /\ pc[c] = "mark" => current = c /\ sh[c].pointer > place(c).writen
    /\ pc[c] \in {"min", "count"} => sh[c].pointer =< place(c).writen
    /\ pc[c] = "bytes" => sh[c].pointer + n[c] =< place(c).writen + 1

BoundsInv ==
    /\ CarefulInv
    /\ phase # "undefined"
    /\ phase = "on" => \A c \in Client : Bounded(c)

\* The connection of an open task.
LEMMA OpenLeads ==
    ASSUME CarefulInv, phase = "on", NEW c \in Client, sh[c].open
    PROVE  /\ sh[c].alias # NoAlias /\ place(c).alias # NoAlias
           /\ sh[c].index \in Table /\ sh[c].index \in 0 .. regions_size - 1
           /\ PlacesTyped
           /\ place(c) = shmem_reg_arr[sh[c].index] /\ place(c) \in Place
           /\ place(c).writen \in Offset /\ place(c).writen \in Int
           /\ place(c).writen >= 0 /\ place(c).writen < SHMEM_REGION_SIZE
           /\ sh[c].pointer \in 0 .. SHMEM_REGION_SIZE /\ sh[c].pointer \in Int
           /\ n[c] \in 0 .. 255 /\ n[c] \in Int
<1>1. AnyInv /\ Served(c) /\ sh[c].alias # NoAlias
  BY DEF CarefulInv, AnyInv, ClientTyped
<1> QED
  BY <1>1, LeadsTo, TaskTypes DEF Served

\* A task's region, while it is connected and another task takes a step: nothing
\* that is written is lost.
GrowsFor(d) ==
    place(d)'.writen >= place(d).writen /\ place(d).bytes \subseteq place(d)'.bytes

LEMMA RegionGrows ==
    ASSUME CarefulUse, BoundsInv, NEW c \in Client, NEW d \in Client \ {c},
           CallStep(c) \/ ClientCall(c) \/ GiveUp(c), phase' # "destroyed",
           sh[d].open, phase = "on"
    PROVE  GrowsFor(d)
<1>1. /\ AnyInv /\ CarefulInv /\ Bounded(c) /\ FreeNext
      /\ \A e \in Client : Served(e) /\ ClosesAlone(e)
  BY DEF BoundsInv, CarefulInv
<1>2. /\ sh[d].index \in Table /\ place(d) = shmem_reg_arr[sh[d].index]
      /\ place(d).writen \in Int /\ place(d).alias # NoAlias
      /\ sh[d].index \in 0 .. regions_size - 1
  BY <1>1, OpenLeads
<1>3. ASSUME sh'[d] = sh[d], UNCHANGED shmem_reg_arr
      PROVE  GrowsFor(d)
  BY <1>2, <1>3 DEF GrowsFor, place
<1>4. ASSUME OthersKept(c), NEW r \in Place, Becomes(c, r),
             sh[d].index = sh[c].index =>
                r.writen >= place(c).writen /\ place(c).bytes \subseteq r.bytes
      PROVE  GrowsFor(d)
  <2>1. sh'[d] = sh[d]
    BY <1>4 DEF OthersKept
  <2>2. CASE sh[d].index = sh[c].index
    <3>1. place(d)' = r /\ place(d) = place(c)
      BY <1>1, <1>4, <2>1, <2>2, OthersLeft DEF place
    <3> QED
      BY <1>4, <2>2, <3>1 DEF GrowsFor
  <2>3. CASE sh[d].index # sh[c].index
    <3>1. place(d)' = place(d)
      BY <1>1, <1>2, <1>4, <2>1, <2>3, OthersLeft DEF place
    <3> QED
      BY <1>2, <3>1 DEF GrowsFor
  <2> QED
    BY <2>2, <2>3
<1>5. CASE Moves(c) \/ Counts(c) \/ Seek(c) \/ ReadByte(c) \/ CloseCall(c)
           \/ \E a \in Alias : ConnectExisting(c, a)
  <2>1. OthersKept(c) /\ UNCHANGED tableVars
    BY <1>1, <1>5, MovesFacts, CountsFacts, SeekFacts, ReadByteFacts, CloseCallFacts,
       ConnectExistingFacts
  <2> QED
    BY <1>3, <2>1 DEF OthersKept, tableVars
<1>6. CASE Offer(c)
  BY <1>3, <1>6 DEF Offer
<1>7. CASE WriteByte(c)
  <2>1. /\ OthersKept(c)
        /\ \E r \in Place : /\ Becomes(c, r) /\ r.writen = place(c).writen
                            /\ r.bytes = place(c).bytes \cup {sh[c].pointer}
    BY <1>1, <1>7, WriteByteFacts
  <2>2. place(c).writen \in Int
    BY <1>1, <2>1, LeadsTo DEF Becomes
  <2> QED
    BY <1>4, <2>1, <2>2
<1>8. CASE WriteMarks(c)
  <2>1. /\ OthersKept(c) /\ pc[c] = "mark"
        /\ \E r \in Place : /\ Becomes(c, r) /\ r.writen = sh[c].pointer - 1
                            /\ r.bytes = place(c).bytes
    BY <1>1, <1>8, WriteMarksFacts
  <2>2. place(c).writen \in Int /\ sh[c].pointer \in Int
    BY <1>1, <2>1, LeadsTo, TaskTypes DEF Becomes
  <2>3. sh[c].pointer - 1 >= place(c).writen
    BY <1>1, <2>1, <2>2 DEF Bounded
  <2> QED
    BY <1>4, <2>1, <2>3
<1>9. CASE Drop(c) \/ Unname(c) \/ ClearConnections(c)
  <2>1. /\ OthersKept(c)
        /\ \E r \in Place : /\ Becomes(c, r) /\ r.writen = place(c).writen
                            /\ r.bytes = place(c).bytes
    BY <1>1, <1>9, CloseWrites
  <2>2. place(c).writen \in Int
    BY <1>1, <2>1, LeadsTo DEF Becomes
  <2> QED
    BY <1>4, <2>1, <2>2
<1>10. CASE ClearWriten(c)
  <2>1. /\ OthersKept(c) /\ pc[c] \in Closing
        /\ \E r \in Place : Becomes(c, r)
    BY <1>1, <1>10, CloseWrites
  <2>2. sh[d].index # sh[c].index
    BY <1>1, <2>1 DEF ClosesAlone
  <2> QED
    BY <1>4, <2>1, <2>2
<1>11. ASSUME NEW a \in Alias, ConnectNew(c, a)
       PROVE  GrowsFor(d)
  <2>1. /\ sh'[d] = sh[d]
        /\ \A i \in 0 .. regions_size - 1 :
              i # reg_next_free => shmem_reg_arr'[i] = shmem_reg_arr[i]
    BY <1>1, <1>11, ConnectNewFacts DEF OthersKept
  <2>2. sh[d].index # reg_next_free
    BY <1>1, <1>2, LeadsTo DEF FreeNext, AnyInv, ClientTyped
  <2>3. place(d)' = place(d)
    BY <1>2, <2>1, <2>2 DEF place
  <2> QED
    BY <1>2, <2>3 DEF GrowsFor
<1>12. CASE DestroyAll(c)
  BY <1>12 DEF DestroyAll
<1> QED
  BY <1>5, <1>6, <1>7, <1>8, <1>9, <1>10, <1>11, <1>12
  DEF CallStep, ClientCall, Moves, Counts

\* What the task that takes the step relies on.
LEMMA BoundedOwn ==
    ASSUME CarefulUse, BoundsInv, MarkAtomic, phase = "on", NEW c \in Client,
           CallStep(c) \/ ClientCall(c) \/ GiveUp(c)
    PROVE  phase' # "undefined" /\ (phase' = "on" => Bounded(c)')
<1> DEFINE x == sh[c].pointer
           w == place(c).writen
           m == n[c]
<1>1. AnyInv /\ CarefulInv /\ Bounded(c) /\ Served(c)
  BY DEF BoundsInv, CarefulInv
<1>2. sh[c].open => /\ x \in 0 .. SHMEM_REGION_SIZE /\ w \in Int /\ w >= 0
                    /\ w < SHMEM_REGION_SIZE /\ m \in 0 .. 255
  BY <1>1, OpenLeads
<1>3. ASSUME Moves(c) PROVE phase' # "undefined" /\ Bounded(c)'
  <2>1. /\ phase' = "on" /\ UNCHANGED <<tableVars, sh, n>> /\ current = c
        /\ place(c)' = place(c)
    BY <1>1, <1>3, MovesFacts DEF place, tableVars
  <2>2. CASE GiveUp(c)
    <3>1. pc' = pc /\ pc[c] # "mark"
      BY <2>2 DEF GiveUp, MarkAtomic, Runs
    <3> QED
      BY <1>1, <2>1, <3>1 DEF Bounded
  <2>3. CASE WriteEnds(c)
    <3>1. /\ pc'[c] = IF x > w THEN "mark" ELSE "user"
          /\ current' = c
      BY <1>1, <2>1, <2>3 DEF WriteEnds, Goes, AnyInv, VariablesTyped, processorVars
    <3> QED
      BY <2>1, <3>1 DEF Bounded
  <2>4. CASE ReadTests(c)
    <3>1. /\ pc[c] = "read" /\ pc'[c] = IF w - x + 1 < 1 THEN "user" ELSE "min"
      BY <1>1, <2>4 DEF ReadTests, Goes, Runs, Left, AnyInv, VariablesTyped
    <3>2. ~(w - x + 1 < 1) => x =< w
      BY <1>1, <1>2, <3>1 DEF Served, Closing
    <3> QED
      BY <2>1, <3>1, <3>2 DEF Bounded
  <2>5. CASE ReadCompares(c)
    <3>1. /\ pc[c] = "min" /\ pc'[c] = IF w - x + 1 < m THEN "count" ELSE "bytes"
      BY <1>1, <2>5 DEF ReadCompares, Goes, Runs, Left, AnyInv, VariablesTyped
    <3>2. x =< w /\ (~(w - x + 1 < m) => x + m =< w + 1)
      BY <1>1, <1>2, <3>1 DEF Served, Closing, Bounded
    <3> QED
      BY <2>1, <3>1, <3>2 DEF Bounded
  <2>6. ASSUME \/ PollChecks(c) \/ PollYields(c) \/ PollAnswers(c) \/ ReadChecks(c)
               \/ ReadEnds(c) \/ SeekCall(c) \/ Compare(c)
        PROVE  Bounded(c)'
    <3>1. pc'[c] \notin {"mark", "min", "count", "bytes"}
      BY <1>1, <2>6
      DEF PollChecks, PollYields, PollAnswers, ReadChecks, ReadEnds, SeekCall, Compare,
          Checks, Goes, AnyInv, VariablesTyped
    <3> QED
      BY <3>1 DEF Bounded
  <2> QED
    BY <1>3, <2>1, <2>2, <2>3, <2>4, <2>5, <2>6 DEF Moves
<1>4. CASE ReadCounts(c)
  <2>1. /\ pc[c] = "count" /\ pc'[c] = "bytes" /\ n'[c] = (w - x + 1) % 256
        /\ phase' = IF x + ((w - x + 1) % 256) > SHMEM_REGION_SIZE
                    THEN "undefined" ELSE "on"
    BY <1>1, <1>4 DEF ReadCounts, Goes, Runs, Left, AnyInv, VariablesTyped
  <2>2. UNCHANGED <<tableVars, sh>> /\ place(c)' = place(c)
    BY <1>1, <1>4 DEF ReadCounts, place, tableVars
  <2>3. x =< w /\ sh[c].open
    BY <1>1, <2>1 DEF Bounded, Served, Closing
  <2> HIDE DEF x, w
  <2>4. /\ w - x + 1 \in 0 .. 255 /\ (w - x + 1) % 256 = w - x + 1
        /\ x + (w - x + 1) = w + 1 /\ ~(w + 1 > SHMEM_REGION_SIZE)
        /\ w + 1 =< w + 1
    <3>1. /\ w \in Int /\ x \in Int /\ x >= 0 /\ w < SHMEM_REGION_SIZE
          /\ SHMEM_REGION_SIZE \in Int /\ SHMEM_REGION_SIZE =< 255
      BY <1>2, <2>3, Sizes
    <3>2. w - x + 1 \in 0 .. 255
      BY <2>3, <3>1
    <3>3. \A k \in 0 .. 255 : k % 256 = k
      OBVIOUS
    <3> QED
      BY <3>1, <3>2, <3>3
  <2>5. phase' = "on" /\ x + n'[c] =< w + 1
    BY <2>1, <2>4
  <2> QED
    BY <2>1, <2>2, <2>5 DEF Bounded, x, w
<1>5. CASE \E k \in Count : WriteCall(c, k) \/ ReadCall(c, k) \/ BlockReadCall(c, k)
  <2>1. phase' = "on" /\ pc'[c] \in {"write", "read", "poll"}
    BY <1>1, <1>5
    DEF WriteCall, ReadCall, BlockReadCall, Uses, Runs, Goes, AnyInv, VariablesTyped
  <2> QED
    BY <2>1 DEF Bounded
<1>6. CASE ReadByte(c)
  <2>1. /\ phase' = "on" /\ pc[c] = "bytes" /\ pc'[c] = "bytes"
        /\ sh'[c].pointer + n'[c] = x + m /\ place(c)' = place(c)
    BY <1>1, <1>6, ReadByteFacts DEF place, tableVars
  <2> QED
    BY <1>1, <2>1 DEF Bounded
<1>7. ASSUME \/ Seek(c) \/ WriteByte(c) \/ WriteMarks(c) \/ Offer(c)
             \/ Drop(c) \/ Unname(c) \/ ClearWriten(c) \/ ClearConnections(c)
      PROVE  phase' = "on" /\ Bounded(c)'
  <2>1. phase' = "on"
    BY <1>7 DEF Seek, WriteByte, WriteMarks, Offer, Drop, Unname, ClearWriten,
                ClearConnections, PlaceBecomes, Runs
  <2>2. pc'[c] \in Closing \cup {"user", "write"}
    BY <1>1, <1>7, SeekFacts, WriteByteFacts, WriteMarksFacts, CloseWrites
    DEF Offer, Goes, AnyInv, VariablesTyped
  <2> QED
    BY <2>1, <2>2 DEF Bounded, Closing
<1>8. CASE CloseCall(c) \/ \E a \in Alias : ConnectExisting(c, a) \/ ConnectNew(c, a)
  <2>1. phase' \in {"on", "exited"} /\ pc'[c] \in {"user", "drop"}
    BY <1>1, <1>8, CloseCallFacts, ConnectExistingFacts, ConnectNewFacts
  <2> QED
    BY <2>1 DEF Bounded
<1>9. CASE DestroyAll(c)
  BY <1>9 DEF DestroyAll
<1> QED
  BY <1>3, <1>4, <1>5, <1>6, <1>7, <1>8, <1>9 DEF CallStep, ClientCall, Moves

WritenTyped ==
    CarefulInv /\ phase = "on" =>
        \A c \in Client : sh[c].open => place(c).writen \in Int

LEMMA WritenTypedNext == WritenTyped'
<1>1. WritenTyped
  BY OpenLeads DEF WritenTyped
<1> QED
  BY <1>1, PTL

LEMMA BoundsStep ==
    ASSUME CarefulUse, MarkAtomic, BoundsInv, [Next]_vars
    PROVE  BoundsInv'
<1>1. CarefulInv'
  BY CarefulStep DEF BoundsInv
<1>2. ASSUME NEW c \in Client, CallStep(c) \/ ClientCall(c) \/ GiveUp(c)
      PROVE  BoundsInv'
  <2>1. /\ phase = "on" /\ current = c /\ AnyInv /\ CarefulInv
        /\ \A d \in Client : Bounded(d) /\ Served(d)
    <3>1. AnyInv /\ CarefulInv /\ (phase = "on" => \A d \in Client : Bounded(d) /\ Served(d))
      BY DEF BoundsInv, CarefulInv
    <3>2. phase = "on" /\ current = c
      BY <1>2
      DEF CallStep, ClientCall, GiveUp, Drop, Unname, ClearWriten, ClearConnections,
          PlaceBecomes, Compare, Offer, WriteByte, WriteEnds, WriteMarks, Seek,
          PollChecks, PollYields, PollAnswers, ReadChecks, ReadTests, ReadCompares,
          ReadCounts, ReadByte, ReadEnds, Checks, ConnectExisting, ConnectNew,
          CloseCall, DestroyAll, SeekCall, WriteCall, ReadCall, BlockReadCall, Uses, Runs
    <3> QED
      BY <3>1, <3>2
  <2>2. phase' # "undefined" /\ (phase' = "on" => Bounded(c)')
    BY <1>2, <2>1, BoundedOwn
  <2>3. phase' = "on" => OthersKept(c)
    BY <1>2, <2>1, MovesFacts, CountsFacts, SeekFacts, ReadByteFacts, CloseWrites,
       WriteByteFacts, WriteMarksFacts, CloseCallFacts, ConnectExistingFacts,
       ConnectNewFacts, OfferFacts
    DEF CallStep, ClientCall, Moves, Counts, DestroyAll
  <2>4. ASSUME NEW d \in Client \ {c}, phase' = "on"
        PROVE  Bounded(d)'
    <3>1. /\ sh'[d] = sh[d] /\ pc'[d] = pc[d] /\ n'[d] = n[d]
          /\ Bounded(d) /\ Served(d)
      BY <2>1, <2>3, <2>4 DEF OthersKept
    <3>2. pc[d] # "mark"
      BY <2>1, <3>1 DEF Bounded
    <3>3. CASE pc[d] \in {"min", "count", "bytes"}
      <4>1. sh[d].open
        BY <3>1, <3>3 DEF Served, Closing
      <4>2. place(d)'.writen >= place(d).writen
        BY <1>2, <2>1, <2>4, <4>1, RegionGrows DEF GrowsFor
      <4>3. /\ place(d).writen \in Int /\ place(d)'.writen \in Int
            /\ sh[d].pointer \in Int /\ n[d] \in Int
        <5>1. CarefulInv' /\ sh'[d].open
          BY <1>1, <3>1, <4>1
        <5>2. place(d)'.writen \in Int
          BY <2>4, <5>1, WritenTypedNext DEF WritenTyped
        <5> QED
          BY <2>1, <4>1, <5>2, OpenLeads
      <4> QED
        BY <3>1, <3>2, <4>2, <4>3 DEF Bounded
    <3> QED
      BY <3>1, <3>2, <3>3 DEF Bounded
  <2> QED
    BY <1>1, <2>2, <2>4 DEF BoundsInv
<1>3. CASE UNCHANGED vars
  BY <1>1, <1>3 DEF BoundsInv, Bounded, place, vars, tableVars, processorVars
<1> QED
  BY <1>2, <1>3 DEF Next

LEMMA AlwaysBounded == CarefulUse /\ MarkAtomic => (Spec => []BoundsInv)
<1> SUFFICES ASSUME CarefulUse, MarkAtomic PROVE Spec => []BoundsInv
  OBVIOUS
<1>1. Init => BoundsInv
  BY CarefulInit DEF Init, BoundsInv, Bounded
<1>2. BoundsInv /\ [Next]_vars => BoundsInv'
  BY BoundsStep
<1> QED
  BY <1>1, <1>2, PTL DEF Spec

\* No byte outside a region is read or written by the loops of lines 130 and 156
\* in a careful program whose quantum does not run out at line 136, whoever
\* writes between a read's tests, its count and its bytes.
THEOREM AccessesInBounds == CarefulUse /\ MarkAtomic => (Spec => []InBounds)
<1>1. BoundsInv => InBounds
  BY DEF BoundsInv, CarefulInv, AnyInv, ClientTyped, InBounds
<1> QED
  BY <1>1, AlwaysBounded, PTL

-----------------------------------------------------------------------------
(* Moreover no task reads or seeks in a region nobody has written to.      *)

ReadsBegun == "read_empty" \notin Liberties

\* A region is written without gaps, up to writen and perhaps beyond.
Filled(r) ==
    /\ \A x \in r.bytes : \A y \in 0 .. x : y \in r.bytes
    /\ r.writen \in r.bytes \/ (r.writen = 0 /\ r.bytes = {})

\* A free place is reset, or the task that closes it is about to.
ResetAt(i) ==
    \/ shmem_reg_arr[i].writen = 0
    \/ \E c \in Client : pc[c] = "clear" /\ sh[c].index = i

PlaceFilled(i) ==
    IF shmem_reg_arr[i].alias = NoAlias THEN ResetAt(i) ELSE Filled(shmem_reg_arr[i])

\* Inside shmem_seek and the calls that read.
Reading == {"seek", "poll", "ask", "check", "read", "min", "count", "bytes"}

\* A pointer stands behind a byte that is written, or at the beginning.
CallFilled(c) ==
    sh[c].open =>
        /\ sh[c].pointer = 0 \/ sh[c].pointer - 1 \in place(c).bytes
        /\ pc[c] \in Reading => 0 \in place(c).bytes

FilledInv ==
    /\ BoundsInv
    /\ phase = "on" =>
          /\ regions_size > 0 => \A i \in Table : PlaceFilled(i)
          /\ \A c \in Client : CallFilled(c)

\* What a task finds in the region it reads.
LEMMA OpenFilled ==
    ASSUME FilledInv, phase = "on", NEW c \in Client, sh[c].open
    PROVE  CallFilled(c) /\ Filled(place(c))
<1>1. CarefulInv
  BY DEF FilledInv, BoundsInv
<1>2. /\ sh[c].index \in Table /\ place(c) = shmem_reg_arr[sh[c].index]
      /\ place(c).alias # NoAlias /\ regions_size > 0
  BY <1>1, OpenLeads, LeadsTo DEF CarefulInv
<1> QED
  BY <1>2 DEF FilledInv, PlaceFilled

\* Every byte up to writen is written in a region that is not empty.
LEMMA WrittenUpTo ==
    ASSUME NEW r \in Place, Filled(r), 0 \in r.bytes, NEW x \in 0 .. r.writen
    PROVE  x \in r.bytes
<1>1. r.writen \in r.bytes
  BY DEF Filled
<1> QED
  BY <1>1 DEF Filled

\* A byte is written where the pointer stands.
LEMMA ByteFills ==
    ASSUME NEW r \in Place, Filled(r), NEW x \in Offset,
           x = 0 \/ x - 1 \in r.bytes, NEW s \in Place,
           s.bytes = r.bytes \cup {x}, s.writen = r.writen
    PROVE  Filled(s)
<1>1. x \in Int /\ x >= 0 /\ r.bytes \subseteq Offset
  BY Sizes DEF Offset, Place
<1>2. ASSUME NEW z \in s.bytes, NEW y \in 0 .. z
      PROVE  y \in s.bytes
  <2>1. CASE z \in r.bytes
    BY <1>2, <2>1 DEF Filled
  <2>2. CASE z = x
    <3>1. y = x \/ (y \in 0 .. x - 1 /\ x # 0)
      BY <1>1, <1>2, <2>2
    <3> QED
      BY <3>1 DEF Filled
  <2> QED
    BY <2>1, <2>2
<1>3. s.writen \in s.bytes \/ (s.writen = 0 /\ s.bytes = {})
  <2>1. CASE r.bytes = {}
    BY <2>1 DEF Filled
  <2>2. CASE r.bytes # {}
    BY <2>2 DEF Filled
  <2> QED
    BY <2>1, <2>2
<1> QED
  BY <1>2, <1>3 DEF Filled

\* The places, through a step that leaves them and the closes at "clear".
LEMMA PlacesKept ==
    ASSUME FilledInv, phase = "on",
           UNCHANGED <<regions_size, shmem_reg_arr>>,
           \A d \in Client : pc[d] = "clear" =>
                                pc'[d] = "clear" /\ sh'[d].index = sh[d].index
    PROVE  regions_size' > 0 => \A i \in Table' : PlaceFilled(i)'
<1> SUFFICES ASSUME regions_size > 0, NEW i \in Table PROVE PlaceFilled(i)'
  BY DEF Table
<1>1. PlaceFilled(i)
  BY DEF FilledInv
<1>2. CASE shmem_reg_arr[i].alias = NoAlias
  <2>1. ResetAt(i)
    BY <1>1, <1>2 DEF PlaceFilled
  <2>2. ResetAt(i)'
    BY <2>1 DEF ResetAt
  <2> QED
    BY <1>2, <2>2 DEF PlaceFilled
<1>3. CASE shmem_reg_arr[i].alias # NoAlias
  BY <1>1, <1>3 DEF PlaceFilled, Filled
<1> QED
  BY <1>2, <1>3

\* The places, through a statement that makes the one of c filled or reset.
LEMMA PlaceRefilled ==
    ASSUME FilledInv, NEW c \in Client, NEW r \in Place, Becomes(c, r),
           OthersKept(c), sh'[c].index = sh[c].index,
           \/ r.alias # NoAlias /\ Filled(r)
           \/ r.alias = NoAlias /\ (r.writen = 0 \/ pc'[c] = "clear")
    PROVE  regions_size' > 0 => \A i \in Table' : PlaceFilled(i)'
<1>1. /\ phase = "on" /\ regions_size' = regions_size /\ AnyInv
      /\ Table' = Table
  BY DEF Becomes, FilledInv, BoundsInv, CarefulInv, Table
<1> SUFFICES ASSUME regions_size > 0, NEW i \in Table PROVE PlaceFilled(i)'
  BY <1>1
<1>2. CASE i = sh[c].index
  <2>1. shmem_reg_arr'[i] = r
    BY <1>1, <1>2, OthersLeft
  <2>2. r.writen = 0 \/ pc'[c] = "clear" => ResetAt(i)'
    BY <1>2, <2>1 DEF ResetAt
  <2> QED
    BY <2>1, <2>2 DEF PlaceFilled, Filled
<1>3. CASE i # sh[c].index
  <2>1. shmem_reg_arr'[i] = shmem_reg_arr[i]
    BY <1>1, <1>3, OthersLeft
  <2>2. PlaceFilled(i)
    BY <1>1 DEF FilledInv
  <2>3. ResetAt(i) => ResetAt(i)'
    BY <1>3, <2>1 DEF ResetAt, OthersKept
  <2> QED
    BY <2>1, <2>2, <2>3 DEF PlaceFilled, Filled
<1> QED
  BY <1>2, <1>3

\* The places, when a region is allocated.
LEMMA PlaceAllocated ==
    ASSUME FilledInv, NEW c \in Client, NEW a \in Alias, ConnectNew(c, a)
    PROVE  regions_size' > 0 => \A i \in Table' : PlaceFilled(i)'
<1> DEFINE f == reg_next_free
<1>1. /\ phase = "on" /\ pc[c] = "user" /\ pc' = pc /\ f \in Table'
      /\ shmem_reg_arr'[f].alias = a /\ shmem_reg_arr'[f].bytes = {} /\ a # NoAlias
      /\ \A d \in Client \ {c} : sh'[d] = sh[d]
      /\ AnyInv /\ CarefulInv
  BY ConnectNewFacts DEF FilledInv, BoundsInv, CarefulInv, OthersKept
<1>2. \A i \in Table' : i # f =>
         \/ shmem_reg_arr'[i] = ZeroReg
         \/ regions_size > 0 /\ i \in Table /\ shmem_reg_arr'[i] = shmem_reg_arr[i]
  BY <1>1, ConnectNewFacts
<1>3. \/ shmem_reg_arr'[f].writen = 0
      \/ /\ regions_size > 0 /\ f \in Table
         /\ shmem_reg_arr'[f].writen = shmem_reg_arr[f].writen
  BY <1>1, ConnectNewFacts
<1>4. /\ \A d \in Client : pc[d] = "clear" => d # c /\ sh[d].index # f
      /\ regions_size > 0 => /\ shmem_reg_arr[f].alias = NoAlias
                             /\ \A i \in Table : PlaceFilled(i)
  BY <1>1 DEF FilledInv, CarefulInv, FreeNext, ClosesAlone, Closing, Late
<1>5. shmem_reg_arr'[f].writen = 0
  BY <1>3, <1>4 DEF PlaceFilled, ResetAt
<1> SUFFICES ASSUME NEW i \in Table' PROVE PlaceFilled(i)'
  OBVIOUS
<1>6. CASE i = f
  BY <1>1, <1>5, <1>6 DEF PlaceFilled, Filled
<1>7. CASE i # f
  <2>1. CASE shmem_reg_arr'[i] = ZeroReg
    BY <2>1 DEF ZeroReg, PlaceFilled, ResetAt
  <2>2. CASE regions_size > 0 /\ i \in Table /\ shmem_reg_arr'[i] = shmem_reg_arr[i]
    <3>1. PlaceFilled(i)
      BY <1>4, <2>2
    <3>2. ResetAt(i) => ResetAt(i)'
      BY <1>1, <1>4, <2>2 DEF ResetAt
    <3> QED
      BY <2>2, <3>1, <3>2 DEF PlaceFilled, Filled
  <2> QED
    BY <1>2, <1>7, <2>1, <2>2
<1> QED
  BY <1>6, <1>7

LEMMA PlacesFilledStep ==
    ASSUME CarefulUse, FilledInv, NEW c \in Client, phase = "on",
           CallStep(c) \/ ClientCall(c) \/ GiveUp(c), phase' = "on"
    PROVE  regions_size' > 0 => \A i \in Table' : PlaceFilled(i)'
<1>1. /\ AnyInv /\ CarefulInv /\ Bounded(c)
      /\ \A e \in Client : Served(e) /\ ClosesAlone(e) /\ CallFilled(e)
  BY DEF FilledInv, BoundsInv, CarefulInv
<1>2. CASE Moves(c) \/ Counts(c) \/ Seek(c) \/ ReadByte(c) \/ CloseCall(c) \/ Offer(c)
           \/ \E a \in Alias : ConnectExisting(c, a)
  <2>1. /\ OthersKept(c) /\ UNCHANGED <<regions_size, shmem_reg_arr>>
    BY <1>1, <1>2, MovesFacts, CountsFacts, SeekFacts, ReadByteFacts, CloseCallFacts,
       ConnectExistingFacts, OfferFacts DEF tableVars
  <2>2. CASE GiveUp(c)
    BY <2>1, <2>2, PlacesKept DEF GiveUp
  <2>3. CASE ~GiveUp(c)
    <3>1. pc[c] # "clear"
      BY <1>2, <2>3
      DEF Moves, Counts, WriteEnds, PollChecks, PollYields, PollAnswers, ReadChecks,
          ReadTests, ReadCompares, ReadCounts, ReadEnds, Checks, SeekCall, Compare,
          WriteCall, ReadCall, BlockReadCall, Uses, Seek, ReadByte, CloseCall, Offer,
          ConnectExisting, Runs
    <3> QED
      BY <2>1, <3>1, PlacesKept DEF OthersKept
  <2> QED
    BY <2>2, <2>3
<1>3. CASE WriteByte(c)
  <2>1. /\ OthersKept(c) /\ sh'[c].index = sh[c].index /\ sh[c].pointer \in Offset
        /\ pc[c] = "write"
        /\ \E r \in Place : /\ Becomes(c, r) /\ r.alias = place(c).alias
                            /\ r.writen = place(c).writen
                            /\ r.bytes = place(c).bytes \cup {sh[c].pointer}
    BY <1>1, <1>3, WriteByteFacts
  <2>2. PICK r \in Place : /\ Becomes(c, r) /\ r.alias = place(c).alias
                           /\ r.writen = place(c).writen
                           /\ r.bytes = place(c).bytes \cup {sh[c].pointer}
    BY <2>1
  <2>3. sh[c].open
    BY <1>1, <2>1 DEF Served, Closing
  <2>4. /\ place(c) \in Place /\ place(c).alias # NoAlias /\ Filled(place(c))
        /\ sh[c].pointer = 0 \/ sh[c].pointer - 1 \in place(c).bytes
    BY <1>1, <2>3, OpenLeads, OpenFilled DEF CallFilled
  <2>5. Filled(r)
    BY <2>1, <2>2, <2>4, ByteFills
  <2> QED
    BY <2>1, <2>2, <2>4, <2>5, PlaceRefilled
<1>4. CASE WriteMarks(c)
  <2>1. /\ OthersKept(c) /\ sh'[c].index = sh[c].index /\ pc[c] = "mark"
        /\ \E r \in Place : /\ Becomes(c, r) /\ r.alias = place(c).alias
                            /\ r.writen = sh[c].pointer - 1
                            /\ r.bytes = place(c).bytes
    BY <1>1, <1>4, WriteMarksFacts
  <2>2. PICK r \in Place : /\ Becomes(c, r) /\ r.alias = place(c).alias
                           /\ r.writen = sh[c].pointer - 1
                           /\ r.bytes = place(c).bytes
    BY <2>1
  <2>3. sh[c].open /\ sh[c].pointer > 0
    BY <1>1, <2>1 DEF Served, Closing, AnyInv, ClientTyped
  <2>4. /\ place(c).alias # NoAlias /\ Filled(place(c))
        /\ sh[c].pointer - 1 \in place(c).bytes
    BY <1>1, <2>3, OpenLeads, OpenFilled DEF CallFilled
  <2>5. Filled(r)
    BY <2>2, <2>4 DEF Filled
  <2> QED
    BY <2>1, <2>2, <2>4, <2>5, PlaceRefilled
<1>5. CASE Drop(c)
  <2>1. /\ OthersKept(c) /\ UNCHANGED sh /\ pc[c] = "drop"
        /\ \E r \in Place : /\ Becomes(c, r) /\ r.alias = place(c).alias
                            /\ r.writen = place(c).writen /\ r.bytes = place(c).bytes
    BY <1>1, <1>5, CloseWrites
  <2>2. place(c).alias # NoAlias
    BY <1>1, <2>1 DEF ClosesAlone, Closing, Early
  <2>3. Filled(place(c))
    <3>1. /\ sh[c].index \in Table /\ place(c) = shmem_reg_arr[sh[c].index]
          /\ regions_size > 0
      BY <1>1, <2>1, LeadsTo DEF Becomes
    <3> QED
      BY <2>2, <3>1 DEF FilledInv, PlaceFilled
  <2> QED
    BY <2>1, <2>2, <2>3, PlaceRefilled DEF Filled
<1>6. CASE Unname(c)
  <2>1. /\ OthersKept(c) /\ UNCHANGED sh /\ pc'[c] = "clear"
        /\ \E r \in Place : Becomes(c, r) /\ r.alias = NoAlias
    BY <1>1, <1>6, CloseWrites
  <2> QED
    BY <2>1, PlaceRefilled
<1>7. CASE ClearWriten(c)
  <2>1. /\ OthersKept(c) /\ UNCHANGED sh /\ pc[c] = "clear"
        /\ \E r \in Place : /\ Becomes(c, r) /\ r.alias = place(c).alias
                            /\ r.writen = 0
    BY <1>1, <1>7, CloseWrites
  <2>2. place(c).alias = NoAlias
    BY <1>1, <2>1 DEF ClosesAlone, Closing, Late
  <2> QED
    BY <2>1, <2>2, PlaceRefilled
<1>8. CASE ClearConnections(c)
  <2>1. /\ OthersKept(c) /\ UNCHANGED sh /\ pc[c] = "zero"
        /\ \E r \in Place : /\ Becomes(c, r) /\ r.alias = place(c).alias
                            /\ r.writen = place(c).writen
    BY <1>1, <1>8, CloseWrites
  <2>2. place(c).alias = NoAlias
    BY <1>1, <2>1 DEF ClosesAlone, Closing, Late
  <2>3. place(c).writen = 0
    <3>1. /\ sh[c].index \in Table /\ place(c) = shmem_reg_arr[sh[c].index]
          /\ regions_size > 0
      BY <1>1, <2>1, LeadsTo DEF Becomes
    <3>2. ResetAt(sh[c].index)
      BY <2>2, <3>1 DEF FilledInv, PlaceFilled
    <3>3. \A d \in Client : pc[d] = "clear" => sh[d].index # sh[c].index
      BY <1>1, <2>1 DEF ClosesAlone, Closing
    <3> QED
      BY <3>1, <3>2, <3>3 DEF ResetAt
  <2> QED
    BY <2>1, <2>2, <2>3, PlaceRefilled
<1>9. CASE \E a \in Alias : ConnectNew(c, a)
  BY <1>9, PlaceAllocated
<1>10. CASE DestroyAll(c)
  BY <1>10 DEF DestroyAll
<1> QED
  BY <1>2, <1>3, <1>4, <1>5, <1>6, <1>7, <1>8, <1>9, <1>10
  DEF CallStep, ClientCall, Moves, Counts

\* The connection and the call of the task that takes the step.
LEMMA CallFilledOwn ==
    ASSUME CarefulUse, ReadsBegun, FilledInv, NEW c \in Client, phase = "on",
           CallStep(c) \/ ClientCall(c) \/ GiveUp(c), phase' = "on"
    PROVE  CallFilled(c)'
<1> DEFINE x == sh[c].pointer
           w == place(c).writen
<1>1. /\ AnyInv /\ CarefulInv /\ Bounded(c) /\ Served(c) /\ ClosesAlone(c) /\ CallFilled(c)
  BY DEF FilledInv, BoundsInv, CarefulInv
<1>2. sh[c].open =>
         /\ x \in Int /\ x >= 0 /\ w \in Int /\ w >= 0 /\ place(c) \in Place
         /\ Filled(place(c)) /\ (x = 0 \/ x - 1 \in place(c).bytes)
         /\ pc[c] \in Reading => 0 \in place(c).bytes
  BY <1>1, OpenLeads, OpenFilled DEF CallFilled
<1>3. CASE Moves(c) \/ Counts(c)
  <2>1. /\ UNCHANGED <<tableVars, sh>> /\ place(c)' = place(c)
    BY <1>1, <1>3, MovesFacts, CountsFacts DEF place, tableVars
  <2>2. sh[c].open /\ pc'[c] \in Reading => 0 \in place(c).bytes
    <3>1. CASE GiveUp(c)
      BY <1>2, <3>1 DEF GiveUp
    <3>2. CASE SeekCall(c) \/ \E k \in Count : ReadCall(c, k) \/ BlockReadCall(c, k)
      BY <3>2 DEF SeekCall, ReadCall, BlockReadCall, Begun, ReadsBegun
    <3>3. CASE \/ WriteEnds(c) \/ Compare(c) \/ \E k \in Count : WriteCall(c, k)
      <4>1. pc'[c] \notin Reading
        BY <1>1, <3>3
        DEF WriteEnds, Compare, WriteCall, Goes, Reading, AnyInv, VariablesTyped
      <4> QED
        BY <4>1
    <3>4. CASE \/ PollChecks(c) \/ PollYields(c) \/ PollAnswers(c) \/ ReadChecks(c)
               \/ ReadTests(c) \/ ReadCompares(c) \/ ReadCounts(c) \/ ReadEnds(c)
      <4>1. pc[c] \in Reading
        BY <3>4 DEF PollChecks, PollYields, PollAnswers, ReadChecks, ReadTests,
                    ReadCompares, ReadCounts, ReadEnds, Checks, Runs, Reading
      <4> QED
        BY <1>2, <4>1
    <3> QED
      BY <1>3, <3>1, <3>2, <3>3, <3>4 DEF Moves, Counts
  <2> QED
    BY <1>1, <2>1, <2>2 DEF CallFilled
<1>4. CASE Seek(c)
  <2>1. /\ UNCHANGED tableVars /\ pc[c] = "seek" /\ pc'[c] = "user"
        /\ sh'[c].pointer = x \/ sh'[c].pointer \in 0 .. w + 1
        /\ sh'[c].index = sh[c].index /\ sh'[c].open = sh[c].open
    BY <1>1, <1>4, SeekFacts
  <2>2. place(c)' = place(c)
    BY <2>1 DEF place, tableVars
  <2>3. sh[c].open =>
           sh'[c].pointer = 0 \/ sh'[c].pointer - 1 \in place(c).bytes
    <3> SUFFICES ASSUME sh[c].open, sh'[c].pointer \in 0 .. w + 1, sh'[c].pointer # 0
                 PROVE  sh'[c].pointer - 1 \in place(c).bytes
      BY <1>2, <2>1
    <3>1. sh'[c].pointer - 1 \in 0 .. w
      BY <1>2
    <3>2. 0 \in place(c).bytes
      BY <1>2, <2>1 DEF Reading
    <3> HIDE DEF x
    <3> QED
      BY <1>2, <3>1, <3>2, WrittenUpTo
  <2> QED
    BY <2>1, <2>2, <2>3 DEF CallFilled, Reading
<1>5. CASE ReadByte(c)
  <2>1. /\ UNCHANGED tableVars /\ pc[c] = "bytes" /\ n[c] > 0
        /\ sh'[c].pointer = x + 1
        /\ sh'[c].index = sh[c].index /\ sh'[c].open = sh[c].open
    BY <1>1, <1>5, ReadByteFacts
  <2>2. place(c)' = place(c)
    BY <2>1 DEF place, tableVars
  <2>3. sh[c].open => 0 \in place(c).bytes /\ x \in place(c).bytes
    <3> SUFFICES ASSUME sh[c].open
                 PROVE  0 \in place(c).bytes /\ x \in place(c).bytes
      OBVIOUS
    <3>1. 0 \in place(c).bytes
      BY <1>2, <2>1 DEF Reading
    <3>2. x + n[c] =< w + 1
      BY <1>1, <2>1 DEF Bounded
    <3>3. x \in 0 .. w
      BY <1>2, <2>1, <3>2, TaskTypes, <1>1
    <3> QED
      BY <1>2, <3>1, <3>3, WrittenUpTo
  <2>4. sh[c].open => (x + 1) - 1 = x
    BY <1>2
  <2> QED
    BY <2>1, <2>2, <2>3, <2>4 DEF CallFilled
<1>6. CASE WriteByte(c)
  <2>1. /\ pc[c] = "write" /\ pc'[c] = "write" /\ sh'[c].pointer = x + 1
        /\ sh'[c].index = sh[c].index /\ x \in Offset
        /\ \E r \in Place : Becomes(c, r) /\ r.bytes = place(c).bytes \cup {x}
    BY <1>1, <1>6, WriteByteFacts
  <2>2. place(c)'.bytes = place(c).bytes \cup {x}
    BY <1>1, <2>1, OthersLeft DEF place
  <2>3. (x + 1) - 1 = x
    BY <2>1 DEF Offset
  <2> QED
    BY <2>1, <2>2, <2>3 DEF CallFilled, Reading
<1>7. CASE WriteMarks(c)
  <2>1. /\ pc'[c] = "user" /\ UNCHANGED sh
        /\ \E r \in Place : Becomes(c, r) /\ r.bytes = place(c).bytes
    BY <1>1, <1>7, WriteMarksFacts
  <2>2. place(c)'.bytes = place(c).bytes
    BY <1>1, <2>1, OthersLeft DEF place
  <2> QED
    BY <1>1, <2>1, <2>2 DEF CallFilled, Reading
<1>8. CASE \/ Drop(c) \/ Unname(c) \/ ClearWriten(c) \/ ClearConnections(c) \/ Offer(c)
  <2>1. pc[c] \in Closing /\ UNCHANGED sh
    BY <1>1, <1>8, CloseWrites, OfferFacts DEF Closing
  <2> QED
    BY <1>1, <2>1 DEF ClosesAlone, CallFilled
<1>9. CASE CloseCall(c)
  BY <1>1, <1>9, CloseCallFacts DEF CallFilled
<1>10. CASE \E a \in Alias : ConnectExisting(c, a) \/ ConnectNew(c, a)
  <2>1. sh'[c].pointer = 0 /\ pc'[c] = "user"
    BY <1>1, <1>10, ConnectExistingFacts, ConnectNewFacts
  <2> QED
    BY <2>1 DEF CallFilled, Reading
<1>11. CASE DestroyAll(c)
  BY <1>11 DEF DestroyAll
<1> QED
  BY <1>3, <1>4, <1>5, <1>6, <1>7, <1>8, <1>9, <1>10, <1>11
  DEF CallStep, ClientCall, Moves, Counts

LEMMA FilledStep ==
    ASSUME CarefulUse, MarkAtomic, ReadsBegun, FilledInv, [Next]_vars
    PROVE  FilledInv'
<1>1. BoundsInv' /\ BoundsInv
  BY BoundsStep DEF FilledInv
<1>2. ASSUME NEW c \in Client, CallStep(c) \/ ClientCall(c) \/ GiveUp(c)
      PROVE  FilledInv'
  <2>1. phase = "on" /\ AnyInv /\ CarefulInv
    BY <1>1, <1>2
    DEF BoundsInv, CarefulInv, CallStep, ClientCall, GiveUp, Drop, Unname, ClearWriten,
        ClearConnections, PlaceBecomes, Compare, Offer, WriteByte, WriteEnds, WriteMarks,
        Seek, PollChecks, PollYields, PollAnswers, ReadChecks, ReadTests, ReadCompares,
        ReadCounts, ReadByte, ReadEnds, Checks, ConnectExisting, ConnectNew,
        CloseCall, DestroyAll, SeekCall, WriteCall, ReadCall, BlockReadCall, Uses, Runs
  <2> SUFFICES ASSUME phase' = "on"
               PROVE  /\ regions_size' > 0 => \A i \in Table' : PlaceFilled(i)'
                      /\ \A d \in Client : CallFilled(d)'
    BY <1>1 DEF FilledInv
  <2>2. regions_size' > 0 => \A i \in Table' : PlaceFilled(i)'
    BY <1>2, <2>1, PlacesFilledStep
  <2>3. CallFilled(c)'
    BY <1>2, <2>1, CallFilledOwn
  <2>4. OthersKept(c)
    BY <1>2, <2>1, MovesFacts, CountsFacts, SeekFacts, ReadByteFacts, CloseWrites,
       WriteByteFacts, WriteMarksFacts, CloseCallFacts, ConnectExistingFacts,
       ConnectNewFacts, OfferFacts
    DEF CallStep, ClientCall, Moves, Counts, DestroyAll
  <2>5. ASSUME NEW d \in Client \ {c}
        PROVE  CallFilled(d)'
    <3>1. sh'[d] = sh[d] /\ pc'[d] = pc[d] /\ CallFilled(d)
      BY <2>1, <2>4 DEF OthersKept, FilledInv
    <3>2. sh[d].open => place(d).bytes \subseteq place(d)'.bytes
      BY <1>1, <1>2, <2>1, RegionGrows DEF GrowsFor
    <3> QED
      BY <3>1, <3>2 DEF CallFilled
  <2> QED
    BY <2>2, <2>3, <2>5
<1>3. CASE UNCHANGED vars
  BY <1>1, <1>3
  DEF FilledInv, PlaceFilled, ResetAt, Filled, CallFilled, place, Table, vars, tableVars
<1> QED
  BY <1>2, <1>3 DEF Next

\* What a task reads has been written since its region was opened, in a careful
\* program that begins to read only what is not empty and whose quantum does not
\* run out at line 136, whatever the other tasks write, seek, open and close
\* between its steps.
THEOREM ReadsFindWritten ==
    CarefulUse /\ MarkAtomic /\ ReadsBegun => (Spec => ReadsWritten)
<1> SUFFICES ASSUME CarefulUse, MarkAtomic, ReadsBegun PROVE Spec => ReadsWritten
  OBVIOUS
<1> DEFINE Finds == \A c \in Client : ReadByte(c) => sh[c].pointer \in place(c).bytes
<1>1. Init => FilledInv
  <2> SUFFICES ASSUME Init PROVE FilledInv
    OBVIOUS
  <2>1. BoundsInv
    BY CarefulInit DEF Init, BoundsInv, Bounded
  <2> QED
    BY <2>1 DEF Init, FilledInv, CallFilled, NoConnection
<1>2. FilledInv /\ [Next]_vars => FilledInv'
  BY FilledStep
<1>3. FilledInv => Finds
  <2> SUFFICES ASSUME FilledInv, NEW c \in Client, ReadByte(c)
               PROVE  sh[c].pointer \in place(c).bytes
    OBVIOUS
  <2>1. /\ AnyInv /\ CarefulInv /\ phase = "on" /\ pc[c] = "bytes" /\ n[c] > 0
        /\ Bounded(c) /\ Served(c)
    BY DEF FilledInv, BoundsInv, CarefulInv, ReadByte, Runs
  <2>2. sh[c].open
    BY <2>1 DEF Served, Closing
  <2>3. /\ CallFilled(c) /\ Filled(place(c)) /\ place(c) \in Place
        /\ place(c).writen \in Int /\ sh[c].pointer \in 0 .. SHMEM_REGION_SIZE
        /\ n[c] \in Int
    BY <2>1, <2>2, OpenFilled, OpenLeads
  <2>4. 0 \in place(c).bytes
    BY <2>1, <2>2, <2>3 DEF CallFilled, Reading
  <2>5. sh[c].pointer \in 0 .. place(c).writen
    <3>1. sh[c].pointer + n[c] =< place(c).writen + 1
      BY <2>1 DEF Bounded
    <3>2. sh[c].pointer \in Int /\ sh[c].pointer >= 0
      BY <2>3, Sizes
    <3> QED
      BY <2>1, <2>3, <3>1, <3>2
  <2> QED
    BY <2>3, <2>4, <2>5, WrittenUpTo
<1>4. FilledInv => [Finds]_vars
  BY <1>3
<1> QED
  BY <1>1, <1>2, <1>4, PTL DEF Spec, ReadsWritten
=============================================================================
