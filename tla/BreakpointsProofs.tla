--------------------------- MODULE BreakpointsProofs ---------------------------
(***************************************************************************)
(* Proofs about Breakpoints, for every set of threads, breakpoints, scripts*)
(* and lines and every bound on the list.                                  *)
(***************************************************************************)
EXTENDS Breakpoints, SequenceTheorems, TLAPS

(* Before the helper is loaded, nothing is written and no thread is in it. *)
Unloaded ==
  ~helperLoaded => writing = 0 /\ ActiveBreakpointsCount = 0

(* During an update the entries before the next one are in the table.      *)
Written ==
  /\ writing - 1 <= Len(ActiveBreakpoints)
  /\ \A j \in 1 .. writing - 1 :
       ActiveBreakpoints[j].loc = ActiveBreakpointsList[j].loc

(* What a thread in the hook knows: the entry it looks at exists and is on *)
(* its line, the entry it found is at its location, and an undisturbed     *)
(* search has passed over no entry for its location.  The last conjunct is *)
(* why: only an update can reset a length once it was measured.            *)
Search(t) ==
  hook[t].pc # "out" =>
    /\ helperLoaded
    /\ hook[t].i <= ActiveBreakpointsCount + 1
    /\ hook[t].pc # "scan" =>
         /\ hook[t].i <= ActiveBreakpointsCount
         /\ ActiveBreakpointsList[hook[t].i].loc.line = hook[t].loc.line
    /\ hook[t].pc \in {"found", "hit"} =>
         ActiveBreakpointsList[hook[t].i].loc = hook[t].loc
    /\ hook[t].quiet =>
         /\ writing = 0
         /\ \A j \in 1 .. hook[t].i - 1 : ActiveBreakpointsList[j].loc # hook[t].loc
         /\ hook[t].pc = "compare" => ActiveBreakpoints[hook[t].i].measured

(* While threads wait, the index is cleared or that of one of them.        *)
IndexOfAWaitingThread ==
  \/ \A t \in Threads : hook[t].pc # "hit"
  \/ HitBreakpointIndex = MaxValue
  \/ \E t \in Threads : hook[t].pc = "hit" /\ hook[t].i = HitBreakpointIndex

(* The inductive invariant.                                                *)
IInv ==
  /\ TypeOK
  /\ TableMirrorsList
  /\ Unloaded
  /\ Written
  /\ \A t \in Threads : Search(t)
  /\ IndexOfAWaitingThread

-----------------------------------------------------------------------------
(* The steps on sequences and on the threads' records.                     *)

ListEntry == [loc : Locations, bp : Breakpoints]
Pcs == {"out", "scan", "measure", "compare", "found", "hit"}

(* What TypeOK says of lengths and of members.                             *)
LEMMA Members ==
  ASSUME TypeOK, TableMirrorsList
  PROVE  /\ ActiveBreakpointsList \in Seq(ListEntry)
         /\ Len(ActiveBreakpointsList) \in Nat
         /\ Len(ActiveBreakpoints) \in Nat
         /\ ActiveBreakpointsCount \in Nat
         /\ ActiveBreakpointsCount <= Len(ActiveBreakpointsList)
         /\ ActiveBreakpointsCount <= Len(ActiveBreakpoints)
         /\ ActiveBreakpointsCount <= MaxList
         /\ writing \in Nat
         /\ \A j \in 1 .. Len(ActiveBreakpointsList) :
              ActiveBreakpointsList[j] \in ListEntry
         /\ \A j \in 1 .. Len(ActiveBreakpoints) : ActiveBreakpoints[j] \in Entry
         /\ \A t \in Threads : hook[t] \in Hook
<1> USE BreakpointsAssumption
<1>1. /\ ActiveBreakpointsList \in Seq(ListEntry)
      /\ ActiveBreakpoints \in Seq(Entry)
  BY DEF TypeOK, ListEntry
<1>2. /\ Len(ActiveBreakpointsList) \in Nat
      /\ Len(ActiveBreakpoints) \in Nat
  BY <1>1, LenProperties
<1>3. /\ \A j \in 1 .. Len(ActiveBreakpointsList) :
           ActiveBreakpointsList[j] \in ListEntry
      /\ \A j \in 1 .. Len(ActiveBreakpoints) : ActiveBreakpoints[j] \in Entry
  BY <1>1, ElementOfSeq
<1>4. QED
  BY <1>1, <1>2, <1>3 DEF TypeOK, TableMirrorsList

(* Enabling a breakpoint extends the list and changes none of it.          *)
LEMMA EnableExtendsList ==
  ASSUME TypeOK, NEW b \in Breakpoints, EnableRuntimeBreakpoint(b)
  PROVE  /\ ActiveBreakpointsList' \in Seq(ListEntry)
         /\ Len(ActiveBreakpointsList') = Len(ActiveBreakpointsList) + 1
         /\ \A j \in 1 .. Len(ActiveBreakpointsList) :
              ActiveBreakpointsList'[j] = ActiveBreakpointsList[j]
<1>1. [loc |-> at[b], bp |-> b] \in ListEntry
  BY DEF TypeOK, ListEntry
<1>2. ActiveBreakpointsList \in Seq(ListEntry)
  BY DEF TypeOK, ListEntry
<1>3. QED
  BY <1>1, <1>2, AppendProperties, LenProperties DEF EnableRuntimeBreakpoint

(* Writing an entry puts its location where the list has it, and leaves    *)
(* the other entries alone.                                                *)
LEMMA WriteEntryWrites ==
  ASSUME TypeOK, TableMirrorsList, Written, WriteEntry
  PROVE  /\ ActiveBreakpoints' \in Seq(Entry)
         /\ Len(ActiveBreakpoints') \in Nat
         /\ Len(ActiveBreakpoints) <= Len(ActiveBreakpoints')
         /\ writing <= Len(ActiveBreakpoints')
         /\ ActiveBreakpoints'[writing].loc = ActiveBreakpointsList[writing].loc
         /\ \A j \in 1 .. Len(ActiveBreakpoints) :
              j # writing => ActiveBreakpoints'[j] = ActiveBreakpoints[j]
<1>1. /\ writing \in 1 .. Len(ActiveBreakpointsList)
      /\ ActiveBreakpoints \in Seq(Entry)
      /\ Len(ActiveBreakpoints) \in Nat
      /\ writing \in Nat
  BY Members DEF WriteEntry, TypeOK
<1>2. ActiveBreakpointsList[writing] \in ListEntry
  BY <1>1, Members
<1>3. Fresh \in Entry /\ Fresh.loc = ActiveBreakpointsList[writing].loc
  BY <1>2 DEF Fresh, Entry, ListEntry
<1>4. CASE writing <= Len(ActiveBreakpoints)
  <2>1. ActiveBreakpoints' = [ActiveBreakpoints EXCEPT ![writing] = Fresh]
    BY <1>4 DEF WriteEntry
  <2>2. writing \in 1 .. Len(ActiveBreakpoints)
    BY <1>1, <1>4
  <2>3. /\ ActiveBreakpoints' \in Seq(Entry)
        /\ Len(ActiveBreakpoints') = Len(ActiveBreakpoints)
        /\ \A j \in 1 .. Len(ActiveBreakpoints) :
             ActiveBreakpoints'[j] = IF j = writing THEN Fresh ELSE ActiveBreakpoints[j]
    BY <1>1, <1>3, <2>1, <2>2, ExceptSeq
  <2>4. QED
    BY <1>1, <1>3, <1>4, <2>2, <2>3
<1>5. CASE ~(writing <= Len(ActiveBreakpoints))
  <2>1. ActiveBreakpoints' = Append(ActiveBreakpoints, Fresh)
    BY <1>5 DEF WriteEntry
  <2>2. writing = Len(ActiveBreakpoints) + 1
    BY <1>1, <1>5 DEF Written
  <2>3. /\ ActiveBreakpoints' \in Seq(Entry)
        /\ Len(ActiveBreakpoints') = Len(ActiveBreakpoints) + 1
        /\ \A j \in 1 .. Len(ActiveBreakpoints) :
             ActiveBreakpoints'[j] = ActiveBreakpoints[j]
        /\ ActiveBreakpoints'[Len(ActiveBreakpoints) + 1] = Fresh
    BY <1>1, <1>3, <2>1, AppendProperties
  <2>4. QED
    BY <1>1, <1>3, <2>2, <2>3
<1>6. QED
  BY <1>4, <1>5

(* Filling in a length keeps every location, and every length known.       *)
LEMMA MeasureMeasures ==
  ASSUME TypeOK, TableMirrorsList, NEW t \in Threads, Measure(t),
         hook[t].i <= ActiveBreakpointsCount
  PROVE  /\ ActiveBreakpoints' \in Seq(Entry)
         /\ Len(ActiveBreakpoints') = Len(ActiveBreakpoints)
         /\ ActiveBreakpoints'[hook[t].i].measured
         /\ \A j \in 1 .. Len(ActiveBreakpoints) :
              /\ ActiveBreakpoints'[j].loc = ActiveBreakpoints[j].loc
              /\ ActiveBreakpoints[j].measured => ActiveBreakpoints'[j].measured
<1> DEFINE k == hook[t].i
           full == [ActiveBreakpoints[k] EXCEPT !.measured = TRUE]
<1>1. /\ k \in 1 .. Len(ActiveBreakpoints)
      /\ ActiveBreakpoints[k] \in Entry
  <2>1. hook[t] \in Hook
    BY Members
  <2>2. k \in Nat /\ k >= 1
    BY <2>1, BreakpointsAssumption DEF Hook
  <2>3. QED
    BY <2>2, Members
<1>2. full \in Entry /\ full.measured /\ full.loc = ActiveBreakpoints[k].loc
  BY <1>1 DEF Entry
<1>3. ActiveBreakpoints' = [ActiveBreakpoints EXCEPT ![k] = full]
  BY DEF Measure
<1> HIDE DEF k
<1>4. /\ ActiveBreakpoints' \in Seq(Entry)
      /\ Len(ActiveBreakpoints') = Len(ActiveBreakpoints)
      /\ \A j \in 1 .. Len(ActiveBreakpoints) :
           ActiveBreakpoints'[j] = IF j = k THEN full ELSE ActiveBreakpoints[j]
  <2>1. ActiveBreakpoints \in Seq(Entry)
    BY DEF TypeOK
  <2> HIDE DEF full
  <2>2. QED
    BY <1>1, <1>2, <1>3, <2>1, ExceptSeq
<1> HIDE DEF full
<1>5. QED
  BY <1>1, <1>2, <1>4 DEF k

(* t goes on to p, looking at entry n; nothing else of the hook changes.   *)
Moves(t, p, n) ==
  /\ hook' \in [Threads -> Hook]
  /\ hook'[t].pc = p
  /\ hook'[t].i = n
  /\ hook'[t].loc = hook[t].loc
  /\ hook'[t].quiet = hook[t].quiet
  /\ \A u \in Threads \ {t} : hook'[u] = hook[u]

LEMMA StepMoves ==
  ASSUME TypeOK, NEW t \in Threads, NEW p \in Pcs, NEW n \in 1 .. MaxList + 1,
         hook' = [hook EXCEPT ![t] = [hook[t] EXCEPT !.pc = p, !.i = n]]
  PROVE  Moves(t, p, n)
<1>1. hook[t] \in Hook
  BY DEF TypeOK
<1> DEFINE h == [hook[t] EXCEPT !.pc = p, !.i = n]
<1>2. h \in Hook /\ h.pc = p /\ h.i = n
  BY <1>1 DEF Hook, Pcs
<1>3. h.loc = hook[t].loc /\ h.quiet = hook[t].quiet
  BY <1>1 DEF Hook, Pcs
<1>4. hook' = [hook EXCEPT ![t] = h]
  OBVIOUS
<1> HIDE DEF h
<1>5. hook' \in [Threads -> Hook] /\ hook'[t] = h
  BY <1>2, <1>4 DEF TypeOK
<1>6. \A u \in Threads \ {t} : hook'[u] = hook[u]
  BY <1>4 DEF TypeOK
<1>7. QED
  BY <1>2, <1>3, <1>5, <1>6 DEF Moves

LEMMA PcMoves ==
  ASSUME TypeOK, NEW t \in Threads, NEW p \in Pcs,
         hook' = [hook EXCEPT ![t].pc = p]
  PROVE  Moves(t, p, hook[t].i)
<1>1. hook[t] \in Hook
  BY DEF TypeOK
<1> DEFINE h == [hook[t] EXCEPT !.pc = p]
<1>2. h \in Hook /\ h.pc = p /\ h.i = hook[t].i
  BY <1>1 DEF Hook, Pcs
<1>3. h.loc = hook[t].loc /\ h.quiet = hook[t].quiet
  BY <1>1 DEF Hook, Pcs
<1>4. hook' = [hook EXCEPT ![t] = h]
  OBVIOUS
<1> HIDE DEF h
<1>5. hook' \in [Threads -> Hook] /\ hook'[t] = h
  BY <1>2, <1>4 DEF TypeOK
<1>6. \A u \in Threads \ {t} : hook'[u] = hook[u]
  BY <1>4 DEF TypeOK
<1>7. QED
  BY <1>2, <1>3, <1>5, <1>6 DEF Moves

LEMMA NextEntryMoves ==
  ASSUME TypeOK, NEW t \in Threads, hook[t].pc = "scan", hook[t].i <= MaxList,
         hook' = [hook EXCEPT ![t].i = @ + 1]
  PROVE  Moves(t, "scan", hook[t].i + 1)
<1>1. hook[t] \in Hook
  BY DEF TypeOK
<1> DEFINE h == [hook[t] EXCEPT !.i = @ + 1]
<1>2. h \in Hook /\ h.pc = "scan" /\ h.i = hook[t].i + 1
  BY <1>1, BreakpointsAssumption DEF Hook
<1>3. h.loc = hook[t].loc /\ h.quiet = hook[t].quiet
  BY <1>1 DEF Hook
<1>4. hook' = [hook EXCEPT ![t] = h]
  OBVIOUS
<1> HIDE DEF h
<1>5. hook' \in [Threads -> Hook] /\ hook'[t] = h
  BY <1>2, <1>4 DEF TypeOK
<1>6. \A u \in Threads \ {t} : hook'[u] = hook[u]
  BY <1>4 DEF TypeOK
<1>7. QED
  BY <1>2, <1>3, <1>5, <1>6 DEF Moves

(* A location is a script and a line.                                      *)
LEMMA SameLocation ==
  ASSUME NEW l \in Locations, NEW m \in Locations,
         l.source = m.source, l.line = m.line
  PROVE  l = m
BY DEF Locations

-----------------------------------------------------------------------------
(* Steps of the helper.                                                    *)

(* All a thread does to the table: it may fill in lengths.                 *)
TableKept ==
  /\ UNCHANGED Table
  /\ ActiveBreakpoints' \in Seq(Entry)
  /\ Len(ActiveBreakpoints') = Len(ActiveBreakpoints)
  /\ \A j \in 1 .. Len(ActiveBreakpoints) :
       /\ ActiveBreakpoints'[j].loc = ActiveBreakpoints[j].loc
       /\ ActiveBreakpoints[j].measured => ActiveBreakpoints'[j].measured

LEMMA UnchangedTableKept ==
  ASSUME TypeOK, UNCHANGED <<Table, ActiveBreakpoints>>
  PROVE  TableKept
BY DEF TypeOK, TableKept, Table

LEMMA HelperKeepsTable ==
  ASSUME TypeOK, TableMirrorsList, Unloaded, Written, TableKept,
         hook' \in [Threads -> Hook], HitBreakpointIndex' \in Nat
  PROVE  TypeOK' /\ TableMirrorsList' /\ Unloaded' /\ Written'
<1> USE Members DEF TableKept, Table, remote
<1>1. TypeOK'
  BY DEF TypeOK
<1>2. TableMirrorsList'
  BY DEF TableMirrorsList
<1>3. Unloaded'
  BY DEF Unloaded
<1>4. Written'
  BY DEF Written
<1>5. QED
  BY <1>1, <1>2, <1>3, <1>4

(* A thread that does not move loses nothing of what it knows.             *)
LEMMA OthersKnow ==
  ASSUME TypeOK, TableMirrorsList, TableKept, NEW u \in Threads,
         Search(u), hook'[u] = hook[u]
  PROVE  Search(u)'
<1>1. hook[u].i \in Nat /\ hook[u].i >= 1
  BY Members, BreakpointsAssumption DEF Hook
<1>2. QED
  BY <1>1, Members DEF TableKept, Table, remote, Search

(* Moves of threads that do not wait, before and after.                    *)
LEMMA IndexStays ==
  ASSUME IndexOfAWaitingThread, HitBreakpointIndex' = HitBreakpointIndex,
         NEW t \in Threads, hook[t].pc # "hit", hook'[t].pc # "hit",
         \A u \in Threads \ {t} : hook'[u] = hook[u]
  PROVE  IndexOfAWaitingThread'
BY DEF IndexOfAWaitingThread, MaxValue

(* What is left to show of a step of t.                                    *)
StepOf(t) ==
  /\ TableKept
  /\ hook' \in [Threads -> Hook]
  /\ \A u \in Threads \ {t} : hook'[u] = hook[u]
  /\ HitBreakpointIndex' \in Nat
  /\ Search(t)'
  /\ IndexOfAWaitingThread'

LEMMA TraceRoutineStep ==
  ASSUME IInv, NEW t \in Threads, NEW loc \in Locations, TraceRoutine(t, loc)
  PROVE  StepOf(t)
<1> USE DEF IInv
<1> DEFINE h == [pc |-> "scan", loc |-> loc, i |-> 1, quiet |-> writing = 0]
<1>1. h \in Hook
  BY BreakpointsAssumption DEF Hook
<1>2. /\ hook[t].pc = "out"
      /\ hook' = [hook EXCEPT ![t] = h]
      /\ helperLoaded
      /\ UNCHANGED <<Table, ActiveBreakpoints, HitBreakpointIndex>>
  BY DEF TraceRoutine
<1>3. hook' \in [Threads -> Hook] /\ hook'[t] = h
  BY <1>1, <1>2 DEF TypeOK
<1>4. \A u \in Threads \ {t} : hook'[u] = hook[u]
  BY <1>2 DEF TypeOK
<1>5. TableKept
  BY <1>2, UnchangedTableKept
<1>6. h.pc = "scan" /\ h.i = 1 /\ (h.quiet <=> writing = 0)
  BY Zenon
<1> HIDE DEF h
<1>7. Search(t)'
  <2>1. /\ helperLoaded' = helperLoaded /\ writing' = writing
        /\ ActiveBreakpointsCount' = ActiveBreakpointsCount
    BY <1>2 DEF Table, remote
  <2>2. hook'[t].pc = "scan" /\ hook'[t].i = 1 /\ (hook'[t].quiet => writing = 0)
    BY <1>3, <1>6, Zenon
  <2>3. hook'[t].pc # "compare" /\ hook'[t].pc \notin {"found", "hit"}
    BY <2>2
  <2>4. 1 <= ActiveBreakpointsCount + 1 /\ 1 .. 1 - 1 = {}
    BY Members
  <2>5. /\ hook'[t].i <= ActiveBreakpointsCount' + 1
        /\ 1 .. hook'[t].i - 1 = {}
    BY <2>1, <2>2, <2>4, Zenon
  <2>6. QED
    BY <1>2, <2>1, <2>2, <2>3, <2>5, Zenon DEF Search
<1>8. IndexOfAWaitingThread'
  BY <1>2, <1>3, <1>4, <1>6, IndexStays DEF IInv
<1>9. HitBreakpointIndex' \in Nat
  BY <1>2 DEF TypeOK
<1>10. QED
  BY <1>3, <1>4, <1>5, <1>7, <1>8, <1>9 DEF StepOf

LEMMA ScanStep ==
  ASSUME IInv, NEW t \in Threads, Scan(t)
  PROVE  StepOf(t)
<1> USE DEF IInv
<1> DEFINE k == hook[t].i
<1>1. /\ hook[t].pc = "scan"
      /\ k <= ActiveBreakpointsCount
      /\ UNCHANGED <<Table, ActiveBreakpoints, HitBreakpointIndex>>
  BY DEF Scan
<1>2. k \in 1 .. ActiveBreakpointsCount
  BY <1>1, Members, BreakpointsAssumption DEF Hook
<1>3. ActiveBreakpoints[k].loc = ActiveBreakpointsList[k].loc
  BY <1>2 DEF TableMirrorsList
<1>4. TableKept /\ HitBreakpointIndex' \in Nat
  BY <1>1, UnchangedTableKept DEF TypeOK
<1>5. CASE Scanned(t).loc.line = hook[t].loc.line
  <2>1. PICK p \in {"compare", "measure"} :
          /\ hook' = [hook EXCEPT ![t].pc = p]
          /\ p = "compare" => ActiveBreakpoints[k].measured
    BY <1>5 DEF Scan, Scanned
  <2>2. Moves(t, p, k)
    BY <2>1, PcMoves DEF Pcs
  <2>3. Search(t)'
    BY <1>1, <1>2, <1>3, <1>5, <2>1, <2>2
      DEF Search, Moves, Scanned, Table, remote
  <2>4. IndexOfAWaitingThread'
    BY <1>1, <2>2, IndexStays DEF Moves
  <2>5. QED
    BY <1>4, <2>2, <2>3, <2>4 DEF StepOf, Moves
<1>6. CASE Scanned(t).loc.line # hook[t].loc.line
  <2>1. hook' = [hook EXCEPT ![t].i = @ + 1]
    BY <1>6 DEF Scan
  <2>2. Moves(t, "scan", k + 1)
    <3>1. k <= MaxList
      BY <1>2, Members, BreakpointsAssumption
    <3>2. QED
      BY <1>1, <2>1, <3>1, NextEntryMoves
  <2>3. ActiveBreakpointsList[k].loc # hook[t].loc
    BY <1>3, <1>6 DEF Scanned
  <2>4. Search(t)'
    <3>1. /\ helperLoaded' = helperLoaded /\ writing' = writing
          /\ ActiveBreakpointsList' = ActiveBreakpointsList
          /\ ActiveBreakpointsCount' = ActiveBreakpointsCount
          /\ ActiveBreakpointsCount \in Nat
      BY <1>1, Members DEF Table, remote
    <3>2. /\ hook'[t].pc = "scan" /\ hook'[t].i = k + 1
          /\ hook'[t].loc = hook[t].loc /\ hook'[t].quiet = hook[t].quiet
      BY <2>2 DEF Moves
    <3>3. hook[t].quiet =>
            writing = 0 /\ \A j \in 1 .. k : ActiveBreakpointsList[j].loc # hook[t].loc
      BY <1>1, <1>2, <2>3, <3>1 DEF Search
    <3>4. k + 1 <= ActiveBreakpointsCount + 1
      BY <1>2, <3>1
    <3>5. k \in Nat
      BY <1>2, <3>1
    <3>6. /\ hook'[t].i <= ActiveBreakpointsCount' + 1
          /\ 1 .. hook'[t].i - 1 = 1 .. k
          /\ hook'[t].quiet =>
               /\ writing' = 0
               /\ \A j \in 1 .. k : ActiveBreakpointsList'[j].loc # hook'[t].loc
      <4> HIDE DEF k
      <4>1. hook'[t].i <= ActiveBreakpointsCount' + 1
        BY <3>1, <3>2, <3>4, Zenon
      <4>2. hook'[t].i - 1 = k
        BY <3>2, <3>5
      <4>3. hook'[t].quiet =>
              /\ writing' = 0
              /\ \A j \in 1 .. k : ActiveBreakpointsList'[j].loc # hook'[t].loc
        BY <3>1, <3>2, <3>3
      <4>4. QED
        BY <4>1, <4>2, <4>3, Zenon
    <3>7. /\ helperLoaded'
          /\ hook'[t].pc # "compare" /\ hook'[t].pc \notin {"found", "hit"}
      BY <1>1, <3>1, <3>2 DEF Search
    <3>8. QED
      BY <3>2, <3>6, <3>7, Zenon DEF Search
  <2>5. IndexOfAWaitingThread'
    BY <1>1, <2>2, IndexStays DEF Moves
  <2>6. QED
    BY <1>4, <2>2, <2>4, <2>5 DEF StepOf, Moves
<1>7. QED
  BY <1>5, <1>6

LEMMA NotFoundStep ==
  ASSUME IInv, NEW t \in Threads, NotFound(t)
  PROVE  StepOf(t)
<1> USE DEF IInv
<1>1. /\ hook[t].pc = "scan"
      /\ hook' = [hook EXCEPT ![t].pc = "out"]
      /\ UNCHANGED <<Table, ActiveBreakpoints, HitBreakpointIndex>>
  BY DEF NotFound
<1>2. Moves(t, "out", hook[t].i)
  BY <1>1, PcMoves DEF Pcs
<1>3. TableKept /\ HitBreakpointIndex' \in Nat
  BY <1>1, UnchangedTableKept DEF TypeOK
<1>4. Search(t)'
  BY <1>2 DEF Search, Moves
<1>5. IndexOfAWaitingThread'
  BY <1>1, <1>2, IndexStays DEF Moves
<1>6. QED
  BY <1>2, <1>3, <1>4, <1>5 DEF StepOf, Moves

LEMMA MeasureStep ==
  ASSUME IInv, NEW t \in Threads, Measure(t)
  PROVE  StepOf(t)
<1> USE DEF IInv
<1> DEFINE k == hook[t].i
<1>1. /\ hook[t].pc = "measure"
      /\ hook' = [hook EXCEPT ![t].pc = "compare"]
      /\ UNCHANGED <<Table, HitBreakpointIndex>>
  BY DEF Measure
<1>2. Search(t) /\ k \in Nat /\ k >= 1
  BY Members, BreakpointsAssumption DEF Hook
<1>3. k \in 1 .. ActiveBreakpointsCount
  BY <1>1, <1>2, Members DEF Search
<1>4. /\ ActiveBreakpoints' \in Seq(Entry)
      /\ Len(ActiveBreakpoints') = Len(ActiveBreakpoints)
      /\ ActiveBreakpoints'[k].measured
      /\ \A j \in 1 .. Len(ActiveBreakpoints) :
           /\ ActiveBreakpoints'[j].loc = ActiveBreakpoints[j].loc
           /\ ActiveBreakpoints[j].measured => ActiveBreakpoints'[j].measured
  BY <1>3, Members, MeasureMeasures
<1>5. TableKept /\ HitBreakpointIndex' \in Nat
  BY <1>1, <1>4 DEF TableKept, TypeOK
<1>6. Moves(t, "compare", k)
  BY <1>1, PcMoves DEF Pcs
<1>7. Search(t)'
  BY <1>1, <1>2, <1>3, <1>4, <1>6, Members DEF Search, Moves, Table, remote
<1>8. IndexOfAWaitingThread'
  BY <1>1, <1>6, IndexStays DEF Moves
<1>9. QED
  BY <1>5, <1>6, <1>7, <1>8 DEF StepOf, Moves

(* The source decides: the lines are known to agree.                       *)
LEMMA CompareStep ==
  ASSUME IInv, NEW t \in Threads, Compare(t)
  PROVE  StepOf(t)
<1> USE DEF IInv
<1> DEFINE k == hook[t].i
           same == /\ Scanned(t).measured
                   /\ Scanned(t).loc.source = hook[t].loc.source
<1>1. /\ hook[t].pc = "compare"
      /\ UNCHANGED <<Table, ActiveBreakpoints, HitBreakpointIndex>>
  BY DEF Compare
<1>2. Search(t) /\ k \in Nat /\ k >= 1
  BY Members, BreakpointsAssumption DEF Hook
<1>3. k \in 1 .. ActiveBreakpointsCount
  BY <1>1, <1>2, Members DEF Search
<1>4. /\ ActiveBreakpoints[k].loc = ActiveBreakpointsList[k].loc
      /\ ActiveBreakpointsList[k].loc \in Locations
      /\ hook[t].loc \in Locations
      /\ ActiveBreakpointsList[k].loc.line = hook[t].loc.line
  BY <1>1, <1>2, <1>3, Members DEF TableMirrorsList, ListEntry, Hook, Search
<1>5. TableKept /\ HitBreakpointIndex' \in Nat
  BY <1>1, UnchangedTableKept DEF TypeOK
<1>6. /\ helperLoaded' = helperLoaded /\ writing' = writing
      /\ ActiveBreakpointsList' = ActiveBreakpointsList
      /\ ActiveBreakpointsCount' = ActiveBreakpointsCount
      /\ ActiveBreakpointsCount \in Nat
  BY <1>1, Members DEF Table, remote
<1>7. CASE same
  <2>1. hook' = [hook EXCEPT ![t].pc = "found"]
    BY <1>7 DEF Compare
  <2>2. Moves(t, "found", k)
    BY <2>1, PcMoves DEF Pcs
  <2>3. ActiveBreakpointsList[k].loc = hook[t].loc
    BY <1>4, <1>7, SameLocation DEF Scanned
  <2>4. Search(t)'
    BY <1>1, <1>2, <1>6, <2>2, <2>3 DEF Search, Moves
  <2>5. IndexOfAWaitingThread'
    BY <1>1, <2>2, IndexStays DEF Moves
  <2>6. QED
    BY <1>5, <2>2, <2>4, <2>5 DEF StepOf, Moves
<1>8. CASE ~same
  <2>1. hook' = [hook EXCEPT ![t] = [hook[t] EXCEPT !.pc = "scan", !.i = @ + 1]]
    BY <1>8 DEF Compare
  <2>2. k + 1 \in 1 .. MaxList + 1
    BY <1>3, Members, BreakpointsAssumption
  <2>3. Moves(t, "scan", k + 1)
    BY <2>1, <2>2, StepMoves DEF Pcs
  <2>4. hook[t].quiet => ActiveBreakpointsList[k].loc # hook[t].loc
    BY <1>1, <1>2, <1>4, <1>8 DEF Scanned, Search
  <2>5. /\ hook'[t].pc = "scan" /\ hook'[t].i = k + 1
        /\ hook'[t].loc = hook[t].loc /\ hook'[t].quiet = hook[t].quiet
    BY <2>3 DEF Moves
  <2>6. hook[t].quiet =>
          writing = 0 /\ \A j \in 1 .. k : ActiveBreakpointsList[j].loc # hook[t].loc
    BY <1>1, <1>2, <2>4 DEF Search
  <2>7. /\ hook'[t].i <= ActiveBreakpointsCount' + 1
        /\ 1 .. hook'[t].i - 1 = 1 .. k
        /\ hook'[t].quiet =>
             /\ writing' = 0
             /\ \A j \in 1 .. k : ActiveBreakpointsList'[j].loc # hook'[t].loc
    <3> HIDE DEF k
    <3>1. k + 1 <= ActiveBreakpointsCount + 1
      BY <1>3, <1>6
    <3>2. hook'[t].i <= ActiveBreakpointsCount' + 1
      BY <1>6, <2>5, <3>1, Zenon
    <3>3. hook'[t].i - 1 = k
      BY <1>2, <2>5
    <3>4. hook'[t].quiet =>
            /\ writing' = 0
            /\ \A j \in 1 .. k : ActiveBreakpointsList'[j].loc # hook'[t].loc
      BY <1>6, <2>5, <2>6
    <3>5. QED
      BY <3>2, <3>3, <3>4, Zenon
  <2>8. /\ helperLoaded'
        /\ hook'[t].pc # "compare" /\ hook'[t].pc \notin {"found", "hit"}
    BY <1>1, <1>2, <1>6, <2>5 DEF Search
  <2>9. Search(t)'
    BY <2>5, <2>7, <2>8, Zenon DEF Search
  <2>10. IndexOfAWaitingThread'
    BY <1>1, <2>3, IndexStays DEF Moves
  <2>11. QED
    BY <1>5, <2>3, <2>9, <2>10 DEF StepOf, Moves
<1>9. QED
  BY <1>7, <1>8

(* A thread that starts to wait is the one the index names.                *)
LEMMA WriteHitBreakpointIndexStep ==
  ASSUME IInv, NEW t \in Threads, WriteHitBreakpointIndex(t)
  PROVE  StepOf(t)
<1> USE DEF IInv
<1> DEFINE k == hook[t].i
<1>1. /\ hook[t].pc = "found"
      /\ hook' = [hook EXCEPT ![t].pc = "hit"]
      /\ HitBreakpointIndex' = k
      /\ UNCHANGED <<Table, ActiveBreakpoints>>
  BY DEF WriteHitBreakpointIndex
<1>2. Search(t) /\ k \in Nat
  BY Members, BreakpointsAssumption DEF Hook
<1>3. TableKept
  BY <1>1, UnchangedTableKept
<1>4. Moves(t, "hit", k)
  BY <1>1, PcMoves DEF Pcs
<1>5. Search(t)'
  BY <1>1, <1>2, <1>4 DEF Search, Moves, Table, remote
<1>6. IndexOfAWaitingThread'
  BY <1>1, <1>4 DEF IndexOfAWaitingThread, Moves
<1>7. QED
  BY <1>1, <1>2, <1>3, <1>4, <1>5, <1>6 DEF StepOf, Moves

(* The index is cleared: a thread that waits named an entry of the list.   *)
LEMMA OnBreakpointHitStep ==
  ASSUME IInv, NEW t \in Threads, OnBreakpointHit(t)
  PROVE  StepOf(t)
<1> USE DEF IInv
<1>1. /\ hook[t].pc = "hit"
      /\ hook' = [hook EXCEPT ![t].pc = "out"]
      /\ UNCHANGED <<Table, ActiveBreakpoints>>
  BY DEF OnBreakpointHit, Table
<1>2. Moves(t, "out", hook[t].i)
  BY <1>1, PcMoves DEF Pcs
<1>3. TableKept
  BY <1>1, UnchangedTableKept
<1>4. HitBreakpointIndex' = MaxValue
  <2>1. CASE HitBreakpointIndex = MaxValue
    BY <2>1 DEF OnBreakpointHit
  <2>2. CASE HitBreakpointIndex # MaxValue
    <3>1. PICK u \in Threads : hook[u].pc = "hit" /\ hook[u].i = HitBreakpointIndex
      BY <1>1, <2>2 DEF IndexOfAWaitingThread
    <3>2. hook[u].i \in Nat /\ hook[u].i >= 1
      BY Members, BreakpointsAssumption DEF Hook
    <3>3. hook[u].i <= ActiveBreakpointsCount
      BY <3>1 DEF Search
    <3>4. HitBreakpointIndex \in 1 .. Len(ActiveBreakpointsList)
      BY <3>1, <3>2, <3>3, Members
    <3>5. QED
      BY <3>4 DEF OnBreakpointHit
  <2>3. QED
    BY <2>1, <2>2
<1>5. Search(t)'
  BY <1>2 DEF Search, Moves
<1>6. IndexOfAWaitingThread'
  BY <1>4 DEF IndexOfAWaitingThread
<1>7. QED
  BY <1>2, <1>3, <1>4, <1>5, <1>6 DEF StepOf, Moves, MaxValue

LEMMA HelperStep ==
  ASSUME IInv, NEW t \in Threads, Helper(t)
  PROVE  IInv'
<1>1. StepOf(t)
  BY TraceRoutineStep, ScanStep, NotFoundStep, MeasureStep, CompareStep,
     WriteHitBreakpointIndexStep, OnBreakpointHitStep DEF Helper
<1>2. TypeOK' /\ TableMirrorsList' /\ Unloaded' /\ Written'
  BY <1>1, HelperKeepsTable DEF IInv, StepOf
<1>3. \A u \in Threads : Search(u)'
  <2>1. ASSUME NEW u \in Threads, u # t  PROVE Search(u)'
    BY <1>1, <2>1, OthersKnow DEF IInv, StepOf
  <2>2. QED
    BY <1>1, <2>1 DEF StepOf
<1>4. QED
  BY <1>1, <1>2, <1>3 DEF IInv, StepOf

-----------------------------------------------------------------------------
(* Steps of the remote component.                                          *)

(* An update disturbs every search, and moves no thread.                   *)
LEMMA DisturbDisturbs ==
  ASSUME TypeOK, Disturb
  PROVE  /\ hook' \in [Threads -> Hook]
         /\ \A u \in Threads :
              /\ hook'[u].pc = hook[u].pc
              /\ hook'[u].loc = hook[u].loc
              /\ hook'[u].i = hook[u].i
              /\ helperLoaded => ~hook'[u].quiet
<1> DEFINE h(u) == [hook[u] EXCEPT !.quiet = @ /\ ~helperLoaded]
<1>1. ASSUME NEW u \in Threads
      PROVE  /\ h(u) \in Hook
             /\ h(u).pc = hook[u].pc
             /\ h(u).loc = hook[u].loc
             /\ h(u).i = hook[u].i
             /\ helperLoaded => ~h(u).quiet
  <2>1. hook[u] \in Hook
    BY DEF TypeOK
  <2>2. CASE helperLoaded
    <3>1. (hook[u].quiet /\ ~helperLoaded) = FALSE
      BY <2>2, Zenon
    <3>2. h(u) = [hook[u] EXCEPT !.quiet = FALSE]
      BY <3>1, Zenon
    <3> HIDE DEF h
    <3>3. QED
      BY <2>1, <3>2 DEF Hook
  <2>3. CASE ~helperLoaded
    <3> DEFINE q == hook[u].quiet /\ ~helperLoaded
    <3>1. q \in BOOLEAN
      BY Zenon
    <3>2. h(u) = [hook[u] EXCEPT !.quiet = q]
      OBVIOUS
    <3> HIDE DEF h, q
    <3>3. h(u).pc = hook[u].pc /\ h(u).loc = hook[u].loc /\ h(u).i = hook[u].i
      BY <2>1, <3>2 DEF Hook
    <3>4. h(u) \in Hook
      BY <2>1, <3>1, <3>2 DEF Hook
    <3>5. QED
      BY <2>3, <3>3, <3>4
  <2>4. QED
    BY <2>2, <2>3
<1>2. hook' = [u \in Threads |-> h(u)]
  BY DEF Disturb
<1> HIDE DEF h
<1>3. QED
  BY <1>1, <1>2

(* What a thread knows survives an update that begins.                     *)
LEMMA SearchDisturbed ==
  ASSUME TypeOK, TableMirrorsList, Disturb, NEW u \in Threads, Search(u),
         helperLoaded' = helperLoaded,
         ActiveBreakpointsCount' = ActiveBreakpointsCount,
         \A j \in 1 .. Len(ActiveBreakpointsList) :
           ActiveBreakpointsList'[j] = ActiveBreakpointsList[j]
  PROVE  Search(u)'
<1>1. hook[u].i \in Nat /\ hook[u].i >= 1
  BY Members, BreakpointsAssumption DEF Hook
<1>2. /\ hook'[u].pc = hook[u].pc
      /\ hook'[u].loc = hook[u].loc
      /\ hook'[u].i = hook[u].i
      /\ helperLoaded => ~hook'[u].quiet
  BY DisturbDisturbs
<1>3. hook[u].i <= ActiveBreakpointsCount =>
        ActiveBreakpointsList'[hook[u].i] = ActiveBreakpointsList[hook[u].i]
  BY <1>1, Members
<1>4. QED
  BY <1>2, <1>3 DEF Search

LEMMA EnableStep ==
  ASSUME IInv, NEW b \in Breakpoints, EnableRuntimeBreakpoint(b)
  PROVE  IInv'
<1> USE DEF IInv
<1>1. /\ writing = 0
      /\ Len(ActiveBreakpointsList) < MaxList
      /\ enabled' = enabled \cup {b}
      /\ writing' = IF helperLoaded THEN 1 ELSE 0
      /\ Disturb
      /\ at' = at /\ helperLoaded' = helperLoaded
      /\ ActiveBreakpoints' = ActiveBreakpoints
      /\ ActiveBreakpointsCount' = ActiveBreakpointsCount
      /\ HitBreakpointIndex' = HitBreakpointIndex
  BY DEF EnableRuntimeBreakpoint, BeginUpdateBreakpoints
<1>2. /\ ActiveBreakpointsList' \in Seq(ListEntry)
      /\ Len(ActiveBreakpointsList') = Len(ActiveBreakpointsList) + 1
      /\ \A j \in 1 .. Len(ActiveBreakpointsList) :
           ActiveBreakpointsList'[j] = ActiveBreakpointsList[j]
  BY EnableExtendsList
<1>3. /\ hook' \in [Threads -> Hook]
      /\ \A u \in Threads : hook'[u].pc = hook[u].pc /\ hook'[u].i = hook[u].i
  BY <1>1, DisturbDisturbs
<1>4. TypeOK'
  BY <1>1, <1>2, <1>3, Members, BreakpointsAssumption DEF TypeOK, ListEntry
<1>5. TableMirrorsList'
  BY <1>1, <1>2, Members DEF TableMirrorsList, Unloaded
<1>6. Unloaded'
  BY <1>1 DEF Unloaded
<1>7. Written'
  BY <1>1, Members DEF Written
<1>8. \A u \in Threads : Search(u)'
  BY <1>1, <1>2, SearchDisturbed
<1>9. IndexOfAWaitingThread'
  BY <1>1, <1>3 DEF IndexOfAWaitingThread
<1>10. QED
  BY <1>4, <1>5, <1>6, <1>7, <1>8, <1>9

LEMMA DisableStep ==
  ASSUME IInv, NEW b \in Breakpoints, DisableRuntimeBreakpoint(b)
  PROVE  IInv'
<1> USE DEF IInv
<1>1. /\ writing = 0
      /\ enabled' = enabled \ {b}
      /\ writing' = IF helperLoaded THEN 1 ELSE 0
      /\ Disturb
      /\ at' = at /\ helperLoaded' = helperLoaded
      /\ ActiveBreakpointsList' = ActiveBreakpointsList
      /\ ActiveBreakpoints' = ActiveBreakpoints
      /\ ActiveBreakpointsCount' = ActiveBreakpointsCount
      /\ HitBreakpointIndex' = HitBreakpointIndex
  BY DEF DisableRuntimeBreakpoint, BeginUpdateBreakpoints
<1>2. /\ hook' \in [Threads -> Hook]
      /\ \A u \in Threads : hook'[u].pc = hook[u].pc /\ hook'[u].i = hook[u].i
  BY <1>1, DisturbDisturbs
<1>3. TypeOK'
  BY <1>1, <1>2, Members DEF TypeOK
<1>4. TableMirrorsList'
  BY <1>1, Members DEF TableMirrorsList, Unloaded
<1>5. Unloaded'
  BY <1>1 DEF Unloaded
<1>6. Written'
  BY <1>1, Members DEF Written
<1>7. \A u \in Threads : Search(u)'
  BY <1>1, SearchDisturbed
<1>8. IndexOfAWaitingThread'
  BY <1>1, <1>2 DEF IndexOfAWaitingThread
<1>9. QED
  BY <1>3, <1>4, <1>5, <1>6, <1>7, <1>8

(* The entry written has the location it had, or none read it yet.         *)
LEMMA WriteEntryStep ==
  ASSUME IInv, WriteEntry
  PROVE  IInv'
<1> USE DEF IInv
<1>1. /\ writing \in 1 .. Len(ActiveBreakpointsList)
      /\ writing' = writing + 1
      /\ at' = at /\ enabled' = enabled /\ helperLoaded' = helperLoaded
      /\ ActiveBreakpointsList' = ActiveBreakpointsList
      /\ ActiveBreakpointsCount' = ActiveBreakpointsCount
      /\ HitBreakpointIndex' = HitBreakpointIndex
      /\ hook' = hook
  BY DEF WriteEntry
<1>2. /\ ActiveBreakpoints' \in Seq(Entry)
      /\ Len(ActiveBreakpoints') \in Nat
      /\ Len(ActiveBreakpoints) <= Len(ActiveBreakpoints')
      /\ writing <= Len(ActiveBreakpoints')
      /\ ActiveBreakpoints'[writing].loc = ActiveBreakpointsList[writing].loc
      /\ \A j \in 1 .. Len(ActiveBreakpoints) :
           j # writing => ActiveBreakpoints'[j] = ActiveBreakpoints[j]
  BY WriteEntryWrites
<1>3. TypeOK'
  BY <1>1, <1>2, Members DEF TypeOK
<1>4. TableMirrorsList'
  <2>1. ASSUME NEW j \in 1 .. ActiveBreakpointsCount
        PROVE  ActiveBreakpoints'[j].loc = ActiveBreakpointsList[j].loc
    BY <1>2, Members DEF TableMirrorsList
  <2>2. writing' # 0
    BY <1>1, Members
  <2>3. QED
    BY <1>1, <2>1, <2>2, Members DEF TableMirrorsList
<1>5. Unloaded'
  <2>1. helperLoaded
    BY <1>1, Members DEF Unloaded
  <2>2. QED
    BY <1>1, <2>1 DEF Unloaded
<1>6. Written'
  <2>1. ASSUME NEW j \in 1 .. writing
        PROVE  ActiveBreakpoints'[j].loc = ActiveBreakpointsList[j].loc
    BY <1>1, <1>2, Members DEF Written
  <2>2. writing' - 1 = writing
    BY <1>1, Members
  <2>3. QED
    BY <1>1, <1>2, <2>1, <2>2 DEF Written
<1>7. ASSUME NEW u \in Threads  PROVE Search(u)'
  <2>1. hook[u].pc # "out" => ~hook[u].quiet
    BY <1>1, Members DEF Search
  <2>2. QED
    BY <1>1, <2>1 DEF Search
<1>8. IndexOfAWaitingThread'
  BY <1>1 DEF IndexOfAWaitingThread
<1>9. QED
  BY <1>3, <1>4, <1>5, <1>6, <1>7, <1>8

(* The count rises to entries that are all written.                        *)
LEMMA WriteCountStep ==
  ASSUME IInv, WriteCount
  PROVE  IInv'
<1> USE DEF IInv
<1>1. /\ writing = Len(ActiveBreakpointsList) + 1
      /\ writing' = 0
      /\ at' = at /\ enabled' = enabled /\ helperLoaded' = helperLoaded
      /\ ActiveBreakpointsList' = ActiveBreakpointsList
      /\ ActiveBreakpoints' = ActiveBreakpoints
      /\ ActiveBreakpointsCount' = Len(ActiveBreakpointsList)
      /\ HitBreakpointIndex' = HitBreakpointIndex
      /\ hook' = hook
  BY DEF WriteCount
<1>2. /\ Len(ActiveBreakpointsList) <= Len(ActiveBreakpoints)
      /\ \A j \in 1 .. Len(ActiveBreakpointsList) :
           ActiveBreakpoints[j].loc = ActiveBreakpointsList[j].loc
  BY <1>1, Members DEF Written
<1>3. TypeOK'
  BY <1>1, <1>2, Members DEF TypeOK
<1>4. TableMirrorsList'
  BY <1>1, <1>2, Members DEF TableMirrorsList
<1>5. helperLoaded /\ writing # 0
  BY <1>1, Members DEF Unloaded
<1>6. Unloaded'
  BY <1>1, <1>5 DEF Unloaded
<1>7. Written'
  BY <1>1, Members DEF Written
<1>8. ASSUME NEW u \in Threads  PROVE Search(u)'
  <2>1. hook[u].i \in Nat /\ hook[u].i >= 1
    BY Members, BreakpointsAssumption DEF Hook
  <2>2. /\ hook[u].i <= ActiveBreakpointsCount + 1 =>
             hook[u].i <= Len(ActiveBreakpointsList) + 1
        /\ hook[u].i <= ActiveBreakpointsCount =>
             hook[u].i <= Len(ActiveBreakpointsList)
    BY <2>1, Members
  <2>3. QED
    BY <1>1, <1>5, <2>2 DEF Search
<1>9. IndexOfAWaitingThread'
  BY <1>1 DEF IndexOfAWaitingThread
<1>10. QED
  BY <1>3, <1>4, <1>6, <1>7, <1>8, <1>9

LEMMA HelperLocationsStep ==
  ASSUME IInv, HelperLocationsNotification
  PROVE  IInv'
<1> USE DEF IInv, HelperLocationsNotification
<1>1. TypeOK'
  BY DEF TypeOK
<1>2. TableMirrorsList' /\ Unloaded' /\ Written'
  BY DEF TableMirrorsList, Unloaded, Written
<1>3. (\A u \in Threads : Search(u)') /\ IndexOfAWaitingThread'
  BY DEF Search, IndexOfAWaitingThread
<1>4. QED
  BY <1>1, <1>2, <1>3

-----------------------------------------------------------------------------
(* The invariant and what follows from it.                                 *)

LEMMA InitIInv == Init => IInv
<1> SUFFICES ASSUME Init PROVE IInv
  OBVIOUS
<1> USE BreakpointsAssumption
<1>1. /\ ActiveBreakpointsList \in Seq(ListEntry)
      /\ ActiveBreakpoints \in Seq(Entry)
      /\ Len(ActiveBreakpointsList) = 0 /\ Len(ActiveBreakpoints) = 0
  BY EmptySeq DEF Init
<1>2. hook \in [Threads -> Hook] /\ \A t \in Threads : hook[t].pc = "out"
  BY DEF Init
<1>3. TypeOK
  <2>1. /\ at \in [Breakpoints -> Locations]
        /\ enabled \subseteq Breakpoints
        /\ helperLoaded \in BOOLEAN
        /\ HitBreakpointIndex \in Nat
    BY DEF Init
  <2>2. writing = 0 /\ ActiveBreakpointsCount = 0
    BY DEF Init
  <2>3. QED
    BY <1>1, <1>2, <2>1, <2>2 DEF TypeOK, ListEntry
<1>4. TableMirrorsList /\ Unloaded /\ Written
  BY <1>1 DEF Init, TableMirrorsList, Unloaded, Written
<1>5. (\A t \in Threads : Search(t)) /\ IndexOfAWaitingThread
  BY <1>2 DEF Search, IndexOfAWaitingThread
<1>6. QED
  BY <1>3, <1>4, <1>5 DEF IInv

LEMMA StutterIInv ==
  ASSUME IInv, UNCHANGED vars
  PROVE  IInv'
<1> USE DEF vars, remote
<1>1. TypeOK'
  BY DEF IInv, TypeOK
<1>2. TableMirrorsList' /\ Unloaded' /\ Written'
  BY DEF IInv, TableMirrorsList, Unloaded, Written
<1>3. (\A t \in Threads : Search(t)') /\ IndexOfAWaitingThread'
  BY DEF IInv, Search, IndexOfAWaitingThread
<1>4. QED
  BY <1>1, <1>2, <1>3 DEF IInv

LEMMA NextIInv == IInv /\ [Next]_vars => IInv'
<1> SUFFICES ASSUME IInv, [Next]_vars PROVE IInv'
  OBVIOUS
<1>1. CASE Remote
  BY <1>1, EnableStep, DisableStep, WriteEntryStep, WriteCountStep,
     HelperLocationsStep DEF Remote
<1>2. CASE \E t \in Threads : Helper(t)
  BY <1>2, HelperStep
<1>3. CASE UNCHANGED vars
  BY <1>3, StutterIInv
<1>4. QED
  BY <1>1, <1>2, <1>3 DEF Next

LEMMA Invariance == Spec => []IInv
<1>1. QED
  BY InitIInv, NextIInv, PTL DEF Spec

(* Whatever the threads do to the table while UpdateBreakpoints writes it, *)
(* every variable stays in its type, and the count within the table.       *)
THEOREM TypeCorrect == Spec => []TypeOK
<1>1. IInv => TypeOK
  BY DEF IInv
<1>2. QED
  BY <1>1, Invariance, PTL

(* The part of the table that TraceLine reads always agrees with the list  *)
(* of the remote component, so that an index into one means the same       *)
(* breakpoint in the other.                                                *)
THEOREM Mirrored == Spec => []TableMirrorsList
<1>1. IInv => TableMirrorsList
  BY DEF IInv
<1>2. QED
  BY <1>1, Invariance, PTL

(* For any number of threads, the index OnBreakpointHit reads names the    *)
(* line of a thread that waits, or nothing: no hit is reported again after *)
(* it was handled.                                                         *)
THEOREM HitsNamed == Spec => []HitNamesAWaitingThread
<1>1. IInv => HitNamesAWaitingThread
  <2> USE DEF IInv
  <2>1. SUFFICES ASSUME IInv, \E t \in Threads : hook[t].pc = "hit",
                        HitBreakpointIndex # MaxValue
                 PROVE  \E t \in Threads :
                          /\ hook[t].pc = "hit"
                          /\ HitBreakpointIndex \in 1 .. Len(ActiveBreakpointsList)
                          /\ ActiveBreakpointsList[HitBreakpointIndex].loc = hook[t].loc
    BY DEF HitNamesAWaitingThread
  <2>2. PICK t \in Threads : hook[t].pc = "hit" /\ hook[t].i = HitBreakpointIndex
    BY <2>1 DEF IndexOfAWaitingThread
  <2>3. hook[t].i \in Nat /\ hook[t].i >= 1
    BY <2>1, Members, BreakpointsAssumption DEF Hook
  <2>4. /\ hook[t].i <= ActiveBreakpointsCount
        /\ ActiveBreakpointsList[hook[t].i].loc = hook[t].loc
    BY <2>1, <2>2 DEF Search
  <2>5. HitBreakpointIndex \in 1 .. Len(ActiveBreakpointsList)
    BY <2>1, <2>2, <2>3, <2>4, Members
  <2>6. QED
    BY <2>2, <2>4, <2>5
<1>2. QED
  BY <1>1, Invariance, PTL

(* From the first update after the helper was loaded on, TraceLine misses  *)
(* no breakpoint of the list on its line unless an update was going on at  *)
(* some moment of its search.                                              *)
THEOREM NothingMissed == Spec => []NoMissedHit
<1>1. IInv => NoMissedHit
  <2> SUFFICES ASSUME IInv, NEW t \in Threads, hook[t].pc # "out", hook[t].quiet
               PROVE  /\ \A i \in 1 .. hook[t].i - 1 :
                           ActiveBreakpointsList[i].loc # hook[t].loc
                      /\ hook[t].i > ActiveBreakpointsCount
                         /\ ActiveBreakpointsCount > 0 =>
                           \A i \in 1 .. Len(ActiveBreakpointsList) :
                             ActiveBreakpointsList[i].loc # hook[t].loc
    BY DEF NoMissedHit
  <2>1. /\ writing = 0
        /\ \A i \in 1 .. hook[t].i - 1 : ActiveBreakpointsList[i].loc # hook[t].loc
    BY DEF IInv, Search
  <2>2. ActiveBreakpointsCount > 0 =>
          ActiveBreakpointsCount = Len(ActiveBreakpointsList)
    BY <2>1 DEF IInv, TableMirrorsList
  <2>3. hook[t].i \in Nat /\ Len(ActiveBreakpointsList) \in Nat
    BY Members, BreakpointsAssumption DEF IInv, Hook
  <2>4. QED
    BY <2>1, <2>2, <2>3
<1>2. QED
  BY <1>1, Invariance, PTL

(* One thread that hits breakpoints: nobody else writes the index between  *)
(* its hit and the handler.                                                *)
OneThread == \E t \in Threads : Threads = {t}

OwnIndex == \A t \in Threads : hook[t].pc = "hit" => HitBreakpointIndex = hook[t].i

LEMMA OwnIndexKept ==
  ASSUME OneThread, IInv, OwnIndex, [Next]_vars
  PROVE  OwnIndex'
<1>1. TypeOK
  BY DEF IInv
<1>2. ASSUME NEW b \in Breakpoints,
             EnableRuntimeBreakpoint(b) \/ DisableRuntimeBreakpoint(b)
      PROVE  OwnIndex'
  <2>1. Disturb /\ HitBreakpointIndex' = HitBreakpointIndex
    BY <1>2 DEF EnableRuntimeBreakpoint, DisableRuntimeBreakpoint
  <2>2. \A u \in Threads : hook'[u].pc = hook[u].pc /\ hook'[u].i = hook[u].i
    BY <1>1, <2>1, DisturbDisturbs
  <2>3. QED
    BY <2>1, <2>2 DEF OwnIndex
<1>3. CASE WriteEntry \/ WriteCount \/ HelperLocationsNotification \/ UNCHANGED vars
  BY <1>3 DEF WriteEntry, WriteCount, HelperLocationsNotification, vars, OwnIndex
<1>4. ASSUME NEW t \in Threads, Helper(t)
      PROVE  OwnIndex'
  <2>1. Threads = {t}
    BY <1>4 DEF OneThread
  <2>2. SUFFICES ASSUME hook'[t].pc = "hit"  PROVE HitBreakpointIndex' = hook'[t].i
    BY <2>1 DEF OwnIndex
  <2>3. hook[t] \in Hook /\ hook \in [Threads -> Hook]
    BY <1>1 DEF TypeOK
  <2>4. CASE WriteHitBreakpointIndex(t)
    <3>1. Moves(t, "hit", hook[t].i)
      BY <1>1, <2>4, PcMoves DEF WriteHitBreakpointIndex, Pcs
    <3>2. QED
      BY <2>4, <3>1 DEF WriteHitBreakpointIndex, Moves
  <2>5. CASE \E loc \in Locations : TraceRoutine(t, loc)
    BY <2>2, <2>3, <2>5 DEF TraceRoutine
  <2>6. CASE Scan(t) \/ NotFound(t) \/ Measure(t) \/ Compare(t) \/ OnBreakpointHit(t)
    <3>1. hook'[t].pc \in {"scan", "measure", "compare", "found", "out"}
      BY <2>3, <2>6 DEF Scan, NotFound, Measure, Compare, OnBreakpointHit, Hook
    <3>2. QED
      BY <2>2, <3>1
  <2>7. QED
    BY <1>4, <2>4, <2>5, <2>6 DEF Helper
<1>5. QED
  BY <1>2, <1>3, <1>4 DEF Next, Remote

(* Where only one thread runs Squirrel code, the index that OnBreakpointHit*)
(* reads is that of the breakpoint on the line the thread executes, however*)
(* the table was rewritten since the thread found it.                      *)
THEOREM OneThreadHitValid ==
  ASSUME OneThread
  PROVE  Spec => []HitIsValid
<1>1. Init => OwnIndex
  BY DEF Init, OwnIndex
<1>2. IInv /\ OwnIndex => HitIsValid
  <2> USE DEF IInv
  <2>1. SUFFICES ASSUME IInv, OwnIndex, NEW t \in Threads, hook[t].pc = "hit"
                 PROVE  /\ HitBreakpointIndex \in 1 .. Len(ActiveBreakpointsList)
                        /\ ActiveBreakpointsList[HitBreakpointIndex].loc = hook[t].loc
    BY DEF HitIsValid
  <2>2. HitBreakpointIndex = hook[t].i
    BY <2>1 DEF OwnIndex
  <2>3. hook[t].i \in Nat /\ hook[t].i >= 1
    BY <2>1, Members, BreakpointsAssumption DEF Hook
  <2>4. /\ hook[t].i <= ActiveBreakpointsCount
        /\ ActiveBreakpointsList[hook[t].i].loc = hook[t].loc
    BY <2>1 DEF Search
  <2>5. QED
    BY <2>1, <2>2, <2>3, <2>4, Members
<1>3. IInv /\ OwnIndex /\ [Next]_vars => OwnIndex'
  BY OwnIndexKept
<1>4. QED
  BY <1>1, <1>2, <1>3, Invariance, PTL DEF Spec

=============================================================================
