----------------------------- MODULE Breakpoints -----------------------------
(***************************************************************************)
(* Breakpoints in Squirrel code.  RemoteComponent keeps a list of them and *)
(* copies it, one memory write after the other, into the ActiveBreakpoints *)
(* table of the helper DLL, while the threads of the debuggee go on and    *)
(* search that table in the debug hook (TraceLine).  A thread that finds   *)
(* its line leaves the index of the entry in HitBreakpointIndex, a global  *)
(* shared by all threads, and runs into the helper's breakpoint; the       *)
(* component reads the index back and reports the breakpoint it stands for.*)
(*                                                                         *)
(* The debug engine (external) creates breakpoints, never enables one      *)
(* twice in a row, and calls the component for one breakpoint at a time.   *)
(* Indices start at 1 here, and 0 stands for ulong.MaxValue.               *)
(***************************************************************************)
EXTENDS Integers, Sequences

CONSTANTS
  Threads,        (* threads of the debuggee that run Squirrel code        *)
  Breakpoints,    (* runtime breakpoints of the debug engine               *)
  Sources, Lines, (* names of scripts, line numbers                        *)
  MaxList         (* bound: entries ever added to the list                 *)

ASSUME BreakpointsAssumption == MaxList \in Nat

Locations == [source : Sources, line : Lines]
MaxValue == 0

VARIABLES
  at,                     (* location of each breakpoint                   *)
  enabled,                (* breakpoints the engine has enabled            *)
  helperLoaded,           (* remote: are the helper's addresses known?     *)
  ActiveBreakpointsList,  (* remote: ActiveBreakpoints, locations and      *)
                          (* breakpoints in the order they were enabled    *)
  writing,                (* remote: entry UpdateBreakpoints writes next,  *)
                          (* or 0 outside of it                            *)
  ActiveBreakpoints,      (* helper: the table                             *)
  ActiveBreakpointsCount, (* helper: entries in use                        *)
  HitBreakpointIndex,     (* helper: index of the last hit                 *)
  hook                    (* helper: what each thread does in the hook     *)

remote == <<helperLoaded, ActiveBreakpointsList, writing>>
vars == <<at, enabled, remote, ActiveBreakpoints, ActiveBreakpointsCount,
          HitBreakpointIndex, hook>>

(* SourceLength is 0 in a fresh entry; the hook fills in the real length.  *)
Entry == [loc : Locations, measured : BOOLEAN]

(* A thread in the hook: where it is in TraceRoutine, the line it reports, *)
(* the entry it looks at, and, for the properties only, whether no update  *)
(* of the table was going on since it entered.                             *)
Hook == [pc : {"out", "scan", "measure", "compare", "found", "hit"},
         loc : Locations, i : 1 .. MaxList + 1, quiet : BOOLEAN]

Init ==
  /\ at \in [Breakpoints -> Locations]
  /\ enabled = {}
  /\ helperLoaded = FALSE
  /\ ActiveBreakpointsList = <<>>
  /\ writing = 0
  /\ ActiveBreakpoints = <<>>
  /\ ActiveBreakpointsCount = 0
  /\ HitBreakpointIndex = 1
  /\ hook \in [Threads -> {h \in Hook : h.pc = "out" /\ h.i = 1 /\ h.quiet}]

-----------------------------------------------------------------------------
(* The remote component.                                                   *)

(* Before the helper is loaded there is nowhere to write to.               *)
BeginUpdateBreakpoints == writing' = IF helperLoaded THEN 1 ELSE 0

Disturb == hook' = [t \in Threads |-> [hook[t] EXCEPT !.quiet = @ /\ ~helperLoaded]]

EnableRuntimeBreakpoint(b) ==
  /\ writing = 0
  /\ b \notin enabled
  /\ Len(ActiveBreakpointsList) < MaxList
  /\ enabled' = enabled \cup {b}
  /\ ActiveBreakpointsList' = Append(ActiveBreakpointsList, [loc |-> at[b], bp |-> b])
  /\ BeginUpdateBreakpoints
  /\ Disturb
  /\ UNCHANGED <<at, helperLoaded, ActiveBreakpoints, ActiveBreakpointsCount,
                 HitBreakpointIndex>>

(* Faulty: the location is removed, and later entries move down, while the *)
(* hook runs.                                                              *)
DisableAndRemove(b) ==
  /\ writing = 0
  /\ b \in enabled
  /\ enabled' = enabled \ {b}
  /\ ActiveBreakpointsList' = SelectSeq(ActiveBreakpointsList, LAMBDA e : e.loc # at[b])
  /\ BeginUpdateBreakpoints
  /\ Disturb
  /\ UNCHANGED <<at, helperLoaded, ActiveBreakpoints, ActiveBreakpointsCount,
                 HitBreakpointIndex>>

(* RemoveAll compares the decoded SourceLocation with those in the list;   *)
(* the class defines no equality, so two different objects never match and *)
(* nothing is removed.                                                     *)
DisableRuntimeBreakpoint(b) ==
  /\ writing = 0
  /\ b \in enabled
  /\ enabled' = enabled \ {b}
  /\ BeginUpdateBreakpoints
  /\ Disturb
  /\ UNCHANGED <<at, helperLoaded, ActiveBreakpointsList, ActiveBreakpoints,
                 ActiveBreakpointsCount, HitBreakpointIndex>>

(* The string of an entry, the pointer to it and its line are written over *)
(* the same values, or beyond the count; only the length reset is news to  *)
(* the hook.                                                               *)
Fresh == [loc |-> ActiveBreakpointsList[writing].loc, measured |-> FALSE]

WriteEntry ==
  /\ writing \in 1 .. Len(ActiveBreakpointsList)
  /\ ActiveBreakpoints' = IF writing <= Len(ActiveBreakpoints)
                            THEN [ActiveBreakpoints EXCEPT ![writing] = Fresh]
                            ELSE Append(ActiveBreakpoints, Fresh)
  /\ writing' = writing + 1
  /\ UNCHANGED <<at, enabled, helperLoaded, ActiveBreakpointsList,
                 ActiveBreakpointsCount, HitBreakpointIndex, hook>>

(* Faulty: the count is raised before the last entry is written.           *)
WriteCountEarly ==
  /\ writing > 0
  /\ writing >= Len(ActiveBreakpointsList)
  /\ ActiveBreakpointsCount' = Len(ActiveBreakpointsList)
  /\ writing' = 0
  /\ UNCHANGED <<at, enabled, helperLoaded, ActiveBreakpointsList, ActiveBreakpoints,
                 HitBreakpointIndex, hook>>

WriteCount ==
  /\ writing = Len(ActiveBreakpointsList) + 1
  /\ ActiveBreakpointsCount' = Len(ActiveBreakpointsList)
  /\ writing' = 0
  /\ UNCHANGED <<at, enabled, helperLoaded, ActiveBreakpointsList, ActiveBreakpoints,
                 HitBreakpointIndex, hook>>

(* The addresses arrive when the helper is loaded; what was enabled before *)
(* is not written until the next update.                                   *)
HelperLocationsNotification ==
  /\ ~helperLoaded
  /\ helperLoaded' = TRUE
  /\ UNCHANGED <<at, enabled, ActiveBreakpointsList, writing, ActiveBreakpoints,
                 ActiveBreakpointsCount, HitBreakpointIndex, hook>>

(* Faulty: the index survives the hit.                                     *)
OnBreakpointHitKeepsIndex(t) ==
  /\ hook[t].pc = "hit"
  /\ hook' = [hook EXCEPT ![t].pc = "out"]
  /\ UNCHANGED <<at, enabled, remote, ActiveBreakpoints, ActiveBreakpointsCount,
                 HitBreakpointIndex>>

(* The debuggee is frozen while the helper's breakpoint is handled; the    *)
(* breakpoint the index names, if any, is reported, and t leaves the hook. *)
OnBreakpointHit(t) ==
  /\ hook[t].pc = "hit"
  /\ HitBreakpointIndex' = IF HitBreakpointIndex \in 1 .. Len(ActiveBreakpointsList)
                             THEN MaxValue ELSE HitBreakpointIndex
  /\ hook' = [hook EXCEPT ![t].pc = "out"]
  /\ UNCHANGED <<at, enabled, remote, ActiveBreakpoints, ActiveBreakpointsCount>>

-----------------------------------------------------------------------------
(* The helper: TraceRoutine for a line event, and TraceLine in it.         *)

Table == <<at, enabled, remote, ActiveBreakpointsCount>>

TraceRoutine(t, loc) ==
  /\ helperLoaded
  /\ hook[t].pc = "out"
  /\ hook' = [hook EXCEPT ![t] = [pc |-> "scan", loc |-> loc, i |-> 1,
                                  quiet |-> writing = 0]]
  /\ UNCHANGED <<Table, ActiveBreakpoints, HitBreakpointIndex>>

Scanned(t) == ActiveBreakpoints[hook[t].i]

(* Faulty: an entry with length 0 is compared as it is.                    *)
ScanUnmeasured(t) ==
  /\ hook[t].pc = "scan"
  /\ hook[t].i <= ActiveBreakpointsCount
  /\ hook' = IF Scanned(t).loc.line = hook[t].loc.line
               THEN [hook EXCEPT ![t].pc = "compare"]
               ELSE [hook EXCEPT ![t].i = @ + 1]
  /\ UNCHANGED <<Table, ActiveBreakpoints, HitBreakpointIndex>>

Scan(t) ==
  /\ hook[t].pc = "scan"
  /\ hook[t].i <= ActiveBreakpointsCount
  /\ hook' = IF Scanned(t).loc.line = hook[t].loc.line
               THEN [hook EXCEPT ![t].pc = IF Scanned(t).measured THEN "compare"
                                                                  ELSE "measure"]
               ELSE [hook EXCEPT ![t].i = @ + 1]
  /\ UNCHANGED <<Table, ActiveBreakpoints, HitBreakpointIndex>>

(* No entry left: the line has no breakpoint.                              *)
NotFound(t) ==
  /\ hook[t].pc = "scan"
  /\ hook[t].i > ActiveBreakpointsCount
  /\ hook' = [hook EXCEPT ![t].pc = "out"]
  /\ UNCHANGED <<Table, ActiveBreakpoints, HitBreakpointIndex>>

Measure(t) ==
  /\ hook[t].pc = "measure"
  /\ ActiveBreakpoints' = [ActiveBreakpoints EXCEPT ![hook[t].i].measured = TRUE]
  /\ hook' = [hook EXCEPT ![t].pc = "compare"]
  /\ UNCHANGED <<Table, HitBreakpointIndex>>

(* Length and bytes of the source name; a length of 0 equals none.         *)
Compare(t) ==
  /\ hook[t].pc = "compare"
  /\ hook' = IF Scanned(t).measured /\ Scanned(t).loc.source = hook[t].loc.source
               THEN [hook EXCEPT ![t].pc = "found"]
               ELSE [hook EXCEPT ![t].pc = "scan", ![t].i = @ + 1]
  /\ UNCHANGED <<Table, ActiveBreakpoints, HitBreakpointIndex>>

WriteHitBreakpointIndex(t) ==
  /\ hook[t].pc = "found"
  /\ HitBreakpointIndex' = hook[t].i
  /\ hook' = [hook EXCEPT ![t].pc = "hit"]
  /\ UNCHANGED <<Table, ActiveBreakpoints>>

-----------------------------------------------------------------------------
Remote ==
  \/ \E b \in Breakpoints : EnableRuntimeBreakpoint(b) \/ DisableRuntimeBreakpoint(b)
  \/ WriteEntry
  \/ WriteCount
  \/ HelperLocationsNotification

Helper(t) ==
  \/ \E loc \in Locations : TraceRoutine(t, loc)
  \/ Scan(t) \/ NotFound(t) \/ Measure(t) \/ Compare(t)
  \/ WriteHitBreakpointIndex(t) \/ OnBreakpointHit(t)

Next == Remote \/ \E t \in Threads : Helper(t)

Spec == Init /\ [][Next]_vars

-----------------------------------------------------------------------------
(* Properties.                                                             *)

(* Every variable stays in its type, and neither the table nor a search in *)
(* it ever runs ahead of what was written.                                 *)
TypeOK ==
  /\ at \in [Breakpoints -> Locations]
  /\ enabled \subseteq Breakpoints
  /\ helperLoaded \in BOOLEAN
  /\ ActiveBreakpointsList \in Seq([loc : Locations, bp : Breakpoints])
  /\ Len(ActiveBreakpointsList) <= MaxList
  /\ writing \in 0 .. Len(ActiveBreakpointsList) + 1
  /\ ActiveBreakpoints \in Seq(Entry)
  /\ ActiveBreakpointsCount \in 0 .. Len(ActiveBreakpoints)
  /\ HitBreakpointIndex \in Nat
  /\ hook \in [Threads -> Hook]

(* What a thread may read of the table agrees with the list of the remote  *)
(* component at every moment of an update, and outside of updates all of   *)
(* the list is there, once the first update has been made.                 *)
TableMirrorsList ==
  /\ ActiveBreakpointsCount <= Len(ActiveBreakpointsList)
  /\ \A i \in 1 .. ActiveBreakpointsCount :
       ActiveBreakpoints[i].loc = ActiveBreakpointsList[i].loc
  /\ writing = 0 /\ ActiveBreakpointsCount > 0 =>
       ActiveBreakpointsCount = Len(ActiveBreakpointsList)

(* A thread that waits in the helper's breakpoint is reported as a hit of  *)
(* a breakpoint on the line it executes.  "Only valid inside               *)
(* OnBreakpointHit" is what DebugHelper.h:81 says of the index.            *)
HitIsValid ==
  \A t \in Threads : hook[t].pc = "hit" =>
    /\ HitBreakpointIndex \in 1 .. Len(ActiveBreakpointsList)
    /\ ActiveBreakpointsList[HitBreakpointIndex].loc = hook[t].loc

(* However many threads hit breakpoints at the same time, the index names  *)
(* the line of one of those still waiting, or nothing: a hit that was      *)
(* handled is never reported again.                                        *)
HitNamesAWaitingThread ==
  (\E t \in Threads : hook[t].pc = "hit") /\ HitBreakpointIndex # MaxValue =>
    \E t \in Threads :
      /\ hook[t].pc = "hit"
      /\ HitBreakpointIndex \in 1 .. Len(ActiveBreakpointsList)
      /\ ActiveBreakpointsList[HitBreakpointIndex].loc = hook[t].loc

(* A search that no update disturbs passes over no entry for its line, and *)
(* once an update has been made since the helper was loaded it ends without*)
(* a hit only when no entry of the whole list is for the line.  Before the *)
(* first update the table is empty, and breakpoints enabled before the     *)
(* helper was loaded are missed: HelperLocationsNotification               *)
(* (RemoteComponent.cs:534-548) does not write them.                       *)
NoMissedHit ==
  \A t \in Threads : hook[t].pc # "out" /\ hook[t].quiet =>
    /\ \A i \in 1 .. hook[t].i - 1 : ActiveBreakpointsList[i].loc # hook[t].loc
    /\ hook[t].i > ActiveBreakpointsCount /\ ActiveBreakpointsCount > 0 =>
         \A i \in 1 .. Len(ActiveBreakpointsList) :
           ActiveBreakpointsList[i].loc # hook[t].loc

(* "Active breakpoints from debugger", DebugHelper.h:86: between updates   *)
(* the table holds breakpoints that are enabled.                           *)
TableHoldsActive ==
  writing = 0 =>
    \A i \in 1 .. ActiveBreakpointsCount : ActiveBreakpointsList[i].bp \in enabled

=============================================================================
