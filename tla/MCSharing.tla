------------------------------- MODULE MCSharing -------------------------------
(* One teacher at the guided sharing menu with three events around it, the    *)
(* workspace's review presets, and its log of diagnostic events, each on a    *)
(* small instance, in one run: the initial state picks the component, and the *)
(* variables of the others keep one value.                                    *)
EXTENDS Sharing

CONSTANTS
  Teacher, Preset, Config, MaxPlans, MaxEdits,  \* Presets
  Writer, Limit                                 \* Diagnostics, with MaxEvents

VARIABLES
  component,
  directory, file, litter, standards, source, plans, used, edits,
  log, spoilt, written, outcomes,
  pc, job  \* of Presets and of Diagnostics

ASSUME MCSharingAssumption ==
  /\ MaxPlans \in Nat /\ MaxEdits \in Nat /\ Limit \in Nat
  /\ 1 \in Config /\ "none" \notin Preset

P == INSTANCE Presets
D == INSTANCE Diagnostics

Off == "off"
presets == <<directory, file, litter, standards, source, plans, used, edits>>
diagnostics == <<log, spoilt, written, outcomes>>
all == <<component, vars, presets, diagnostics, pc, job>>

SharingOff ==
  /\ title = Off /\ content = Off /\ valid = Off /\ producer = Off /\ registered = Off
  /\ pubs = Off /\ withdrawn = Off /\ desk = Off /\ shares = Off /\ events = Off
PresetsOff ==
  /\ directory = Off /\ file = Off /\ litter = Off /\ standards = Off
  /\ source = Off /\ plans = Off /\ used = Off /\ edits = Off
DiagnosticsOff == log = Off /\ spoilt = Off /\ written = Off /\ outcomes = Off

MCInit ==
  \/ /\ component = "sharing" /\ Init /\ PresetsOff /\ DiagnosticsOff
     /\ pc = Off /\ job = Off
  \/ component = "presets" /\ P!Init /\ SharingOff /\ DiagnosticsOff
  \/ component = "diagnostics" /\ D!Init /\ SharingOff /\ PresetsOff

MCNext ==
  /\ UNCHANGED component
  /\ \/ component = "sharing" /\ Next /\ UNCHANGED <<presets, diagnostics, pc, job>>
     \/ component = "presets" /\ P!Next /\ UNCHANGED <<vars, diagnostics>>
     \/ component = "diagnostics" /\ D!Next /\ UNCHANGED <<vars, presets>>

\* The teacher keeps doing what the sharing menu leads to.
FollowMenu(t) ==
  /\ component = "sharing" /\ Follow(t)
  /\ UNCHANGED <<component, presets, diagnostics, pc, job>>

MCSpec == MCInit /\ [][MCNext]_all /\ \A t \in Sharer : WF_all(FollowMenu(t))

-----------------------------------------------------------------------------
(* Properties: each of its component, as the component's module states it *)

\* The components' type invariants.
MCTypeOK ==
  /\ component = "sharing" => TypeOK
  /\ component = "presets" => P!TypeOK
  /\ component = "diagnostics" => D!TypeOK

\* What the teacher was asked to confirm, or was told, is so: what is shared is what
\* the preview showed; a preset that was saved stands and shows its assignment, one
\* that failed left nothing; the log has the newest events, and is over its limit
\* only where a writer was told.
DoneAsToldOf ==
  /\ component = "sharing" => SharedAsConfirmed
  /\ component = "presets" => P!SavedStands /\ P!FailedLeavesNothing /\ P!SavedAsSource
  /\ component = "diagnostics" => D!NewestAreKept /\ D!OverLimitIsTold

\* A teacher who follows the sharing menu gets the results shared as they are, unless
\* they cannot be read, or a withdrawal asks for the other menu.
MenuCompletes == <>[](component = "sharing" => SharingSettled)
=============================================================================
