------------------------------- MODULE RRLog -------------------------------
(* The record/replay engine of rr_log.h driving one guest run.            *)
(*                                                                         *)
(* The guest executes instructions 0..End in translation blocks.  Two     *)
(* kinds of call site are non-deterministic: the device inputs of Prog    *)
(* (port reads, each wrapped in RR_DO_RECORD_OR_REPLAY; a site may run    *)
(* another wrapped site inside its ACTION, e.g. an IO read doing a DMA    *)
(* read), and the interrupt check the main loop makes at every block      *)
(* boundary (RR_DO_RECORD_OR_REPLAY at RR_CALLSITE_CPU_EXEC_4 with        *)
(* rr_interrupt_request as record and replay action).  The monitor        *)
(* thread sets request flags; the main loop services them between blocks. *)
(*                                                                         *)
(* rr_set_prog_point, rr_prog_point_compare, the macro and the rr_input_* *)
(* and rr_interrupt_request dispatchers are translated from rr_log.h.     *)
(* The log routines they call (rr_record_*, rr_replay_*, begin/end of     *)
(* record and replay) are in rr_log.c, which is not in this source tree;  *)
(* they follow spec section 4.6.                                          *)
EXTENDS Integers, Sequences, FiniteSets

CONSTANTS
  Prog,      \* the guest's input call sites: [at, site, nested], by count
  End,       \* the guest's last instruction count
  EipAt,     \* eip at each instruction count
  EcxAt,     \* ecx at each instruction count
  MaxTB,     \* longest translation block, in instructions
  Values,    \* device input values
  IrqVals,   \* interrupt_request values the devices raise (0: none)
  CountBits, \* width of the uint64_t counters
  HltEipAt,  \* the guest's hlt instructions: eip after the hlt, by count
  Stale      \* what the guest reads from an input that was not replayed

Range(f) == {f[x] : x \in DOMAIN f}
ULL == 2^CountBits
Max2(a, b) == IF a >= b THEN a ELSE b
Counts == 0..End
Modes == {"RR_OFF", "RR_RECORD", "RR_REPLAY"}
Requests == {"rr_record_requested", "rr_end_record_requested",
             "rr_replay_requested", "rr_end_replay_requested"}
Hlts == DOMAIN HltEipAt
ASSUME Hlts \subseteq Counts /\ \A i \in DOMAIN Prog : Prog[i].at \notin Hlts
Eips == Range(EipAt) \cup Range(HltEipAt)
PP == [eip : Eips, ecx : Range(EcxAt), guest_instr_count : Counts]
Kinds == {"RR_INPUT_1", "RR_INTERRUPT_REQUEST", "RR_LAST"}

VARIABLES
  rr_mode,
  rr_prog_point,
  rr_guest_instr_count,
  rr_num_instr_before_next_interrupt,
  rr_skipped_callsite_location,
  requested,   \* the monitor's request flags that are set
  log,         \* the log of the last recording: [prog_point, kind, callsite_loc, val]
  cursor,      \* replay: index of the queue head
  pc,          \* index in Prog of the guest's next input site
  phase,       \* "boundary": between blocks; "tb": inside a block
  halted,      \* the guest has executed the hlt at its current count
  seen_rec,    \* history: what the guest observed while recording
  seen_rep,    \* history: what the guest observed while replaying
  diverged     \* history: the replay ended with rr_do_end_replay(1)

vars == <<rr_mode, rr_prog_point, rr_guest_instr_count,
          rr_num_instr_before_next_interrupt, rr_skipped_callsite_location,
          requested, log, cursor, pc, phase, halted,
          seen_rec, seen_rep, diverged>>
guest == <<rr_guest_instr_count, pc, phase, halted>>

(* rr_in_replay, rr_in_record, rr_off *)
rr_in_replay == rr_mode = "RR_REPLAY"
rr_in_record == rr_mode = "RR_RECORD"
rr_off == rr_mode = "RR_OFF"

(* An RR_log_entry: its RR_header (program point, kind, call site) and   *)
(* the one variant field the model keeps.                                 *)
RR_log_entry(pp, kind, loc, v) == [prog_point |-> pp, kind |-> kind, callsite_loc |-> loc, val |-> v]

NoSite == "none"
Sites == {Prog[i].site : i \in DOMAIN Prog} \cup {"RR_CALLSITE_CPU_EXEC_4"}
Ev(pp, k, v) == [count |-> pp.guest_instr_count, eip |-> pp.eip, kind |-> k, val |-> v]
Events == [count : Counts, eip : Eips, kind : {"input", "irq"}, val : Values \cup IrqVals \cup {Stale}]

-----------------------------------------------------------------------------
(* rr_log.h *)

(* rr_set_program_point() (not in this tree) calls rr_set_prog_point     *)
(* with the guest's eip, ecx and rr_guest_instr_count.  A hlt moves eip *)
(* on but leaves rr_guest_instr_count where it was, so two program      *)
(* points share that count (the XXX of rr_prog_point_compare).          *)
PPAt(c, h) == [eip |-> IF h THEN HltEipAt[c] ELSE EipAt[c],
               ecx |-> EcxAt[c], guest_instr_count |-> c]
CurrentPP == PPAt(rr_guest_instr_count, halted)

CountdownAfterSetNoWrap(guest_instr_count) ==
  rr_num_instr_before_next_interrupt
    - (guest_instr_count - rr_prog_point.guest_instr_count)

CountdownAfterSetTwice(guest_instr_count) ==
  (rr_num_instr_before_next_interrupt
     - 2 * (guest_instr_count - rr_prog_point.guest_instr_count)) % ULL

(* rr_set_prog_point: the countdown loses the instructions executed      *)
(* since the last program point, in uint64_t arithmetic.                 *)
CountdownAfterSet(guest_instr_count) ==
  (rr_num_instr_before_next_interrupt
     - (guest_instr_count - rr_prog_point.guest_instr_count)) % ULL

rr_prog_point_compareStrict(current, recorded) ==
  IF current.guest_instr_count < recorded.guest_instr_count THEN -1
  ELSE IF current = recorded THEN 0 ELSE 1

rr_prog_point_compareCountOnly(current, recorded) ==
  IF current.guest_instr_count < recorded.guest_instr_count THEN -1
  ELSE IF current.guest_instr_count = recorded.guest_instr_count THEN 0 ELSE 1

(* rr_prog_point_compare, without its side effect (the caller stops the  *)
(* replay when it returns 1).                                             *)
rr_prog_point_compare(current, recorded) ==
  IF current.guest_instr_count < recorded.guest_instr_count THEN -1
  ELSE IF current.guest_instr_count = recorded.guest_instr_count
       THEN IF current.eip = recorded.eip /\ current.ecx = recorded.ecx
            THEN 0 ELSE -1
       ELSE 1

RecordsEntryNoLatch(in_progress) == TRUE

(* RR_DO_RECORD_OR_REPLAY, RR_RECORD case: a call made while another is  *)
(* in progress (rr_record_in_progress set) only runs its ACTION.          *)
RecordsEntry(in_progress) == ~in_progress

(* The replay engine loads the next entry and sets the countdown to the  *)
(* instructions left until it (spec 4.6).                                 *)
CountdownTo(i, pp) == (log[i].prog_point.guest_instr_count - pp.guest_instr_count) % ULL

rr_get_queue_head == log[cursor]

(* The replay has reached the end of the log. *)
ReplayDone ==
  /\ rr_get_queue_head.kind = "RR_LAST"
  /\ rr_prog_point_compare(rr_prog_point, rr_get_queue_head.prog_point) = 0

(* The monitor requests (spec 4.6); begin record and begin replay        *)
(* restore the snapshot taken when the recording began, so the guest     *)
(* starts again at instruction 0.                                         *)
StartGuest ==
  /\ rr_guest_instr_count' = 0 /\ pc' = 1 /\ phase' = "boundary" /\ halted' = FALSE
  /\ rr_prog_point' = PPAt(0, FALSE)

AtSite == pc <= Len(Prog) /\ Prog[pc].at = rr_guest_instr_count
Finished == pc > Len(Prog) /\ rr_guest_instr_count = End
Serviceable == phase = "boundary" \/ Finished

-----------------------------------------------------------------------------
(* Actions *)

Request(r) ==
  /\ r \notin requested
  /\ requested' = requested \cup {r}
  /\ UNCHANGED <<rr_mode, rr_prog_point, rr_num_instr_before_next_interrupt,
                 rr_skipped_callsite_location, log, cursor, seen_rec, seen_rep,
                 diverged, guest>>

Service(r, mode) ==
  /\ r \in requested /\ rr_mode = mode /\ Serviceable
  /\ requested' = requested \ {r}

(* rr_do_begin_record: a new, empty log. *)
BeginRecord ==
  /\ Service("rr_record_requested", "RR_OFF")
  /\ rr_mode' = "RR_RECORD" /\ log' = << >> /\ seen_rec' = << >> /\ seen_rep' = << >>
  /\ StartGuest
  /\ UNCHANGED <<rr_num_instr_before_next_interrupt, rr_skipped_callsite_location,
                 cursor, diverged>>

(* rr_do_end_record: the log ends with an RR_LAST entry at the current   *)
(* program point.                                                         *)
EndRecord ==
  /\ Service("rr_end_record_requested", "RR_RECORD")
  /\ rr_mode' = "RR_OFF"
  /\ log' = Append(log, RR_log_entry(rr_prog_point, "RR_LAST", rr_skipped_callsite_location, 0))
  /\ UNCHANGED <<rr_prog_point, rr_num_instr_before_next_interrupt,
                 rr_skipped_callsite_location, cursor, seen_rec, seen_rep,
                 diverged, guest>>

(* rr_do_begin_replay of the last complete recording. *)
BeginReplay ==
  /\ Service("rr_replay_requested", "RR_OFF")
  /\ log # << >> /\ log[Len(log)].kind = "RR_LAST"
  /\ rr_mode' = "RR_REPLAY" /\ cursor' = 1
  /\ rr_num_instr_before_next_interrupt' = CountdownTo(1, PPAt(0, FALSE))
  /\ seen_rep' = << >> /\ diverged' = FALSE
  /\ StartGuest
  /\ UNCHANGED <<rr_skipped_callsite_location, log, seen_rec>>

(* rr_do_end_replay(0) on request: the cursor is dropped. *)
EndReplay ==
  /\ Service("rr_end_replay_requested", "RR_REPLAY")
  /\ rr_mode' = "RR_OFF" /\ cursor' = 1
  /\ UNCHANGED <<rr_prog_point, rr_num_instr_before_next_interrupt,
                 rr_skipped_callsite_location, log, seen_rec, seen_rep,
                 diverged, guest>>
(* The main loop's interrupt check at a block boundary, RR_RECORD:       *)
(* latch, location, program point, ACTION (read the devices' interrupt   *)
(* request), RECORD_ACTION (rr_interrupt_request ->                      *)
(* rr_record_interrupt_request, which logs only a non-zero request).     *)
RecordInterruptCheck ==
  /\ rr_in_record /\ phase = "boundary" /\ ~Finished
  /\ \E r \in IrqVals :
       LET pp == CurrentPP
       IN /\ rr_prog_point' = pp
          /\ rr_num_instr_before_next_interrupt' = CountdownAfterSet(rr_guest_instr_count)
          /\ log' = IF r # 0
                    THEN Append(log, RR_log_entry(pp, "RR_INTERRUPT_REQUEST", "RR_CALLSITE_CPU_EXEC_4", r))
                    ELSE log
          /\ seen_rec' = IF r # 0 THEN Append(seen_rec, Ev(pp, "irq", r))
                         ELSE seen_rec
  /\ rr_skipped_callsite_location' = "RR_CALLSITE_CPU_EXEC_4"
  /\ phase' = "tb"
  /\ UNCHANGED <<rr_mode, requested, cursor, seen_rep, diverged, rr_guest_instr_count, pc, halted>>

(* An input site, RR_RECORD: the outer call takes the latch, so the      *)
(* nested site its ACTION runs (if any) only runs its own ACTION; then   *)
(* RECORD_ACTION (rr_input_1 -> rr_record_input_1) logs the input.       *)
RecordInputSite ==
  /\ rr_in_record /\ phase = "tb" /\ AtSite
  /\ \E v, w \in Values :
       LET s == Prog[pc]
           pp == CurrentPP
           nestedLogs == s.nested # NoSite /\ RecordsEntry(TRUE)
           inner == RR_log_entry(pp, "RR_INPUT_1", s.nested, w)
           loc == IF nestedLogs THEN s.nested ELSE s.site
           outer == RR_log_entry(pp, "RR_INPUT_1", loc, v)
       IN /\ RecordsEntry(FALSE)
          /\ rr_prog_point' = pp
          /\ rr_num_instr_before_next_interrupt' = CountdownAfterSet(rr_guest_instr_count)
          /\ rr_skipped_callsite_location' = loc
          /\ log' = log \o (IF nestedLogs THEN <<inner>> ELSE << >>) \o <<outer>>
          /\ seen_rec' = Append(seen_rec, Ev(pp, "input", v))
  /\ pc' = pc + 1
  /\ UNCHANGED <<rr_mode, requested, cursor, seen_rep, diverged, rr_guest_instr_count, phase, halted>>

(* rr_prog_point_compare returned 1: rr_signal_disagreement and          *)
(* rr_do_end_replay(1).  The block is abandoned.                          *)
Diverge(pp) ==
  /\ rr_mode' = "RR_OFF" /\ diverged' = TRUE /\ phase' = "boundary" /\ cursor' = 1
  /\ rr_prog_point' = pp
  /\ UNCHANGED <<rr_num_instr_before_next_interrupt, requested, log,
                 seen_rec, seen_rep, rr_guest_instr_count, pc, halted>>

(* Consume the queue head and load the next entry. *)
Consume(pp) ==
  /\ cursor' = cursor + 1
  /\ rr_num_instr_before_next_interrupt' = CountdownTo(cursor + 1, pp)

(* The interrupt check, RR_REPLAY: location, program point, no skipped   *)
(* calls in this model, REPLAY_ACTION (rr_interrupt_request ->           *)
(* rr_replay_interrupt_request): the head is delivered if it is an       *)
(* interrupt at this program point, else the request is 0.               *)
ReplayInterruptCheck ==
  /\ rr_in_replay /\ phase = "boundary" /\ ~Finished /\ ~ReplayDone
  /\ LET pp == CurrentPP
         cmp == rr_prog_point_compare(pp, rr_get_queue_head.prog_point)
     IN IF cmp = 1 THEN Diverge(pp) /\ UNCHANGED rr_skipped_callsite_location
        ELSE /\ rr_prog_point' = pp
             /\ rr_skipped_callsite_location' = "RR_CALLSITE_CPU_EXEC_4"
             /\ phase' = "tb"
             /\ IF cmp = 0 /\ rr_get_queue_head.kind = "RR_INTERRUPT_REQUEST"
                THEN /\ Consume(pp)
                     /\ seen_rep' = Append(seen_rep, Ev(pp, "irq", rr_get_queue_head.val))
                ELSE /\ rr_num_instr_before_next_interrupt' = CountdownAfterSet(rr_guest_instr_count)
                     /\ UNCHANGED <<cursor, seen_rep>>
             /\ UNCHANGED <<rr_mode, diverged>>
  /\ UNCHANGED <<requested, log, seen_rec, rr_guest_instr_count, pc, halted>>

(* An input site, RR_REPLAY: location, program point, REPLAY_ACTION      *)
(* (rr_input_1 -> rr_replay_input_1).  The device ACTION does not run,   *)
(* so neither does a nested site.  "Not yet" leaves the guest's variable *)
(* as it was.                                                             *)
ReplayInputSite ==
  /\ rr_in_replay /\ phase = "tb" /\ AtSite
  /\ LET pp == CurrentPP
         cmp == rr_prog_point_compare(pp, rr_get_queue_head.prog_point)
     IN IF cmp = 1 THEN Diverge(pp) /\ UNCHANGED rr_skipped_callsite_location
        ELSE /\ rr_prog_point' = pp
             /\ rr_skipped_callsite_location' = Prog[pc].site
             /\ pc' = pc + 1
             /\ IF cmp = 0 /\ rr_get_queue_head.kind = "RR_INPUT_1"
                THEN /\ Consume(pp)
                     /\ seen_rep' = Append(seen_rep, Ev(pp, "input", rr_get_queue_head.val))
                ELSE /\ rr_num_instr_before_next_interrupt' = CountdownAfterSet(rr_guest_instr_count)
                     /\ seen_rep' = Append(seen_rep, Ev(pp, "input", Stale))
                     /\ UNCHANGED cursor
             /\ UNCHANGED <<rr_mode, diverged, phase>>
  /\ UNCHANGED <<requested, log, seen_rec, rr_guest_instr_count, halted>>

(* The end of the log, checked by the main loop before anything else at *)
(* a block boundary: rr_do_end_replay(0).                                 *)
ReplayFinished ==
  /\ rr_in_replay /\ phase = "boundary" /\ ReplayDone
  /\ rr_mode' = "RR_OFF" /\ cursor' = 1
  /\ UNCHANGED <<rr_prog_point, rr_num_instr_before_next_interrupt,
                 rr_skipped_callsite_location, requested, log, seen_rec,
                 seen_rep, diverged, guest>>

(* A translation block runs up to the next input site; in replay it is   *)
(* cut so that it ends no later than the next entry's instruction count  *)
(* (the countdown); cut to nothing, the main loop goes round again.  A   *)
(* hlt ends its block and is not counted: a block that starts at an      *)
(* unexecuted hlt executes only the hlt, and no block runs past one.     *)
(* The model lets a halted guest go on at once (a timer or device wakes  *)
(* it whether or not an interrupt is recorded here).                     *)
TBLengths ==
  IF rr_in_replay /\ rr_num_instr_before_next_interrupt = 0 THEN {0}
  ELSE 1..MaxTB

HltPending == rr_guest_instr_count \in Hlts /\ ~halted

RunsInstrs(n) ==
  /\ rr_guest_instr_count + n <= IF pc <= Len(Prog) THEN Prog[pc].at ELSE End
  /\ rr_in_replay => n <= rr_num_instr_before_next_interrupt
  /\ \A k \in (rr_guest_instr_count + 1)..(rr_guest_instr_count + n - 1) : k \notin Hlts
  /\ rr_guest_instr_count' = rr_guest_instr_count + n
  /\ halted' = (halted /\ n = 0)

ExecTB ==
  /\ ~rr_off /\ phase = "tb" /\ ~AtSite
  /\ \/ HltPending /\ halted' = TRUE /\ UNCHANGED rr_guest_instr_count
     \/ ~HltPending /\ \E n \in TBLengths : RunsInstrs(n)
  /\ phase' = "boundary"
  /\ UNCHANGED <<rr_mode, rr_prog_point, rr_num_instr_before_next_interrupt,
                 rr_skipped_callsite_location, requested, log, cursor, seen_rec,
                 seen_rep, diverged, pc>>

-----------------------------------------------------------------------------
Init ==
  /\ rr_mode = "RR_OFF"
  /\ rr_prog_point = PPAt(0, FALSE)
  /\ rr_guest_instr_count = 0
  /\ rr_num_instr_before_next_interrupt = 0
  /\ rr_skipped_callsite_location = "RR_CALLSITE_CPU_EXEC_4"
  /\ requested = {}
  /\ log = << >> /\ cursor = 1 /\ pc = 1 /\ phase = "boundary" /\ halted = FALSE
  /\ seen_rec = << >> /\ seen_rep = << >> /\ diverged = FALSE

Next ==
  \/ \E r \in Requests : Request(r)
  \/ BeginRecord \/ EndRecord \/ BeginReplay \/ EndReplay
  \/ RecordInterruptCheck \/ RecordInputSite
  \/ ReplayInterruptCheck \/ ReplayInputSite \/ ReplayFinished
  \/ ExecTB

(* The emulator keeps executing the guest while a replay runs; the      *)
(* monitor's requests are not fair (a user need not make any).           *)
Fairness ==
  /\ WF_vars(ReplayInterruptCheck) /\ WF_vars(ReplayInputSite)
  /\ WF_vars(ReplayFinished) /\ WF_vars(ExecTB)

Spec == Init /\ [][Next]_vars /\ Fairness

-----------------------------------------------------------------------------
(* Properties *)

(* The counters stay in their uint64_t range: rr_set_prog_point's        *)
(* subtraction wraps instead of going negative.                           *)
TypeOK ==
  /\ rr_mode \in Modes
  /\ rr_prog_point \in PP
  /\ rr_guest_instr_count \in Counts
  /\ halted \in BOOLEAN
  /\ rr_num_instr_before_next_interrupt \in 0..(ULL - 1)
  /\ requested \subseteq Requests
  /\ \A i \in DOMAIN log : log[i].kind \in Kinds /\ log[i].prog_point \in PP
  /\ cursor \in 1..Max2(1, Len(log))

(* Record/replay implements its abstract promise: whatever the blocks'   *)
(* lengths in record and in replay, whatever the interrupts and inputs,  *)
(* and however the monitor's requests interleave with the guest, a replay *)
(* shows the guest the recorded events in order at the same instruction  *)
(* counts and never ends in a disagreement.                              *)
Abs == INSTANCE RRAbstract WITH
         mode <- IF diverged THEN "RR_DIVERGED" ELSE rr_mode,
         recorded <- seen_rec,
         replayed <- seen_rep
ImplementsAbstract == Abs!Spec

(* A replay ends: the countdown cuts blocks so that the guest reaches    *)
(* each recorded program point exactly, and rr_prog_point_compare        *)
(* matches it there.                                                      *)
ReplayEnds == rr_in_replay ~> rr_off
=============================================================================
