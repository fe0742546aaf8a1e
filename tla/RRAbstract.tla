----------------------------- MODULE RRAbstract -----------------------------
(* What record/replay promises (spec sections 1 and 4.6): a recording     *)
(* notes every non-deterministic event the guest observes; a replay of   *)
(* that recording shows the guest the same events, in the same order, at *)
(* the same instruction counts, and never fails.  A replay may be ended  *)
(* at any time; a new recording replaces the old one.                    *)
EXTENDS Naturals, Sequences

CONSTANTS Events   \* the events a guest can observe

VARIABLES mode,      \* "RR_OFF", "RR_RECORD" or "RR_REPLAY"
          recorded,  \* the events observed by the last recording
          replayed   \* the events the current replay has shown so far

vars == <<mode, recorded, replayed>>

Init == mode = "RR_OFF" /\ recorded = << >> /\ replayed = << >>

BeginRecord ==
  /\ mode = "RR_OFF"
  /\ mode' = "RR_RECORD" /\ recorded' = << >> /\ replayed' = << >>

Observe ==
  /\ mode = "RR_RECORD"
  /\ \E e \in Events : recorded' = Append(recorded, e)
  /\ UNCHANGED <<mode, replayed>>

EndRecord ==
  /\ mode = "RR_RECORD"
  /\ mode' = "RR_OFF" /\ UNCHANGED <<recorded, replayed>>

BeginReplay ==
  /\ mode = "RR_OFF"
  /\ mode' = "RR_REPLAY" /\ replayed' = << >> /\ UNCHANGED recorded

(* The replay shows the next recorded event, and only that one. *)
Reproduce ==
  /\ mode = "RR_REPLAY"
  /\ Len(replayed) < Len(recorded)
  /\ replayed' = Append(replayed, recorded[Len(replayed) + 1])
  /\ UNCHANGED <<mode, recorded>>

EndReplay ==
  /\ mode = "RR_REPLAY"
  /\ mode' = "RR_OFF" /\ UNCHANGED <<recorded, replayed>>

Next == BeginRecord \/ Observe \/ EndRecord \/ BeginReplay \/ Reproduce \/ EndReplay

Spec == Init /\ [][Next]_vars
=============================================================================
