------------------------------ MODULE Delivery ------------------------------
(***************************************************************************)
(* The last part of main(), lrg.cpp:600-648: the circuit is written to a   *)
(* file, optimised, written again, and the file with the fewest gates is   *)
(* moved to the name given on the command line. ABC's commands keep the    *)
(* functions of the outputs; the number of gates they leave is free. Files *)
(* of an earlier run may still be there.                                   *)
(***************************************************************************)
EXTENDS Naturals

CONSTANTS
  GateCounts,  \* the numbers of gates a circuit may have
  Leftovers    \* the files earlier runs may have left

FileNames == {"pre_opt.v", "inter_opt.v", "argv[3]"}
Content == [gates : GateCounts, ours : BOOLEAN]

ASSUME DeliveryAssumption ==
  /\ GateCounts \subseteq Nat
  /\ Leftovers \subseteq UNION {[D -> Content] : D \in SUBSET FileNames}

VARIABLES
  stage,             \* "built", "inter" (line 609), "rounds" (619), "pre_opt" (634),
                     \* "inter_opt" (641) or "delivered"
  use_group_method,  \* use_group_method
  files,             \* the files there are, and whether this run wrote them
  last_gate_cnt,     \* last_gate_cnt, until the rounds end
  gate_count,        \* gate_count
  mv_failed,         \* history: a call of mv has failed
  written            \* history: the gates of the circuits this run has written

delivery ==
  <<stage, use_group_method, files, last_gate_cnt, gate_count, mv_failed, written>>

DeliveryInit ==
  /\ stage = "built"
  /\ use_group_method = FALSE
  /\ files \in Leftovers
  /\ last_gate_cnt = 0
  /\ gate_count = 0
  /\ mv_failed = FALSE
  /\ written = {}

\* abc.write_verilog: the network, which has n gates, is written to file f.
WriteVerilog(f, n) ==
  /\ files' = [g \in DOMAIN files \cup {f} |->
                 IF g = f THEN [gates |-> n, ours |-> TRUE] ELSE files[g]]
  /\ written' = written \cup {n}

\* A file that is not there has no lines.
calc_gate(f) == IF f \in DOMAIN files THEN files[f].gates ELSE 0

\* The files after f has become the result.
Moved(f) ==
  [g \in (DOMAIN files \cup {"argv[3]"}) \ {f} |->
     IF g = "argv[3]" THEN files[f] ELSE files[g]]

\* mv, which may fail though the file is there (the target cannot be replaced, say):
\* its exit status is ignored.
MoveToResult(f) ==
  \/ /\ f \in DOMAIN files
     /\ files' = Moved(f)
     /\ UNCHANGED mv_failed
  \/ /\ mv_failed' = TRUE
     /\ UNCHANGED files

\* Lines 600-608, and the result of line 598.
WritePreOpt(arithmetic, templates) ==
  /\ stage = "built"
  /\ use_group_method' = (arithmetic \/ templates)
  /\ \E n \in GateCounts : WriteVerilog("pre_opt.v", n)
  /\ stage' = "inter"
  /\ UNCHANGED <<last_gate_cnt, gate_count, mv_failed>>

\* Lines 609-617.
WriteInterOpt ==
  /\ stage = "inter"
  /\ IF use_group_method
     THEN UNCHANGED <<files, written>>
     ELSE \E n \in GateCounts : WriteVerilog("inter_opt.v", n)
  /\ last_gate_cnt' \in GateCounts
  /\ stage' = "rounds"
  /\ UNCHANGED <<use_group_method, gate_count, mv_failed>>

\* Lines 619-628: a round leaves fewer gates, and another one follows.
OptimiseRound ==
  /\ stage = "rounds"
  /\ \E curr_gate_cnt \in GateCounts : /\ curr_gate_cnt < last_gate_cnt
                                       /\ last_gate_cnt' = curr_gate_cnt
  /\ UNCHANGED <<stage, use_group_method, files, gate_count, mv_failed, written>>

\* Lines 619, 625-632: a round does not, or the minute is over, and what the network is
\* then is written. The last round may have made it worse.
WriteResult ==
  /\ stage = "rounds"
  /\ \E n \in GateCounts : /\ WriteVerilog("argv[3]", n)
                           /\ gate_count' = n
  /\ last_gate_cnt' = 0
  /\ stage' = "pre_opt"
  /\ UNCHANGED <<use_group_method, mv_failed>>

\* Lines 634-640.
ChoosePreOpt ==
  /\ stage = "pre_opt"
  /\ IF calc_gate("pre_opt.v") < gate_count
     THEN /\ MoveToResult("pre_opt.v")
          /\ gate_count' = calc_gate("pre_opt.v")
     ELSE UNCHANGED <<files, gate_count, mv_failed>>
  /\ stage' = "inter_opt"
  /\ UNCHANGED <<use_group_method, last_gate_cnt, written>>

\* Mutant of ChooseInterOpt: the file is looked at whether it was written or not.
ChooseInterOptAlways ==
  /\ stage = "inter_opt"
  /\ IF calc_gate("inter_opt.v") < gate_count
     THEN /\ MoveToResult("inter_opt.v")
          /\ gate_count' = calc_gate("inter_opt.v")
     ELSE UNCHANGED <<files, gate_count, mv_failed>>
  /\ stage' = "delivered"
  /\ UNCHANGED <<use_group_method, last_gate_cnt, written>>

\* Lines 641-648.
ChooseInterOpt ==
  /\ stage = "inter_opt"
  /\ IF ~use_group_method /\ calc_gate("inter_opt.v") < gate_count
     THEN /\ MoveToResult("inter_opt.v")
          /\ gate_count' = calc_gate("inter_opt.v")
     ELSE UNCHANGED <<files, gate_count, mv_failed>>
  /\ stage' = "delivered"
  /\ UNCHANGED <<use_group_method, last_gate_cnt, written>>

DeliveryStep ==
  WriteInterOpt \/ OptimiseRound \/ WriteResult \/ ChoosePreOpt \/ ChooseInterOpt

-----------------------------------------------------------------------------
DeliveryTypeOK ==
  /\ stage \in {"built", "inter", "rounds", "pre_opt", "inter_opt", "delivered"}
  /\ use_group_method \in BOOLEAN
  /\ files \in UNION {[D -> Content] : D \in SUBSET FileNames}
  /\ last_gate_cnt \in Nat
  /\ gate_count \in Nat
  /\ mv_failed \in BOOLEAN
  /\ written \in SUBSET GateCounts

\* The circuit delivered is one of this run, never an inter_opt.v that was left behind,
\* whether a call of mv fails or not. The number of gates that is printed is that of the
\* smallest circuit written, whatever the optimisation made worse; it is the number of
\* the circuit delivered, unless a call of mv failed, which nothing tells the user.
SmallestDelivered ==
  stage = "delivered" =>
    /\ "argv[3]" \in DOMAIN files
    /\ files["argv[3]"].ours
    /\ gate_count \in written /\ \A n \in written : gate_count <= n
    /\ files["argv[3]"].gates # gate_count => mv_failed
=============================================================================
