----------------------------- MODULE MCPrograms -----------------------------
(***************************************************************************)
(* The parts that share nothing with each other, model-checked in one run: *)
(* the programs, and beside them the vector, which has variables of its    *)
(* own and stays at its first state while another program runs, and the    *)
(* shift register.                                                         *)
(***************************************************************************)
EXTENDS Cvector, Programs

all == <<prog, st, vars>>

Lfsrs == INSTANCE Lfsr WITH init <- 65535, poly <- 32790, count <- 65536

ASSUME RegisterAssumption == Lfsrs!LfsrAssumption

MCInit ==
  /\ Init
  /\ \/ ProgramInit
     \/ prog = "cvector" /\ st = [pc |-> "main"]
     \/ prog = "lfsr" /\ Lfsrs!Init

PipeSource == Only("pipe") /\ Pipes!Source /\ UNCHANGED vars
PipeSink == Only("pipe") /\ Pipes!Sink /\ UNCHANGED vars

MCNext ==
  \/ ProgramNext /\ UNCHANGED vars
  \/ Only("cvector") /\ Next /\ UNCHANGED st
  \/ Only("lfsr") /\ Lfsrs!Next /\ UNCHANGED vars

\* Neither process of the pipe is stopped for good.
MCSpec == MCInit /\ [][MCNext]_all /\ WF_all(PipeSource) /\ WF_all(PipeSink)

\* The shift register of lfsr.c has the full period.
FullPeriod == prog = "lfsr" => Lfsrs!FullPeriod
=============================================================================
