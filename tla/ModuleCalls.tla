---------------------------- MODULE ModuleCalls ----------------------------
(***************************************************************************)
(* posix/module: functions registered in linker sections, one section for  *)
(* each initcall level and one for the exitcalls.  A section holds the     *)
(* entries of the objects in the order they are linked in; module.c adds   *)
(* a dummy to each, without which the section would not exist.  The result *)
(* of an initcall is dropped.                                              *)
(***************************************************************************)
EXTENDS Integers, Sequences, FiniteSets, SequencesExt

CONSTANTS Modules, Dummy

Levels == {1, 6, 7}  \* core_initcall, user_initcall, late_initcall

ModuleAssumption == IsFiniteSet(Modules) /\ Dummy \notin Modules

VARIABLE st   \* the state of the program, a record

initcall_levels_Swapped == <<6, 1, 7>>
initcall_levels == <<1, 6, 7>>

Init ==
  \E link \in SetToSeqs(Modules \cup {Dummy}), at \in [Modules -> Levels] :
    st = [ link |-> link,    \* the order of the objects
           at |-> at,        \* the level each module is registered on
           pc |-> "init", level |-> 1, fn |-> 1,
           called |-> <<>> ] \* history: the calls, in order

\* The section of a level and the section of the exitcalls: the places of their
\* entries in the link order.  fn++ goes on to the next entry of the section.
InitSection(l) == {p \in DOMAIN st.link : st.link[p] = Dummy \/ st.at[st.link[p]] = l}
ExitSection == DOMAIN st.link

\* The entries from fn to stop, and the loops' test that fn is before stop.
From(section) == {p \in section : p >= st.fn}
Before(section) == From(section) # {}

Call(kind, section) ==
  LET p == Min(From(section))
  IN  [st EXCEPT !.called = Append(@, <<kind, st.link[p]>>), !.fn = p + 1]

do_one_initcall ==
  /\ st.pc = "init" /\ st.level <= Len(initcall_levels)
  /\ LET section == InitSection(initcall_levels[st.level])
     IN  Before(section) /\ st' = Call("init", section)

NextLevel ==
  /\ st.pc = "init" /\ st.level <= Len(initcall_levels)
  /\ ~Before(InitSection(initcall_levels[st.level]))
  /\ st' = [st EXCEPT !.level = @ + 1, !.fn = 1]

\* do_initcalls returns, and main goes on to do_exitcalls.
InitDone ==
  /\ st.pc = "init" /\ st.level > Len(initcall_levels)
  /\ st' = [st EXCEPT !.pc = "exit", !.fn = 1]

do_one_exitcall ==
  st.pc = "exit" /\ Before(ExitSection) /\ st' = Call("exit", ExitSection)

ExitDone == st.pc = "exit" /\ ~Before(ExitSection) /\ st' = [st EXCEPT !.pc = "done"]

Next == do_one_initcall \/ NextLevel \/ InitDone \/ do_one_exitcall \/ ExitDone

Spec == Init /\ [][Next]_st
-----------------------------------------------------------------------------
(* Properties                                                              *)

Positions(kind, m) == {i \in DOMAIN st.called : st.called[i] = <<kind, m>>}

\* Wherever the linker puts the objects, a module is initialised after every
\* module of a lower level, and no module is initialised after an exitcall.
InOrder ==
  \A m, n \in Modules : \A i \in Positions("init", m) :
    /\ \A k \in Positions("init", n) : st.at[m] < st.at[n] => i < k
    /\ \A k \in Positions("exit", n) : i < k

\* When main returns every registered init and exit function has been called
\* exactly once, the first and the last entry of each section included.
CalledOnce ==
  st.pc = "done" => \A m \in Modules : Cardinality(Positions("init", m)) = 1
                                       /\ Cardinality(Positions("exit", m)) = 1

\* do_initcalls and do_exitcalls keep the levels and miss no function.
CallsByLevel == InOrder /\ CalledOnce
=============================================================================
