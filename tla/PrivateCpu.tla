------------------------------- MODULE PrivateCpu -----------------------------
(***************************************************************************)
(* What the simulated machine promises a user program: a processor and a   *)
(* memory of its own.  Other threads, interrupts, page faults and the      *)
(* devices show only in that a delayed load may be done early, and in what *)
(* a system call is documented to change.                                  *)
(*                                                                         *)
(* What the processor does is a parameter: the promise is the same for     *)
(* every instruction set.                                                  *)
(***************************************************************************)
EXTENDS Integers

CONSTANTS Threads, Setups, Byte, PageSize, Unsigned(_),
          OneInstruction(_, _, _),       \* of the code, the registers and the memory
          DelayedLoad(_, _, _),
          InitRegisters(_),
          increase_program_counter(_)
VARIABLES setup,  \* the setup whose code the threads run
          mode,   \* "new", "user", "call" or "ended"
          cpu, bytes
vars == <<setup, mode, cpu, bytes>>

Everything(t) ==
  [bytes |-> bytes[t], valid |-> {a \div PageSize : a \in DOMAIN bytes[t]}]

Result(t) == OneInstruction(Setups[setup].code[t], cpu[t], Everything(t))

Init == /\ mode = [t \in Threads |-> "new"]
        /\ cpu = [t \in Threads |-> InitRegisters(Everything(t))]

Moves(t, from, to) == mode[t] = from /\ mode' = [mode EXCEPT ![t] = to]

Starts(t) == Moves(t, "new", "user") /\ UNCHANGED <<cpu, bytes>>

Executes(t) == /\ mode[t] = "user"
               /\ Result(t).outcome = "done"
               /\ cpu' = [cpu EXCEPT ![t] = Result(t).cpu]
               /\ bytes' = [bytes EXCEPT ![t] = Result(t).bytes]
               /\ UNCHANGED mode

LoadsEarly(t) == /\ mode[t] = "user"
                 /\ cpu' = [cpu EXCEPT ![t] = DelayedLoad(@, 0, 0)]
                 /\ UNCHANGED <<mode, bytes>>

Calls(t) == /\ Moves(t, "user", "call")
            /\ Result(t).outcome = "Syscall"
            /\ cpu' = [cpu EXCEPT ![t] = DelayedLoad(@, 0, 0)]
            /\ UNCHANGED bytes

\* Read (6) delivers into the buffer it was given.
Delivers(t) ==
  /\ mode[t] = "call"
  /\ cpu[t].r[2] = 6
  /\ \E i \in 0 .. cpu[t].r[5] - 1 : \E b \in 0 .. Byte - 1 :
       /\ Unsigned(cpu[t].r[4] + i) \in DOMAIN bytes[t]
       /\ bytes' = [bytes EXCEPT ![t][Unsigned(cpu[t].r[4] + i)] = b]
  /\ UNCHANGED <<mode, cpu>>

\* Only the result of a Read is written, and before the counter moves.
Answers(t) == /\ mode[t] = "call"
              /\ cpu[t].r[2] = 6
              /\ cpu' = [cpu EXCEPT ![t].r[2] = cpu[t].r[5]]
              /\ UNCHANGED <<mode, bytes>>

Returns(t) == /\ Moves(t, "call", "user")
              /\ cpu' \in {[cpu EXCEPT ![t] = increase_program_counter(@)],
                           [cpu EXCEPT ![t] = increase_program_counter([@ EXCEPT !.r[2] = 0])],
                           cpu}
              /\ UNCHANGED bytes

\* By a call, or by an exception no program survives.
Ends(t) == /\ \/ Moves(t, "call", "ended")
              \/ Moves(t, "user", "ended") /\ Result(t).outcome # "done"
           /\ cpu' = [cpu EXCEPT ![t] = DelayedLoad(@, 0, 0)]
           /\ UNCHANGED bytes

Next == /\ \E t \in Threads : \/ Starts(t) \/ Executes(t) \/ LoadsEarly(t) \/ Calls(t)
                              \/ Delivers(t) \/ Answers(t) \/ Returns(t) \/ Ends(t)
        /\ UNCHANGED setup

Spec == Init /\ [][Next]_vars
===============================================================================
