---------------------------------- MODULE Solo --------------------------------
(***************************************************************************)
(* The computer of project 1 (1/sauce/computer.c, cpu.c, memory.c, load.c, *)
(* shell.c), which runs a single program to its end.  It is the reference  *)
(* the computer of project 3 is held against: what a program computes and  *)
(* prints when it has the machine to itself.                               *)
(*                                                                         *)
(* Its registers MAR, MBR, IR0 and IR1 hold nothing from one instruction to*)
(* the next: they appear only in what the program is shown of them.        *)
(***************************************************************************)
EXTENDS Cpu

CONSTANTS
  File,    \* program files
  Image,   \* Image[f]: its instructions, two words each, and its data
  Base     \* Base[f]: where the user has it loaded

Segment(f) == Base[f] .. Base[f] + Len(Image[f]) - 1

(* Lines of output: the accumulator, the registers, the memory, or another *)
(* table or message, whose contents are left out.                          *)
Shows(what, words) == [what |-> what, words |-> words]

(* load_prog, process_init_PCB and process_set_registers.                  *)
Boot(f) == [PC |-> 0, AC |-> 0, out |-> <<>>, over |-> FALSE,
            Mem |-> [a \in Segment(f) |-> Image[f][a - Base[f] + 1]]]

(* shell_command; s.PC is past the instruction.                            *)
Shown(f, s, cmd) ==
  CASE cmd = 2 -> Shows("registers", <<Base[f], s.PC, 9, cmd, s.AC,
                                       Base[f] + s.PC - 1, cmd>>)
    [] cmd = 3 -> Shows("memory", <<>>)
    [] OTHER   -> Shows("bruh, wut?", <<>>)

(* cpu_fetch_instruction and cpu_execute_instruction.                      *)
Instruct(f, s) ==
  LET op  == s.Mem[Base[f] + s.PC]
      arg == s.Mem[Base[f] + s.PC + 1]
      at  == Base[f] + arg
      t   == [s EXCEPT !.PC = @ + 2]
  IN  CASE op = 1 -> [t EXCEPT !.AC = arg]
        [] op = 2 -> [t EXCEPT !.AC = s.Mem[at]]
        [] op = 3 -> [t EXCEPT !.AC = Wrapped(@ + s.Mem[at])]
        [] op = 4 -> [t EXCEPT !.AC = Wrapped(@ * s.Mem[at])]
        [] op = 5 -> [t EXCEPT !.Mem[at] = s.AC]
        [] op = 6 -> IF s.AC > 0 THEN [t EXCEPT !.PC = arg] ELSE t
        [] op = 7 -> [t EXCEPT !.out = Append(@, Shows("AC", <<s.AC>>))]
        [] op = 8 -> t
        [] op = 9 -> [t EXCEPT !.out = Append(@, Shown(f, t, arg))]
        [] OTHER  -> [t EXCEPT !.over = TRUE]

(* A program that reaches out of its own words.                            *)
Strays(f, s) ==
  LET at == Base[f] + s.PC IN
  ~s.over /\ \/ ~({at, at + 1} \subseteq Segment(f))
             \/ s.Mem[at] \in 2 .. 5 /\ Base[f] + s.Mem[at + 1] \notin Segment(f)

(* cpu_operation, n instructions of it.                                    *)
Alone(f, n) ==
  LET run[k \in Nat] ==
        IF k = 0 THEN Boot(f)
        ELSE LET s == run[k - 1]
             IN  IF s.over \/ Strays(f, s) THEN s ELSE Instruct(f, s)
  IN  run[n]
=============================================================================
