---------------------------------- MODULE Cpu ---------------------------------
(***************************************************************************)
(* The processor and the memory of project 3 (3/code/sauce/cpu.c, memory.c,*)
(* load.c), register transfer by register transfer.                        *)
(*                                                                         *)
(* A machine m is a record: the registers PC, AC, BASE, MAR, MBR, IR0, IR1 *)
(* and the words of Mem.  An int goes from INT_MIN, -INT_MAX - 1, to       *)
(* INT_MAX (limits.h).                                                     *)
(***************************************************************************)
EXTENDS Integers, Sequences

CONSTANT INT_MAX

INT_MIN == -INT_MAX - 1
Word == INT_MIN .. INT_MAX

(* An int that overflows wraps around.                                     *)
Wrapped(x) == ((x - INT_MIN) % (2 * (INT_MAX + 1))) + INT_MIN

(* prog/IDLE and the copy load_idle falls back on: load 1, jump to itself. *)
PROG_IDLE == <<1, 1, 6, 2>>

ASSUME WordAssumption == INT_MAX \in Nat /\ PROG_IDLE \in Seq(Word)

Register == {"PC", "AC", "BASE", "MAR", "MBR", "IR0", "IR1"}

(* A machine of M words.                                                   *)
Machine(M) == [PC : Int, AC : Word, BASE : Int, MAR : Int, MBR : Word, IR0 : Word,
               IR1 : Word, Mem : [0 .. M - 1 -> Word]]

(* cpu_init and mem_init, M words.                                         *)
Blank(M) == [PC |-> 0, AC |-> 0, BASE |-> 0, MAR |-> 0, MBR |-> 0, IR0 |-> 0,
             IR1 |-> 0, Mem |-> [a \in 0 .. M - 1 |-> 0]]

mem_read(m) == [m EXCEPT !.MBR = m.Mem[m.MAR]]
mem_write(m) == [m EXCEPT !.Mem[m.MAR] = m.MBR]

cpu_mem_address(m, a) == a + m.BASE
Aim(m, a) == [m EXCEPT !.MAR = cpu_mem_address(m, a)]

(* The word at PC comes to MBR.                                            *)
NextWord(m) == mem_read([Aim(m, m.PC) EXCEPT !.PC = @ + 1])

cpu_fetch_instruction(m) ==
  LET opcode  == NextWord(m)
      operand == NextWord([opcode EXCEPT !.IR0 = opcode.MBR])
  IN  [operand EXCEPT !.IR1 = operand.MBR]

(* The word the operand points to comes to MBR.                            *)
Operand(m) == mem_read(Aim(m, m.IR1))

(* The registers and memory after the instruction in IR0 and IR1.  Print,  *)
(* sleep, shell and exit (7, 8, 9 and what is no instruction) leave them   *)
(* alone.                                                                  *)
cpu_execute_instruction(m) ==
  LET o == Operand(m) IN
  CASE m.IR0 = 1 -> [m EXCEPT !.AC = m.IR1]
    [] m.IR0 = 2 -> [o EXCEPT !.AC = o.MBR]
    [] m.IR0 = 3 -> [o EXCEPT !.AC = Wrapped(@ + o.MBR)]
    [] m.IR0 = 4 -> [o EXCEPT !.AC = Wrapped(@ * o.MBR)]
    [] m.IR0 = 5 -> mem_write([Aim(m, m.IR1) EXCEPT !.MBR = m.AC])
    [] m.IR0 = 6 /\ m.AC > 0 -> [m EXCEPT !.PC = m.IR1]
    [] OTHER -> m

(* The addresses the next instruction uses; none of them is checked.       *)
Addresses(m) ==
  LET pc == cpu_mem_address(m, m.PC) IN
  {pc, pc + 1} \union
    IF {pc, pc + 1} \subseteq DOMAIN m.Mem /\ m.Mem[pc] \in 2 .. 5
      THEN {cpu_mem_address(m, m.Mem[pc + 1])} ELSE {}
Wild(m) == ~(Addresses(m) \subseteq DOMAIN m.Mem)

(* shell_print_memory goes through MAR and MBR.                            *)
shell_print_memory(m, M) == [m EXCEPT !.MAR = M, !.MBR = m.Mem[M - 1]]

(* The words of a program file are written from base on, through MAR and   *)
(* MBR, whatever the processor was doing with them.                        *)
load_words(m, words, base) ==
  [m EXCEPT !.Mem = [a \in DOMAIN m.Mem |->
                       IF a - base \in 0 .. Len(words) - 1 THEN words[a - base + 1]
                       ELSE m.Mem[a]],
            !.MAR = base + Len(words),
            !.MBR = IF words = <<>> THEN @ ELSE words[Len(words)]]

(* process_context_switch: what goes into the PCB, and what comes back     *)
(* from it; BASE never changes, so it is only loaded.                      *)
SaveContext(pcb, m) ==
  [pcb EXCEPT !.PC = m.PC, !.AC = m.AC, !.MBR = m.MBR, !.MAR = m.MAR,
              !.IR0 = m.IR0, !.IR1 = m.IR1]

(* Mutant: BASE is not loaded.                                             *)
LoadContext_NoBase(m, pcb) ==
  [m EXCEPT !.PC = pcb.PC, !.AC = pcb.AC, !.MBR = pcb.MBR, !.MAR = pcb.MAR,
            !.IR0 = pcb.IR0, !.IR1 = pcb.IR1]

LoadContext(m, pcb) ==
  [m EXCEPT !.PC = pcb.PC, !.AC = pcb.AC, !.MBR = pcb.MBR, !.MAR = pcb.MAR,
            !.IR0 = pcb.IR0, !.IR1 = pcb.IR1, !.BASE = pcb.BASE]

(* A new PCB, and the zeros process_dispose_PCB overwrites one with.       *)
NewContext(base) == [r \in Register |-> IF r = "BASE" THEN base ELSE 0]
=============================================================================
